----------------------------- MODULE DetourCalls -----------------------------
(***************************************************************************)
(* One thread of a hooked process and the wait and timer detours it runs   *)
(* through (crates/hook, the wait axis and the settable timers; their      *)
(* arithmetic is crates/ctl's).  Windows' own exports call one another, so *)
(* a call of the application may cross several detours: a flag of the      *)
(* thread tells the first from the rest, and goes down again for a kernel  *)
(* wait in which Windows may run the application's code (an APC).          *)
(*                                                                         *)
(* The thread is its stack: frames of the application, of detours and of   *)
(* the kernel's wait.  A length is counted in milliseconds by Sleep and    *)
(* the timers' periods and in ticks, negative when relative, by            *)
(* NtDelayExecution and the timers' dues.  The channels that only count a  *)
(* call and hand it on without a flag are left out, and so is SPAWNING.    *)
(***************************************************************************)
EXTENDS ClockMath, Sequences, FiniteSets

CONSTANTS
    WaitRates,                \* rates of the session
    FakeNows,                 \* what the session's clock may read
    Milliseconds,             \* timeouts asked of Sleep and of the object waits
    Delays,                   \* and of NtDelayExecution
    TimerArgs,                \* [n, period] asked of a timer
    Elapses,                  \* and of SetTimer
    INFINITE_MS, USER_TIMER_MINIMUM_MS,
    MaxNested                 \* bound: application frames on the stack

ASSUME DetourCallsAssumption ==
    /\ WaitRates \subseteq Nat /\ FakeNows \subseteq Nat /\ MaxNested \in Nat \ {0}
    /\ INFINITE_MS \in Nat \ {0} /\ Milliseconds \subseteq 0..INFINITE_MS /\ Delays \subseteq Int
    /\ TimerArgs \subseteq [n : Int, period : Int] /\ Elapses \subseteq Nat /\ USER_TIMER_MINIMUM_MS \in Nat

VARIABLES
    stack,      \* the thread's frames, the running one last
    flag,       \* SCALING_WAIT, OBSERVING_WAIT and SCALING_TIMER of this thread
    storage,    \* thread_has_tls
    thread,     \* what the thread is ("own", or the one that loaded the hook), the session and the build
    over        \* the session is over for this process: detached()

callVars == <<stack, flag, storage, thread, over>>

Sleeps   == {"Sleep", "SleepEx"}
Objects  == {"WaitForSingleObject", "WaitForSingleObjectEx", "WSAWaitForMultipleEvents", "WaitForMultipleObjectsEx"}
Settable == {"SetWaitableTimer", "SetWaitableTimerEx", "SetThreadpoolTimer", "SetThreadpoolTimerEx"}

Family(e) == CASE e \in Sleeps \cup {"NtDelayExecution"} -> "scaling"
               [] e \in Objects -> "observing"
               [] e \in Settable -> "timer"
               [] OTHER -> "none"
Families == {"scaling", "observing", "timer"}

\* Where Windows' own code goes from an export, as measured (hook lib.rs 2243-2251) or allowed for
\* (2426-2446).
Leads(e) == CASE e = "Sleep" -> {"SleepEx"}
              [] e = "SleepEx" -> {"NtDelayExecution"}
              [] e = "WaitForSingleObject" -> {"WaitForSingleObjectEx"}
              [] e = "WSAWaitForMultipleEvents" -> {"WaitForMultipleObjectsEx"}
              [] e = "SetWaitableTimer" -> {"SetWaitableTimerEx", "kernel"}
              [] e = "SetThreadpoolTimer" -> {"SetThreadpoolTimerEx", "kernel"}
              [] OTHER -> {"kernel"}

\* The exports an application asks with an alertable switch.
Alertables == {"SleepEx", "NtDelayExecution", "WaitForSingleObjectEx", "WaitForMultipleObjectsEx", "WSAWaitForMultipleEvents"}

Asks(e) ==
    CASE e \in Sleeps \cup Objects -> [n : Milliseconds, period : {0}]
      [] e = "NtDelayExecution" -> [n : Delays, period : {0}]
      [] e \in Settable -> TimerArgs
      [] e = "SetTimer" -> [n : Elapses, period : {0}]
Exports == Sleeps \cup Objects \cup Settable \cup {"NtDelayExecution", "SetTimer"}

Forever == -1000
\* What Sleep's code makes of its timeout for the export below it.
Handed(from, to, arg) ==
    IF to # "NtDelayExecution" THEN arg
    ELSE [arg EXCEPT !.n = IF arg.n = INFINITE_MS THEN Forever ELSE -(arg.n * TICKS_PER_MS)]

-----------------------------------------------------------------------------
(* The arithmetic (crates/ctl): a length as the kernel gets it.            *)

MIN_SCALED_WAIT_MS == 1
MIN_SCALED_DELAY_TICKS == MIN_SCALED_WAIT_MS * TICKS_PER_MS
PAST_DEADLINE == 1

\* Rust divides towards zero.
Toward0(a, m) == IF a < 0 THEN -((-a) \div m) ELSE a \div m

scale_wait(ms, m) == IF ms \in {0, INFINITE_MS} THEN ms ELSE at_least(MIN_SCALED_WAIT_MS, ms \div at_least(1, m))
wait_hit_floor(ms, m) == ms \notin {0, INFINITE_MS} /\ ms \div at_least(1, m) < MIN_SCALED_WAIT_MS
scale_delay_interval(i, m) ==
    IF i < 0 THEN at_most(at_least(-MIN_SCALED_DELAY_TICKS, i), Toward0(i, at_least(1, m))) ELSE i
delay_hit_floor(i, m) == i < 0 /\ m > 1 /\ Toward0(i, m) > -MIN_SCALED_DELAY_TICKS
scale_timer_due(due, now, wall_m, dur_m) ==
    IF due < 0 THEN Toward0(due, at_least(1, dur_m))
    ELSE IF due <= now THEN 0 ELSE -((due - now) \div at_least(1, wall_m))
scale_delay_deadline(deadline, now, wall_m) ==
    LET converted == scale_timer_due(deadline, now, wall_m, 1)
    IN  IF deadline <= 0 THEN deadline ELSE IF converted = 0 THEN PAST_DEADLINE ELSE converted
scale_timer_period(period, m) == IF period <= 0 THEN period ELSE at_least(1, period \div at_least(1, m))
timer_period_hit_floor(period, m) == period > 0 /\ period \div at_least(1, m) < 1
scale_timer_elapse(elapse, m) == elapse \div at_least(1, m)
timer_elapse_hit_floor(elapse, m) ==
    elapse >= USER_TIMER_MINIMUM_MS /\ scale_timer_elapse(elapse, m) < USER_TIMER_MINIMUM_MS

-----------------------------------------------------------------------------
(* The stack.                                                              *)

Top == stack[Len(stack)]
Below == SubSeq(stack, 1, Len(stack) - 1)
NoCall == [export |-> "none"]
App(call) == [at |-> "app", call |-> call]
Detour(e, alertable, arg) ==
    [at |-> "detour", pc |-> "enter", export |-> e, alertable |-> alertable, arg |-> arg, was |-> "none"]

\* The application frame a detour runs for: the last below it.
AppFrame == CHOOSE i \in 1..Len(stack) : stack[i].at = "app" /\ \A j \in (i + 1)..Len(stack) : stack[j].at # "app"
Asked == stack[AppFrame].call

\* The detour on top goes on as `frame`, and what its call has come to is `call`.
Goes(frame, call) == stack' = [[stack EXCEPT ![Len(stack)] = frame] EXCEPT ![AppFrame].call = call]

DetourInit ==
    /\ stack = <<App(NoCall)>> /\ flag = [f \in Families |-> FALSE] /\ storage = TRUE /\ over = FALSE
    /\ thread = [loader |-> FALSE, scaled |-> FALSE, m |-> 1, lands |-> FALSE]

\* The thread, the session (--scale-duration or not, its rate) and the build (whether an exception
\* that passes a frame of the hook runs what the frame would put back).
Begins ==
    /\ stack = <<App(NoCall)>> /\ thread.m = 1 /\ ~over /\ storage
    /\ \E l \in BOOLEAN, s \in BOOLEAN, m \in WaitRates, u \in BOOLEAN, t \in BOOLEAN :
          thread' = [loader |-> l, scaled |-> s, m |-> m, lands |-> u] /\ storage' = t
    /\ UNCHANGED <<stack, flag, over>>

\* The application calls an export.
Calls ==
    /\ Top.at = "app" /\ Top.call = NoCall
    /\ \E e \in Exports, alertable \in BOOLEAN : \E arg \in Asks(e) :
          /\ alertable => e \in Alertables
          /\ stack' = Below \o <<App([export |-> e, arg |-> arg, counted |-> <<>>, floors |-> 0, dues |-> 0,
                                      apart |-> 0, m |-> 0, now |-> 0, whole |-> ~over]),
                                 Detour(e, alertable, arg)>>
    /\ UNCHANGED <<flag, storage, thread, over>>

\* `live_cov`: the evidence is written while the session lasts.
Counts(call, e) == IF over THEN call ELSE [call EXCEPT !.counted = Append(@, e)]

Guard == IF flag[Family(Top.export)] THEN "up" ELSE "down"

\* `enter_detour`: the first detour of a call raises its family's flag and counts it.
Enters ==
    /\ Top.at = "detour" /\ Top.pc = "enter" /\ Top.export # "SetTimer"
    /\ LET f == Family(Top.export)
       IN  \/ /\ storage /\ ~flag[f]
              /\ flag' = [flag EXCEPT ![f] = TRUE]
              /\ Goes([Top EXCEPT !.pc = IF f = "observing" THEN "forward" ELSE "rate", !.was = "down"],
                      Counts(Asked, Top.export))
           \/ /\ storage /\ flag[f]
              /\ Goes([Top EXCEPT !.pc = "forward"], Asked) /\ UNCHANGED flag
           \/ /\ ~storage
              /\ Goes([Top EXCEPT !.pc = "forward"],
                      IF thread.loader \/ over THEN Asked ELSE [Asked EXCEPT !.apart = @ + 1])
              /\ UNCHANGED flag
    /\ UNCHANGED <<storage, thread, over>>

\* relative_rate, relative_of
RelativeRate == IF thread.scaled THEN at_least(1, thread.m) ELSE 1

Noted(call, floor, due, m, now) ==
    [call EXCEPT !.floors = @ + (IF floor /\ ~over THEN 1 ELSE 0), !.dues = @ + (IF due /\ ~over THEN 1 ELSE 0),
                 !.m = m, !.now = now]

\* `try_enter_wait` from its rate on, and what a detour of the wait axis makes of its length.
ScalesWait ==
    /\ Top.at = "detour" /\ Top.pc = "rate" /\ Family(Top.export) = "scaling"
    /\ LET n == Top.arg.n
           m == IF over THEN 1 ELSE RelativeRate
           Gets(x) == [Top EXCEPT !.pc = "forward", !.arg.n = x]
       IN  IF Top.export \in Sleeps
           THEN Goes(Gets(scale_wait(n, m)), Noted(Asked, wait_hit_floor(n, m), FALSE, m, 0))
           ELSE IF n <= 0
           THEN Goes(Gets(scale_delay_interval(n, m)), Noted(Asked, delay_hit_floor(n, m), FALSE, m, 0))
           ELSE IF over THEN Goes(Gets(n), Asked)
           ELSE \E now \in FakeNows :   \* absolute_delay
                   Goes(Gets(scale_delay_deadline(n, now, thread.m)), Noted(Asked, FALSE, TRUE, at_least(1, thread.m), now))
    /\ UNCHANGED <<flag, storage, thread, over>>

\* The settable timers: one reading of the clock and the rate (`fake_now_and_dur_m`).
ScalesTimer ==
    /\ Top.at = "detour" /\ Top.pc = "rate" /\ Family(Top.export) = "timer"
    /\ LET a == Top.arg
           m == IF a.n < 0 THEN RelativeRate ELSE at_least(1, thread.m)
       IN  IF over THEN Goes([Top EXCEPT !.pc = "forward"], Asked)
           ELSE \E now \in FakeNows :
                   Goes([Top EXCEPT !.pc = "forward", !.arg.n = scale_timer_due(a.n, now, thread.m, RelativeRate),
                                    !.arg.period = scale_timer_period(a.period, RelativeRate)],
                        Noted(Asked, timer_period_hit_floor(a.period, RelativeRate), a.n >= 0, m, now))
    /\ UNCHANGED <<flag, storage, thread, over>>

\* SetTimer has no flag: it leads to no other export.  It stands only in a session that scales.
SetTimer ==
    /\ Top.at = "detour" /\ Top.pc = "enter" /\ Top.export = "SetTimer"
    /\ LET n == Top.arg.n  m == at_least(1, thread.m)
       IN  IF over \/ ~thread.scaled
           THEN Goes([Top EXCEPT !.pc = "forward"], IF thread.scaled THEN Asked ELSE [Asked EXCEPT !.whole = FALSE])
           ELSE Goes([Top EXCEPT !.pc = "forward", !.arg.n = scale_timer_elapse(n, m)],
                     Noted(Counts(Asked, "SetTimer"), timer_elapse_hit_floor(n, m), FALSE, m, 0))
    /\ UNCHANGED <<flag, storage, thread, over>>

\* Mutant: the flag stands through the whole call.
LowersNever(e) == FALSE

\* The detours whose original makes the kernel wait: `wait_runs_application`.
Lowers(e) == e \in {"NtDelayExecution", "WaitForSingleObjectEx", "WaitForMultipleObjectsEx"}

\* The original runs: Windows' code, into the next detour or the kernel.
Forwards ==
    /\ Top.at = "detour" /\ Top.pc = "forward"
    /\ \E to \in Leads(Top.export) :
          IF to # "kernel"
          THEN /\ stack' = Append([stack EXCEPT ![Len(stack)].pc = "return"],
                                  Detour(to, Top.alertable, Handed(Top.export, to, Top.arg)))
               /\ UNCHANGED flag
          ELSE LET f == Family(Top.export)
                   lowers == Top.alertable /\ Lowers(Top.export) /\ storage
               IN  /\ stack' = Append([stack EXCEPT ![Len(stack)].pc = "return"],
                                      [at |-> "kernel", export |-> Top.export, alertable |-> Top.alertable,
                                       arg |-> Top.arg, was |-> IF lowers THEN Guard ELSE "none"])
                   /\ flag' = IF lowers THEN [flag EXCEPT ![f] = FALSE] ELSE flag
    /\ UNCHANGED <<storage, thread, over>>

\* `FlagRestore::drop`, for a frame that has one.
PutBack(fl, frame) ==
    IF frame.was = "none" \/ ~storage THEN fl ELSE [fl EXCEPT ![Family(frame.export)] = (frame.was = "up")]

\* The kernel's wait, or a detour, returns.
Returns ==
    /\ Top.at = "kernel" \/ (Top.at = "detour" /\ Top.pc = "return")
    /\ flag' = PutBack(flag, Top)
    /\ stack' = IF Below[Len(Below)].at = "app" THEN [Below EXCEPT ![Len(Below)].call = NoCall] ELSE Below
    /\ UNCHANGED <<storage, thread, over>>

\* Windows runs an APC, the application's code, inside an alertable wait; and it returns.
ApcRuns ==
    /\ Top.at = "kernel" /\ Top.alertable
    /\ Cardinality({i \in DOMAIN stack : stack[i].at = "app"}) < MaxNested
    /\ stack' = Append(stack, App(NoCall))
    /\ UNCHANGED <<flag, storage, thread, over>>

ApcReturns ==
    /\ Top.at = "app" /\ Len(stack) > 1 /\ stack' = Below
    /\ UNCHANGED <<flag, storage, thread, over>>

\* An exception leaves the application's code for a handler in an application frame below; the frames
\* in between put their flags back, from the last to the first, or are gone without.
ApcThrows ==
    /\ Top.at = "app"
    /\ \E to \in 1..(Len(stack) - 1) :
          /\ stack[to].at = "app"
          /\ stack' = [SubSeq(stack, 1, to) EXCEPT ![to].call = NoCall]
          /\ flag' = [f \in Families |->
                LET held == {i \in (to + 1)..Len(stack) :
                                stack[i].at # "app" /\ Family(stack[i].export) = f /\ stack[i].was # "none"}
                IN  IF ~thread.lands \/ ~storage \/ held = {} THEN flag[f]
                    ELSE stack[CHOOSE i \in held : \A j \in held : i <= j].was = "up"]
    /\ UNCHANGED <<storage, thread, over>>

\* The core goes, and the process learns it; the loader ends the thread and frees its storage while it
\* still runs code outside any wait.
CoreGoes == ~over /\ over' = TRUE /\ UNCHANGED <<stack, flag, storage, thread>>
LosesStorage ==
    /\ storage /\ stack = <<App(NoCall)>> /\ storage' = FALSE
    /\ UNCHANGED <<stack, flag, thread, over>>

DetourNext ==
    \/ Begins \/ Calls \/ Enters \/ ScalesWait \/ ScalesTimer \/ SetTimer \/ Forwards \/ Returns
    \/ ApcRuns \/ ApcReturns \/ ApcThrows \/ CoreGoes \/ LosesStorage

-----------------------------------------------------------------------------
(* The properties.                                                         *)

DetourTypeOK ==
    /\ flag \in [Families -> BOOLEAN] /\ storage \in BOOLEAN /\ over \in BOOLEAN
    /\ \A i \in DOMAIN stack : stack[i].at \in {"app", "detour", "kernel"}
    /\ stack[1].at = "app"

\* Whenever the application's own code runs - also in an APC, also after an exception left one - no
\* flag of a wait or a timer stands, so its next call is taken as the application's (R4-N7).
AppRunsOutside == Top.at = "app" => \A f \in Families : ~flag[f]

\* A real length `x` is a session's length `r` at rate m: divided once, short of the next by less
\* than one.
Divided(x, r, m) == x * m <= r /\ r < (x + 1) * m

\* What the kernel gets for what the application asked: the length divided once by the rate, an instant
\* of the session's clock as the delay until it, INFINITE and 0 as they are; a length held at its
\* floor is short of the rate and said so.
SleepAsAsked(n, m, noted, got) ==
    IF n = 0 THEN got.n = 0 ELSE IF n = INFINITE_MS THEN got.n = Forever
    ELSE \E x \in 1..n : got.n = -(x * TICKS_PER_MS) /\ IF noted THEN x = 1 /\ n < m ELSE Divided(x, n, m)
DelayAsAsked(n, m, noted, got) ==
    IF noted THEN -got.n \in {-n, MIN_SCALED_DELAY_TICKS} /\ got.n >= n /\ -got.n * m > -n
    ELSE Divided(-got.n, -n, m)
DeadlineAsAsked(call, n, m, got) ==
    /\ call.dues = 1
    /\ IF got.n = PAST_DEADLINE THEN n - call.now < m ELSE got.n < 0 /\ Divided(-got.n, n - call.now, m)
TimerAsAsked(call, n, m, got) ==
    IF n < 0 THEN call.dues = 0 /\ Divided(-got.n, -n, m)
    ELSE call.dues = 1 /\ IF n <= call.now THEN got.n = 0 ELSE Divided(-got.n, n - call.now, m)
PeriodAsAsked(period, noted, got) ==
    IF period <= 0 THEN got.period = period
    ELSE IF noted THEN got.period = 1 /\ period < RelativeRate
    ELSE got.period > 0 /\ Divided(got.period, period, RelativeRate)
ElapseAsAsked(n, m, noted, got) ==
    Divided(got.n, n, m) /\ (noted <=> n >= USER_TIMER_MINIMUM_MS /\ got.n < USER_TIMER_MINIMUM_MS)

IsTheAsked(call, got) ==
    LET n == call.arg.n  m == call.m  noted == call.floors > 0
    IN  CASE call.export \in Sleeps -> SleepAsAsked(n, m, noted, got)
          [] call.export = "NtDelayExecution" ->
                 IF n <= 0 THEN DelayAsAsked(n, m, noted, got) ELSE DeadlineAsAsked(call, n, m, got)
          [] call.export \in Settable -> TimerAsAsked(call, n, m, got) /\ PeriodAsAsked(call.arg.period, noted, got)
          [] call.export = "SetTimer" -> ElapseAsAsked(n, m, noted, got)
          [] OTHER -> got = call.arg

\* As the application asked it, in the unit of the export that reaches the kernel.
AsItCame(call, got) ==
    got = IF call.export \in Sleeps THEN Handed("SleepEx", "NtDelayExecution", call.arg) ELSE call.arg

\* A call of the application's is counted once, under the export it called, and its length divided
\* once by the rate of the session, however many detours it crosses and whatever it interrupts; on a
\* thread without storage it goes through as it came, and that is said.
CallsAreTakenOnce ==
    Top.at = "kernel" =>
        LET call == Asked
        IN  /\ Len(call.counted) <= 1
            /\ call.counted # <<>> => call.counted[1] = call.export
            /\ AsItCame(call, Top.arg) \/ IsTheAsked(call, Top.arg)
            /\ (storage /\ ~over /\ call.whole) => call.counted = <<call.export>> /\ IsTheAsked(call, Top.arg)
            /\ (~storage /\ call.export # "SetTimer") => call.counted = <<>> /\ AsItCame(call, Top.arg)
            /\ (~storage /\ ~over /\ ~thread.loader /\ call.export # "SetTimer") => call.apart > 0
            /\ (~thread.scaled /\ Top.arg.n < 0 /\ call.arg.n < 0) => AsItCame(call, Top.arg)

DetoursAreTransparent == DetourTypeOK /\ AppRunsOutside /\ CallsAreTakenOnce
=============================================================================
