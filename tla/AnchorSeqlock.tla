---------------------------- MODULE AnchorSeqlock ----------------------------
(***************************************************************************)
(* The session clock's anchor in shared memory, `Local\ChronoCtl`, and the *)
(* seqlock around it (crates/ctl).  One writer, the core: it changes the   *)
(* rate (`rebase`) or jumps the wall (`write_anchor`), one store at a      *)
(* time, and may be killed between any two of them.  Many readers, the     *)
(* detours of the hooked processes: each reads an anchor and a real clock  *)
(* in one window (`read_anchor_with`, `read_dur_with`, `read_qpc_with`)    *)
(* and answers with the projection of ClockMath.  What happens to a        *)
(* process once its core is gone is SessionRelease's.                      *)
(*                                                                         *)
(* Three axes share the rate: the fake wall, the fake QUIT (the tick count *)
(* is derived from it) and the fake QPC.  An axis is a line: a base, the   *)
(* real instant of the base (the origin), and the rate.                    *)
(***************************************************************************)
EXTENDS ClockMath

CONSTANTS
    Readers,         \* threads of the hooked process
    Channels,        \* the axes whose detours are installed (the duration ones are opt-in)
    Rates,           \* the multipliers a session may be set to (0 = frozen wall)
    JumpTargets,     \* fake instants an absolute jump may name
    JumpShifts,      \* relative jumps
    WallStart,       \* the fake instant the session starts at
    MaxNow,          \* bound: the last real instant
    MaxSeq,          \* bound: no write opens once seq has reached it
    WriterMayStall   \* a live writer may stand still for longer than SEQLOCK_READ_TRIES

Axes == {"wall", "quit", "qpc"}

ASSUME AnchorSeqlockAssumption ==
    /\ Channels \subseteq Axes
    /\ Rates \subseteq Nat /\ Rates # {}
    /\ JumpTargets \subseteq 0..FAKE_WALL_MAX
    /\ JumpShifts \subseteq Int
    /\ WallStart \in 0..FAKE_WALL_MAX
    /\ MaxNow \in 1..I64_MAX
    /\ MaxSeq \in Nat
    /\ WriterMayStall \in BOOLEAN

VARIABLES
    precise,  \* the precise real clock; also the real QPC, in the same unit
    plain,    \* the plain QUIT: the precise clock at the last timer interrupt
    seq,      \* Ctl.seq, odd while a write is open
    base,     \* Ctl.a_fake, Ctl.dur_quit_c0, Ctl.dur_qpc_c0
    origin,   \* Ctl.a_real, Ctl.dur_q0, Ctl.dur_qpc_q0
    rate,     \* Ctl.multiplier
    stage,    \* the core's next step
    pend,     \* the anchor the core is writing
    dead,     \* the core was killed
    rd,       \* each reader's call
    stuck,    \* STUCK_SEQ of the hooked process, 0 for none
    served,   \* history: the greatest value answered so far, per axis
    epoch     \* history: how many times a jump has opened or closed

vars == <<precise, plain, seq, base, origin, rate, stage, pend, dead, rd, stuck,
          served, epoch>>
clocks  == <<precise, plain>>
block   == <<seq, base, origin, rate>>
core    == <<stage, pend, dead>>
history == <<served, epoch>>

Line(ax, b, o, m, t) ==
    IF ax = "wall" THEN fake_wall_at(b, o, t, m) ELSE dur_quit_at(b, o, m, t)

\* The real clock a reader of an axis takes: the wall and QUIT channels the plain
\* QUIT, the QPC channel the counter.
Clock(ax) == IF ax = "qpc" THEN precise ELSE plain

Idle == [pc |-> "idle", ax |-> "quit", mark |-> 0, look |-> 0, asis |-> FALSE,
         b |-> 0, o |-> 0, m |-> 0, t |-> 0, floor |-> 0]

\* The session as `prepare` leaves it: one anchor written (`write_anchor_full`), both
\* duration axes equal to the real clock.
Init ==
    /\ precise = 1 /\ plain \in {0, 1}
    /\ seq = 2
    /\ base = [ax \in Axes |-> IF ax = "wall" THEN WallStart ELSE 1]
    /\ origin = [ax \in Axes |-> 1]
    /\ rate \in Rates
    /\ stage = "idle"
    /\ pend = [base |-> base, origin |-> origin, m |-> rate]
    /\ dead = FALSE
    /\ rd = [r \in Readers |-> Idle]
    /\ stuck = 0
    /\ served = [ax \in Axes |-> 0]
    /\ epoch = 0

-----------------------------------------------------------------------------
(* Real time.  Between two timer interrupts the plain clock stands behind  *)
(* the precise one, never ahead of it.                                     *)

Advance ==
    /\ precise < MaxNow
    /\ precise' = precise + 1
    /\ UNCHANGED <<plain, block, core, rd, stuck, history>>

TimerInterrupt ==
    /\ plain # precise
    /\ plain' = precise
    /\ UNCHANGED <<precise, block, core, rd, stuck, history>>

-----------------------------------------------------------------------------
(* The core changes the rate: `rebase`.                                    *)

CoreAt(s) == stage = s /\ ~dead

\* The odd seq, before anything else.
OpenRebase(m) ==
    /\ CoreAt("idle") /\ seq < MaxSeq
    /\ seq' = seq + 1
    /\ stage' = "read_quit"
    /\ pend' = [base |-> base, origin |-> origin, m |-> m]
    /\ UNCHANGED <<clocks, base, origin, rate, dead, rd, stuck, history>>

\* Mutant: the instant taken from the plain clock, as it was before the precise one.
ReadQuitPlain ==
    /\ CoreAt("read_quit")
    /\ pend' = [pend EXCEPT
            !.base = [@ EXCEPT !["wall"] = Line("wall", base["wall"], origin["wall"], rate, plain),
                               !["quit"] = Line("quit", base["quit"], origin["quit"], rate, plain)],
            !.origin = [@ EXCEPT !["wall"] = plain, !["quit"] = plain]]
    /\ stage' = "read_qpc"
    /\ UNCHANGED <<clocks, block, dead, rd, stuck, history>>

\* The instant of the change, read inside the write; the wall and QUIT are frozen
\* where they stand under the old rate.
ReadQuit ==
    /\ CoreAt("read_quit")
    /\ pend' = [pend EXCEPT
            !.base = [@ EXCEPT !["wall"] = Line("wall", base["wall"], origin["wall"], rate, precise),
                               !["quit"] = Line("quit", base["quit"], origin["quit"], rate, precise)],
            !.origin = [@ EXCEPT !["wall"] = precise, !["quit"] = precise]]
    /\ stage' = "read_qpc"
    /\ UNCHANGED <<clocks, block, dead, rd, stuck, history>>

\* Mutant: one reading of the clock for both duration channels.
ReadQpcOnce ==
    /\ CoreAt("read_qpc")
    /\ pend' = [pend EXCEPT
            !.base["qpc"] = Line("qpc", base["qpc"], origin["qpc"], rate, pend.origin["quit"]),
            !.origin["qpc"] = pend.origin["quit"]]
    /\ stage' = "a_fake"
    /\ UNCHANGED <<clocks, block, dead, rd, stuck, history>>

ReadQpc ==
    /\ CoreAt("read_qpc")
    /\ pend' = [pend EXCEPT
            !.base["qpc"] = Line("qpc", base["qpc"], origin["qpc"], rate, precise),
            !.origin["qpc"] = precise]
    /\ stage' = "a_fake"
    /\ UNCHANGED <<clocks, block, dead, rd, stuck, history>>

StoreBase(ax, at, next) ==
    /\ CoreAt(at)
    /\ base' = [base EXCEPT ![ax] = pend.base[ax]]
    /\ stage' = next
    /\ UNCHANGED <<clocks, seq, origin, rate, pend, dead, rd, stuck, history>>

StoreOrigin(ax, at, next) ==
    /\ CoreAt(at)
    /\ origin' = [origin EXCEPT ![ax] = pend.origin[ax]]
    /\ stage' = next
    /\ UNCHANGED <<clocks, seq, base, rate, pend, dead, rd, stuck, history>>

StoreRate(at, next) ==
    /\ CoreAt(at)
    /\ rate' = pend.m
    /\ stage' = next
    /\ UNCHANGED <<clocks, seq, base, origin, pend, dead, rd, stuck, history>>

\* Mutant: the rate is stored before the anchor it belongs to.
RebaseStoresRateFirst ==
    \/ StoreRate("a_fake", "a_real")
    \/ StoreBase("wall", "a_real", "dur_quit_c0")
    \/ StoreOrigin("wall", "dur_quit_c0", "dur_qpc_c0")
    \/ StoreBase("quit", "dur_qpc_c0", "dur_q0")
    \/ StoreBase("qpc", "dur_q0", "dur_qpc_q0")
    \/ StoreOrigin("quit", "dur_qpc_q0", "multiplier")
    \/ StoreOrigin("qpc", "multiplier", "close")

\* The stores in the order of `full_anchor_stores`: bases before origins, the rate last.
\* `dur_tick_offset` is written back unchanged, so it has no step.
RebaseStores ==
    \/ StoreBase("wall", "a_fake", "a_real")
    \/ StoreOrigin("wall", "a_real", "dur_quit_c0")
    \/ StoreBase("quit", "dur_quit_c0", "dur_qpc_c0")
    \/ StoreBase("qpc", "dur_qpc_c0", "dur_q0")
    \/ StoreOrigin("quit", "dur_q0", "dur_qpc_q0")
    \/ StoreOrigin("qpc", "dur_qpc_q0", "multiplier")
    \/ StoreRate("multiplier", "close")

\* The even seq.
CloseRebase ==
    /\ CoreAt("close")
    /\ seq' = seq + 1
    /\ stage' = "idle"
    /\ UNCHANGED <<clocks, base, origin, rate, pend, dead, rd, stuck, history>>

-----------------------------------------------------------------------------
(* The core jumps the wall: `Session::jump`, `Session::jump_step` and      *)
(* `write_anchor`.  The clock is read before the write opens, and the      *)
(* duration fields are left alone.                                         *)

PrepareJump(to) ==
    /\ CoreAt("idle") /\ seq < MaxSeq
    /\ pend' = [base |-> [base EXCEPT !["wall"] = to],
                origin |-> [origin EXCEPT !["wall"] = precise], m |-> rate]
    /\ stage' = "jump_open"
    /\ UNCHANGED <<clocks, block, dead, rd, stuck, history>>

\* Mutant: a step is not checked against the end of the range.
JumpStepUnchecked(shift) ==
    PrepareJump(fake_wall_at(base["wall"], origin["wall"], precise, rate) + shift)

\* A step from the fake now; one that leaves the range is refused and changes nothing.
JumpStep(shift) ==
    LET to == fake_wall_at(base["wall"], origin["wall"], precise, rate) + shift
    IN  /\ to \in 0..FAKE_WALL_MAX
        /\ PrepareJump(to)

\* From here readers see a wall on its way elsewhere: a new epoch.
OpenJump ==
    /\ CoreAt("jump_open")
    /\ seq' = seq + 1
    /\ stage' = "jump_a_fake"
    /\ epoch' = epoch + 1
    /\ served' = [served EXCEPT !["wall"] = 0]
    /\ UNCHANGED <<clocks, base, origin, rate, pend, dead, rd, stuck>>

JumpStores ==
    \/ StoreBase("wall", "jump_a_fake", "jump_a_real")
    \/ StoreOrigin("wall", "jump_a_real", "jump_multiplier")
    \/ StoreRate("jump_multiplier", "jump_close")

CloseJump ==
    /\ CoreAt("jump_close")
    /\ seq' = seq + 1
    /\ stage' = "idle"
    /\ epoch' = epoch + 1
    /\ served' = [served EXCEPT !["wall"] = 0]
    /\ UNCHANGED <<clocks, base, origin, rate, pend, dead, rd, stuck>>

\* The core process is ended at any point, and what it was about to store with it; the
\* block keeps what was stored.
Kill ==
    /\ ~dead
    /\ dead' = TRUE
    /\ stage' = "idle"
    /\ pend' = [base |-> base, origin |-> origin, m |-> rate]
    /\ UNCHANGED <<clocks, block, rd, stuck, history>>

-----------------------------------------------------------------------------
(* A reader: one pass of `read_consistent` per action sequence.            *)

At(r, p) == rd[r].pc = p

\* A call before its first look.  `floor` is what had been answered when it began.
Begun(ax, mark, floor) == [Idle EXCEPT !.pc = "look", !.ax = ax, !.mark = mark, !.floor = floor]

Call(r, ax) ==
    /\ At(r, "idle")
    /\ rd' = [rd EXCEPT ![r] = Begun(ax, epoch, served[ax])]
    /\ UNCHANGED <<clocks, block, core, stuck, history>>

\* The first look finds no write open.
LookEven(r) ==
    /\ At(r, "look") /\ seq % 2 = 0
    /\ rd' = [rd EXCEPT ![r].pc = "base", ![r].look = seq]
    /\ UNCHANGED <<clocks, block, core, stuck, history>>

\* The first look finds the write this process already waited the whole bound on.
LookKnownStuck(r) ==
    /\ At(r, "look") /\ seq % 2 = 1 /\ stuck = seq
    /\ rd' = [rd EXCEPT ![r].pc = "base", ![r].look = seq, ![r].asis = TRUE]
    /\ UNCHANGED <<clocks, block, core, stuck, history>>

\* Mutant: a reader waits for the write to close, however long.
GiveUpNever(r) == At(r, "look") /\ seq % 2 = 1 /\ UNCHANGED vars

\* SEQLOCK_READ_TRIES looks at an open write: the write is remembered and the fields are
\* taken as they stand.  The bound outlasts a live writer unless WriterMayStall.
GiveUp(r) ==
    /\ At(r, "look") /\ seq % 2 = 1
    /\ dead \/ WriterMayStall
    /\ stuck' = seq
    /\ rd' = [rd EXCEPT ![r].pc = "base", ![r].look = seq, ![r].asis = TRUE]
    /\ UNCHANGED <<clocks, block, core, history>>

ReadBase(r) ==
    /\ At(r, "base")
    /\ rd' = [rd EXCEPT ![r].pc = "origin", ![r].b = base[rd[r].ax]]
    /\ UNCHANGED <<clocks, block, core, stuck, history>>

ReadOrigin(r) ==
    /\ At(r, "origin")
    /\ rd' = [rd EXCEPT ![r].pc = "rate", ![r].o = origin[rd[r].ax]]
    /\ UNCHANGED <<clocks, block, core, stuck, history>>

ReadRate(r) ==
    /\ At(r, "rate")
    /\ rd' = [rd EXCEPT ![r].pc = "clock", ![r].m = rate]
    /\ UNCHANGED <<clocks, block, core, stuck, history>>

\* The clock is taken inside the window, before the second look.
ReadClock(r) ==
    /\ At(r, "clock")
    /\ rd' = [rd EXCEPT ![r].pc = IF rd[r].asis THEN "answer" ELSE "recheck",
                        ![r].t = Clock(rd[r].ax)]
    /\ UNCHANGED <<clocks, block, core, stuck, history>>

\* Mutant: the second look only asks that no write is open.
RecheckParity(r) ==
    /\ At(r, "recheck")
    /\ rd' = [rd EXCEPT ![r] =
                 IF seq % 2 = 0 THEN [@ EXCEPT !.pc = "answer"]
                 ELSE Begun(@.ax, @.mark, @.floor)]
    /\ UNCHANGED <<clocks, block, core, stuck, history>>

\* The second look: the same even seq, or everything again.
Recheck(r) ==
    /\ At(r, "recheck")
    /\ rd' = [rd EXCEPT ![r] =
                 IF @.look = seq THEN [@ EXCEPT !.pc = "answer"]
                 ELSE Begun(@.ax, @.mark, @.floor)]
    /\ UNCHANGED <<clocks, block, core, stuck, history>>

Value(r) == Line(rd[r].ax, rd[r].b, rd[r].o, rd[r].m, rd[r].t)

\* A jump moves the wall on purpose: only answers within one epoch are compared.
Comparable(r) == rd[r].ax = "wall" => rd[r].mark = epoch

Return(r) ==
    /\ At(r, "answer")
    /\ served' = [served EXCEPT ![rd[r].ax] = IF Comparable(r) THEN at_least(@, Value(r)) ELSE @]
    /\ rd' = [rd EXCEPT ![r] = Idle]
    /\ UNCHANGED <<clocks, block, core, stuck, epoch>>

-----------------------------------------------------------------------------
CoreStep ==
    \/ \E m \in Rates : OpenRebase(m)
    \/ ReadQuit \/ ReadQpc \/ RebaseStores \/ CloseRebase
    \/ \E to \in JumpTargets : PrepareJump(to)
    \/ \E shift \in JumpShifts : JumpStep(shift)
    \/ OpenJump \/ JumpStores \/ CloseJump

ReaderStep(r) ==
    \/ \E ax \in Channels : Call(r, ax)
    \/ LookEven(r) \/ LookKnownStuck(r) \/ GiveUp(r)
    \/ ReadBase(r) \/ ReadOrigin(r) \/ ReadRate(r) \/ ReadClock(r)
    \/ Recheck(r) \/ Return(r)

Next ==
    \/ Advance \/ TimerInterrupt
    \/ CoreStep \/ Kill
    \/ \E r \in Readers : ReaderStep(r)

Spec == Init /\ [][Next]_vars

\* A call of the target's runs on, and a living core finishes the write it opened.
Fairness ==
    /\ \A r \in Readers : WF_vars(ReaderStep(r) /\ ~At(r, "idle"))
    /\ WF_vars(CoreStep /\ stage # "idle")

FairSpec == Spec /\ Fairness

-----------------------------------------------------------------------------
RebaseStages == {"read_quit", "read_qpc", "a_fake", "a_real", "dur_quit_c0", "dur_qpc_c0",
                 "dur_q0", "dur_qpc_q0", "multiplier", "close"}
JumpStages   == {"jump_a_fake", "jump_a_real", "jump_multiplier", "jump_close"}
OpenStages   == RebaseStages \cup JumpStages

Anchors == [base : [Axes -> I64], origin : [Axes -> 0..MaxNow], m : Nat]

Call_ == [pc : {"idle", "look", "base", "origin", "rate", "clock", "recheck", "answer"},
          ax : Axes, mark : Nat, look : Nat, asis : BOOLEAN,
          b : I64, o : 0..MaxNow, m : Nat, t : 0..MaxNow, floor : I64]

\* The types of the variables.
TypeOK ==
    /\ precise \in 1..MaxNow /\ plain \in 0..MaxNow
    /\ seq \in Nat
    /\ base \in [Axes -> I64] /\ origin \in [Axes -> 0..MaxNow] /\ rate \in Nat
    /\ stage \in {"idle", "jump_open"} \cup OpenStages
    /\ pend \in Anchors
    /\ dead \in BOOLEAN
    /\ rd \in [Readers -> Call_]
    /\ stuck \in Nat
    /\ served \in [Axes -> I64]
    /\ epoch \in Nat

\* No answer of an axis is below an answer of the same axis that was given before the
\* call began, by any thread: not across a rate change, not after a core killed between
\* any two stores of one, and for the wall not unless a jump came between.
NeverRunsBack ==
    \A r \in Readers : At(r, "answer") /\ Comparable(r) => Value(r) >= rd[r].floor

\* The anchor in force: from the instant of a rate change on, the one being written,
\* as long as the core lives to finish it.
TrueAnchor(ax) ==
    IF ~dead /\ stage \in RebaseStages \ {"read_quit"} /\ (ax = "qpc" => stage # "read_qpc")
    THEN [b |-> pend.base[ax], o |-> pend.origin[ax], m |-> pend.m]
    ELSE [b |-> base[ax], o |-> origin[ax], m |-> rate]

TrueAxis(ax) ==
    LET a == TrueAnchor(ax) IN Line(ax, a.b, a.o, a.m, precise)

\* The calls in progress on one axis, as SessionAxis sees them.
Pending(ax) ==
    [r \in Readers |-> IF At(r, "idle") \/ rd[r].ax # ax THEN -1 ELSE rd[r].floor]

Quit == INSTANCE SessionAxis WITH
    axis <- TrueAxis("quit"), speed <- TrueAnchor("quit").m, alive <- ~dead,
    served <- served["quit"], floor <- Pending("quit")

Qpc == INSTANCE SessionAxis WITH
    axis <- TrueAxis("qpc"), speed <- TrueAnchor("qpc").m, alive <- ~dead,
    served <- served["qpc"], floor <- Pending("qpc")

\* Each duration axis, as its readers see it through the block and the seqlock, is the
\* integral of the rate: continuous at a rate change, never ahead of the session, never
\* behind an answer already given.
QuitIsTheSessionAxis == Quit!Spec
QpcIsTheSessionAxis == Qpc!Spec

\* Both duration axes together.
DurationsAreTheSession == QuitIsTheSessionAxis /\ QpcIsTheSessionAxis

\* A call of a detour returns, whatever the core does: a reader does not spin for ever on
\* a write nobody will finish.
EveryCallReturns == \A r \in Readers : ~At(r, "idle") ~> At(r, "idle")
=============================================================================
