----------------------------- MODULE Calculator -----------------------------
(***************************************************************************)
(* The panel's calculator (CalculatorViewModel.cs with Debounce.cs and     *)
(* OneShotEngine.cs): every edit of the builder asks, a run follows after  *)
(* a quiet moment, and a press of Copy or "Use this date" takes a value    *)
(* only once the answer on the screen is the builder's.  The reverse       *)
(* analysis strip asks and runs the same way.                              *)
(*                                                                         *)
(* The builder is the number of its edits.  Its base is Today or Now, so   *)
(* the answer also depends on the clock the engine reads.                  *)
(***************************************************************************)
EXTENDS LatestAnswer

CONSTANTS
    Taps,       \* presses of Copy or "Use this date"
    Sends,      \* those of "Use this date"
    MaxEdits,   \* bound: questions asked
    MaxRuns,    \* bound: engine processes
    MaxClock    \* bound: turns of the clock the result depends on

ASSUME CalculatorAssumption == MaxEdits \in Nat \ {0} /\ MaxRuns \in Nat /\ MaxClock \in Nat

VARIABLES
    latest,     \* _result
    builder,    \* the edits the builder has seen
    clock,      \* the day or the second it is
    askedClock, \* _askedClock
    computed,   \* _computedOnce
    quiet,      \* the debounce: a delay is running
    due,        \* the debounce: delays over and not taken up
    runs,       \* engine runs that have not come back
    shown,      \* the result on the screen: the builder and the clock it answers, or Nothing
    tap,        \* each press: its step, and the clock it was pressed at
    abandoned   \* the window has closed

calcVars == <<latest, builder, clock, askedClock, computed, quiet, due, runs, shown, tap, abandoned>>

Nothing == [builder |-> 0, clock |-> 0]

CalcInit ==
    /\ latest = NothingAsked /\ builder = 1 /\ clock = 0 /\ askedClock = 0
    /\ computed = FALSE /\ quiet = FALSE /\ due = 0 /\ runs = {} /\ shown = Nothing
    /\ tap = [t \in Taps |-> [pc |-> "no", clock |-> 0]]
    /\ abandoned = FALSE

HasResult == shown # Nothing

\* `_result` becomes `after`, which may end waits.
Becomes(after) ==
    /\ latest' = after
    /\ tap' = [t \in Taps |-> IF tap[t].pc = "waiting" /\ Wakes(latest, after)
                             THEN [tap[t] EXCEPT !.pc = "woken"] ELSE tap[t]]

\* `RecomputeAsync` up to its await, over a question that is `asked`.
Recompute(asked) ==
    /\ asked.begun < MaxRuns
    /\ IF IsCurrent(asked) THEN Becomes(asked) /\ UNCHANGED <<runs, askedClock>>
       ELSE /\ Becomes(Begin(asked))
            /\ runs' = runs \cup {[ticket |-> Ticket(Begin(asked)), builder |-> builder, clock |-> clock]}
            /\ askedClock' = clock

-----------------------------------------------------------------------------
(* The edits.                                                              *)

EnsureComputed ==
    /\ ~computed /\ computed' = TRUE
    /\ Recompute(Ask(latest))
    /\ UNCHANGED <<builder, clock, quiet, due, shown, abandoned>>

\* Mutant: the question is asked when the run starts.
AskedWithTheRun(a) == a

\* At the edit: in between, the result on the screen answers the builder as it was.
AskedAtTheEdit(a) == Ask(a)

\* `TriggerRecompute`, the mask, and a scenario that fills the builder: the newest edit's delay
\* replaces the one running.
Edit ==
    /\ computed /\ latest.asked < MaxEdits
    /\ builder' = builder + 1
    /\ Becomes(AskedAtTheEdit(latest))
    /\ quiet' = TRUE
    /\ UNCHANGED <<clock, askedClock, computed, due, runs, shown, abandoned>>

\* Mutant: the old result stands under the scenario's name.
AfterScenarioOld == shown

AfterScenario == Nothing

\* Mutant: nothing is asked of the engine, and the question stays open.
AnsweredWithout(a) == Ask(a)

\* No engine is asked: the question is answered with no result.
AnsweredAtOnce(a) == Settle(Ask(a))

\* `ShowWithoutResult`: a scenario that cannot fill the builder, or not all of it.
ScenarioWithoutResult ==
    /\ computed /\ latest.asked + 1 < MaxEdits
    /\ builder' \in {builder, builder + 1}
    /\ Becomes(AnsweredAtOnce(latest))
    /\ shown' = AfterScenario
    /\ UNCHANGED <<clock, askedClock, computed, quiet, due, runs, abandoned>>

\* The delay is over; its continuation waits for the window's thread, where a newer edit may
\* still come before it.
QuietIsOver ==
    /\ quiet /\ due < 2
    /\ quiet' = FALSE /\ due' = due + 1
    /\ UNCHANGED <<latest, builder, clock, askedClock, computed, runs, shown, tap, abandoned>>

RunIsDue ==
    /\ due > 0 /\ due' = due - 1
    /\ Recompute(latest)
    /\ UNCHANGED <<builder, clock, computed, quiet, shown, abandoned>>

ClockTurns ==
    /\ clock < MaxClock /\ clock' = clock + 1
    /\ UNCHANGED <<latest, builder, askedClock, computed, quiet, due, runs, shown, tap, abandoned>>

-----------------------------------------------------------------------------
(* The engine comes back.                                                  *)

\* Its answer was read from the clock at any moment of the run.
RunAnswers(r) ==
    LET accepted == Accepts(latest, r.ticket) IN
    /\ runs' = runs \ {r}
    /\ Becomes(Release(latest, r.ticket, accepted))
    /\ \/ ~accepted /\ UNCHANGED shown
       \/ accepted /\ \E c \in r.clock .. clock : shown' = [builder |-> r.builder, clock |-> c]
       \/ accepted /\ shown' = Nothing
    /\ UNCHANGED <<builder, clock, askedClock, computed, quiet, due, abandoned>>

RunIsCancelled(r) ==
    /\ Cancelled(latest, r.ticket)
    /\ runs' = runs \ {r}
    /\ Becomes(Release(latest, r.ticket, FALSE))
    /\ UNCHANGED <<builder, clock, askedClock, computed, quiet, due, shown, abandoned>>

-----------------------------------------------------------------------------
(* The presses.                                                            *)

\* Mutant: the clock is left out of the question.
ClockMovedNever == FALSE

ClockMoved == clock # askedClock

\* `AskAgainIfTheClockMoved`, then the wait for the answer.  A second "Use this date" does nothing
\* while the first still waits.
Press(t) ==
    /\ tap[t].pc = "no" /\ HasResult
    /\ t \in Sends => \A u \in Sends : tap[u].pc \notin {"waiting", "woken"}
    /\ LET asked == IF ClockMoved THEN Begin(Ask(latest)) ELSE latest
           pc == IF IsCurrent(asked) THEN "woken" ELSE "waiting"
       IN /\ asked.asked <= MaxEdits /\ asked.begun <= MaxRuns
          /\ latest' = asked
          /\ tap' = [tap EXCEPT ![t] = [pc |-> pc, clock |-> clock]]
          /\ IF asked = latest THEN UNCHANGED <<runs, askedClock>>
             ELSE /\ runs' = runs \cup {[ticket |-> Ticket(asked), builder |-> builder, clock |-> clock]}
                  /\ askedClock' = clock
    /\ UNCHANGED <<builder, clock, computed, quiet, due, shown, abandoned>>

\* The answer is current: the value is taken, if there is one.
TakeValue(t) ==
    /\ tap[t].pc = "woken"
    /\ tap' = [tap EXCEPT ![t].pc = IF ~IsCurrent(latest) THEN "waiting"
                                      ELSE IF HasResult THEN "took" ELSE "nothing"]
    /\ UNCHANGED <<latest, builder, clock, askedClock, computed, quiet, due, runs, shown, abandoned>>

\* `ActionWait` ran out.
ActionWaitIsOver(t) ==
    /\ tap[t].pc \in {"waiting", "woken"} /\ ~IsCurrent(latest)
    /\ tap' = [tap EXCEPT ![t].pc = "nothing"]
    /\ UNCHANGED <<latest, builder, clock, askedClock, computed, quiet, due, runs, shown, abandoned>>

CloseCalculator ==
    /\ ~abandoned /\ abandoned' = TRUE
    /\ Becomes(Abandon(latest))
    /\ UNCHANGED <<builder, clock, askedClock, computed, quiet, due, runs, shown>>

-----------------------------------------------------------------------------
EngineReturns == \E r \in runs : RunAnswers(r) \/ RunIsCancelled(r)

CalcNext ==
    \/ EnsureComputed \/ Edit \/ ScenarioWithoutResult \/ QuietIsOver \/ RunIsDue \/ ClockTurns
    \/ EngineReturns \/ CloseCalculator
    \/ \E t \in Taps : Press(t) \/ TakeValue(t) \/ ActionWaitIsOver(t)

-----------------------------------------------------------------------------
\* The types of the variables.
CalcTypeOK ==
    /\ latest \in [asked : 0..MaxEdits, answered : 0..MaxEdits, running : 0..MaxRuns, begun : 0..MaxRuns,
                   put : SUBSET (1..MaxRuns)]
    /\ builder \in 1..(MaxEdits + 1) /\ clock \in 0..MaxClock /\ askedClock \in 0..MaxClock
    /\ {computed, quiet, abandoned} \subseteq BOOLEAN /\ due \in 0..2
    /\ \A r \in runs : r.builder \in 1..(MaxEdits + 1) /\ r.clock \in 0..MaxClock
    /\ shown \in [builder : 0..(MaxEdits + 1), clock : 0..MaxClock]
    /\ tap \in [Taps -> [pc : {"no", "waiting", "woken", "took", "nothing"}, clock : 0..MaxClock]]

\* What is on the screen once nothing is asked is the builder's own answer, or nothing: no
\* run begun for an earlier builder, and no result from before a scenario, stands there.
ShownIsTheBuilder == computed /\ IsCurrent(latest) /\ HasResult => shown.builder = builder

\* A press gives away the answer to the builder as it stands, by a clock no older than the
\* press (the comments at RequestUseInSubstitutionAsync and AskAgainIfTheClockMoved).
TakenIsTheBuilder ==
    \A t \in Taps : tap'[t].pc = "took" /\ tap[t].pc # "took" =>
        shown.builder = builder /\ shown.clock >= tap[t].clock

\* Every question is answered, whatever is edited and pressed meanwhile, unless the window goes.
QuestionIsOpen == ~IsCurrent(latest) /\ ~abandoned
EveryQuestionIsAnswered == QuestionIsOpen ~> ~QuestionIsOpen

\* The result on the screen belongs to the steps on the screen.
ResultIsTheNewest == CalcTypeOK /\ ShownIsTheBuilder
=============================================================================
