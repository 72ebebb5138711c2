---------------------------- MODULE StartMoment -----------------------------
(***************************************************************************)
(* The panel's start moment: one date field that a chosen scenario, the    *)
(* "now, shifted" line and the user's own hand all fill, the first two     *)
(* through the engine (MomentRequests.cs), and Start, which waits for the  *)
(* newest of them (SessionViewModel.StartAsync).                           *)
(*                                                                         *)
(* A date is the generation it answers.  All of it runs on the window's    *)
(* thread; a step is what runs between two awaits.  A request's error      *)
(* reaches the panel before a Start it lets go on: both are posted to that *)
(* thread, the error first.                                                *)
(***************************************************************************)
EXTENDS LatestAnswer

CONSTANTS
    Presses,    \* presses of Start
    MaxAsked    \* bound: questions and edits

ASSUME StartMomentAssumption == MaxAsked \in Nat

VARIABLES
    answer,     \* MomentRequests._answer
    requests,   \* the runs that have not come back
    field,      \* the generation whose date the field holds
    scenario,   \* the generation the selected scenario was chosen at, 0 when none is selected
    noDate,     \* _scenarioErrorKey: the chosen scenario gave no date
    relative,   \* _relativeAsked
    pending,    \* _momentPending
    shutting,    \* _closing
    idle,       \* _idle
    press,      \* each press of Start: "no", "waiting", "woken", "running", "over"
    unanswered  \* history: the last generation the engine gave no date for

momentVars == <<answer, requests, field, scenario, noDate, relative, pending, shutting, idle, press, unanswered>>

MomentInit ==
    /\ answer = NothingAsked /\ requests = {}
    /\ field = 0 /\ scenario = 0 /\ unanswered = 0
    /\ noDate = FALSE /\ relative = FALSE /\ pending = FALSE /\ shutting = FALSE /\ idle = TRUE
    /\ press = [p \in Presses |-> "no"]

CanStart == idle /\ ~noDate /\ ~pending

\* Mutant: a refused Start comes back only for a date of the user's own.
ComesBackTyped(before, after) == after.asked # before.asked /\ IsCurrent(after)

ComesBack(before, after) == IsCurrent(after)

\* The answer changed: the waits it ends, and a refused Start that comes back.
Answered(after) ==
    /\ answer' = after
    /\ press' = [p \in Presses |-> IF press[p] = "waiting" /\ Wakes(answer, after) THEN "woken" ELSE press[p]]
    /\ pending' = (pending /\ ~ComesBack(answer, after))

-----------------------------------------------------------------------------
(* The three ways to a date.                                               *)

\* A question begun while another has no answer waits ChoiceQuiet first, if it is a scenario.
Request(kind) ==
    LET asked == Begin(Ask(answer)) IN
    /\ answer.asked < MaxAsked
    /\ Answered(asked)
    /\ requests' = requests \cup
         {[ticket |-> Ticket(asked), kind |-> kind,
           pc |-> IF kind = "scenario" /\ ~IsCurrent(answer) THEN "quiet" ELSE "asked"]}
    /\ relative' = (kind = "relative")

\* `ApplyScenarioAsync` up to its await.
ChooseScenario ==
    /\ idle
    /\ Request("scenario")
    /\ scenario' = answer.asked + 1 /\ noDate' = FALSE
    /\ UNCHANGED <<field, shutting, idle, unanswered>>

FillRelative ==
    /\ idle
    /\ Request("relative")
    /\ UNCHANGED <<field, scenario, noDate, shutting, idle, unanswered>>

\* `AskAgainInZone`: the zone is part of the question.
ChangeZone ==
    \/ scenario # 0 /\ ChooseScenario
    \/ scenario = 0 /\ relative /\ ~IsCurrent(answer) /\ FillRelative

\* `Moment.Changed`: a date that is not the scenario's ends its selection.
Deselect == scenario' = 0 /\ noDate' = (noDate /\ scenario = 0)

\* Typed, Today, a history row, or the calculator's date (`AdoptMoment`): its own answer.
TypeDate ==
    /\ idle /\ answer.asked < MaxAsked
    /\ Answered(Settle(answer))
    /\ field' = answer.asked + 1
    /\ Deselect
    /\ UNCHANGED <<requests, relative, shutting, idle, unanswered>>

QuietOver(r) ==
    /\ r.pc = "quiet" /\ ~Cancelled(answer, r.ticket)
    /\ requests' = (requests \ {r}) \cup {[r EXCEPT !.pc = "asked"]}
    /\ UNCHANGED <<answer, field, scenario, noDate, relative, pending, shutting, idle, press, unanswered>>

\* `Settle` and `Release` of MomentRequests: the engine came back with a date or without one.
EngineAnswers(r, date) ==
    LET accepted == Accepts(answer, r.ticket) IN
    /\ r.pc = "asked"
    /\ requests' = requests \ {r}
    /\ Answered(Release(answer, r.ticket, accepted))
    /\ IF accepted /\ date
       THEN /\ field' = r.ticket.generation
            /\ IF r.kind = "scenario" THEN UNCHANGED <<scenario, noDate>> ELSE Deselect
       ELSE /\ noDate' = (noDate \/ (accepted /\ r.kind = "scenario"))
            /\ UNCHANGED <<field, scenario>>
    /\ unanswered' = IF accepted /\ ~date THEN r.ticket.generation ELSE unanswered
    /\ UNCHANGED <<relative, shutting, idle>>

\* Its token was cancelled before the engine was asked, or while it was.
RequestCancelled(r) ==
    /\ Cancelled(answer, r.ticket)
    /\ requests' = requests \ {r}
    /\ Answered(Release(answer, r.ticket, FALSE))
    /\ UNCHANGED <<field, scenario, noDate, relative, shutting, idle, unanswered>>

-----------------------------------------------------------------------------
(* Start, and the window's close.                                          *)

\* Mutant: CanStart is what it was before the wait.
GoesOnAsPressed == TRUE

\* Read after the wait.
GoesOn == CanStart /\ ~shutting

Commit(p) ==
    IF GoesOn THEN press' = [press EXCEPT ![p] = "running"] /\ idle' = FALSE
    ELSE press' = [press EXCEPT ![p] = "over"] /\ UNCHANGED idle

PressStart(p) ==
    /\ press[p] = "no" /\ CanStart /\ ~shutting
    /\ IF IsCurrent(answer) THEN Commit(p)
       ELSE press' = [press EXCEPT ![p] = "waiting"] /\ UNCHANGED idle
    /\ UNCHANGED <<answer, requests, field, scenario, noDate, relative, pending, shutting, unanswered>>

\* `WhenCurrentAsync` looks again after every wake: another question may be open by now.
LookAgain(p) ==
    /\ press[p] = "woken"
    /\ IF IsCurrent(answer) THEN Commit(p)
       ELSE press' = [press EXCEPT ![p] = "waiting"] /\ UNCHANGED idle
    /\ UNCHANGED <<answer, requests, field, scenario, noDate, relative, pending, shutting, unanswered>>

\* `_startWait` ran out.
WaitIsOver(p) ==
    /\ press[p] \in {"waiting", "woken"}
    /\ IF IsCurrent(answer) THEN Commit(p) /\ UNCHANGED pending
       ELSE press' = [press EXCEPT ![p] = "over"] /\ pending' = TRUE /\ UNCHANGED idle
    /\ UNCHANGED <<answer, requests, field, scenario, noDate, relative, shutting, unanswered>>

SessionOver(p) ==
    /\ press[p] = "running"
    /\ press' = [press EXCEPT ![p] = "over"] /\ idle' = TRUE
    /\ UNCHANGED <<answer, requests, field, scenario, noDate, relative, pending, shutting, unanswered>>

\* `FinishForCloseAsync`.
AbandonMoment ==
    /\ ~shutting /\ shutting' = TRUE
    /\ Answered(Abandon(answer))
    /\ UNCHANGED <<requests, field, scenario, noDate, relative, idle, unanswered>>

-----------------------------------------------------------------------------
RequestStep ==
    \E r \in requests :
        \/ QuietOver(r) \/ RequestCancelled(r)
        \/ \E date \in BOOLEAN : EngineAnswers(r, date)

MomentNext ==
    \/ ChooseScenario \/ FillRelative \/ ChangeZone \/ TypeDate \/ RequestStep \/ AbandonMoment
    \/ \E p \in Presses : PressStart(p) \/ LookAgain(p) \/ WaitIsOver(p) \/ SessionOver(p)

-----------------------------------------------------------------------------
Generation == 0..MaxAsked

\* The types of the variables.
MomentTypeOK ==
    /\ answer \in [asked : Generation, answered : Generation, running : Generation, begun : Generation,
                   put : SUBSET (1..MaxAsked)]
    /\ requests \subseteq [ticket : [run : 1..MaxAsked, generation : 1..MaxAsked],
                           kind : {"scenario", "relative"}, pc : {"quiet", "asked"}]
    /\ field \in Generation /\ scenario \in Generation /\ unanswered \in Generation
    /\ {noDate, relative, pending, shutting, idle} \subseteq BOOLEAN
    /\ press \in [Presses -> {"no", "waiting", "woken", "running", "over"}]

\* Once nothing is being computed the field holds the newest date asked for or typed, or the
\* engine had none to give: a late answer never overwrites it (R4-S25).
FieldIsTheNewest ==
    IsCurrent(answer) => field = answer.asked \/ unanswered = answer.asked

\* A session starts with the newest date, never with one a request was about to replace, nor
\* in place of a chosen scenario's missing date, nor under a closing window (StartAsync).
StartsWithTheNewest ==
    \A p \in Presses : press'[p] = "running" /\ press[p] # "running" =>
        /\ IsCurrent(answer) /\ ~noDate /\ ~shutting
        /\ \A q \in Presses : press[q] # "running"

\* A Start refused for a date still being computed comes back the moment that date lands.
RefusedOnlyWhilePending == pending => ~IsCurrent(answer)

\* A Start that waits is let go by the answer itself, not by the end of its wait.
StartIsHeld == IsCurrent(answer) /\ \E p \in Presses : press[p] \in {"waiting", "woken"}
AnswerEndsTheWait == StartIsHeld ~> ~StartIsHeld

\* A selected scenario's date is the one the field holds, unless it is being computed or the
\* panel says that there is none (the doc of CanStart).
SelectionIsTheField ==
    idle /\ scenario # 0 /\ IsCurrent(answer) => noDate \/ field = scenario

\* The date on the screen, and a Start that was refused, belong to the newest question.
DateIsTheNewest == MomentTypeOK /\ FieldIsTheNewest /\ RefusedOnlyWhilePending
=============================================================================
