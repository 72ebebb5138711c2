---------------------------- MODULE PanelSession ----------------------------
(***************************************************************************)
(* A session as the panel runs it (SessionViewModel.cs RunSessionAsync,    *)
(* Apply, RequestStop, FinishForCloseAsync; SessionResult.cs): connecting, *)
(* the launch, the pump that folds the core's events into the result, the *)
(* Stop, the window's close, the record in the history, and the way back   *)
(* to an idle form.                                                        *)
(*                                                                         *)
(* The stream under the pump is the one CoreClient hands on: what a core   *)
(* that keeps CoreOutput wrote, in its order, then its end.  An event is   *)
(* written when the panel takes it.  The panel's own commands are well     *)
(* formed; the core may still refuse one.                                  *)
(***************************************************************************)
EXTENDS Naturals

CONSTANT MaxSessions    \* bound: sessions one window starts

ASSUME PanelSessionAssumption == MaxSessions \in Nat

VARIABLES
    session,    \* sessions started so far; the one that runs is the last
    run,        \* the step of RunSessionAsync
    status,     \* StatusKind
    launched,   \* _launched
    stopRequested, \* _stopRequested
    closing,    \* _closing
    closeStage, \* MainWindow's _closeStage, and "late" when CloseWait ran out
    core,       \* how far the session's core has got
    disposing,  \* its client's one shutdown has begun
    command,    \* a command in flight has no answer yet
    facts,     \* the facts of _result the record is made of, and the sessions they are from
    record,     \* history: what the window recorded of each session
    took        \* history: the failure and the `ended` taken from the stream of this session

panelVars == <<session, run, status, launched, stopRequested, closing, closeStage,
               core, disposing, command, facts, record, took>>

Sessions == 1..MaxSessions
NoFacts == [verdict |-> "unknown", family |-> FALSE, ended |-> FALSE, from |-> {}]
NoRecord == [count |-> 0, verdict |-> "none", status |-> "none", from |-> {}]
TookNothing == [failure |-> "none", ended |-> FALSE, family |-> FALSE]

Terminal == {"ended", "refused", "did_not_take_effect", "core_stopped", "stopped", "core_unresponsive", "error"}

IsRunning == status = "running"
Idle == run = "idle"

PanelInit ==
    /\ session = 0 /\ run = "idle" /\ status = "idle"
    /\ launched = FALSE /\ stopRequested = FALSE /\ closing = FALSE /\ closeStage = "open"
    /\ core = "none" /\ disposing = FALSE /\ command = FALSE
    /\ facts = NoFacts /\ took = TookNothing
    /\ record = [s \in Sessions |-> NoRecord]

-----------------------------------------------------------------------------
(* RunSessionAsync up to the launch.                                       *)

\* Mutant: what the last session's core could not cover stays.
ResetKeeping(r) == [NoFacts EXCEPT !.from = r.from]

\* `ResetSession`.
Reset(r) == NoFacts

StartSession ==
    /\ Idle /\ ~closing /\ session < MaxSessions
    /\ session' = session + 1
    /\ run' = "planning" /\ status' = "connecting"
    /\ launched' = FALSE /\ stopRequested' = FALSE
    /\ facts' = Reset(facts) /\ took' = TookNothing
    /\ core' = "none" /\ disposing' = FALSE /\ command' = FALSE
    /\ UNCHANGED <<closing, closeStage, record>>

\* The plan read the target on a pool thread; the target may be none, or out of reach.
PlanRead ==
    /\ run = "planning"
    /\ \/ run' = "opening" /\ core' = "shaking" /\ UNCHANGED status
       \/ run' = "recording" /\ status' = "error" /\ UNCHANGED core
    /\ UNCHANGED <<session, launched, stopRequested, closing, closeStage, disposing, command, facts, record, took>>

\* Mutant: no look at the window before the launch.
MayLaunchAlways == TRUE

\* The last point before the application starts.
MayLaunch == ~closing

\* The core shook hands; `start` is sent in the same step.  Its pipe may be gone.
Launch ==
    /\ run = "opening" /\ core = "shaking"
    /\ IF MayLaunch
       THEN \/ /\ run' = "pumping" /\ launched' = TRUE /\ status' = "running" /\ core' = "starting"
            \/ run' = "recording" /\ status' = "error" /\ UNCHANGED <<launched, core>>
       ELSE run' = "recording" /\ UNCHANGED <<launched, status, core>>
    /\ UNCHANGED <<session, stopRequested, closing, closeStage, disposing, command, facts, record, took>>

\* No `ready` in time, a version or a bitness it cannot use, an error instead, or no core at all.
OpenRefused ==
    /\ run = "opening"
    /\ run' = "recording" /\ status' = "error"
    /\ UNCHANGED <<session, launched, stopRequested, closing, closeStage, core, disposing, command, facts, record, took>>

-----------------------------------------------------------------------------
(* The pump: `Apply` for each event of the core.                           *)

Take(from, to) ==
    /\ run = "pumping" /\ core = from /\ core' = to
    /\ UNCHANGED <<session, run, launched, stopRequested, closing, closeStage, disposing, record>>

Fact(r) == [r EXCEPT !.from = @ \cup {session}]

\* Mutant: `state` makes any session run.
CanReturnAlways == TRUE

CanReturnToRunning == status \notin Terminal \cup {"stopping"}

TakeState ==
    /\ Take("live", "live")
    /\ IF CanReturnToRunning THEN status' = "running" /\ facts' = Fact(facts)
       ELSE UNCHANGED <<status, facts>>
    /\ UNCHANGED <<command, took>>

TakeCoverage ==
    /\ core \in {"live", "judged"} /\ Take(core, core)
    /\ facts' = Fact(facts)
    /\ UNCHANGED <<status, command, took>>

\* A per-process verdict at the start: the session runs, or the core refused it.
TakeVerdict(verdict, refused) ==
    /\ Take("starting", IF refused THEN "failed" ELSE "live")
    /\ facts' = [Fact(facts) EXCEPT !.verdict = verdict]
    /\ status' = IF refused THEN "refused" ELSE status
    /\ took' = IF refused THEN [took EXCEPT !.failure = "refused"] ELSE took
    /\ UNCHANGED command

TakeVanished ==
    /\ Take("starting", "failed")
    /\ facts' = Fact(facts)
    /\ status' = "did_not_take_effect"
    /\ took' = [took EXCEPT !.failure = "did_not_take_effect"]
    /\ UNCHANGED command

\* The core could not start the session.
TakeStartError ==
    /\ Take("starting", "failed")
    /\ status' = IF status \in Terminal THEN status ELSE "error"
    /\ took' = [took EXCEPT !.failure = "error"]
    /\ facts' = Fact(facts) /\ UNCHANGED command

\* The answer to a command in flight: `ack`, or a refusal of that one command.
TakeAnswer(refused) ==
    /\ command /\ Take("live", "live")
    /\ command' = FALSE
    /\ status' = IF refused /\ status \notin Terminal \cup {"running"} THEN "error" ELSE status
    /\ facts' = IF refused THEN Fact(facts) ELSE facts
    /\ UNCHANGED took

TakeSessionVerdict(verdict) ==
    /\ Take("live", "judged")
    /\ facts' = [Fact(facts) EXCEPT !.verdict = verdict, !.family = TRUE]
    /\ took' = [took EXCEPT !.family = TRUE]
    /\ UNCHANGED <<status, command>>

\* Mutant: a late `ended` speaks over a failure.
EndedCountsAlways == TRUE

\* After a terminal outcome it is not looked at.
EndedCounts == status \notin Terminal

TakeEnded ==
    /\ \/ Take("judged", "left") \/ Take("failed", "left")
    /\ IF EndedCounts THEN status' = "ended" /\ facts' = [Fact(facts) EXCEPT !.ended = TRUE]
       ELSE UNCHANGED <<status, facts>>
    /\ took' = [took EXCEPT !.ended = TRUE]
    /\ UNCHANGED command

\* A core that dies, or is killed, says nothing more.
CoreDies ==
    /\ core \in {"shaking", "starting", "live", "failed", "judged"} /\ core' = "left"
    /\ UNCHANGED <<session, run, status, launched, stopRequested, closing, closeStage, disposing, command, facts, record, took>>

\* `OnStreamEnded`: the stream is over, or the idle watchdog spoke.
StreamEnds(watchdog) ==
    /\ run = "pumping"
    /\ watchdog \/ core = "left" \/ disposing
    /\ run' = "recording"
    /\ status' = CASE stopRequested -> "stopped"
                   [] ~stopRequested /\ status \in Terminal -> status
                   [] OTHER -> IF watchdog THEN "core_unresponsive" ELSE "core_stopped"
    /\ UNCHANGED <<session, launched, stopRequested, closing, closeStage, core, disposing, command, facts, record, took>>

-----------------------------------------------------------------------------
(* The way out.                                                            *)

\* Mutant: a stopped session is whole.
CutShortUnlessStopped == status \in {"core_stopped", "core_unresponsive"}

IsCutShort ==
    \/ status \in {"core_stopped", "core_unresponsive"}
    \/ status = "stopped" /\ ~facts.ended

RecordedVerdict ==
    IF status = "did_not_take_effect" \/ IsCutShort \/ facts.verdict = "unknown"
    THEN "undetermined" ELSE facts.verdict

\* Mutant: a write that fails ends the way out.
RecordSessionOrFail ==
    /\ run = "recording" /\ run' = "failed"
    /\ UNCHANGED <<session, status, launched, stopRequested, closing, closeStage, core, disposing, command, facts, record, took>>

\* `RecordSessionAsync`; its write to the store may fail and does not end the way out.
RecordSession ==
    /\ run = "recording" /\ run' = "closing"
    /\ record' = IF launched
                 THEN [record EXCEPT ![session] = [count |-> @.count + 1, verdict |-> RecordedVerdict,
                                                   status |-> status, from |-> facts.from]]
                 ELSE record
    /\ UNCHANGED <<session, status, launched, stopRequested, closing, closeStage, core, disposing, command, facts, took>>

\* `CloseSessionAsync` begins the client's dispose, or joins it.
CloseSession ==
    /\ run = "closing" /\ ~disposing
    /\ disposing' = TRUE
    /\ UNCHANGED <<session, run, status, launched, stopRequested, closing, closeStage, core, command, facts, record, took>>

\* Every dispose returns (CoreClient.EveryDisposeReturns); the core has left or was killed.
IdleAgain ==
    /\ run = "closing" /\ disposing
    /\ run' = "idle" /\ core' = "left"
    /\ UNCHANGED <<session, status, launched, stopRequested, closing, closeStage, disposing, command, facts, record, took>>

-----------------------------------------------------------------------------
(* The user.                                                               *)

\* A jump or a rate, in flight.
SendCommand ==
    /\ IsRunning /\ run = "pumping" /\ ~command /\ command' = TRUE
    /\ UNCHANGED <<session, run, status, launched, stopRequested, closing, closeStage, core, disposing, facts, record, took>>

Stop ==
    IF IsRunning /\ run = "pumping"
    THEN stopRequested' = TRUE /\ status' = "stopping" /\ disposing' = TRUE
    ELSE UNCHANGED <<stopRequested, status, disposing>>

RequestStop ==
    /\ IsRunning /\ Stop
    /\ UNCHANGED <<session, run, launched, closing, closeStage, core, command, facts, record, took>>

NewSession ==
    /\ Idle /\ status \in Terminal /\ ~closing
    /\ status' = "idle" /\ facts' = Reset(facts)
    /\ UNCHANGED <<session, run, launched, stopRequested, closing, closeStage, core, disposing, command, record, took>>

\* Mutant: the window does not wait for its session.
AfterCloseDone == "done"

\* A close is put off while a session runs.
AfterClose == IF Idle THEN "done" ELSE "finishing"

CloseWindow ==
    /\ closeStage = "open"
    /\ closing' = TRUE /\ Stop
    /\ closeStage' = AfterClose
    /\ UNCHANGED <<session, run, launched, core, command, facts, record, took>>

\* The run is over, or CloseWait is.
WindowCloses(late) ==
    /\ closeStage = "finishing" /\ (late \/ Idle)
    /\ closeStage' = IF Idle THEN "done" ELSE "late"
    /\ UNCHANGED <<session, run, status, launched, stopRequested, closing, core, disposing, command, facts, record, took>>

-----------------------------------------------------------------------------
Verdicts == {"works", "partial"}

TakeEvent ==
    \/ TakeState \/ TakeCoverage \/ TakeVanished \/ TakeStartError \/ TakeEnded
    \/ \E verdict \in Verdicts : TakeSessionVerdict(verdict) \/ TakeVerdict(verdict, FALSE)
    \/ TakeVerdict("fails", TRUE)
    \/ \E refused \in BOOLEAN : TakeAnswer(refused)

WindowStep ==
    \/ PlanRead \/ Launch \/ OpenRefused
    \/ RecordSession \/ CloseSession \/ IdleAgain
    \/ StreamEnds(FALSE)

PanelNext ==
    \/ StartSession \/ WindowStep \/ TakeEvent \/ CoreDies
    \/ StreamEnds(TRUE) \/ SendCommand \/ RequestStop \/ NewSession \/ CloseWindow
    \/ \E late \in BOOLEAN : WindowCloses(late)

-----------------------------------------------------------------------------
\* The types of the variables.
PanelTypeOK ==
    /\ session \in 0..MaxSessions
    /\ run \in {"idle", "planning", "opening", "pumping", "recording", "closing"}
    /\ status \in Terminal \cup {"idle", "connecting", "running", "stopping"}
    /\ {launched, stopRequested, closing, disposing, command} \subseteq BOOLEAN
    /\ closeStage \in {"open", "finishing", "late", "done"}
    /\ core \in {"none", "shaking", "starting", "live", "failed", "judged", "left"}
    /\ facts \in [verdict : {"unknown", "works", "partial", "fails"}, family : BOOLEAN,
                   ended : BOOLEAN, from : SUBSET Sessions]
    /\ \A s \in Sessions : record[s].count \in 0..2 /\ record[s].from \subseteq Sessions
    /\ took.failure \in {"none", "refused", "did_not_take_effect", "error"}

\* A session that was launched is in the history, once, by the time the window is usable again,
\* or gone in time; one that was not is not (R4-S24, R4/13).
RecordedBeforeTheEnd ==
    /\ closeStage = "done" => Idle
    /\ Idle /\ session > 0 => record[session].count = IF launched THEN 1 ELSE 0
    /\ \A s \in Sessions : record[s].count <= 1

\* No application is launched once the window has begun to close.
ClosingLaunchesNothing == launched' /\ ~launched => ~closing

\* A command goes to a session nobody has stopped: a late `state` event does not bring the
\* buttons back (CanReturnToRunning).
NothingSentAfterStop == command' /\ ~command => ~stopRequested

\* A record says only what its own session said.
RecordIsItsOwn == \A s \in Sessions : record[s].from \subseteq {s}

\* "works" in the history is the core's word on the whole family, of a session that ended.
WorksIsWhole ==
    \A s \in Sessions : record'[s].count > record[s].count /\ record'[s].verdict = "works" =>
        took.family /\ took.ended

\* A refusal, a failed start or a session that did not take effect stays that, whatever the
\* core says after it, unless the user stopped it (M-9).
FailureStands ==
    \A s \in Sessions : record'[s].count > record[s].count /\ took.failure # "none" =>
        record'[s].status \in {took.failure, "stopped"}

\* A session the core ended, or the user did, gives the window back.
SessionIsOver == run # "idle" /\ (core = "left" \/ disposing \/ (closing /\ ~launched))
EverySessionEnds == SessionIsOver ~> ~SessionIsOver

\* A session is recorded once, with facts of its own, before anything that follows its end.
RecordIsTrue == PanelTypeOK /\ RecordedBeforeTheEnd /\ RecordIsItsOwn

\* What a session came to stands against every line that comes late: no record says it worked that
\* did not see the end, no failure is talked over, and a Stop or a close is final.
ResultStands == WorksIsWhole /\ FailureStands /\ ClosingLaunchesNothing /\ NothingSentAfterStop
=============================================================================
