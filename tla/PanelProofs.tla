----------------------------- MODULE PanelProofs -----------------------------
(***************************************************************************)
(* Proofs about the panel's window: its session, PanelSession, for any     *)
(* number of sessions; its date field and Start, StartMoment, for any      *)
(* presses and questions; its calculator, Calculator, for any presses,     *)
(* edits, engine processes and turns of the clock.                         *)
(***************************************************************************)
EXTENDS MCPanel, TLAPS

-----------------------------------------------------------------------------
(* The session: the inductive invariant.                                   *)

Statuses == Terminal \cup {"idle", "connecting", "running", "stopping"}
AllFacts == [verdict : {"unknown", "works", "partial", "fails"}, family : BOOLEAN,
             ended : BOOLEAN, from : SUBSET Sessions]
Records  == [count : 0..1, verdict : {"none", "undetermined", "works", "partial", "fails"},
             status : Statuses \cup {"none"}, from : SUBSET Sessions]
Tooks    == [failure : {"none", "refused", "did_not_take_effect", "error"}, ended : BOOLEAN, family : BOOLEAN]

PanelTypes ==
    /\ session \in 0..MaxSessions
    /\ run \in {"idle", "planning", "opening", "pumping", "recording", "closing"}
    /\ status \in Statuses
    /\ launched \in BOOLEAN /\ stopRequested \in BOOLEAN /\ closing \in BOOLEAN
    /\ disposing \in BOOLEAN /\ command \in BOOLEAN
    /\ closeStage \in {"open", "finishing", "late", "done"}
    /\ core \in {"none", "shaking", "starting", "live", "failed", "judged", "left"}
    /\ facts \in AllFacts /\ took \in Tooks
    /\ record \in [Sessions -> Records]

\* Which sessions have a record, and that the one that runs has none yet.
RecordInv ==
    /\ run # "idle" => session > 0
    /\ run \in {"planning", "opening"} => ~launched
    /\ run = "pumping" => launched
    /\ \A s \in Sessions : s > session => record[s].count = 0
    /\ run \in {"closing", "idle"} /\ session > 0 => record[session].count = IF launched THEN 1 ELSE 0
    /\ run \notin {"closing", "idle"} => record[session].count = 0

\* Facts and records are of one session each, and a window that closes starts none.
OwnInv ==
    /\ facts.from \subseteq {session}
    /\ RecordIsItsOwn
    /\ closeStage # "open" => closing
    /\ closeStage = "done" => Idle

\* How the status follows what was taken from the stream.
StreamInv ==
    /\ run \in {"planning", "opening"} => ~stopRequested /\ facts = NoFacts /\ took = TookNothing
    /\ stopRequested => status # "running"
    /\ facts.ended => took.family /\ took.ended
    /\ run = "pumping" => status \in Terminal \cup {"running", "stopping"}
    /\ run = "pumping" /\ ~stopRequested => status \notin {"stopping", "stopped", "core_stopped", "core_unresponsive"}
    /\ run = "pumping" /\ core \in {"starting", "live", "judged"} /\ ~stopRequested => status = "running"
    /\ run = "pumping" /\ core = "starting" =>
            status \in {"running", "stopping"} /\ took.failure = "none" /\ facts.verdict = "unknown" /\ ~facts.ended
    /\ run = "pumping" /\ core = "failed" => status \in Terminal
    /\ run = "pumping" /\ core = "judged" => took.family
    /\ run = "pumping" => core \in {"starting", "live", "failed", "judged", "left"}

\* What a status says of the session it is the status of.
StatusIsFounded ==
    /\ status = "ended" => facts.ended
    /\ status = "refused" => facts.verdict # "works"
    /\ status = "error" => facts.verdict # "works"
StatusInv ==
    /\ run = "pumping" /\ ~stopRequested => StatusIsFounded /\ took.failure \in {"none", status}
    /\ run = "recording" /\ launched =>
            /\ StatusIsFounded /\ status \in Terminal
            /\ took.failure \in {"none", status} \/ status = "stopped"

PanelInv == PanelTypes /\ RecordInv /\ OwnInv /\ StreamInv /\ StatusInv

LEMMA PanelStarts == PanelInit => PanelInv
<1> SUFFICES ASSUME PanelInit PROVE PanelInv OBVIOUS
<1>1. NoFacts \in AllFacts /\ TookNothing \in Tooks /\ NoRecord \in Records
  BY DEF NoFacts, AllFacts, TookNothing, Tooks, NoRecord, Records, Statuses, Terminal
<1>2. PanelTypes
  <2>1. record \in [Sessions -> Records] BY <1>1 DEF PanelInit
  <2>2. session \in 0..MaxSessions BY PanelSessionAssumption DEF PanelInit
  <2> QED BY <1>1, <2>1, <2>2 DEF PanelInit, PanelTypes, Statuses
<1>3. RecordInv /\ OwnInv
  BY PanelSessionAssumption DEF PanelInit, RecordInv, OwnInv, RecordIsItsOwn, NoRecord, NoFacts, Idle, Sessions
<1>4. StreamInv /\ StatusInv
  BY DEF PanelInit, StreamInv, StatusInv, StatusIsFounded, NoFacts, TookNothing
<1> QED BY <1>2, <1>3, <1>4 DEF PanelInv

\* A fact is of the session that runs.
LEMMA FactTypes ==
    /\ NoFacts \in AllFacts
    /\ \A r \in AllFacts, s \in Sessions : \A v \in {"unknown", "works", "partial", "fails"} :
        /\ [r EXCEPT !.from = @ \cup {s}] \in AllFacts
        /\ [[r EXCEPT !.from = @ \cup {s}] EXCEPT !.ended = TRUE] \in AllFacts
        /\ [[r EXCEPT !.from = @ \cup {s}] EXCEPT !.verdict = v] \in AllFacts
        /\ [[r EXCEPT !.from = @ \cup {s}] EXCEPT !.verdict = v, !.family = TRUE] \in AllFacts
<1> SUFFICES ASSUME NEW r \in AllFacts, NEW s \in Sessions,
                    NEW v \in {"unknown", "works", "partial", "fails"}
             PROVE  [r EXCEPT !.from = @ \cup {s}] \in AllFacts
  BY DEF AllFacts, NoFacts
<1> QED BY DEF AllFacts

LEMMA PanelSteps ==
    ASSUME PanelInv, [PanelNext]_panelVars
    PROVE  PanelInv'
<1> USE PanelSessionAssumption DEF PanelInv
<1>1. ASSUME StartSession PROVE PanelInv'
  <2>1. PanelTypes'
    <3>0. run = "pumping" => session \in Sessions
      BY PanelSessionAssumption DEF PanelTypes, RecordInv, Sessions
    <3>1. facts' \in AllFacts
      BY <1>1, <3>0, FactTypes DEF PanelTypes, Verdicts, StartSession, Reset, Idle
    <3>2. record' \in [Sessions -> Records]
      BY <1>1 DEF PanelTypes, StartSession, Reset, Idle, Sessions, NoFacts, NoRecord, TookNothing, Terminal, Statuses, AllFacts, Records, Tooks
    <3>3. took' \in Tooks
      BY <1>1 DEF PanelTypes, StartSession, Reset, Idle, Sessions, NoFacts, NoRecord, TookNothing, Terminal, Statuses, AllFacts, Records, Tooks
    <3>4. status' \in Statuses BY <1>1 DEF PanelTypes, StartSession, Reset, Idle, Statuses, Terminal
    <3> QED
      <4>1. session' \in 0..MaxSessions BY <1>1, PanelSessionAssumption DEF PanelTypes, StartSession
      <4> QED BY <1>1, <3>1, <3>2, <3>3, <3>4, <4>1 DEF PanelTypes, StartSession
  <2>2. RecordInv'
    BY <1>1 DEF PanelTypes, RecordInv, StartSession, Reset, Idle, Sessions, NoFacts, NoRecord, TookNothing, Terminal, Statuses, AllFacts, Records, Tooks
  <2>3. OwnInv'
    BY <1>1 DEF PanelTypes, RecordInv, OwnInv, RecordIsItsOwn, StartSession, Reset, Idle, Sessions, NoFacts, AllFacts, Records
  <2>4. StreamInv'
    BY <1>1 DEF PanelTypes, StreamInv, StartSession, Reset, Idle, Sessions, NoFacts, NoRecord, TookNothing, Terminal, Statuses, AllFacts, Records, Tooks
  <2>5. StatusInv'
    BY <1>1 DEF PanelTypes, RecordInv, StreamInv, StatusInv, StatusIsFounded, StartSession, Reset, Idle, Terminal, NoFacts, TookNothing, AllFacts, Tooks
  <2> QED BY <2>1, <2>2, <2>3, <2>4, <2>5
<1>2. ASSUME PlanRead PROVE PanelInv'
  <2>1. PanelTypes'
    <3>0. run = "pumping" => session \in Sessions
      BY PanelSessionAssumption DEF PanelTypes, RecordInv, Sessions
    <3>1. facts' \in AllFacts BY <1>2, <3>0, FactTypes DEF PanelTypes, Verdicts, PlanRead
    <3>2. record' \in [Sessions -> Records]
      BY <1>2 DEF PanelTypes, PlanRead, Sessions, NoFacts, NoRecord, TookNothing, Terminal, Statuses, AllFacts, Records, Tooks
    <3>3. took' \in Tooks
      BY <1>2 DEF PanelTypes, PlanRead, Sessions, NoFacts, NoRecord, TookNothing, Terminal, Statuses, AllFacts, Records, Tooks
    <3>4. status' \in Statuses BY <1>2 DEF PanelTypes, PlanRead, Statuses, Terminal
    <3> QED BY <1>2, <3>1, <3>2, <3>3, <3>4, PanelSessionAssumption DEF PanelTypes, PlanRead
  <2>2. RecordInv'
    BY <1>2 DEF PanelTypes, RecordInv, PlanRead, Sessions, NoFacts, NoRecord, TookNothing, Terminal, Statuses, AllFacts, Records, Tooks, Idle
  <2>3. OwnInv'
    BY <1>2 DEF PanelTypes, RecordInv, OwnInv, RecordIsItsOwn, PlanRead, Sessions, NoFacts, AllFacts, Records, Idle
  <2>4. StreamInv'
    BY <1>2 DEF PanelTypes, StreamInv, PlanRead, Sessions, NoFacts, NoRecord, TookNothing, Terminal, Statuses, AllFacts, Records, Tooks
  <2>5. StatusInv'
    BY <1>2 DEF PanelTypes, RecordInv, StreamInv, StatusInv, StatusIsFounded, PlanRead, Terminal, NoFacts, TookNothing, AllFacts, Tooks
  <2> QED BY <2>1, <2>2, <2>3, <2>4, <2>5
<1>3. ASSUME Launch PROVE PanelInv'
  <2>1. PanelTypes'
    <3>0. run = "pumping" => session \in Sessions
      BY PanelSessionAssumption DEF PanelTypes, RecordInv, Sessions
    <3>1. facts' \in AllFacts BY <1>3, <3>0, FactTypes DEF PanelTypes, Verdicts, Launch, MayLaunch
    <3>2. record' \in [Sessions -> Records]
      BY <1>3 DEF PanelTypes, Launch, MayLaunch, Sessions, NoFacts, NoRecord, TookNothing, Terminal, Statuses, AllFacts, Records, Tooks
    <3>3. took' \in Tooks
      BY <1>3 DEF PanelTypes, Launch, MayLaunch, Sessions, NoFacts, NoRecord, TookNothing, Terminal, Statuses, AllFacts, Records, Tooks
    <3>4. status' \in Statuses BY <1>3 DEF PanelTypes, Launch, MayLaunch, Statuses, Terminal
    <3> QED BY <1>3, <3>1, <3>2, <3>3, <3>4, PanelSessionAssumption DEF PanelTypes, Launch, MayLaunch
  <2>2. RecordInv'
    BY <1>3 DEF PanelTypes, RecordInv, Launch, MayLaunch, Sessions, NoFacts, NoRecord, TookNothing, Terminal, Statuses, AllFacts, Records, Tooks, Idle
  <2>3. OwnInv'
    BY <1>3 DEF PanelTypes, RecordInv, OwnInv, RecordIsItsOwn, Launch, MayLaunch, Sessions, NoFacts, AllFacts, Records, Idle
  <2>4. StreamInv'
    BY <1>3 DEF PanelTypes, StreamInv, Launch, MayLaunch, Sessions, NoFacts, NoRecord, TookNothing, Terminal, Statuses, AllFacts, Records, Tooks
  <2>5. StatusInv'
    BY <1>3 DEF PanelTypes, RecordInv, StreamInv, StatusInv, StatusIsFounded, Launch, MayLaunch, Terminal, NoFacts, TookNothing, AllFacts, Tooks
  <2> QED BY <2>1, <2>2, <2>3, <2>4, <2>5
<1>4. ASSUME OpenRefused PROVE PanelInv'
  <2>1. PanelTypes'
    <3>0. run = "pumping" => session \in Sessions
      BY PanelSessionAssumption DEF PanelTypes, RecordInv, Sessions
    <3>1. facts' \in AllFacts BY <1>4, <3>0, FactTypes DEF PanelTypes, Verdicts, OpenRefused
    <3>2. record' \in [Sessions -> Records]
      BY <1>4 DEF PanelTypes, OpenRefused, Sessions, NoFacts, NoRecord, TookNothing, Terminal, Statuses, AllFacts, Records, Tooks
    <3>3. took' \in Tooks
      BY <1>4 DEF PanelTypes, OpenRefused, Sessions, NoFacts, NoRecord, TookNothing, Terminal, Statuses, AllFacts, Records, Tooks
    <3>4. status' \in Statuses BY <1>4 DEF PanelTypes, OpenRefused, Statuses, Terminal
    <3> QED BY <1>4, <3>1, <3>2, <3>3, <3>4, PanelSessionAssumption DEF PanelTypes, OpenRefused
  <2>2. RecordInv'
    BY <1>4 DEF PanelTypes, RecordInv, OpenRefused, Sessions, NoFacts, NoRecord, TookNothing, Terminal, Statuses, AllFacts, Records, Tooks, Idle
  <2>3. OwnInv'
    BY <1>4 DEF PanelTypes, RecordInv, OwnInv, RecordIsItsOwn, OpenRefused, Sessions, NoFacts, AllFacts, Records, Idle
  <2>4. StreamInv'
    BY <1>4 DEF PanelTypes, StreamInv, OpenRefused, Sessions, NoFacts, NoRecord, TookNothing, Terminal, Statuses, AllFacts, Records, Tooks
  <2>5. StatusInv'
    BY <1>4 DEF PanelTypes, RecordInv, StreamInv, StatusInv, StatusIsFounded, OpenRefused, Terminal, NoFacts, TookNothing, AllFacts, Tooks
  <2> QED BY <2>1, <2>2, <2>3, <2>4, <2>5
<1>5. ASSUME TakeState PROVE PanelInv'
  <2>1. PanelTypes'
    <3>0. run = "pumping" => session \in Sessions
      BY PanelSessionAssumption DEF PanelTypes, RecordInv, Sessions
    <3>1. facts' \in AllFacts
      BY <1>5, <3>0, FactTypes DEF PanelTypes, Verdicts, TakeState, Take, Fact, CanReturnToRunning
    <3>2. record' \in [Sessions -> Records]
      BY <1>5 DEF PanelTypes, TakeState, Take, Fact, CanReturnToRunning, Sessions, NoFacts, NoRecord, TookNothing, Terminal, Statuses, AllFacts, Records, Tooks
    <3>3. took' \in Tooks
      BY <1>5 DEF PanelTypes, TakeState, Take, Fact, CanReturnToRunning, Sessions, NoFacts, NoRecord, TookNothing, Terminal, Statuses, AllFacts, Records, Tooks
    <3>4. status' \in Statuses
      BY <1>5 DEF PanelTypes, TakeState, Take, Fact, CanReturnToRunning, Statuses, Terminal
    <3> QED
      BY <1>5, <3>1, <3>2, <3>3, <3>4, PanelSessionAssumption DEF PanelTypes, TakeState, Take, Fact, CanReturnToRunning
  <2>2. RecordInv'
    BY <1>5 DEF PanelTypes, RecordInv, TakeState, Take, Fact, CanReturnToRunning, Sessions, NoFacts, NoRecord, TookNothing, Terminal, Statuses, AllFacts, Records, Tooks, Idle
  <2>3. OwnInv'
    BY <1>5 DEF PanelTypes, RecordInv, OwnInv, RecordIsItsOwn, TakeState, Take, Fact, CanReturnToRunning, Sessions, NoFacts, AllFacts, Records, Idle
  <2>4. StreamInv'
    BY <1>5 DEF PanelTypes, StreamInv, TakeState, Take, Fact, CanReturnToRunning, Sessions, NoFacts, NoRecord, TookNothing, Terminal, Statuses, AllFacts, Records, Tooks
  <2>5. StatusInv'
    BY <1>5 DEF PanelTypes, RecordInv, StreamInv, StatusInv, StatusIsFounded, TakeState, Take, Fact, CanReturnToRunning, Terminal, NoFacts, TookNothing, AllFacts, Tooks
  <2> QED BY <2>1, <2>2, <2>3, <2>4, <2>5
<1>6. ASSUME TakeCoverage PROVE PanelInv'
  <2>1. PanelTypes'
    <3>0. run = "pumping" => session \in Sessions
      BY PanelSessionAssumption DEF PanelTypes, RecordInv, Sessions
    <3>1. facts' \in AllFacts
      BY <1>6, <3>0, FactTypes DEF PanelTypes, Verdicts, TakeCoverage, Take, Fact
    <3>2. record' \in [Sessions -> Records]
      BY <1>6 DEF PanelTypes, TakeCoverage, Take, Fact, Sessions, NoFacts, NoRecord, TookNothing, Terminal, Statuses, AllFacts, Records, Tooks
    <3>3. took' \in Tooks
      BY <1>6 DEF PanelTypes, TakeCoverage, Take, Fact, Sessions, NoFacts, NoRecord, TookNothing, Terminal, Statuses, AllFacts, Records, Tooks
    <3>4. status' \in Statuses BY <1>6 DEF PanelTypes, TakeCoverage, Take, Fact, Statuses, Terminal
    <3> QED
      BY <1>6, <3>1, <3>2, <3>3, <3>4, PanelSessionAssumption DEF PanelTypes, TakeCoverage, Take, Fact
  <2>2. RecordInv'
    BY <1>6 DEF PanelTypes, RecordInv, TakeCoverage, Take, Fact, Sessions, NoFacts, NoRecord, TookNothing, Terminal, Statuses, AllFacts, Records, Tooks, Idle
  <2>3. OwnInv'
    BY <1>6 DEF PanelTypes, RecordInv, OwnInv, RecordIsItsOwn, TakeCoverage, Take, Fact, Sessions, NoFacts, AllFacts, Records, Idle
  <2>4. StreamInv'
    BY <1>6 DEF PanelTypes, StreamInv, TakeCoverage, Take, Fact, Sessions, NoFacts, NoRecord, TookNothing, Terminal, Statuses, AllFacts, Records, Tooks
  <2>5. StatusInv'
    BY <1>6 DEF PanelTypes, RecordInv, StreamInv, StatusInv, StatusIsFounded, TakeCoverage, Take, Fact, Terminal, NoFacts, TookNothing, AllFacts, Tooks
  <2> QED BY <2>1, <2>2, <2>3, <2>4, <2>5
<1>7. ASSUME NEW verdict \in Verdicts \cup {"fails"}, NEW refused \in BOOLEAN, (refused => verdict = "fails"), TakeVerdict(verdict, refused) PROVE PanelInv'
  <2>1. PanelTypes'
    <3>0. run = "pumping" => session \in Sessions
      BY PanelSessionAssumption DEF PanelTypes, RecordInv, Sessions
    <3>1. facts' \in AllFacts
      BY <1>7, <3>0, FactTypes DEF PanelTypes, TakeVerdict, Take, Fact, Verdicts
    <3>2. record' \in [Sessions -> Records]
      BY <1>7 DEF PanelTypes, TakeVerdict, Take, Fact, Verdicts, Sessions, NoFacts, NoRecord, TookNothing, Terminal, Statuses, AllFacts, Records, Tooks
    <3>3. took' \in Tooks
      BY <1>7 DEF PanelTypes, TakeVerdict, Take, Fact, Verdicts, Sessions, NoFacts, NoRecord, TookNothing, Terminal, Statuses, AllFacts, Records, Tooks
    <3>4. status' \in Statuses
      BY <1>7 DEF PanelTypes, TakeVerdict, Take, Fact, Verdicts, Statuses, Terminal
    <3> QED
      BY <1>7, <3>1, <3>2, <3>3, <3>4, PanelSessionAssumption DEF PanelTypes, TakeVerdict, Take, Fact, Verdicts
  <2>2. RecordInv'
    BY <1>7 DEF PanelTypes, RecordInv, TakeVerdict, Take, Fact, Verdicts, Sessions, NoFacts, NoRecord, TookNothing, Terminal, Statuses, AllFacts, Records, Tooks, Idle
  <2>3. OwnInv'
    BY <1>7 DEF PanelTypes, RecordInv, OwnInv, RecordIsItsOwn, TakeVerdict, Take, Fact, Verdicts, Sessions, NoFacts, AllFacts, Records, Idle
  <2>4. StreamInv'
    BY <1>7 DEF PanelTypes, StreamInv, TakeVerdict, Take, Fact, Verdicts, Sessions, NoFacts, NoRecord, TookNothing, Terminal, Statuses, AllFacts, Records, Tooks
  <2>5. StatusInv'
    BY <1>7 DEF PanelTypes, RecordInv, StreamInv, StatusInv, StatusIsFounded, TakeVerdict, Take, Fact, Verdicts, Terminal, NoFacts, TookNothing, AllFacts, Tooks
  <2> QED BY <2>1, <2>2, <2>3, <2>4, <2>5
<1>8. ASSUME TakeVanished PROVE PanelInv'
  <2>1. PanelTypes'
    <3>0. run = "pumping" => session \in Sessions
      BY PanelSessionAssumption DEF PanelTypes, RecordInv, Sessions
    <3>1. facts' \in AllFacts
      BY <1>8, <3>0, FactTypes DEF PanelTypes, Verdicts, TakeVanished, Take, Fact
    <3>2. record' \in [Sessions -> Records]
      BY <1>8 DEF PanelTypes, TakeVanished, Take, Fact, Sessions, NoFacts, NoRecord, TookNothing, Terminal, Statuses, AllFacts, Records, Tooks
    <3>3. took' \in Tooks
      BY <1>8 DEF PanelTypes, TakeVanished, Take, Fact, Sessions, NoFacts, NoRecord, TookNothing, Terminal, Statuses, AllFacts, Records, Tooks
    <3>4. status' \in Statuses BY <1>8 DEF PanelTypes, TakeVanished, Take, Fact, Statuses, Terminal
    <3> QED
      BY <1>8, <3>1, <3>2, <3>3, <3>4, PanelSessionAssumption DEF PanelTypes, TakeVanished, Take, Fact
  <2>2. RecordInv'
    BY <1>8 DEF PanelTypes, RecordInv, TakeVanished, Take, Fact, Sessions, NoFacts, NoRecord, TookNothing, Terminal, Statuses, AllFacts, Records, Tooks, Idle
  <2>3. OwnInv'
    BY <1>8 DEF PanelTypes, RecordInv, OwnInv, RecordIsItsOwn, TakeVanished, Take, Fact, Sessions, NoFacts, AllFacts, Records, Idle
  <2>4. StreamInv'
    BY <1>8 DEF PanelTypes, StreamInv, TakeVanished, Take, Fact, Sessions, NoFacts, NoRecord, TookNothing, Terminal, Statuses, AllFacts, Records, Tooks
  <2>5. StatusInv'
    BY <1>8 DEF PanelTypes, RecordInv, StreamInv, StatusInv, StatusIsFounded, TakeVanished, Take, Fact, Terminal, NoFacts, TookNothing, AllFacts, Tooks
  <2> QED BY <2>1, <2>2, <2>3, <2>4, <2>5
<1>9. ASSUME TakeStartError PROVE PanelInv'
  <2>1. PanelTypes'
    <3>0. run = "pumping" => session \in Sessions
      BY PanelSessionAssumption DEF PanelTypes, RecordInv, Sessions
    <3>1. facts' \in AllFacts
      BY <1>9, <3>0, FactTypes DEF PanelTypes, Verdicts, TakeStartError, Take, Fact
    <3>2. record' \in [Sessions -> Records]
      BY <1>9 DEF PanelTypes, TakeStartError, Take, Fact, Sessions, NoFacts, NoRecord, TookNothing, Terminal, Statuses, AllFacts, Records, Tooks
    <3>3. took' \in Tooks
      BY <1>9 DEF PanelTypes, TakeStartError, Take, Fact, Sessions, NoFacts, NoRecord, TookNothing, Terminal, Statuses, AllFacts, Records, Tooks
    <3>4. status' \in Statuses
      BY <1>9 DEF PanelTypes, TakeStartError, Take, Fact, Statuses, Terminal
    <3> QED
      BY <1>9, <3>1, <3>2, <3>3, <3>4, PanelSessionAssumption DEF PanelTypes, TakeStartError, Take, Fact
  <2>2. RecordInv'
    BY <1>9 DEF PanelTypes, RecordInv, TakeStartError, Take, Fact, Sessions, NoFacts, NoRecord, TookNothing, Terminal, Statuses, AllFacts, Records, Tooks, Idle
  <2>3. OwnInv'
    BY <1>9 DEF PanelTypes, RecordInv, OwnInv, RecordIsItsOwn, TakeStartError, Take, Fact, Sessions, NoFacts, AllFacts, Records, Idle
  <2>4. StreamInv'
    BY <1>9 DEF PanelTypes, StreamInv, TakeStartError, Take, Fact, Sessions, NoFacts, NoRecord, TookNothing, Terminal, Statuses, AllFacts, Records, Tooks
  <2>5. StatusInv'
    BY <1>9 DEF PanelTypes, RecordInv, StreamInv, StatusInv, StatusIsFounded, TakeStartError, Take, Fact, Terminal, NoFacts, TookNothing, AllFacts, Tooks
  <2> QED BY <2>1, <2>2, <2>3, <2>4, <2>5
<1>10. ASSUME NEW refused \in BOOLEAN, TakeAnswer(refused) PROVE PanelInv'
  <2>1. PanelTypes'
    <3>0. run = "pumping" => session \in Sessions
      BY PanelSessionAssumption DEF PanelTypes, RecordInv, Sessions
    <3>1. facts' \in AllFacts
      BY <1>10, <3>0, FactTypes DEF PanelTypes, Verdicts, TakeAnswer, Take, Fact
    <3>2. record' \in [Sessions -> Records]
      BY <1>10 DEF PanelTypes, TakeAnswer, Take, Fact, Sessions, NoFacts, NoRecord, TookNothing, Terminal, Statuses, AllFacts, Records, Tooks
    <3>3. took' \in Tooks
      BY <1>10 DEF PanelTypes, TakeAnswer, Take, Fact, Sessions, NoFacts, NoRecord, TookNothing, Terminal, Statuses, AllFacts, Records, Tooks
    <3>4. status' \in Statuses BY <1>10 DEF PanelTypes, TakeAnswer, Take, Fact, Statuses, Terminal
    <3> QED
      BY <1>10, <3>1, <3>2, <3>3, <3>4, PanelSessionAssumption DEF PanelTypes, TakeAnswer, Take, Fact
  <2>2. RecordInv'
    BY <1>10 DEF PanelTypes, RecordInv, TakeAnswer, Take, Fact, Sessions, NoFacts, NoRecord, TookNothing, Terminal, Statuses, AllFacts, Records, Tooks, Idle
  <2>3. OwnInv'
    BY <1>10 DEF PanelTypes, RecordInv, OwnInv, RecordIsItsOwn, TakeAnswer, Take, Fact, Sessions, NoFacts, AllFacts, Records, Idle
  <2>4. StreamInv'
    BY <1>10 DEF PanelTypes, StreamInv, TakeAnswer, Take, Fact, Sessions, NoFacts, NoRecord, TookNothing, Terminal, Statuses, AllFacts, Records, Tooks
  <2>5. StatusInv'
    BY <1>10 DEF PanelTypes, RecordInv, StreamInv, StatusInv, StatusIsFounded, TakeAnswer, Take, Fact, Terminal, NoFacts, TookNothing, AllFacts, Tooks
  <2> QED BY <2>1, <2>2, <2>3, <2>4, <2>5
<1>11. ASSUME NEW verdict \in Verdicts, TakeSessionVerdict(verdict) PROVE PanelInv'
  <2>1. PanelTypes'
    <3>0. run = "pumping" => session \in Sessions
      BY PanelSessionAssumption DEF PanelTypes, RecordInv, Sessions
    <3>1. facts' \in AllFacts
      BY <1>11, <3>0, FactTypes DEF PanelTypes, TakeSessionVerdict, Take, Fact, Verdicts
    <3>2. record' \in [Sessions -> Records]
      BY <1>11 DEF PanelTypes, TakeSessionVerdict, Take, Fact, Verdicts, Sessions, NoFacts, NoRecord, TookNothing, Terminal, Statuses, AllFacts, Records, Tooks
    <3>3. took' \in Tooks
      BY <1>11 DEF PanelTypes, TakeSessionVerdict, Take, Fact, Verdicts, Sessions, NoFacts, NoRecord, TookNothing, Terminal, Statuses, AllFacts, Records, Tooks
    <3>4. status' \in Statuses
      BY <1>11 DEF PanelTypes, TakeSessionVerdict, Take, Fact, Verdicts, Statuses, Terminal
    <3> QED
      BY <1>11, <3>1, <3>2, <3>3, <3>4, PanelSessionAssumption DEF PanelTypes, TakeSessionVerdict, Take, Fact, Verdicts
  <2>2. RecordInv'
    BY <1>11 DEF PanelTypes, RecordInv, TakeSessionVerdict, Take, Fact, Verdicts, Sessions, NoFacts, NoRecord, TookNothing, Terminal, Statuses, AllFacts, Records, Tooks, Idle
  <2>3. OwnInv'
    BY <1>11 DEF PanelTypes, RecordInv, OwnInv, RecordIsItsOwn, TakeSessionVerdict, Take, Fact, Verdicts, Sessions, NoFacts, AllFacts, Records, Idle
  <2>4. StreamInv'
    BY <1>11 DEF PanelTypes, StreamInv, TakeSessionVerdict, Take, Fact, Verdicts, Sessions, NoFacts, NoRecord, TookNothing, Terminal, Statuses, AllFacts, Records, Tooks
  <2>5. StatusInv'
    BY <1>11 DEF PanelTypes, RecordInv, StreamInv, StatusInv, StatusIsFounded, TakeSessionVerdict, Take, Fact, Verdicts, Terminal, NoFacts, TookNothing, AllFacts, Tooks
  <2> QED BY <2>1, <2>2, <2>3, <2>4, <2>5
<1>12. ASSUME TakeEnded PROVE PanelInv'
  <2>1. PanelTypes'
    <3>0. run = "pumping" => session \in Sessions
      BY PanelSessionAssumption DEF PanelTypes, RecordInv, Sessions
    <3>1. facts' \in AllFacts
      BY <1>12, <3>0, FactTypes DEF PanelTypes, Verdicts, TakeEnded, Take, Fact, EndedCounts
    <3>2. record' \in [Sessions -> Records]
      BY <1>12 DEF PanelTypes, TakeEnded, Take, Fact, EndedCounts, Sessions, NoFacts, NoRecord, TookNothing, Terminal, Statuses, AllFacts, Records, Tooks
    <3>3. took' \in Tooks
      BY <1>12 DEF PanelTypes, TakeEnded, Take, Fact, EndedCounts, Sessions, NoFacts, NoRecord, TookNothing, Terminal, Statuses, AllFacts, Records, Tooks
    <3>4. status' \in Statuses
      BY <1>12 DEF PanelTypes, TakeEnded, Take, Fact, EndedCounts, Statuses, Terminal
    <3> QED
      BY <1>12, <3>1, <3>2, <3>3, <3>4, PanelSessionAssumption DEF PanelTypes, TakeEnded, Take, Fact, EndedCounts
  <2>2. RecordInv'
    BY <1>12 DEF PanelTypes, RecordInv, TakeEnded, Take, Fact, EndedCounts, Sessions, NoFacts, NoRecord, TookNothing, Terminal, Statuses, AllFacts, Records, Tooks, Idle
  <2>3. OwnInv'
    <3>1. facts'.from \subseteq {session} /\ session' = session
      BY <1>12 DEF PanelTypes, OwnInv, TakeEnded, Take, Fact, AllFacts
    <3> QED BY <1>12, <3>1 DEF OwnInv, TakeEnded, Take, RecordIsItsOwn, Idle
  <2>4. StreamInv'
    BY <1>12 DEF PanelTypes, StreamInv, TakeEnded, Take, Fact, EndedCounts, Sessions, NoFacts, NoRecord, TookNothing, Terminal, Statuses, AllFacts, Records, Tooks
  <2>5. StatusInv'
    <3>1. CASE EndedCounts
      <4>1. facts'.ended /\ status' = "ended" /\ core = "judged"
        BY <1>12, <3>1 DEF PanelTypes, StreamInv, TakeEnded, Take, Fact, AllFacts, EndedCounts
      <4>2. ~stopRequested => took'.failure = "none"
        BY <1>12, <3>1, <4>1 DEF PanelTypes, StreamInv, StatusInv, TakeEnded, Take, Tooks, Terminal, EndedCounts
      <4> QED BY <1>12, <4>1, <4>2 DEF StatusInv, StatusIsFounded, TakeEnded, Take
    <3>2. CASE ~EndedCounts
      <4>1. UNCHANGED <<status, facts, run, stopRequested, launched>> /\ run = "pumping" /\ took'.failure = took.failure
        BY <1>12, <3>2 DEF PanelTypes, TakeEnded, Take, Tooks
      <4> QED BY <4>1 DEF StatusInv, StatusIsFounded
    <3> QED BY <3>1, <3>2
  <2> QED BY <2>1, <2>2, <2>3, <2>4, <2>5
<1>13. ASSUME CoreDies PROVE PanelInv'
  <2>1. PanelTypes'
    <3>0. run = "pumping" => session \in Sessions
      BY PanelSessionAssumption DEF PanelTypes, RecordInv, Sessions
    <3>1. facts' \in AllFacts BY <1>13, <3>0, FactTypes DEF PanelTypes, Verdicts, CoreDies
    <3>2. record' \in [Sessions -> Records]
      BY <1>13 DEF PanelTypes, CoreDies, Sessions, NoFacts, NoRecord, TookNothing, Terminal, Statuses, AllFacts, Records, Tooks
    <3>3. took' \in Tooks
      BY <1>13 DEF PanelTypes, CoreDies, Sessions, NoFacts, NoRecord, TookNothing, Terminal, Statuses, AllFacts, Records, Tooks
    <3>4. status' \in Statuses BY <1>13 DEF PanelTypes, CoreDies, Statuses, Terminal
    <3> QED BY <1>13, <3>1, <3>2, <3>3, <3>4, PanelSessionAssumption DEF PanelTypes, CoreDies
  <2>2. RecordInv'
    BY <1>13 DEF PanelTypes, RecordInv, CoreDies, Sessions, NoFacts, NoRecord, TookNothing, Terminal, Statuses, AllFacts, Records, Tooks, Idle
  <2>3. OwnInv'
    BY <1>13 DEF PanelTypes, RecordInv, OwnInv, RecordIsItsOwn, CoreDies, Sessions, NoFacts, AllFacts, Records, Idle
  <2>4. StreamInv'
    BY <1>13 DEF PanelTypes, StreamInv, CoreDies, Sessions, NoFacts, NoRecord, TookNothing, Terminal, Statuses, AllFacts, Records, Tooks
  <2>5. StatusInv'
    BY <1>13 DEF PanelTypes, RecordInv, StreamInv, StatusInv, StatusIsFounded, CoreDies, Terminal, NoFacts, TookNothing, AllFacts, Tooks
  <2> QED BY <2>1, <2>2, <2>3, <2>4, <2>5
<1>14. ASSUME NEW watchdog \in BOOLEAN, StreamEnds(watchdog) PROVE PanelInv'
  <2>1. PanelTypes'
    <3>0. run = "pumping" => session \in Sessions
      BY PanelSessionAssumption DEF PanelTypes, RecordInv, Sessions
    <3>1. facts' \in AllFacts BY <1>14, <3>0, FactTypes DEF PanelTypes, Verdicts, StreamEnds
    <3>2. record' \in [Sessions -> Records]
      BY <1>14 DEF PanelTypes, StreamEnds, Sessions, NoFacts, NoRecord, TookNothing, Terminal, Statuses, AllFacts, Records, Tooks
    <3>3. took' \in Tooks
      BY <1>14 DEF PanelTypes, StreamEnds, Sessions, NoFacts, NoRecord, TookNothing, Terminal, Statuses, AllFacts, Records, Tooks
    <3>4. status' \in Statuses BY <1>14 DEF PanelTypes, StreamEnds, Statuses, Terminal
    <3> QED BY <1>14, <3>1, <3>2, <3>3, <3>4, PanelSessionAssumption DEF PanelTypes, StreamEnds
  <2>2. RecordInv'
    BY <1>14 DEF PanelTypes, RecordInv, StreamEnds, Sessions, NoFacts, NoRecord, TookNothing, Terminal, Statuses, AllFacts, Records, Tooks, Idle
  <2>3. OwnInv'
    BY <1>14 DEF PanelTypes, RecordInv, OwnInv, RecordIsItsOwn, StreamEnds, Sessions, NoFacts, AllFacts, Records, Idle
  <2>4. StreamInv'
    BY <1>14 DEF PanelTypes, StreamInv, StreamEnds, Sessions, NoFacts, NoRecord, TookNothing, Terminal, Statuses, AllFacts, Records, Tooks
  <2>5. StatusInv'
    BY <1>14 DEF PanelTypes, RecordInv, StreamInv, StatusInv, StatusIsFounded, StreamEnds, Terminal, NoFacts, TookNothing, AllFacts, Tooks
  <2> QED BY <2>1, <2>2, <2>3, <2>4, <2>5
<1>15. ASSUME RecordSession PROVE PanelInv'
  <2>1. PanelTypes'
    <3>0. run = "pumping" => session \in Sessions
      BY PanelSessionAssumption DEF PanelTypes, RecordInv, Sessions
    <3>1. facts' \in AllFacts
      BY <1>15, <3>0, FactTypes DEF PanelTypes, Verdicts, RecordSession, RecordedVerdict, IsCutShort
    <3>2. record' \in [Sessions -> Records]
      <4>1. session \in Sessions
        BY <1>15, PanelSessionAssumption DEF PanelTypes, RecordInv, RecordSession, Sessions
      <4>2. record[session].count = 0 /\ record[session] \in Records
        BY <1>15, <4>1 DEF PanelTypes, RecordInv, RecordSession
      <4>3. RecordedVerdict \in {"undetermined", "works", "partial", "fails"} /\ facts.from \subseteq Sessions
        BY DEF PanelTypes, RecordedVerdict, AllFacts
      <4>4. [count |-> record[session].count + 1, verdict |-> RecordedVerdict,
             status |-> status, from |-> facts.from] \in Records
        BY <4>2, <4>3 DEF Records, PanelTypes
      <4> QED BY <1>15, <4>1, <4>4 DEF PanelTypes, RecordSession
    <3>3. took' \in Tooks
      BY <1>15 DEF PanelTypes, RecordSession, RecordedVerdict, IsCutShort, Sessions, NoFacts, NoRecord, TookNothing, Terminal, Statuses, AllFacts, Records, Tooks
    <3>4. status' \in Statuses
      BY <1>15 DEF PanelTypes, RecordSession, RecordedVerdict, IsCutShort, Statuses, Terminal
    <3> QED
      BY <1>15, <3>1, <3>2, <3>3, <3>4, PanelSessionAssumption DEF PanelTypes, RecordSession, RecordedVerdict, IsCutShort
  <2>2. RecordInv'
    BY <1>15 DEF PanelTypes, RecordInv, RecordSession, RecordedVerdict, IsCutShort, Sessions, NoFacts, NoRecord, TookNothing, Terminal, Statuses, AllFacts, Records, Tooks, Idle
  <2>3. OwnInv'
    BY <1>15 DEF PanelTypes, RecordInv, OwnInv, RecordIsItsOwn, RecordSession, RecordedVerdict, IsCutShort, Sessions, NoFacts, AllFacts, Records, Idle
  <2>4. StreamInv'
    BY <1>15 DEF PanelTypes, StreamInv, RecordSession, RecordedVerdict, IsCutShort, Sessions, NoFacts, NoRecord, TookNothing, Terminal, Statuses, AllFacts, Records, Tooks
  <2>5. StatusInv'
    BY <1>15 DEF PanelTypes, RecordInv, StreamInv, StatusInv, StatusIsFounded, RecordSession, RecordedVerdict, IsCutShort, Terminal, NoFacts, TookNothing, AllFacts, Tooks
  <2> QED BY <2>1, <2>2, <2>3, <2>4, <2>5
<1>16. ASSUME CloseSession PROVE PanelInv'
  <2>1. PanelTypes'
    <3>0. run = "pumping" => session \in Sessions
      BY PanelSessionAssumption DEF PanelTypes, RecordInv, Sessions
    <3>1. facts' \in AllFacts BY <1>16, <3>0, FactTypes DEF PanelTypes, Verdicts, CloseSession
    <3>2. record' \in [Sessions -> Records]
      BY <1>16 DEF PanelTypes, CloseSession, Sessions, NoFacts, NoRecord, TookNothing, Terminal, Statuses, AllFacts, Records, Tooks
    <3>3. took' \in Tooks
      BY <1>16 DEF PanelTypes, CloseSession, Sessions, NoFacts, NoRecord, TookNothing, Terminal, Statuses, AllFacts, Records, Tooks
    <3>4. status' \in Statuses BY <1>16 DEF PanelTypes, CloseSession, Statuses, Terminal
    <3> QED BY <1>16, <3>1, <3>2, <3>3, <3>4, PanelSessionAssumption DEF PanelTypes, CloseSession
  <2>2. RecordInv'
    BY <1>16 DEF PanelTypes, RecordInv, CloseSession, Sessions, NoFacts, NoRecord, TookNothing, Terminal, Statuses, AllFacts, Records, Tooks, Idle
  <2>3. OwnInv'
    BY <1>16 DEF PanelTypes, RecordInv, OwnInv, RecordIsItsOwn, CloseSession, Sessions, NoFacts, AllFacts, Records, Idle
  <2>4. StreamInv'
    BY <1>16 DEF PanelTypes, StreamInv, CloseSession, Sessions, NoFacts, NoRecord, TookNothing, Terminal, Statuses, AllFacts, Records, Tooks
  <2>5. StatusInv'
    BY <1>16 DEF PanelTypes, RecordInv, StreamInv, StatusInv, StatusIsFounded, CloseSession, Terminal, NoFacts, TookNothing, AllFacts, Tooks
  <2> QED BY <2>1, <2>2, <2>3, <2>4, <2>5
<1>17. ASSUME IdleAgain PROVE PanelInv'
  <2>1. PanelTypes'
    <3>0. run = "pumping" => session \in Sessions
      BY PanelSessionAssumption DEF PanelTypes, RecordInv, Sessions
    <3>1. facts' \in AllFacts BY <1>17, <3>0, FactTypes DEF PanelTypes, Verdicts, IdleAgain, Idle
    <3>2. record' \in [Sessions -> Records]
      BY <1>17 DEF PanelTypes, IdleAgain, Idle, Sessions, NoFacts, NoRecord, TookNothing, Terminal, Statuses, AllFacts, Records, Tooks
    <3>3. took' \in Tooks
      BY <1>17 DEF PanelTypes, IdleAgain, Idle, Sessions, NoFacts, NoRecord, TookNothing, Terminal, Statuses, AllFacts, Records, Tooks
    <3>4. status' \in Statuses BY <1>17 DEF PanelTypes, IdleAgain, Idle, Statuses, Terminal
    <3> QED BY <1>17, <3>1, <3>2, <3>3, <3>4, PanelSessionAssumption DEF PanelTypes, IdleAgain, Idle
  <2>2. RecordInv'
    BY <1>17 DEF PanelTypes, RecordInv, IdleAgain, Idle, Sessions, NoFacts, NoRecord, TookNothing, Terminal, Statuses, AllFacts, Records, Tooks
  <2>3. OwnInv'
    BY <1>17 DEF PanelTypes, RecordInv, OwnInv, RecordIsItsOwn, IdleAgain, Idle, Sessions, NoFacts, AllFacts, Records
  <2>4. StreamInv'
    BY <1>17 DEF PanelTypes, StreamInv, IdleAgain, Idle, Sessions, NoFacts, NoRecord, TookNothing, Terminal, Statuses, AllFacts, Records, Tooks
  <2>5. StatusInv'
    BY <1>17 DEF PanelTypes, RecordInv, StreamInv, StatusInv, StatusIsFounded, IdleAgain, Idle, Terminal, NoFacts, TookNothing, AllFacts, Tooks
  <2> QED BY <2>1, <2>2, <2>3, <2>4, <2>5
<1>18. ASSUME SendCommand PROVE PanelInv'
  <2>1. PanelTypes'
    <3>0. run = "pumping" => session \in Sessions
      BY PanelSessionAssumption DEF PanelTypes, RecordInv, Sessions
    <3>1. facts' \in AllFacts
      BY <1>18, <3>0, FactTypes DEF PanelTypes, Verdicts, SendCommand, IsRunning
    <3>2. record' \in [Sessions -> Records]
      BY <1>18 DEF PanelTypes, SendCommand, IsRunning, Sessions, NoFacts, NoRecord, TookNothing, Terminal, Statuses, AllFacts, Records, Tooks
    <3>3. took' \in Tooks
      BY <1>18 DEF PanelTypes, SendCommand, IsRunning, Sessions, NoFacts, NoRecord, TookNothing, Terminal, Statuses, AllFacts, Records, Tooks
    <3>4. status' \in Statuses BY <1>18 DEF PanelTypes, SendCommand, IsRunning, Statuses, Terminal
    <3> QED
      BY <1>18, <3>1, <3>2, <3>3, <3>4, PanelSessionAssumption DEF PanelTypes, SendCommand, IsRunning
  <2>2. RecordInv'
    BY <1>18 DEF PanelTypes, RecordInv, SendCommand, IsRunning, Sessions, NoFacts, NoRecord, TookNothing, Terminal, Statuses, AllFacts, Records, Tooks, Idle
  <2>3. OwnInv'
    BY <1>18 DEF PanelTypes, RecordInv, OwnInv, RecordIsItsOwn, SendCommand, IsRunning, Sessions, NoFacts, AllFacts, Records, Idle
  <2>4. StreamInv'
    BY <1>18 DEF PanelTypes, StreamInv, SendCommand, IsRunning, Sessions, NoFacts, NoRecord, TookNothing, Terminal, Statuses, AllFacts, Records, Tooks
  <2>5. StatusInv'
    BY <1>18 DEF PanelTypes, RecordInv, StreamInv, StatusInv, StatusIsFounded, SendCommand, IsRunning, Terminal, NoFacts, TookNothing, AllFacts, Tooks
  <2> QED BY <2>1, <2>2, <2>3, <2>4, <2>5
<1>19. ASSUME RequestStop PROVE PanelInv'
  <2>1. PanelTypes'
    <3>0. run = "pumping" => session \in Sessions
      BY PanelSessionAssumption DEF PanelTypes, RecordInv, Sessions
    <3>1. facts' \in AllFacts
      BY <1>19, <3>0, FactTypes DEF PanelTypes, Verdicts, RequestStop, Stop, IsRunning
    <3>2. record' \in [Sessions -> Records]
      BY <1>19 DEF PanelTypes, RequestStop, Stop, IsRunning, Sessions, NoFacts, NoRecord, TookNothing, Terminal, Statuses, AllFacts, Records, Tooks
    <3>3. took' \in Tooks
      BY <1>19 DEF PanelTypes, RequestStop, Stop, IsRunning, Sessions, NoFacts, NoRecord, TookNothing, Terminal, Statuses, AllFacts, Records, Tooks
    <3>4. status' \in Statuses
      BY <1>19 DEF PanelTypes, RequestStop, Stop, IsRunning, Statuses, Terminal
    <3> QED
      BY <1>19, <3>1, <3>2, <3>3, <3>4, PanelSessionAssumption DEF PanelTypes, RequestStop, Stop, IsRunning
  <2>2. RecordInv'
    BY <1>19 DEF PanelTypes, RecordInv, RequestStop, Stop, IsRunning, Sessions, NoFacts, NoRecord, TookNothing, Terminal, Statuses, AllFacts, Records, Tooks, Idle
  <2>3. OwnInv'
    BY <1>19 DEF PanelTypes, RecordInv, OwnInv, RecordIsItsOwn, RequestStop, Stop, IsRunning, Sessions, NoFacts, AllFacts, Records, Idle
  <2>4. StreamInv'
    BY <1>19 DEF PanelTypes, StreamInv, RequestStop, Stop, IsRunning, Sessions, NoFacts, NoRecord, TookNothing, Terminal, Statuses, AllFacts, Records, Tooks
  <2>5. StatusInv'
    BY <1>19 DEF PanelTypes, RecordInv, StreamInv, StatusInv, StatusIsFounded, RequestStop, Stop, IsRunning, Terminal, NoFacts, TookNothing, AllFacts, Tooks
  <2> QED BY <2>1, <2>2, <2>3, <2>4, <2>5
<1>20. ASSUME NewSession PROVE PanelInv'
  <2>1. PanelTypes'
    <3>0. run = "pumping" => session \in Sessions
      BY PanelSessionAssumption DEF PanelTypes, RecordInv, Sessions
    <3>1. facts' \in AllFacts
      BY <1>20, <3>0, FactTypes DEF PanelTypes, Verdicts, NewSession, Reset, Idle
    <3>2. record' \in [Sessions -> Records]
      BY <1>20 DEF PanelTypes, NewSession, Reset, Idle, Sessions, NoFacts, NoRecord, TookNothing, Terminal, Statuses, AllFacts, Records, Tooks
    <3>3. took' \in Tooks
      BY <1>20 DEF PanelTypes, NewSession, Reset, Idle, Sessions, NoFacts, NoRecord, TookNothing, Terminal, Statuses, AllFacts, Records, Tooks
    <3>4. status' \in Statuses BY <1>20 DEF PanelTypes, NewSession, Reset, Idle, Statuses, Terminal
    <3> QED
      BY <1>20, <3>1, <3>2, <3>3, <3>4, PanelSessionAssumption DEF PanelTypes, NewSession, Reset, Idle
  <2>2. RecordInv'
    BY <1>20 DEF PanelTypes, RecordInv, NewSession, Reset, Idle, Sessions, NoFacts, NoRecord, TookNothing, Terminal, Statuses, AllFacts, Records, Tooks
  <2>3. OwnInv'
    BY <1>20 DEF PanelTypes, RecordInv, OwnInv, RecordIsItsOwn, NewSession, Reset, Idle, Sessions, NoFacts, AllFacts, Records
  <2>4. StreamInv'
    BY <1>20 DEF PanelTypes, StreamInv, NewSession, Reset, Idle, Sessions, NoFacts, NoRecord, TookNothing, Terminal, Statuses, AllFacts, Records, Tooks
  <2>5. StatusInv'
    BY <1>20 DEF PanelTypes, RecordInv, StreamInv, StatusInv, StatusIsFounded, NewSession, Reset, Idle, Terminal, NoFacts, TookNothing, AllFacts, Tooks
  <2> QED BY <2>1, <2>2, <2>3, <2>4, <2>5
<1>21. ASSUME CloseWindow PROVE PanelInv'
  <2>1. PanelTypes'
    <3>0. run = "pumping" => session \in Sessions
      BY PanelSessionAssumption DEF PanelTypes, RecordInv, Sessions
    <3>1. facts' \in AllFacts
      BY <1>21, <3>0, FactTypes DEF PanelTypes, Verdicts, CloseWindow, Stop, AfterClose, IsRunning, Idle
    <3>2. record' \in [Sessions -> Records]
      BY <1>21 DEF PanelTypes, CloseWindow, Stop, AfterClose, IsRunning, Idle, Sessions, NoFacts, NoRecord, TookNothing, Terminal, Statuses, AllFacts, Records, Tooks
    <3>3. took' \in Tooks
      BY <1>21 DEF PanelTypes, CloseWindow, Stop, AfterClose, IsRunning, Idle, Sessions, NoFacts, NoRecord, TookNothing, Terminal, Statuses, AllFacts, Records, Tooks
    <3>4. status' \in Statuses
      BY <1>21 DEF PanelTypes, CloseWindow, Stop, AfterClose, IsRunning, Idle, Statuses, Terminal
    <3> QED
      BY <1>21, <3>1, <3>2, <3>3, <3>4, PanelSessionAssumption DEF PanelTypes, CloseWindow, Stop, AfterClose, IsRunning, Idle
  <2>2. RecordInv'
    BY <1>21 DEF PanelTypes, RecordInv, CloseWindow, Stop, AfterClose, IsRunning, Idle, Sessions, NoFacts, NoRecord, TookNothing, Terminal, Statuses, AllFacts, Records, Tooks
  <2>3. OwnInv'
    BY <1>21 DEF PanelTypes, RecordInv, OwnInv, RecordIsItsOwn, CloseWindow, Stop, AfterClose, IsRunning, Idle, Sessions, NoFacts, AllFacts, Records
  <2>4. StreamInv'
    BY <1>21 DEF PanelTypes, StreamInv, CloseWindow, Stop, AfterClose, IsRunning, Idle, Sessions, NoFacts, NoRecord, TookNothing, Terminal, Statuses, AllFacts, Records, Tooks
  <2>5. StatusInv'
    BY <1>21 DEF PanelTypes, RecordInv, StreamInv, StatusInv, StatusIsFounded, CloseWindow, Stop, AfterClose, IsRunning, Idle, Terminal, NoFacts, TookNothing, AllFacts, Tooks
  <2> QED BY <2>1, <2>2, <2>3, <2>4, <2>5
<1>22. ASSUME NEW late \in BOOLEAN, WindowCloses(late) PROVE PanelInv'
  <2>1. PanelTypes'
    <3>0. run = "pumping" => session \in Sessions
      BY PanelSessionAssumption DEF PanelTypes, RecordInv, Sessions
    <3>1. facts' \in AllFacts BY <1>22, <3>0, FactTypes DEF PanelTypes, Verdicts, WindowCloses, Idle
    <3>2. record' \in [Sessions -> Records]
      BY <1>22 DEF PanelTypes, WindowCloses, Idle, Sessions, NoFacts, NoRecord, TookNothing, Terminal, Statuses, AllFacts, Records, Tooks
    <3>3. took' \in Tooks
      BY <1>22 DEF PanelTypes, WindowCloses, Idle, Sessions, NoFacts, NoRecord, TookNothing, Terminal, Statuses, AllFacts, Records, Tooks
    <3>4. status' \in Statuses BY <1>22 DEF PanelTypes, WindowCloses, Idle, Statuses, Terminal
    <3> QED BY <1>22, <3>1, <3>2, <3>3, <3>4, PanelSessionAssumption DEF PanelTypes, WindowCloses, Idle
  <2>2. RecordInv'
    BY <1>22 DEF PanelTypes, RecordInv, WindowCloses, Idle, Sessions, NoFacts, NoRecord, TookNothing, Terminal, Statuses, AllFacts, Records, Tooks
  <2>3. OwnInv'
    BY <1>22 DEF PanelTypes, RecordInv, OwnInv, RecordIsItsOwn, WindowCloses, Idle, Sessions, NoFacts, AllFacts, Records
  <2>4. StreamInv'
    BY <1>22 DEF PanelTypes, StreamInv, WindowCloses, Idle, Sessions, NoFacts, NoRecord, TookNothing, Terminal, Statuses, AllFacts, Records, Tooks
  <2>5. StatusInv'
    BY <1>22 DEF PanelTypes, RecordInv, StreamInv, StatusInv, StatusIsFounded, WindowCloses, Idle, Terminal, NoFacts, TookNothing, AllFacts, Tooks
  <2> QED BY <2>1, <2>2, <2>3, <2>4, <2>5
<1>23. CASE UNCHANGED panelVars
  BY <1>23 DEF panelVars, PanelTypes, RecordInv, OwnInv, RecordIsItsOwn, StreamInv, StatusInv,
      StatusIsFounded, Idle
<1> QED
  BY <1>1, <1>2, <1>3, <1>4, <1>5, <1>6, <1>7, <1>8, <1>9, <1>10, <1>11, <1>12, <1>13, <1>14, <1>15, <1>16, <1>17, <1>18, <1>19, <1>20, <1>21, <1>22, <1>23
  DEF PanelNext, WindowStep, TakeEvent

-----------------------------------------------------------------------------
(* The session: what follows.                                              *)

LEMMA PanelInvHolds == Spec => []PanelInv
<1>1. Init => PanelInv BY PanelStarts DEF Init
<1>2. PanelInv /\ [Next]_vars => PanelInv' BY PanelSteps DEF Next, vars, windowVars
<1> QED BY <1>1, <1>2, PTL DEF Spec

LEMMA PanelTypesAre == PanelInv => PanelTypeOK
<1> SUFFICES ASSUME PanelInv PROVE PanelTypeOK OBVIOUS
<1>1. {launched, stopRequested, closing, disposing, command} \subseteq BOOLEAN
  BY DEF PanelInv, PanelTypes
<1>2. \A s \in Sessions : record[s].count \in 0..2 /\ record[s].from \subseteq Sessions
  BY DEF PanelInv, PanelTypes, Records
<1>3. facts \in [verdict : {"unknown", "works", "partial", "fails"}, family : BOOLEAN,
                 ended : BOOLEAN, from : SUBSET Sessions]
  BY DEF PanelInv, PanelTypes, AllFacts
<1>4. took.failure \in {"none", "refused", "did_not_take_effect", "error"}
  BY DEF PanelInv, PanelTypes, Tooks
<1> QED BY <1>1, <1>2, <1>3, <1>4 DEF PanelInv, PanelTypes, PanelTypeOK, Statuses

LEMMA RecordFollows == PanelInv => RecordIsTrue
<1> SUFFICES ASSUME PanelInv PROVE RecordIsTrue OBVIOUS
<1>1. RecordedBeforeTheEnd
  BY PanelSessionAssumption
  DEF PanelInv, PanelTypes, RecordInv, OwnInv, RecordedBeforeTheEnd, Records, Idle
<1> QED BY <1>1, PanelTypesAre DEF PanelInv, OwnInv, RecordIsTrue

\* What a session came to: a record says what its stream said, and nothing is launched or sent
\* once the window closes or the session is stopped.
LEMMA ResultFollows == ASSUME PanelInv, PanelNext PROVE ResultStands
<1>1. ClosingLaunchesNothing
  <2> SUFFICES ASSUME launched' /\ ~launched PROVE ~closing BY DEF ClosingLaunchesNothing
  <2>1. Launch
    BY DEF PanelNext, WindowStep, TakeEvent, StartSession, PlanRead, Launch, OpenRefused, TakeState, TakeCoverage,
        TakeVerdict, TakeVanished, TakeStartError, TakeAnswer, TakeSessionVerdict, TakeEnded, Take, CoreDies,
        StreamEnds, RecordSession, CloseSession, IdleAgain, SendCommand, RequestStop, NewSession, CloseWindow,
        WindowCloses
  <2> QED BY <2>1 DEF Launch, MayLaunch
<1>2. NothingSentAfterStop
  <2> SUFFICES ASSUME command' /\ ~command PROVE ~stopRequested BY DEF NothingSentAfterStop
  <2>1. SendCommand
    BY DEF PanelNext, WindowStep, TakeEvent, StartSession, PlanRead, Launch, OpenRefused, TakeState, TakeCoverage,
        TakeVerdict, TakeVanished, TakeStartError, TakeAnswer, TakeSessionVerdict, TakeEnded, Take, CoreDies,
        StreamEnds, RecordSession, CloseSession, IdleAgain, SendCommand, RequestStop, NewSession, CloseWindow,
        WindowCloses
  <2> QED BY <2>1 DEF SendCommand, IsRunning, PanelInv, StreamInv
<1>3. ASSUME NEW s \in Sessions, record'[s].count > record[s].count
      PROVE  /\ s = session /\ run = "recording" /\ launched
             /\ record'[s].verdict = RecordedVerdict /\ record'[s].status = status
  <2>1. UNCHANGED record \/ RecordSession
    BY DEF PanelNext, WindowStep, TakeEvent, StartSession, PlanRead, Launch, OpenRefused, TakeState, TakeCoverage,
        TakeVerdict, TakeVanished, TakeStartError, TakeAnswer, TakeSessionVerdict, TakeEnded, Take, CoreDies,
        StreamEnds, RecordSession, CloseSession, IdleAgain, SendCommand, RequestStop, NewSession, CloseWindow,
        WindowCloses
  <2>2. record[s].count \in 0..1 BY DEF PanelInv, PanelTypes, Records
  <2>3. RecordSession /\ record' # record BY <1>3, <2>1, <2>2
  <2> QED BY <1>3, <2>2, <2>3 DEF RecordSession, PanelInv, PanelTypes
<1>4. WorksIsWhole
  BY <1>3 DEF WorksIsWhole, RecordedVerdict, IsCutShort, PanelInv, PanelTypes, StreamInv, StatusInv, StatusIsFounded, Terminal
<1>5. FailureStands BY <1>3 DEF FailureStands, PanelInv, StatusInv
<1> QED BY <1>1, <1>2, <1>4, <1>5 DEF ResultStands

\* For any number of sessions one window starts: a session that was launched is in the history
\* once, with facts of its own, before the window is usable again or gone (RecordSessionAsync,
\* FinishForCloseAsync).
THEOREM RecordsHold == Spec => []RecordsAreTrue
<1>1. PanelInv => RecordsAreTrue BY RecordFollows DEF RecordsAreTrue
<1> QED BY <1>1, PanelInvHolds, PTL

\* For any number of sessions: what a session came to stands against every line that comes late,
\* nothing is launched under a closing window, and no command follows a Stop.
THEOREM ResultsHold == Spec => ResultsStand
<1>1. PanelInv /\ [Next]_vars => [subject = "session" => ResultStands]_panelVars
  BY ResultFollows DEF Next, vars, windowVars
<1> QED BY <1>1, PanelInvHolds, PTL DEF Spec, ResultsStand

-----------------------------------------------------------------------------
(* The panel's question (LatestAnswer.cs), of which the date field and the *)
(* calculator each have one.                                               *)

\* What is kept of a question, within bounds on the questions and on the runs begun for them.
AnswersOf(questions, begins) ==
    [asked : 0..questions, answered : 0..questions, running : 0..begins, begun : 0..begins, put : SUBSET (1..begins)]

\* Nothing is answered before it is asked, and the run whose answer would be taken is the last one begun.
Sound(a) == a.answered <= a.asked /\ a.running \in {0, a.begun}

-----------------------------------------------------------------------------
(* The date field and Start.                                               *)

Requests == [ticket : [run : 1..MaxAsked, generation : 1..MaxAsked],
             kind : {"scenario", "relative"}, pc : {"quiet", "asked"}]
PressSteps == {"no", "waiting", "woken", "running", "over"}

MomentTypes ==
    /\ answer \in AnswersOf(MaxAsked, MaxAsked) /\ requests \subseteq Requests
    /\ field \in Generation /\ scenario \in Generation /\ unanswered \in Generation
    /\ noDate \in BOOLEAN /\ relative \in BOOLEAN /\ pending \in BOOLEAN
    /\ shutting \in BOOLEAN /\ idle \in BOOLEAN
    /\ press \in [Presses -> PressSteps]

\* A run is begun for a question of its own.
AnswerInv == Sound(answer) /\ answer.begun <= answer.asked

\* One session at a time.
OneRuns ==
    /\ idle => \A p \in Presses : press[p] # "running"
    /\ \A p, q \in Presses : press[p] = "running" /\ press[q] = "running" => p = q

MomentInv == MomentTypes /\ AnswerInv /\ FieldIsTheNewest /\ RefusedOnlyWhilePending /\ OneRuns

-----------------------------------------------------------------------------
(* The calculator.                                                         *)

Runs == [ticket : [run : 1..MaxRuns, generation : 1..MaxEdits], builder : 1..(MaxEdits + 1), clock : 0..MaxClock]
Shown == [builder : 0..(MaxEdits + 1), clock : 0..MaxClock]
TapStates == [pc : {"no", "waiting", "woken", "took", "nothing"}, clock : 0..MaxClock]

CalcTypes ==
    /\ latest \in AnswersOf(MaxEdits, MaxRuns) /\ runs \subseteq Runs
    /\ builder \in 1..(MaxEdits + 1) /\ clock \in 0..MaxClock /\ askedClock \in 0..MaxClock
    /\ computed \in BOOLEAN /\ quiet \in BOOLEAN /\ abandoned \in BOOLEAN /\ due \in 0..2
    /\ shown \in Shown
    /\ tap \in [Taps -> TapStates]

\* Before the calculator is first shown nothing is asked of it.
FreshInv == ~computed => latest.asked = 0 /\ shown = Nothing /\ due = 0 /\ ~quiet

\* The builder moves on only with a question, and the clock a run was begun at with the run.
BuilderInv == builder <= latest.asked + 1 /\ askedClock <= clock

\* A run that has not come back: its number is its own, the builder is the one of its question,
\* and it is put aside unless it is the last one begun.
RunsInv ==
    /\ \A r \in runs :
        /\ r.ticket.run <= latest.begun /\ r.ticket.generation <= latest.asked /\ r.clock <= clock
        /\ r.ticket.generation = latest.asked => r.builder = builder
        /\ r.ticket.run \in latest.put \/ r.ticket.run = latest.running
        /\ r.ticket.run = latest.begun => r.clock = askedClock
    /\ \A r, s \in runs : r.ticket.run = s.ticket.run => r = s

\* What is shown once nothing is asked is the builder's own, by a clock no older than the question;
\* a press that waits is no younger than that question.
ShownInv ==
    /\ IsCurrent(latest) /\ HasResult => shown.builder = builder /\ shown.clock >= askedClock
    /\ \A t \in Taps : tap[t].pc \in {"waiting", "woken"} => tap[t].clock <= askedClock

CalculatorInv == CalcTypes /\ Sound(latest) /\ FreshInv /\ BuilderInv /\ RunsInv /\ ShownInv

LEMMA PutIs ==
    ASSUME NEW A \in Nat, NEW R \in Nat, NEW a \in AnswersOf(A, R)
    PROVE  Put(a) \in SUBSET (1..R) /\ a.put \subseteq Put(a) /\ (a.running # 0 => a.running \in Put(a))
BY DEF AnswersOf, Put

LEMMA AskIs ==
    ASSUME NEW A \in Nat, NEW R \in Nat, NEW a \in AnswersOf(A, R), a.asked < A
    PROVE  /\ Ask(a) \in AnswersOf(A, R)
           /\ Ask(a).asked = a.asked + 1 /\ Ask(a).answered = a.answered
           /\ Ask(a).running = 0 /\ Ask(a).begun = a.begun /\ Ask(a).put = Put(a)
<1> DEFINE b == [a EXCEPT !.asked = a.asked + 1]
           c == [b EXCEPT !.answered = a.answered]
           d == [c EXCEPT !.running = 0]
<1>1. Ask(a) = [d EXCEPT !.put = Put(a)] BY DEF Ask, Change
<1>2. a.asked + 1 \in 0..A /\ a.answered \in 0..A /\ 0 \in 0..R BY DEF AnswersOf
<1>3. b \in AnswersOf(A, R) /\ c \in AnswersOf(A, R)
  <2>1. b \in AnswersOf(A, R) BY <1>2 DEF AnswersOf
  <2> QED BY <1>2, <2>1 DEF AnswersOf
<1>4. d \in AnswersOf(A, R) BY <1>2, <1>3 DEF AnswersOf
<1>5. Ask(a) \in AnswersOf(A, R) BY <1>1, <1>4, PutIs DEF AnswersOf
<1> QED BY <1>1, <1>5 DEF AnswersOf

LEMMA SettleIs ==
    ASSUME NEW A \in Nat, NEW R \in Nat, NEW a \in AnswersOf(A, R), a.asked < A
    PROVE  /\ Settle(a) \in AnswersOf(A, R)
           /\ Settle(a).asked = a.asked + 1 /\ Settle(a).answered = a.asked + 1
           /\ Settle(a).running = 0 /\ Settle(a).begun = a.begun /\ Settle(a).put = Put(a)
<1> DEFINE b == [a EXCEPT !.asked = a.asked + 1]
           c == [b EXCEPT !.answered = a.asked + 1]
           d == [c EXCEPT !.running = 0]
<1>1. Settle(a) = [d EXCEPT !.put = Put(a)] BY DEF Settle, Change
<1>2. a.asked + 1 \in 0..A /\ 0 \in 0..R BY DEF AnswersOf
<1>3. b \in AnswersOf(A, R) /\ c \in AnswersOf(A, R)
  <2>1. b \in AnswersOf(A, R) BY <1>2 DEF AnswersOf
  <2> QED BY <1>2, <2>1 DEF AnswersOf
<1>4. d \in AnswersOf(A, R) BY <1>2, <1>3 DEF AnswersOf
<1>5. Settle(a) \in AnswersOf(A, R) BY <1>1, <1>4, PutIs DEF AnswersOf
<1> QED BY <1>1, <1>5 DEF AnswersOf

LEMMA BeginIs ==
    ASSUME NEW A \in Nat, NEW R \in Nat, NEW a \in AnswersOf(A, R), a.begun < R
    PROVE  /\ Begin(a) \in AnswersOf(A, R)
           /\ Begin(a).asked = a.asked /\ Begin(a).answered = a.answered
           /\ Begin(a).running = a.begun + 1 /\ Begin(a).begun = a.begun + 1 /\ Begin(a).put = Put(a)
<1> DEFINE b == [a EXCEPT !.begun = a.begun + 1]
           c == [b EXCEPT !.running = a.begun + 1]
<1>1. Begin(a) = [c EXCEPT !.put = Put(a)] BY DEF Begin
<1>2. a.begun + 1 \in 0..R BY DEF AnswersOf
<1>3. b \in AnswersOf(A, R) /\ c \in AnswersOf(A, R)
  <2>1. b \in AnswersOf(A, R) BY <1>2 DEF AnswersOf
  <2> QED BY <1>2, <2>1 DEF AnswersOf
<1>4. c.asked = a.asked /\ c.answered = a.answered /\ c.running = a.begun + 1 /\ c.begun = a.begun + 1
  BY DEF AnswersOf
<1> HIDE DEF c
<1>5. Begin(a) \in AnswersOf(A, R) BY <1>1, <1>3, PutIs DEF AnswersOf
<1> QED BY <1>1, <1>3, <1>4, <1>5 DEF AnswersOf

LEMMA ReleaseIs ==
    ASSUME NEW A \in Nat, NEW R \in Nat, NEW a \in AnswersOf(A, R), NEW t, NEW accepted \in BOOLEAN
    PROVE  /\ Release(a, t, accepted) \in AnswersOf(A, R)
           /\ Release(a, t, accepted).asked = a.asked
           /\ Release(a, t, accepted).answered = IF accepted /\ t.generation = a.asked THEN a.asked ELSE a.answered
           /\ Release(a, t, accepted).running = IF a.running = t.run THEN 0 ELSE a.running
           /\ Release(a, t, accepted).begun = a.begun /\ Release(a, t, accepted).put = a.put
<1> DEFINE answered == IF accepted /\ t.generation = a.asked THEN a.asked ELSE a.answered
           running == IF a.running = t.run THEN 0 ELSE a.running
           b == [a EXCEPT !.answered = answered]
<1>1. Release(a, t, accepted) = [b EXCEPT !.running = running] BY DEF Release
<1>2. answered \in 0..A /\ running \in 0..R BY DEF AnswersOf
<1> HIDE DEF answered, running
<1>3. b \in AnswersOf(A, R) BY <1>2 DEF AnswersOf
<1>4. Release(a, t, accepted) \in AnswersOf(A, R) BY <1>1, <1>2, <1>3 DEF AnswersOf
<1>5. /\ Release(a, t, accepted).asked = a.asked /\ Release(a, t, accepted).answered = answered
      /\ Release(a, t, accepted).running = running
      /\ Release(a, t, accepted).begun = a.begun /\ Release(a, t, accepted).put = a.put
  BY <1>1, <1>4 DEF AnswersOf
<1> QED BY <1>4, <1>5 DEF answered, running

LEMMA AbandonIs ==
    ASSUME NEW A \in Nat, NEW R \in Nat, NEW a \in AnswersOf(A, R)
    PROVE  /\ Abandon(a) \in AnswersOf(A, R)
           /\ Abandon(a).asked = a.asked /\ Abandon(a).answered = a.answered
           /\ Abandon(a).running = 0 /\ Abandon(a).begun = a.begun /\ Abandon(a).put = Put(a)
<1> DEFINE b == [a EXCEPT !.running = 0]
<1>1. Abandon(a) = [b EXCEPT !.put = Put(a)] BY DEF Abandon
<1>2. b \in AnswersOf(A, R) BY DEF AnswersOf
<1>3. Abandon(a) \in AnswersOf(A, R) BY <1>1, <1>2, PutIs DEF AnswersOf
<1> QED BY <1>1, <1>3 DEF AnswersOf

-----------------------------------------------------------------------------
(* The steps of the date field and of Start.                               *)

LEMMA MomentStarts == MomentInit => MomentInv
<1> SUFFICES ASSUME MomentInit PROVE MomentInv OBVIOUS
<1>1. NothingAsked \in AnswersOf(MaxAsked, MaxAsked) /\ 0 \in Generation
  BY StartMomentAssumption DEF NothingAsked, AnswersOf, Generation
<1>2. press \in [Presses -> PressSteps] BY DEF MomentInit, PressSteps
<1>3. MomentTypes BY <1>1, <1>2 DEF MomentInit, MomentTypes
<1>4. AnswerInv /\ FieldIsTheNewest /\ RefusedOnlyWhilePending /\ OneRuns
  BY DEF MomentInit, NothingAsked, AnswerInv, Sound, FieldIsTheNewest, RefusedOnlyWhilePending, OneRuns
<1> QED BY <1>3, <1>4 DEF MomentInv

\* A change of the answer wakes presses, and starts none.
LEMMA AnsweredStep ==
    ASSUME MomentInv, NEW after, Answered(after)
    PROVE  /\ answer' = after /\ press' \in [Presses -> PressSteps]
           /\ \A p \in Presses : press'[p] = "running" <=> press[p] = "running"
           /\ pending' \in BOOLEAN /\ (pending' => ~IsCurrent(after))
<1>1. press \in [Presses -> PressSteps] /\ pending \in BOOLEAN BY DEF MomentInv, MomentTypes
<1>2. press' \in [Presses -> PressSteps] /\ \A p \in Presses : press'[p] = "running" <=> press[p] = "running"
  BY <1>1 DEF Answered, PressSteps
<1> QED BY <1>1, <1>2 DEF Answered, ComesBack

\* A question asked: its run is begun, and nothing is current until it answers.
LEMMA RequestStarts ==
    ASSUME MomentInv, NEW kind \in {"scenario", "relative"}, Request(kind)
    PROVE  /\ answer' \in AnswersOf(MaxAsked, MaxAsked) /\ requests' \subseteq Requests /\ relative' \in BOOLEAN
           /\ AnswerInv' /\ ~IsCurrent(answer')
           /\ press' \in [Presses -> PressSteps] /\ pending' \in BOOLEAN
           /\ \A p \in Presses : press'[p] = "running" <=> press[p] = "running"
           /\ answer.asked + 1 \in Generation
<1> USE StartMomentAssumption
<1> DEFINE asked == Begin(Ask(answer))
<1>1. answer \in AnswersOf(MaxAsked, MaxAsked) /\ Sound(answer) /\ answer.begun <= answer.asked /\ answer.asked < MaxAsked
  BY DEF MomentInv, MomentTypes, AnswerInv, Request
<1>2. /\ Ask(answer) \in AnswersOf(MaxAsked, MaxAsked) /\ Ask(answer).asked = answer.asked + 1
      /\ Ask(answer).answered = answer.answered /\ Ask(answer).begun = answer.begun
  BY <1>1, AskIs
<1>3. Ask(answer).begun < MaxAsked BY <1>1, <1>2 DEF AnswersOf
<1>4. /\ asked \in AnswersOf(MaxAsked, MaxAsked) /\ asked.asked = answer.asked + 1
      /\ asked.answered = answer.answered /\ asked.running = answer.begun + 1 /\ asked.begun = answer.begun + 1
  BY <1>2, <1>3, BeginIs
<1>5. Answered(asked) /\ relative' = (kind = "relative")
      /\ requests' = requests \cup
         {[ticket |-> Ticket(asked), kind |-> kind,
           pc |-> IF kind = "scenario" /\ ~IsCurrent(answer) THEN "quiet" ELSE "asked"]}
  BY DEF Request
<1>6. Ticket(asked) \in [run : 1..MaxAsked, generation : 1..MaxAsked]
  BY <1>1, <1>4 DEF Ticket, AnswersOf
<1> HIDE DEF asked
<1>7. requests' \subseteq Requests BY <1>5, <1>6 DEF Requests, MomentInv, MomentTypes
<1>8. /\ answer' = asked /\ press' \in [Presses -> PressSteps] /\ pending' \in BOOLEAN
      /\ \A p \in Presses : press'[p] = "running" <=> press[p] = "running"
  BY <1>5, AnsweredStep
<1>9. AnswerInv' /\ ~IsCurrent(answer')
  BY <1>1, <1>4, <1>8 DEF AnswerInv, Sound, IsCurrent, AnswersOf
<1> QED BY <1>1, <1>4, <1>5, <1>7, <1>8, <1>9 DEF AnswersOf, Generation

\* A request that came back, with an answer that counts or without one.
LEMMA RequestReturns ==
    ASSUME MomentInv, NEW r \in requests, NEW accepted \in BOOLEAN,
           Answered(Release(answer, r.ticket, accepted)), requests' = requests \ {r}
    PROVE  /\ answer' \in AnswersOf(MaxAsked, MaxAsked) /\ requests' \subseteq Requests
           /\ AnswerInv' /\ answer'.asked = answer.asked
           /\ answer'.answered = IF accepted /\ r.ticket.generation = answer.asked THEN answer.asked ELSE answer.answered
           /\ press' \in [Presses -> PressSteps] /\ pending' \in BOOLEAN
           /\ (pending' => ~IsCurrent(answer'))
           /\ \A p \in Presses : press'[p] = "running" <=> press[p] = "running"
<1> USE StartMomentAssumption
<1> DEFINE after == Release(answer, r.ticket, accepted)
<1>1. answer \in AnswersOf(MaxAsked, MaxAsked) /\ Sound(answer) /\ answer.begun <= answer.asked /\ requests \subseteq Requests
  BY DEF MomentInv, MomentTypes, AnswerInv
<1>2. /\ after \in AnswersOf(MaxAsked, MaxAsked) /\ after.asked = answer.asked
      /\ after.answered = IF accepted /\ r.ticket.generation = answer.asked THEN answer.asked ELSE answer.answered
      /\ after.running = IF answer.running = r.ticket.run THEN 0 ELSE answer.running
      /\ after.begun = answer.begun
  BY <1>1, ReleaseIs
<1>3. Answered(after) OBVIOUS
<1> HIDE DEF after
<1>4. /\ answer' = after /\ press' \in [Presses -> PressSteps] /\ pending' \in BOOLEAN
      /\ (pending' => ~IsCurrent(answer'))
      /\ \A p \in Presses : press'[p] = "running" <=> press[p] = "running"
  BY <1>3, AnsweredStep
<1>5. AnswerInv' BY <1>1, <1>2, <1>4 DEF AnswerInv, Sound, AnswersOf
<1> QED BY <1>1, <1>2, <1>4, <1>5

\* A press that goes on: it runs alone, and only over the newest date.
LEMMA CommitsAlone ==
    ASSUME MomentInv, NEW p \in Presses, Commit(p)
    PROVE  press' \in [Presses -> PressSteps] /\ idle' \in BOOLEAN /\ OneRuns'
<1>1. press \in [Presses -> PressSteps] /\ idle \in BOOLEAN /\ OneRuns BY DEF MomentInv, MomentTypes
<1>2. CASE GoesOn
  <2>1. press' = [press EXCEPT ![p] = "running"] /\ idle' = FALSE /\ idle
    BY <1>2 DEF Commit, GoesOn, CanStart
  <2> QED BY <1>1, <2>1 DEF OneRuns, PressSteps
<1>3. CASE ~GoesOn
  <2>1. press' = [press EXCEPT ![p] = "over"] /\ idle' = idle BY <1>3 DEF Commit
  <2> QED BY <1>1, <2>1 DEF OneRuns, PressSteps
<1> QED BY <1>2, <1>3

\* Each step of the date field and of Start.
LEMMA MomentSteps ==
    ASSUME MomentInv, [MomentNext]_momentVars
    PROVE  MomentInv'
<1> USE StartMomentAssumption
<1>0. /\ answer \in AnswersOf(MaxAsked, MaxAsked) /\ requests \subseteq Requests
      /\ field \in Generation /\ scenario \in Generation /\ unanswered \in Generation
      /\ noDate \in BOOLEAN /\ relative \in BOOLEAN /\ pending \in BOOLEAN
      /\ shutting \in BOOLEAN /\ idle \in BOOLEAN /\ press \in [Presses -> PressSteps]
      /\ AnswerInv /\ FieldIsTheNewest /\ RefusedOnlyWhilePending /\ OneRuns
  BY DEF MomentInv, MomentTypes
<1>1. ASSUME ChooseScenario PROVE MomentInv'
  <2>1. Request("scenario") BY <1>1 DEF ChooseScenario
  <2>2. /\ answer' \in AnswersOf(MaxAsked, MaxAsked) /\ requests' \subseteq Requests /\ relative' \in BOOLEAN
        /\ AnswerInv' /\ ~IsCurrent(answer')
        /\ press' \in [Presses -> PressSteps] /\ pending' \in BOOLEAN
        /\ \A p \in Presses : press'[p] = "running" <=> press[p] = "running"
        /\ answer.asked + 1 \in Generation
    BY <2>1, RequestStarts
  <2>3. MomentTypes' BY <1>0, <1>1, <2>2 DEF MomentTypes, ChooseScenario
  <2>4. FieldIsTheNewest' /\ RefusedOnlyWhilePending' /\ OneRuns'
    BY <1>0, <1>1, <2>2 DEF FieldIsTheNewest, RefusedOnlyWhilePending, OneRuns, ChooseScenario
  <2> QED BY <2>2, <2>3, <2>4 DEF MomentInv
<1>2. ASSUME FillRelative PROVE MomentInv'
  <2>1. Request("relative") BY <1>2 DEF FillRelative
  <2>2. /\ answer' \in AnswersOf(MaxAsked, MaxAsked) /\ requests' \subseteq Requests /\ relative' \in BOOLEAN
        /\ AnswerInv' /\ ~IsCurrent(answer')
        /\ press' \in [Presses -> PressSteps] /\ pending' \in BOOLEAN
        /\ \A p \in Presses : press'[p] = "running" <=> press[p] = "running"
    BY <2>1, RequestStarts
  <2>3. MomentTypes' BY <1>0, <1>2, <2>2 DEF MomentTypes, FillRelative
  <2>4. FieldIsTheNewest' /\ RefusedOnlyWhilePending' /\ OneRuns'
    BY <1>0, <1>2, <2>2 DEF FieldIsTheNewest, RefusedOnlyWhilePending, OneRuns, FillRelative
  <2> QED BY <2>2, <2>3, <2>4 DEF MomentInv
<1>3. ASSUME ChangeZone PROVE MomentInv' BY <1>1, <1>2, <1>3 DEF ChangeZone
<1>4. ASSUME TypeDate PROVE MomentInv'
  <2> DEFINE after == Settle(answer)
  <2>1. /\ after \in AnswersOf(MaxAsked, MaxAsked) /\ after.asked = answer.asked + 1
        /\ after.answered = answer.asked + 1 /\ after.running = 0 /\ after.begun = answer.begun
    BY <1>0, <1>4, SettleIs DEF TypeDate
  <2>2. Answered(after) BY <1>4 DEF TypeDate
  <2> HIDE DEF after
  <2>3. /\ answer' = after /\ press' \in [Presses -> PressSteps]
        /\ \A p \in Presses : press'[p] = "running" <=> press[p] = "running"
        /\ pending' \in BOOLEAN /\ (pending' => ~IsCurrent(after))
    BY <2>2, AnsweredStep
  <2>4. answer.asked + 1 \in Generation /\ 0 \in Generation BY <2>1 DEF AnswersOf, Generation
  <2>5. MomentTypes' BY <1>0, <1>4, <2>1, <2>3, <2>4 DEF MomentTypes, TypeDate, Deselect
  <2>6. AnswerInv' BY <1>0, <2>1, <2>3 DEF AnswerInv, Sound, AnswersOf
  <2>7. FieldIsTheNewest' /\ RefusedOnlyWhilePending' /\ OneRuns'
    BY <1>0, <1>4, <2>1, <2>3 DEF FieldIsTheNewest, RefusedOnlyWhilePending, OneRuns, TypeDate
  <2> QED BY <2>5, <2>6, <2>7 DEF MomentInv
<1>5. ASSUME NEW r \in requests, QuietOver(r) PROVE MomentInv'
  <2>1. [r EXCEPT !.pc = "asked"] \in Requests BY <1>0, <1>5 DEF Requests
  <2>2. requests' \subseteq Requests BY <1>0, <1>5, <2>1 DEF QuietOver
  <2>3. UNCHANGED <<answer, field, scenario, noDate, relative, pending, shutting, idle, press, unanswered>>
    BY <1>5 DEF QuietOver
  <2>4. MomentTypes' BY <1>0, <2>2, <2>3 DEF MomentTypes
  <2>5. AnswerInv' /\ FieldIsTheNewest' /\ RefusedOnlyWhilePending' /\ OneRuns'
    BY <1>0, <2>3 DEF AnswerInv, FieldIsTheNewest, RefusedOnlyWhilePending, OneRuns
  <2> QED BY <2>4, <2>5 DEF MomentInv
<1>6. ASSUME NEW r \in requests, NEW date \in BOOLEAN, EngineAnswers(r, date) PROVE MomentInv'
  <2> DEFINE accepted == Accepts(answer, r.ticket)
  <2>1. accepted \in BOOLEAN /\ (accepted => r.ticket.generation = answer.asked) BY DEF Accepts
  <2>2. Answered(Release(answer, r.ticket, accepted)) /\ requests' = requests \ {r}
    BY <1>6 DEF EngineAnswers
  <2>3. /\ IF accepted /\ date
           THEN /\ field' = r.ticket.generation
                /\ IF r.kind = "scenario" THEN UNCHANGED <<scenario, noDate>> ELSE Deselect
           ELSE /\ noDate' = (noDate \/ (accepted /\ r.kind = "scenario"))
                /\ UNCHANGED <<field, scenario>>
        /\ unanswered' = IF accepted /\ ~date THEN r.ticket.generation ELSE unanswered
        /\ UNCHANGED <<relative, shutting, idle>>
    BY <1>6 DEF EngineAnswers
  <2> HIDE DEF accepted
  <2>4. /\ answer' \in AnswersOf(MaxAsked, MaxAsked) /\ requests' \subseteq Requests
        /\ AnswerInv' /\ answer'.asked = answer.asked
        /\ answer'.answered = IF accepted /\ r.ticket.generation = answer.asked THEN answer.asked ELSE answer.answered
        /\ press' \in [Presses -> PressSteps] /\ pending' \in BOOLEAN
        /\ (pending' => ~IsCurrent(answer'))
        /\ \A p \in Presses : press'[p] = "running" <=> press[p] = "running"
    BY <2>1, <2>2, RequestReturns
  <2>5. r.ticket.generation \in Generation /\ 0 \in Generation BY <1>0 DEF Requests, Generation
  <2>6. scenario' \in Generation /\ noDate' \in BOOLEAN BY <1>0, <2>3, <2>5 DEF Deselect
  <2>7. field' \in Generation /\ unanswered' \in Generation BY <1>0, <2>3, <2>5
  <2>8. MomentTypes' BY <1>0, <2>3, <2>4, <2>6, <2>7 DEF MomentTypes
  <2>9. FieldIsTheNewest' BY <1>0, <2>1, <2>3, <2>4 DEF FieldIsTheNewest, IsCurrent
  <2>10. RefusedOnlyWhilePending' /\ OneRuns'
    BY <1>0, <2>3, <2>4 DEF RefusedOnlyWhilePending, OneRuns
  <2> QED BY <2>4, <2>8, <2>9, <2>10 DEF MomentInv
<1>7. ASSUME NEW r \in requests, RequestCancelled(r) PROVE MomentInv'
  <2>1. Answered(Release(answer, r.ticket, FALSE)) /\ requests' = requests \ {r}
    BY <1>7 DEF RequestCancelled
  <2>2. UNCHANGED <<field, scenario, noDate, relative, shutting, idle, unanswered>>
    BY <1>7 DEF RequestCancelled
  <2>3. /\ answer' \in AnswersOf(MaxAsked, MaxAsked) /\ requests' \subseteq Requests
        /\ AnswerInv' /\ answer'.asked = answer.asked /\ answer'.answered = answer.answered
        /\ press' \in [Presses -> PressSteps] /\ pending' \in BOOLEAN
        /\ (pending' => ~IsCurrent(answer'))
        /\ \A p \in Presses : press'[p] = "running" <=> press[p] = "running"
    BY <2>1, RequestReturns
  <2>4. MomentTypes' BY <1>0, <2>2, <2>3 DEF MomentTypes
  <2>5. FieldIsTheNewest' /\ RefusedOnlyWhilePending' /\ OneRuns'
    BY <1>0, <2>2, <2>3 DEF FieldIsTheNewest, RefusedOnlyWhilePending, OneRuns, IsCurrent
  <2> QED BY <2>3, <2>4, <2>5 DEF MomentInv
<1>8. ASSUME AbandonMoment PROVE MomentInv'
  <2> DEFINE after == Abandon(answer)
  <2>1. /\ after \in AnswersOf(MaxAsked, MaxAsked) /\ after.asked = answer.asked
        /\ after.answered = answer.answered /\ after.running = 0 /\ after.begun = answer.begun
    BY <1>0, AbandonIs
  <2>2. Answered(after) /\ shutting' = TRUE /\ UNCHANGED <<requests, field, scenario, noDate, relative, idle, unanswered>>
    BY <1>8 DEF AbandonMoment
  <2> HIDE DEF after
  <2>3. /\ answer' = after /\ press' \in [Presses -> PressSteps]
        /\ \A p \in Presses : press'[p] = "running" <=> press[p] = "running"
        /\ pending' \in BOOLEAN /\ (pending' => ~IsCurrent(after))
    BY <2>2, AnsweredStep
  <2>4. MomentTypes' BY <1>0, <2>1, <2>2, <2>3 DEF MomentTypes
  <2>5. AnswerInv' BY <1>0, <2>1, <2>3 DEF AnswerInv, Sound, AnswersOf
  <2>6. FieldIsTheNewest' /\ RefusedOnlyWhilePending' /\ OneRuns'
    BY <1>0, <2>1, <2>2, <2>3 DEF FieldIsTheNewest, RefusedOnlyWhilePending, OneRuns, IsCurrent
  <2> QED BY <2>4, <2>5, <2>6 DEF MomentInv
<1>9. ASSUME NEW p \in Presses, Commit(p), pending' = pending,
             UNCHANGED <<answer, requests, field, scenario, noDate, relative, shutting, unanswered>>
      PROVE  MomentInv'
  <2>1. press' \in [Presses -> PressSteps] /\ idle' \in BOOLEAN /\ OneRuns' BY <1>9, CommitsAlone
  <2>2. MomentTypes' BY <1>0, <1>9, <2>1 DEF MomentTypes
  <2>3. AnswerInv' /\ FieldIsTheNewest' /\ RefusedOnlyWhilePending'
    BY <1>0, <1>9 DEF AnswerInv, FieldIsTheNewest, RefusedOnlyWhilePending
  <2> QED BY <2>1, <2>2, <2>3 DEF MomentInv
<1>10. ASSUME NEW p \in Presses, NEW step \in {"waiting", "over"}, press' = [press EXCEPT ![p] = step],
              pending' \in BOOLEAN, pending' => pending \/ ~IsCurrent(answer), idle' \in BOOLEAN,
              idle' => idle \/ press[p] = "running",
              UNCHANGED <<answer, requests, field, scenario, noDate, relative, shutting, unanswered>>
      PROVE  MomentInv'
  <2>1. press' \in [Presses -> PressSteps] BY <1>0, <1>10 DEF PressSteps
  <2>2. MomentTypes' BY <1>0, <1>10, <2>1 DEF MomentTypes
  <2>3. AnswerInv' /\ FieldIsTheNewest' /\ RefusedOnlyWhilePending'
    BY <1>0, <1>10 DEF AnswerInv, FieldIsTheNewest, RefusedOnlyWhilePending
  <2>4. OneRuns' BY <1>0, <1>10 DEF OneRuns
  <2> QED BY <2>2, <2>3, <2>4 DEF MomentInv
<1>11. ASSUME NEW p \in Presses, PressStart(p) \/ LookAgain(p) PROVE MomentInv'
  <2>1. CASE IsCurrent(answer) BY <1>9, <1>11, <2>1 DEF PressStart, LookAgain
  <2>2. CASE ~IsCurrent(answer)
    <3>1. /\ press' = [press EXCEPT ![p] = "waiting"] /\ idle' = idle /\ pending' = pending
          /\ UNCHANGED <<answer, requests, field, scenario, noDate, relative, shutting, unanswered>>
      BY <1>11, <2>2 DEF PressStart, LookAgain
    <3> QED BY <1>0, <1>10, <3>1
  <2> QED BY <2>1, <2>2
<1>12. ASSUME NEW p \in Presses, WaitIsOver(p) PROVE MomentInv'
  <2>1. CASE IsCurrent(answer) BY <1>9, <1>12, <2>1 DEF WaitIsOver
  <2>2. CASE ~IsCurrent(answer)
    <3>1. /\ press' = [press EXCEPT ![p] = "over"] /\ idle' = idle /\ pending' = TRUE
          /\ UNCHANGED <<answer, requests, field, scenario, noDate, relative, shutting, unanswered>>
      BY <1>12, <2>2 DEF WaitIsOver
    <3> QED BY <1>0, <1>10, <2>2, <3>1
  <2> QED BY <2>1, <2>2
<1>13. ASSUME NEW p \in Presses, SessionOver(p) PROVE MomentInv'
  <2>1. /\ press[p] = "running" /\ press' = [press EXCEPT ![p] = "over"] /\ idle' = TRUE /\ pending' = pending
        /\ UNCHANGED <<answer, requests, field, scenario, noDate, relative, shutting, unanswered>>
    BY <1>13 DEF SessionOver
  <2> QED BY <1>0, <1>10, <2>1
<1>14. ASSUME UNCHANGED momentVars PROVE MomentInv'
  BY <1>14 DEF momentVars, MomentInv, MomentTypes, AnswerInv, FieldIsTheNewest, RefusedOnlyWhilePending, OneRuns
<1> QED
  BY <1>1, <1>2, <1>3, <1>4, <1>5, <1>6, <1>7, <1>8, <1>11, <1>12, <1>13, <1>14 DEF MomentNext, RequestStep

LEMMA MomentInvHolds == Spec => [](subject = "moment" => MomentInv)
<1>1. Init => (subject = "moment" => MomentInv) BY MomentStarts DEF Init
<1>2. (subject = "moment" => MomentInv) /\ [Next]_vars => (subject = "moment" => MomentInv)'
  <2> SUFFICES ASSUME subject = "moment" => MomentInv, [Next]_vars, subject' = "moment" PROVE MomentInv'
    OBVIOUS
  <2>1. subject = "moment" /\ [MomentNext]_momentVars BY DEF Next, vars, windowVars
  <2> QED BY <2>1, MomentSteps
<1> QED BY <1>1, <1>2, PTL DEF Spec

\* A press runs only from Commit, over a current answer.
LEMMA StartFollows == ASSUME MomentInv, MomentNext PROVE StartsWithTheNewest
<1> SUFFICES ASSUME NEW p \in Presses, press'[p] = "running", press[p] # "running"
             PROVE  /\ IsCurrent(answer) /\ ~noDate /\ ~shutting
                    /\ \A q \in Presses : press[q] # "running"
  BY DEF StartsWithTheNewest
<1>0. press \in [Presses -> PressSteps] BY DEF MomentInv, MomentTypes
<1>1. \A after : ~Answered(after) BY AnsweredStep
<1>2. PICK q \in Presses : PressStart(q) \/ LookAgain(q) \/ WaitIsOver(q) \/ SessionOver(q)
  BY <1>1 DEF MomentNext, ChooseScenario, FillRelative, ChangeZone, Request, TypeDate, RequestStep, QuietOver,
      RequestCancelled, EngineAnswers, AbandonMoment
<1>3. IsCurrent(answer) /\ Commit(q)
  BY <1>0, <1>2 DEF PressStart, LookAgain, WaitIsOver, SessionOver
<1>4. GoesOn BY <1>0, <1>3 DEF Commit
<1> QED BY <1>3, <1>4 DEF GoesOn, CanStart, MomentInv, OneRuns

-----------------------------------------------------------------------------
(* The steps of the calculator.                                            *)

LEMMA CalculatorStarts == CalcInit => CalculatorInv
<1> USE CalculatorAssumption
<1> SUFFICES ASSUME CalcInit PROVE CalculatorInv OBVIOUS
<1>1. NothingAsked \in AnswersOf(MaxEdits, MaxRuns) BY DEF NothingAsked, AnswersOf
<1>2. Nothing \in Shown BY DEF Nothing, Shown
<1>3. tap \in [Taps -> TapStates] /\ \A t \in Taps : tap[t].pc = "no" BY DEF CalcInit, TapStates
<1>4. builder \in 1..(MaxEdits + 1) /\ clock \in 0..MaxClock /\ askedClock \in 0..MaxClock /\ due \in 0..2
  BY DEF CalcInit
<1>5. CalcTypes BY <1>1, <1>2, <1>3, <1>4 DEF CalcInit, CalcTypes
<1>6. Sound(latest) /\ FreshInv /\ BuilderInv /\ RunsInv /\ ShownInv
  BY <1>3 DEF CalcInit, NothingAsked, Sound, FreshInv, BuilderInv, RunsInv, ShownInv, HasResult
<1> QED BY <1>5, <1>6 DEF CalculatorInv

\* A change of the question wakes presses, and moves no other.
LEMMA BecomesStep ==
    ASSUME CalculatorInv, NEW after, Becomes(after)
    PROVE  /\ latest' = after /\ tap' \in [Taps -> TapStates]
           /\ \A t \in Taps : /\ tap'[t].clock = tap[t].clock
                              /\ tap'[t].pc \in {"waiting", "woken"} <=> tap[t].pc \in {"waiting", "woken"}
                              /\ tap'[t].pc = "took" <=> tap[t].pc = "took"
<1>1. tap \in [Taps -> TapStates] BY DEF CalculatorInv, CalcTypes
<1>2. \A t \in Taps : tap[t] \in TapStates /\ [tap[t] EXCEPT !.pc = "woken"] \in TapStates
  BY <1>1 DEF TapStates
<1>3. \A t \in Taps : tap'[t] = tap[t] \/ (tap[t].pc = "waiting" /\ tap'[t] = [tap[t] EXCEPT !.pc = "woken"])
  BY DEF Becomes
<1>4. tap' \in [Taps -> TapStates] BY <1>2 DEF Becomes
<1> QED BY <1>2, <1>3, <1>4 DEF Becomes, TapStates

\* A press of an open question asks a new one, within bounds or not.
LEMMA AskedAgain ==
    ASSUME NEW A \in Nat, NEW R \in Nat, NEW a \in AnswersOf(A, R)
    PROVE  /\ Ask(a).asked = a.asked + 1 /\ Ask(a).begun = a.begun
           /\ Begin(Ask(a)).asked = a.asked + 1 /\ Begin(Ask(a)).begun = a.begun + 1
<1>1. a \in AnswersOf(A + 1, R + 1) /\ a.asked < A + 1 /\ a.begun < R + 1 BY DEF AnswersOf
<1>2. Ask(a) \in AnswersOf(A + 1, R + 1) /\ Ask(a).asked = a.asked + 1 /\ Ask(a).begun = a.begun
  BY <1>1, AskIs
<1> QED BY <1>1, <1>2, BeginIs

\* A run begun for the question as it stands, or for a new one.
LEMMA RunBegins ==
    ASSUME CalculatorInv, NEW a, (a = latest /\ ~IsCurrent(latest)) \/ (a = Ask(latest) /\ latest.asked < MaxEdits),
           a.begun < MaxRuns, latest' = Begin(a),
           runs' = runs \cup {[ticket |-> Ticket(Begin(a)), builder |-> builder, clock |-> clock]},
           askedClock' = clock, builder' = builder, clock' = clock
    PROVE  /\ latest' \in AnswersOf(MaxEdits, MaxRuns) /\ Sound(latest)' /\ runs' \subseteq Runs /\ RunsInv'
           /\ latest'.asked = a.asked /\ ~IsCurrent(latest)' /\ a.asked >= latest.asked
<1> USE CalculatorAssumption
<1>1. /\ latest \in AnswersOf(MaxEdits, MaxRuns) /\ Sound(latest) /\ runs \subseteq Runs /\ RunsInv
      /\ builder \in 1..(MaxEdits + 1) /\ clock \in 0..MaxClock
  BY DEF CalculatorInv, CalcTypes
<1>2. /\ a \in AnswersOf(MaxEdits, MaxRuns) /\ a.answered = latest.answered /\ a.begun = latest.begun
      /\ a.asked \in {latest.asked, latest.asked + 1} /\ a.answered < a.asked
      /\ latest.put \subseteq a.put /\ a.running \in {0, a.begun}
      /\ a.asked = latest.asked => a = latest
      /\ latest.running # 0 => latest.running \in a.put \/ latest.running = a.running
  <2>1. CASE a = latest /\ ~IsCurrent(latest) BY <1>1, <2>1 DEF AnswersOf, Sound, IsCurrent
  <2>2. CASE a = Ask(latest) /\ latest.asked < MaxEdits
    <3>1. /\ a \in AnswersOf(MaxEdits, MaxRuns) /\ a.asked = latest.asked + 1 /\ a.answered = latest.answered
          /\ a.running = 0 /\ a.begun = latest.begun /\ a.put = Put(latest)
      BY <1>1, <2>2, AskIs
    <3>2. latest.put \subseteq Put(latest) /\ (latest.running # 0 => latest.running \in Put(latest))
      BY <1>1, PutIs
    <3>3. latest.asked + 1 # latest.asked /\ latest.answered < latest.asked + 1
      BY <1>1 DEF AnswersOf, Sound
    <3> QED BY <3>1, <3>2, <3>3
  <2> QED BY <2>1, <2>2
<1>3. /\ latest' \in AnswersOf(MaxEdits, MaxRuns) /\ latest'.asked = a.asked /\ latest'.answered = a.answered
      /\ latest'.running = latest.begun + 1 /\ latest'.begun = latest.begun + 1
      /\ latest'.put = Put(a) /\ a.put \subseteq Put(a) /\ (a.running # 0 => a.running \in Put(a))
  BY <1>2, BeginIs, PutIs
<1>4. PICK new : /\ new = [ticket |-> Ticket(Begin(a)), builder |-> builder, clock |-> clock]
                 /\ runs' = runs \cup {new}
  OBVIOUS
<1>5. /\ new.ticket = [run |-> latest.begun + 1, generation |-> a.asked] /\ new.builder = builder /\ new.clock = clock
      /\ new.ticket.run = latest.begun + 1 /\ new.ticket.generation = a.asked
  BY <1>3, <1>4 DEF Ticket
<1>6. new.ticket \in [run : 1..MaxRuns, generation : 1..MaxEdits] BY <1>2, <1>3, <1>5 DEF AnswersOf
<1>7. new \in Runs BY <1>1, <1>4, <1>5, <1>6 DEF Runs
<1>8. \A r \in runs :
        /\ r.ticket.run \in 1..latest.begun /\ r.ticket.generation \in 1..latest.asked /\ r.clock <= clock
        /\ r.ticket.generation = latest.asked => r.builder = builder
        /\ r.ticket.run \in latest.put \/ r.ticket.run = latest.running
  <2>1. \A r \in runs : r.ticket.run \in 1..MaxRuns /\ r.ticket.generation \in 1..MaxEdits
    BY <1>1 DEF Runs
  <2> QED BY <1>1, <2>1 DEF RunsInv, AnswersOf
<1>9. \A r \in runs :
        /\ r.ticket.run <= latest'.begun /\ r.ticket.generation <= latest'.asked /\ r.clock <= clock
        /\ r.ticket.generation = latest'.asked => r.builder = builder
        /\ r.ticket.run \in latest'.put
        /\ r.ticket.run # latest'.begun /\ r.ticket.run # new.ticket.run
  <2> SUFFICES ASSUME NEW r \in runs
               PROVE  /\ r.ticket.run <= latest'.begun /\ r.ticket.generation <= latest'.asked /\ r.clock <= clock
                      /\ r.ticket.generation = latest'.asked => r.builder = builder
                      /\ r.ticket.run \in latest'.put
                      /\ r.ticket.run # latest'.begun /\ r.ticket.run # new.ticket.run
    OBVIOUS
  <2>1. latest.begun \in Nat /\ latest.asked \in Nat BY <1>1 DEF AnswersOf
  <2>2. r.ticket.run \in latest'.put BY <1>2, <1>3, <1>8
  <2> QED BY <1>2, <1>3, <1>5, <1>8, <2>1, <2>2
<1>10. RunsInv'
  <2>1. new.ticket.run <= latest'.begun /\ new.ticket.generation <= latest'.asked /\ new.clock <= clock
    BY <1>1, <1>3, <1>5 DEF AnswersOf
  <2>2. new.builder = builder /\ new.ticket.run = latest'.running /\ new.clock = askedClock'
    BY <1>3, <1>5
  <2>3. \A r, s \in runs : r.ticket.run = s.ticket.run => r = s BY <1>1 DEF RunsInv
  <2> QED BY <1>4, <1>9, <2>1, <2>2, <2>3 DEF RunsInv
<1> QED BY <1>1, <1>2, <1>3, <1>4, <1>7, <1>10 DEF Sound, IsCurrent, AnswersOf

\* A run that came back, with an answer that counts or without one.
LEMMA RunReturns ==
    ASSUME CalculatorInv, NEW r \in runs, NEW accepted \in BOOLEAN, latest' = Release(latest, r.ticket, accepted),
           runs' = runs \ {r}, askedClock' = askedClock, builder' = builder, clock' = clock
    PROVE  /\ latest' \in AnswersOf(MaxEdits, MaxRuns) /\ Sound(latest)' /\ runs' \subseteq Runs /\ RunsInv'
           /\ latest'.asked = latest.asked
           /\ latest'.answered = IF accepted /\ r.ticket.generation = latest.asked THEN latest.asked ELSE latest.answered
<1> USE CalculatorAssumption
<1>1. latest \in AnswersOf(MaxEdits, MaxRuns) /\ Sound(latest) /\ runs \subseteq Runs /\ RunsInv
  BY DEF CalculatorInv, CalcTypes
<1>2. /\ latest' \in AnswersOf(MaxEdits, MaxRuns) /\ latest'.asked = latest.asked
      /\ latest'.answered = IF accepted /\ r.ticket.generation = latest.asked THEN latest.asked ELSE latest.answered
      /\ latest'.running = IF latest.running = r.ticket.run THEN 0 ELSE latest.running
      /\ latest'.begun = latest.begun /\ latest'.put = latest.put
  BY <1>1, ReleaseIs
<1>3. Sound(latest)' BY <1>1, <1>2 DEF Sound, AnswersOf
<1>4. \A s \in runs' : s \in runs /\ s.ticket.run # r.ticket.run BY <1>1 DEF RunsInv
<1>5. RunsInv' BY <1>1, <1>2, <1>4 DEF RunsInv
<1> QED BY <1>1, <1>2, <1>3, <1>5

\* The answer that counts is the last run's, to the builder as it stands and by the clock asked about.
LEMMA AcceptedIsTheLast ==
    ASSUME CalculatorInv, NEW r \in runs, Accepts(latest, r.ticket)
    PROVE  r.builder = builder /\ r.clock = askedClock /\ r.ticket.generation = latest.asked
<1>1. r.ticket.run \in 1..MaxRuns BY DEF CalculatorInv, CalcTypes, Runs
<1>2. r.ticket.run \notin latest.put /\ r.ticket.generation = latest.asked BY DEF Accepts, Cancelled
<1>3. r.ticket.run = latest.running BY <1>2 DEF CalculatorInv, RunsInv
<1>4. r.ticket.run = latest.begun BY <1>1, <1>3 DEF CalculatorInv, Sound
<1> QED BY <1>2, <1>4 DEF CalculatorInv, RunsInv

\* Each step of the calculator.
LEMMA CalculatorSteps ==
    ASSUME CalculatorInv, [CalcNext]_calcVars
    PROVE  CalculatorInv'
<1> USE CalculatorAssumption
<1>0. /\ latest \in AnswersOf(MaxEdits, MaxRuns) /\ runs \subseteq Runs
      /\ builder \in 1..(MaxEdits + 1) /\ clock \in 0..MaxClock /\ askedClock \in 0..MaxClock
      /\ computed \in BOOLEAN /\ quiet \in BOOLEAN /\ abandoned \in BOOLEAN /\ due \in 0..2
      /\ shown \in Shown /\ tap \in [Taps -> TapStates]
      /\ Sound(latest) /\ FreshInv /\ BuilderInv /\ RunsInv /\ ShownInv
      /\ latest.asked \in 0..MaxEdits /\ latest.answered \in 0..MaxEdits /\ latest.answered <= latest.asked
  BY DEF CalculatorInv, CalcTypes, AnswersOf, Sound
<1>1. ASSUME NEW a, Recompute(a), due' \in 0..2,
             (a = latest /\ computed /\ computed' = computed) \/ (a = Ask(latest) /\ ~computed /\ computed' = TRUE),
             UNCHANGED <<builder, clock, quiet, shown, abandoned>>
      PROVE  CalculatorInv'
  <2>0. a = latest \/ (a = Ask(latest) /\ latest.asked < MaxEdits) BY <1>0, <1>1 DEF FreshInv
  <2>1. CASE IsCurrent(a)
    <3>1. a = latest
      <4>1. CASE a = Ask(latest) /\ latest.asked < MaxEdits BY <1>0, <2>1, <4>1, AskIs DEF IsCurrent
      <4> QED BY <2>0, <4>1
    <3>2. Becomes(latest) /\ runs' = runs /\ askedClock' = askedClock
      BY <1>1, <2>1, <3>1 DEF Recompute
    <3>3. /\ latest' = latest /\ tap' \in [Taps -> TapStates]
          /\ \A t \in Taps : /\ tap'[t].clock = tap[t].clock
                             /\ tap'[t].pc \in {"waiting", "woken"} <=> tap[t].pc \in {"waiting", "woken"}
      BY <3>2, BecomesStep
    <3>4. computed' = TRUE BY <1>1, <3>1
    <3>5. CalcTypes' BY <1>0, <1>1, <3>2, <3>3, <3>4 DEF CalcTypes
    <3>6. Sound(latest)' /\ FreshInv' /\ BuilderInv' /\ RunsInv'
      BY <1>0, <1>1, <3>2, <3>3, <3>4 DEF FreshInv, BuilderInv, RunsInv
    <3>7. ShownInv' BY <1>0, <1>1, <3>2, <3>3 DEF ShownInv, HasResult
    <3> QED BY <3>5, <3>6, <3>7 DEF CalculatorInv
  <2>2. CASE ~IsCurrent(a)
    <3>1. /\ Becomes(Begin(a)) /\ askedClock' = clock /\ a.begun < MaxRuns
          /\ runs' = runs \cup {[ticket |-> Ticket(Begin(a)), builder |-> builder, clock |-> clock]}
      BY <1>1, <2>2 DEF Recompute
    <3>2. /\ latest' = Begin(a) /\ tap' \in [Taps -> TapStates]
          /\ \A t \in Taps : /\ tap'[t].clock = tap[t].clock
                             /\ tap'[t].pc \in {"waiting", "woken"} <=> tap[t].pc \in {"waiting", "woken"}
      BY <3>1, BecomesStep
    <3>3. /\ latest' \in AnswersOf(MaxEdits, MaxRuns) /\ Sound(latest)' /\ runs' \subseteq Runs /\ RunsInv'
          /\ latest'.asked = a.asked /\ ~IsCurrent(latest)' /\ a.asked >= latest.asked
      BY <1>1, <2>0, <2>2, <3>1, <3>2, RunBegins
    <3>4. computed' = TRUE BY <1>1
    <3>5. CalcTypes' BY <1>0, <1>1, <3>1, <3>2, <3>3, <3>4 DEF CalcTypes
    <3>6. latest'.asked \in Nat BY <3>3 DEF AnswersOf
    <3>7. FreshInv' /\ BuilderInv' BY <1>0, <1>1, <3>1, <3>3, <3>4, <3>6 DEF FreshInv, BuilderInv
    <3>8. ShownInv'
      <4>1. \A t \in Taps : tap'[t].pc \in {"waiting", "woken"} => tap'[t].clock <= clock
        <5>1. \A t \in Taps : tap[t].clock \in 0..MaxClock BY <1>0 DEF TapStates
        <5> QED BY <1>0, <3>2, <5>1 DEF ShownInv, BuilderInv
      <4> QED BY <3>1, <3>3, <4>1 DEF ShownInv
    <3> QED BY <3>3, <3>5, <3>7, <3>8 DEF CalculatorInv
  <2> QED BY <2>1, <2>2
<1>2. ASSUME EnsureComputed PROVE CalculatorInv' BY <1>0, <1>1, <1>2 DEF EnsureComputed
<1>3. ASSUME RunIsDue PROVE CalculatorInv'
  <2>1. computed BY <1>0, <1>3 DEF RunIsDue, FreshInv
  <2>2. due' \in 0..2 /\ Recompute(latest) /\ UNCHANGED <<builder, clock, computed, quiet, shown, abandoned>>
    BY <1>0, <1>3 DEF RunIsDue
  <2> QED BY <1>1, <2>1, <2>2
<1>4. ASSUME Edit PROVE CalculatorInv'
  <2> DEFINE after == Ask(latest)
  <2>1. /\ after \in AnswersOf(MaxEdits, MaxRuns) /\ after.asked = latest.asked + 1 /\ after.answered = latest.answered
        /\ after.running = 0 /\ after.begun = latest.begun /\ after.put = Put(latest)
        /\ latest.asked < MaxEdits
    BY <1>0, <1>4, AskIs DEF Edit
  <2>2. latest.put \subseteq Put(latest) /\ (latest.running # 0 => latest.running \in Put(latest))
    BY <1>0, PutIs
  <2>3. /\ Becomes(after) /\ computed /\ builder' = builder + 1 /\ quiet' = TRUE
        /\ UNCHANGED <<clock, askedClock, computed, due, runs, shown, abandoned>>
    BY <1>4 DEF Edit, AskedAtTheEdit
  <2> HIDE DEF after
  <2>4. /\ latest' = after /\ tap' \in [Taps -> TapStates]
        /\ \A t \in Taps : /\ tap'[t].clock = tap[t].clock
                           /\ tap'[t].pc \in {"waiting", "woken"} <=> tap[t].pc \in {"waiting", "woken"}
    BY <2>3, BecomesStep
  <2>5. builder' \in 1..(MaxEdits + 1) BY <1>0, <2>1, <2>3 DEF BuilderInv
  <2>6. CalcTypes' BY <1>0, <2>1, <2>3, <2>4, <2>5 DEF CalcTypes
  <2>7. Sound(latest)' /\ FreshInv' /\ BuilderInv' /\ ~IsCurrent(latest)'
    BY <1>0, <2>1, <2>3, <2>4 DEF FreshInv, BuilderInv, Sound, IsCurrent
  <2>8. RunsInv'
    <3>1. \A r \in runs : r.ticket.run \in 1..MaxRuns /\ r.ticket.generation \in 1..MaxEdits
      BY <1>0 DEF Runs
    <3> QED BY <1>0, <2>1, <2>2, <2>3, <2>4, <3>1 DEF RunsInv
  <2>9. ShownInv' BY <1>0, <2>3, <2>4, <2>7 DEF ShownInv
  <2> QED BY <2>6, <2>7, <2>8, <2>9 DEF CalculatorInv
<1>5. ASSUME ScenarioWithoutResult PROVE CalculatorInv'
  <2> DEFINE mid == Ask(latest)
             after == Settle(mid)
  <2>1. /\ mid \in AnswersOf(MaxEdits, MaxRuns) /\ mid.asked = latest.asked + 1
        /\ mid.running = 0 /\ mid.begun = latest.begun /\ mid.put = Put(latest)
        /\ latest.asked + 1 < MaxEdits
    BY <1>0, <1>5, AskIs DEF ScenarioWithoutResult
  <2>2. /\ Becomes(after) /\ computed /\ builder' \in {builder, builder + 1} /\ shown' = Nothing
        /\ UNCHANGED <<clock, askedClock, computed, quiet, due, runs, abandoned>>
    BY <1>5 DEF ScenarioWithoutResult, AnsweredAtOnce, AfterScenario
  <2> HIDE DEF mid
  <2>3. /\ after \in AnswersOf(MaxEdits, MaxRuns) /\ after.asked = latest.asked + 2 /\ after.answered = latest.asked + 2
        /\ after.running = 0 /\ after.begun = latest.begun /\ after.put = Put(mid)
    BY <1>0, <2>1, SettleIs
  <2>4. latest.put \subseteq after.put /\ (latest.running # 0 => latest.running \in after.put)
    BY <1>0, <2>1, <2>3, PutIs
  <2> HIDE DEF after
  <2>5. /\ latest' = after /\ tap' \in [Taps -> TapStates]
        /\ \A t \in Taps : /\ tap'[t].clock = tap[t].clock
                           /\ tap'[t].pc \in {"waiting", "woken"} <=> tap[t].pc \in {"waiting", "woken"}
    BY <2>2, BecomesStep
  <2>6. builder' \in 1..(MaxEdits + 1) /\ Nothing \in Shown
    BY <1>0, <2>1, <2>2 DEF BuilderInv, Nothing, Shown
  <2>7. CalcTypes' BY <1>0, <2>2, <2>3, <2>5, <2>6 DEF CalcTypes
  <2>8. Sound(latest)' /\ FreshInv' /\ BuilderInv' /\ ~HasResult'
    BY <1>0, <2>2, <2>3, <2>5 DEF FreshInv, BuilderInv, Sound, HasResult
  <2>9. RunsInv'
    <3>1. \A r \in runs : r.ticket.run \in 1..MaxRuns /\ r.ticket.generation \in 1..MaxEdits
      BY <1>0 DEF Runs
    <3> QED BY <1>0, <2>2, <2>3, <2>4, <2>5, <3>1 DEF RunsInv
  <2>10. ShownInv' BY <1>0, <2>2, <2>5, <2>8 DEF ShownInv
  <2> QED BY <2>7, <2>8, <2>9, <2>10 DEF CalculatorInv
<1>6. ASSUME QuietIsOver PROVE CalculatorInv'
  <2>1. /\ quiet /\ quiet' = FALSE /\ due' \in 0..2
        /\ UNCHANGED <<latest, builder, clock, askedClock, computed, runs, shown, tap, abandoned>>
    BY <1>0, <1>6 DEF QuietIsOver
  <2>2. CalcTypes' BY <1>0, <2>1 DEF CalcTypes
  <2>3. Sound(latest)' /\ FreshInv' /\ BuilderInv' /\ RunsInv' /\ ShownInv'
    BY <1>0, <2>1 DEF FreshInv, BuilderInv, RunsInv, ShownInv, HasResult
  <2> QED BY <2>2, <2>3 DEF CalculatorInv
<1>7. ASSUME ClockTurns PROVE CalculatorInv'
  <2>1. /\ clock' = clock + 1 /\ clock' \in 0..MaxClock
        /\ UNCHANGED <<latest, builder, askedClock, computed, quiet, due, runs, shown, tap, abandoned>>
    BY <1>0, <1>7 DEF ClockTurns
  <2>2. CalcTypes' BY <1>0, <2>1 DEF CalcTypes
  <2>3. \A r \in runs : r.clock \in 0..MaxClock BY <1>0 DEF Runs
  <2>4. RunsInv' BY <1>0, <2>1, <2>3 DEF RunsInv
  <2>5. Sound(latest)' /\ FreshInv' /\ BuilderInv' /\ ShownInv'
    BY <1>0, <2>1 DEF FreshInv, BuilderInv, ShownInv, HasResult
  <2> QED BY <2>2, <2>4, <2>5 DEF CalculatorInv
<1>8. ASSUME NEW r \in runs, RunAnswers(r) PROVE CalculatorInv'
  <2> DEFINE accepted == Accepts(latest, r.ticket)
  <2>1. accepted \in BOOLEAN BY DEF Accepts
  <2>2. /\ Becomes(Release(latest, r.ticket, accepted)) /\ runs' = runs \ {r}
        /\ UNCHANGED <<builder, clock, askedClock, computed, quiet, due, abandoned>>
        /\ \/ ~accepted /\ UNCHANGED shown
           \/ accepted /\ \E c \in r.clock .. clock : shown' = [builder |-> r.builder, clock |-> c]
           \/ accepted /\ shown' = Nothing
    BY <1>8 DEF RunAnswers
  <2>3. accepted => r.builder = builder /\ r.clock = askedClock /\ r.ticket.generation = latest.asked
    BY AcceptedIsTheLast
  <2> HIDE DEF accepted
  <2>4. /\ latest' = Release(latest, r.ticket, accepted) /\ tap' \in [Taps -> TapStates]
        /\ \A t \in Taps : /\ tap'[t].clock = tap[t].clock
                           /\ tap'[t].pc \in {"waiting", "woken"} <=> tap[t].pc \in {"waiting", "woken"}
    BY <2>2, BecomesStep
  <2>5. /\ latest' \in AnswersOf(MaxEdits, MaxRuns) /\ Sound(latest)' /\ runs' \subseteq Runs /\ RunsInv'
        /\ latest'.asked = latest.asked
        /\ latest'.answered = IF accepted /\ r.ticket.generation = latest.asked THEN latest.asked ELSE latest.answered
    BY <2>1, <2>2, <2>4, RunReturns
  <2>6. computed
    <3>1. r.ticket.generation \in 1..MaxEdits /\ r.ticket.generation <= latest.asked
      BY <1>0 DEF Runs, RunsInv
    <3> QED BY <1>0, <3>1 DEF FreshInv
  <2>7. \/ ~accepted /\ shown' = shown
        \/ accepted /\ HasResult' /\ shown'.builder = builder /\ shown'.clock >= askedClock /\ shown' \in Shown
        \/ accepted /\ ~HasResult' /\ shown' \in Shown
    <3>1. CASE ~accepted BY <2>2, <3>1
    <3>2. CASE accepted /\ shown' = Nothing
      BY <3>2, CalculatorAssumption DEF HasResult, Nothing, Shown
    <3>3. CASE accepted /\ \E c \in r.clock .. clock : shown' = [builder |-> r.builder, clock |-> c]
      <4>1. PICK c \in askedClock .. clock : shown' = [builder |-> builder, clock |-> c]
        BY <2>3, <3>3
      <4>2. shown'.builder = builder /\ shown'.clock >= askedClock /\ c \in 0..MaxClock
        BY <1>0, <4>1
      <4>3. shown' \in Shown BY <1>0, <4>1, <4>2 DEF Shown
      <4>4. HasResult' BY <1>0, <4>2 DEF HasResult, Nothing
      <4> QED BY <3>3, <4>2, <4>3, <4>4
    <3> QED BY <2>2, <3>1, <3>2, <3>3
  <2>8. CalcTypes' BY <1>0, <2>2, <2>4, <2>5, <2>7 DEF CalcTypes
  <2>9. FreshInv' /\ BuilderInv' BY <1>0, <2>2, <2>5, <2>6 DEF FreshInv, BuilderInv
  <2>10. ShownInv' BY <1>0, <2>2, <2>4, <2>5, <2>7 DEF ShownInv, IsCurrent, HasResult
  <2> QED BY <2>5, <2>8, <2>9, <2>10 DEF CalculatorInv
<1>9. ASSUME NEW r \in runs, RunIsCancelled(r) PROVE CalculatorInv'
  <2>1. /\ Becomes(Release(latest, r.ticket, FALSE)) /\ runs' = runs \ {r}
        /\ UNCHANGED <<builder, clock, askedClock, computed, quiet, due, shown, abandoned>>
    BY <1>9 DEF RunIsCancelled
  <2>2. /\ latest' = Release(latest, r.ticket, FALSE) /\ tap' \in [Taps -> TapStates]
        /\ \A t \in Taps : /\ tap'[t].clock = tap[t].clock
                           /\ tap'[t].pc \in {"waiting", "woken"} <=> tap[t].pc \in {"waiting", "woken"}
    BY <2>1, BecomesStep
  <2>3. /\ latest' \in AnswersOf(MaxEdits, MaxRuns) /\ Sound(latest)' /\ runs' \subseteq Runs /\ RunsInv'
        /\ latest'.asked = latest.asked /\ latest'.answered = latest.answered
    BY <2>1, <2>2, RunReturns
  <2>4. CalcTypes' BY <1>0, <2>1, <2>2, <2>3 DEF CalcTypes
  <2>5. FreshInv' /\ BuilderInv' BY <1>0, <2>1, <2>3 DEF FreshInv, BuilderInv
  <2>6. ShownInv' BY <1>0, <2>1, <2>2, <2>3 DEF ShownInv, IsCurrent, HasResult
  <2> QED BY <2>3, <2>4, <2>5, <2>6 DEF CalculatorInv
<1>10. ASSUME CloseCalculator PROVE CalculatorInv'
  <2> DEFINE after == Abandon(latest)
  <2>1. /\ after \in AnswersOf(MaxEdits, MaxRuns) /\ after.asked = latest.asked /\ after.answered = latest.answered
        /\ after.running = 0 /\ after.begun = latest.begun /\ after.put = Put(latest)
    BY <1>0, AbandonIs
  <2>2. latest.put \subseteq Put(latest) /\ (latest.running # 0 => latest.running \in Put(latest))
    BY <1>0, PutIs
  <2>3. /\ Becomes(after) /\ abandoned' = TRUE
        /\ UNCHANGED <<builder, clock, askedClock, computed, quiet, due, runs, shown>>
    BY <1>10 DEF CloseCalculator
  <2> HIDE DEF after
  <2>4. /\ latest' = after /\ tap' \in [Taps -> TapStates]
        /\ \A t \in Taps : /\ tap'[t].clock = tap[t].clock
                           /\ tap'[t].pc \in {"waiting", "woken"} <=> tap[t].pc \in {"waiting", "woken"}
    BY <2>3, BecomesStep
  <2>5. CalcTypes' BY <1>0, <2>1, <2>3, <2>4 DEF CalcTypes
  <2>6. Sound(latest)' /\ FreshInv' /\ BuilderInv'
    BY <1>0, <2>1, <2>3, <2>4 DEF FreshInv, BuilderInv, Sound
  <2>7. RunsInv'
    <3>1. \A r \in runs : r.ticket.run \in 1..MaxRuns BY <1>0 DEF Runs
    <3> QED BY <1>0, <2>1, <2>2, <2>3, <2>4, <3>1 DEF RunsInv
  <2>8. ShownInv' BY <1>0, <2>1, <2>3, <2>4 DEF ShownInv, IsCurrent, HasResult
  <2> QED BY <2>5, <2>6, <2>7, <2>8 DEF CalculatorInv
<1>11. ASSUME NEW t \in Taps, Press(t) PROVE CalculatorInv'
  <2>1. computed /\ computed' = computed BY <1>0, <1>11 DEF Press, HasResult, FreshInv
  <2>2. UNCHANGED <<builder, clock, computed, quiet, due, shown, abandoned>> BY <1>11 DEF Press
  <2>3. CASE ~ClockMoved
    <3>1. latest' = latest /\ clock = askedClock /\ runs' = runs /\ askedClock' = askedClock
      BY <1>11, <2>3 DEF Press, ClockMoved
    <3>2. PICK pc \in {"waiting", "woken"} : tap' = [tap EXCEPT ![t] = [pc |-> pc, clock |-> clock]]
      BY <1>11 DEF Press
    <3>3. [pc |-> pc, clock |-> clock] \in TapStates BY <1>0 DEF TapStates
    <3>4. tap' \in [Taps -> TapStates] /\ \A u \in Taps : tap'[u] = tap[u] \/ tap'[u].clock = clock
      BY <1>0, <3>2, <3>3
    <3>5. CalcTypes' BY <1>0, <2>2, <3>1, <3>4 DEF CalcTypes
    <3>6. Sound(latest)' /\ FreshInv' /\ BuilderInv' /\ RunsInv'
      BY <1>0, <2>1, <2>2, <3>1 DEF FreshInv, BuilderInv, RunsInv
    <3>7. ShownInv' BY <1>0, <2>2, <3>1, <3>4 DEF ShownInv, HasResult
    <3> QED BY <3>5, <3>6, <3>7 DEF CalculatorInv
  <2>4. CASE ClockMoved
    <3> DEFINE a == Ask(latest)
    <3>1. a.asked = latest.asked + 1 /\ a.begun = latest.begun
          /\ Begin(a).asked = latest.asked + 1 /\ Begin(a).begun = latest.begun + 1
      BY <1>0, AskedAgain
    <3>2. Begin(a) # latest BY <1>0, <3>1
    <3>3. /\ Begin(a).asked <= MaxEdits /\ Begin(a).begun <= MaxRuns /\ latest' = Begin(a) /\ askedClock' = clock
          /\ runs' = runs \cup {[ticket |-> Ticket(Begin(a)), builder |-> builder, clock |-> clock]}
      BY <1>11, <2>4, <3>2 DEF Press
    <3>4. PICK pc \in {"waiting", "woken"} : tap' = [tap EXCEPT ![t] = [pc |-> pc, clock |-> clock]]
      BY <1>11 DEF Press
    <3>5. latest.asked < MaxEdits /\ a.begun < MaxRuns BY <1>0, <3>1, <3>3 DEF AnswersOf
    <3>6. /\ latest' \in AnswersOf(MaxEdits, MaxRuns) /\ Sound(latest)' /\ runs' \subseteq Runs /\ RunsInv'
          /\ latest'.asked = a.asked /\ ~IsCurrent(latest)'
      <4> HIDE DEF a
      <4>1. a = Ask(latest) BY DEF a
      <4> QED BY <2>2, <3>3, <3>5, <4>1, RunBegins
    <3>7. [pc |-> pc, clock |-> clock] \in TapStates BY <1>0 DEF TapStates
    <3>8. tap' \in [Taps -> TapStates] /\ \A u \in Taps : tap'[u] = tap[u] \/ tap'[u].clock = clock
      BY <1>0, <3>4, <3>7
    <3>9. CalcTypes' BY <1>0, <2>2, <3>3, <3>6, <3>8 DEF CalcTypes
    <3>10. FreshInv' /\ BuilderInv' BY <1>0, <2>1, <2>2, <3>1, <3>3, <3>6 DEF FreshInv, BuilderInv
    <3>11. ShownInv'
      <4>1. \A u \in Taps : tap[u].clock \in 0..MaxClock BY <1>0 DEF TapStates
      <4>2. \A u \in Taps : tap'[u].pc \in {"waiting", "woken"} => tap'[u].clock <= clock
        BY <1>0, <3>8, <4>1 DEF ShownInv, BuilderInv
      <4> QED BY <3>3, <3>6, <4>2 DEF ShownInv
    <3> QED BY <3>6, <3>9, <3>10, <3>11 DEF CalculatorInv
  <2> QED BY <2>3, <2>4
<1>12. ASSUME NEW t \in Taps, TakeValue(t) \/ ActionWaitIsOver(t) PROVE CalculatorInv'
  <2>1. UNCHANGED <<latest, builder, clock, askedClock, computed, quiet, due, runs, shown, abandoned>>
    BY <1>12 DEF TakeValue, ActionWaitIsOver
  <2>2. PICK pc \in {"waiting", "took", "nothing"} : tap' = [tap EXCEPT ![t].pc = pc]
    BY <1>12 DEF TakeValue, ActionWaitIsOver
  <2>3. tap[t].pc \in {"waiting", "woken"} BY <1>12 DEF TakeValue, ActionWaitIsOver
  <2>4. [tap[t] EXCEPT !.pc = pc] \in TapStates /\ [tap[t] EXCEPT !.pc = pc].clock = tap[t].clock
    BY <1>0 DEF TapStates
  <2>5. tap' = [tap EXCEPT ![t] = [tap[t] EXCEPT !.pc = pc]] BY <2>2
  <2>6. tap' \in [Taps -> TapStates] BY <1>0, <2>4, <2>5
  <2>7. \A u \in Taps : tap'[u].clock = tap[u].clock /\ (u # t => tap'[u] = tap[u])
    BY <1>0, <2>4, <2>5
  <2>8. CalcTypes' BY <1>0, <2>1, <2>6 DEF CalcTypes
  <2>9. Sound(latest)' /\ FreshInv' /\ BuilderInv' /\ RunsInv'
    BY <1>0, <2>1 DEF FreshInv, BuilderInv, RunsInv
  <2>10. ShownInv' BY <1>0, <2>1, <2>3, <2>7 DEF ShownInv, HasResult
  <2> QED BY <2>8, <2>9, <2>10 DEF CalculatorInv
<1>13. ASSUME UNCHANGED calcVars PROVE CalculatorInv'
  BY <1>13 DEF calcVars, CalculatorInv, CalcTypes, FreshInv, BuilderInv, RunsInv, ShownInv, HasResult
<1> QED
  BY <1>2, <1>3, <1>4, <1>5, <1>6, <1>7, <1>8, <1>9, <1>10, <1>11, <1>12, <1>13 DEF CalcNext, EngineReturns

LEMMA CalculatorInvHolds == Spec => [](subject = "calculator" => CalculatorInv)
<1>1. Init => (subject = "calculator" => CalculatorInv) BY CalculatorStarts DEF Init
<1>2. (subject = "calculator" => CalculatorInv) /\ [Next]_vars => (subject = "calculator" => CalculatorInv)'
  <2> SUFFICES ASSUME subject = "calculator" => CalculatorInv, [Next]_vars, subject' = "calculator" PROVE CalculatorInv'
    OBVIOUS
  <2>1. subject = "calculator" /\ [CalcNext]_calcVars BY DEF Next, vars, windowVars
  <2> QED BY <2>1, CalculatorSteps
<1> QED BY <1>1, <1>2, PTL DEF Spec

\* A value is taken of what is shown, once nothing is asked.
LEMMA TakenFollows == ASSUME CalculatorInv, CalcNext PROVE TakenIsTheBuilder
<1> SUFFICES ASSUME NEW t \in Taps, tap'[t].pc = "took", tap[t].pc # "took"
             PROVE  shown.builder = builder /\ shown.clock >= tap[t].clock
  BY DEF TakenIsTheBuilder
<1>0. tap \in [Taps -> TapStates] BY DEF CalculatorInv, CalcTypes
<1>1. \A after : ~Becomes(after) BY BecomesStep
<1>2. PICK u \in Taps : Press(u) \/ TakeValue(u) \/ ActionWaitIsOver(u)
  BY <1>1 DEF CalcNext, EnsureComputed, Recompute, Edit, ScenarioWithoutResult, QuietIsOver, RunIsDue, ClockTurns,
      EngineReturns, RunAnswers, RunIsCancelled, CloseCalculator
<1>3. TakeValue(u) /\ u = t
  <2>1. ~Press(u) BY <1>0 DEF Press
  <2>2. ~ActionWaitIsOver(u) BY <1>0 DEF ActionWaitIsOver, TapStates
  <2>3. TakeValue(u) BY <1>2, <2>1, <2>2
  <2> QED BY <1>0, <2>3 DEF TakeValue
<1>4. IsCurrent(latest) /\ HasResult /\ tap[t].pc = "woken" BY <1>0, <1>3 DEF TakeValue, TapStates
<1>5. tap[t].clock \in Nat /\ askedClock \in Nat /\ shown.clock \in Nat
  BY <1>0 DEF CalculatorInv, CalcTypes, TapStates, Shown
<1> QED BY <1>4, <1>5 DEF CalculatorInv, ShownInv

-----------------------------------------------------------------------------
(* What the date field, Start and the calculator promise.                  *)

LEMMA DateFollows == MomentInv => DateIsTheNewest
<1> SUFFICES ASSUME MomentInv PROVE DateIsTheNewest OBVIOUS
<1>1. MomentTypeOK
  BY DEF MomentInv, MomentTypes, MomentTypeOK, AnswersOf, Requests, PressSteps, Generation
<1> QED BY <1>1 DEF MomentInv, DateIsTheNewest

LEMMA ResultIsFollows == CalculatorInv => ResultIsTheNewest
<1> SUFFICES ASSUME CalculatorInv PROVE ResultIsTheNewest OBVIOUS
<1>1. \A r \in runs : r.builder \in 1..(MaxEdits + 1) /\ r.clock \in 0..MaxClock
  BY DEF CalculatorInv, CalcTypes, Runs
<1>2. CalcTypeOK BY <1>1 DEF CalculatorInv, CalcTypes, CalcTypeOK, AnswersOf, Shown, TapStates
<1>3. ShownIsTheBuilder BY DEF CalculatorInv, ShownInv, ShownIsTheBuilder
<1> QED BY <1>2, <1>3 DEF ResultIsTheNewest

\* For any presses, questions, edits and engine processes: no late answer stands where a newer one
\* belongs, in the date field (R4-S25) and on the calculator's screen.
THEOREM AnswersHold == Spec => []AnswersAreNewest
<1>1. (subject = "moment" => MomentInv) /\ (subject = "calculator" => CalculatorInv) => AnswersAreNewest
  BY DateFollows, ResultIsFollows DEF AnswersAreNewest
<1> QED BY <1>1, MomentInvHolds, CalculatorInvHolds, PTL

\* For any of them: a session starts with the newest date, one at a time, and a press of Copy or "Use
\* this date" takes the builder's own answer, by a clock no older than the press.
THEOREM NewestHolds == Spec => NewestIsTaken
<1>1. (subject = "moment" => MomentInv) /\ [Next]_vars => [subject = "moment" => StartsWithTheNewest]_momentVars
  BY StartFollows DEF Next, vars, windowVars
<1>2. (subject = "calculator" => CalculatorInv) /\ [Next]_vars => [subject = "calculator" => TakenIsTheBuilder]_calcVars
  BY TakenFollows DEF Next, vars, windowVars
<1> QED BY <1>1, <1>2, MomentInvHolds, CalculatorInvHolds, PTL DEF Spec, NewestIsTaken

=============================================================================
