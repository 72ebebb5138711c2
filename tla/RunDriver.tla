----------------------------- MODULE RunDriver -----------------------------
(***************************************************************************)
(* `chrono run` (crates/cli run): the thread that reads the core's lines,  *)
(* the bounded queue it fills, the loop that takes them under three limits *)
(* (idle, --timeout, and a short drain once the core is gone), what it     *)
(* gathers, the evidence file, and the code it exits with.                 *)
(*                                                                         *)
(* The machine is prompt: a tick passes only while the reading thread and  *)
(* the loop stand, and the drain is shorter than a tick.  Writing --json   *)
(* may stand for any time.  A kill reaches the core.                       *)
(***************************************************************************)
EXTENDS CorePipe

CONSTANTS
    QueueRoom,    \* MAX_QUEUED_LINES
    Timeout,      \* ticks of --timeout
    ScratchNames  \* SCRATCH_NAMES

ASSUME RunDriverAssumption ==
    /\ QueueRoom \in Nat \ {0} /\ Timeout \in Nat \ {0} /\ ScratchNames \in Nat \ {0}

VARIABLES
    reader,   \* the reading thread and the line in its hand
    queue,    \* lines read and not taken
    loop,     \* the loop's step and the event in its hand
    clock,    \* ReadClock: ticks since the last event, what is left of --timeout, the core seen gone
    cut,      \* which limit cut the run short
    heard,    \* the Collector, and history: the last event's number, and whether one was left out
    folder,   \* --report, the file there, the names beside it, and whether the text was written whole
    result,   \* the exit code's kind
    silence   \* history: ticks since the core wrote an event

runVars == <<reader, queue, loop, clock, cut, heard, folder, result, silence>>
driverVars == <<pipeVars, runVars>>

NoLimit == Timeout + 1
LineReader == [pc |-> "reading", line |-> Noise]
Looking == [pc |-> "look", event |-> Noise]
At(pc) == loop.pc = pc
Names == 1..ScratchNames

RunInit ==
    /\ PipeInit
    /\ reader = LineReader /\ queue = <<>> /\ loop = Looking
    /\ clock \in [idle : {0}, left : {Timeout, NoLimit}, gone : {FALSE}]
    /\ cut = "none" /\ result = "running" /\ silence = 0
    /\ heard = [opened |-> FALSE, errors |-> "none", judged |-> FALSE, ended |-> FALSE, n |-> 0, gap |-> FALSE]
    /\ folder = [report |-> FALSE, file |-> "none", beside |-> [i \in Names |-> "free"], whole |-> FALSE]

Receiving == loop.pc \in {"look", "wait", "acting"}

\* The core and its pipe move; the driver does not.  Nothing there matters once the status is taken.
PipeRuns ==
    /\ Receiving \/ At("closing")
    /\ CoreWrites \/ CoreGoesOn \/ NoiseIsWritten \/ HolderCloses
    /\ silence' = IF written'.events # written.events THEN 0 ELSE silence
    /\ UNCHANGED <<reader, queue, loop, clock, cut, heard, folder, result>>

-----------------------------------------------------------------------------
(* The reading thread.                                                     *)

Crowded == Len(queue) = QueueRoom

LoopStands == UNCHANGED <<loop, clock, cut, heard, folder, result, silence>>

ReadLine ==
    /\ reader.pc = "reading" /\ LineIsTaken
    /\ reader' = [pc |-> "sending", line |-> Head(pipe)]
    /\ UNCHANGED queue /\ LoopStands

\* Mutant: a line that finds the queue full is dropped.
SendOrDrop ==
    /\ reader.pc = "sending" /\ Receiving
    /\ queue' = IF Crowded THEN queue ELSE Append(queue, reader.line)
    /\ reader' = LineReader
    /\ UNCHANGED pipeVars /\ LoopStands

\* The thread waits for room: dropping a line could lose a verdict or an `ended`.
Send ==
    /\ reader.pc = "sending" /\ Receiving /\ ~Crowded
    /\ queue' = Append(queue, reader.line)
    /\ reader' = LineReader
    /\ UNCHANGED pipeVars /\ LoopStands

\* The receiver is dropped.
SendFails ==
    /\ reader.pc = "sending" /\ ~Receiving
    /\ reader' = [LineReader EXCEPT !.pc = "done"]
    /\ UNCHANGED <<pipeVars, queue>> /\ LoopStands

LinesEnd ==
    /\ reader.pc = "reading" /\ Eof
    /\ reader' = [LineReader EXCEPT !.pc = "done"]
    /\ UNCHANGED <<pipeVars, queue>> /\ LoopStands

ReaderThread == (Receiving \/ At("closing")) /\ (ReadLine \/ Send \/ SendFails \/ LinesEnd)

ThreadStands ==
    \/ reader.pc = "done"
    \/ reader.pc = "reading" /\ pipe = <<>> /\ ~Eof
    \/ reader.pc = "sending" /\ Crowded

-----------------------------------------------------------------------------
(* The loop.                                                               *)

ThreadRuns == UNCHANGED <<pipeVars, reader, folder, result>>

\* `stream_session` returns, and drops the receiver with what is queued, and the clock.
Returns ==
    /\ loop' = [Looking EXCEPT !.pc = "closing"]
    /\ queue' = <<>> /\ silence' = 0
    /\ clock' = [idle |-> 0, left |-> NoLimit, gone |-> FALSE]

\* Mutant: the loop ends once the core is gone.
LooksAndLeaves == loop' = [loop EXCEPT !.pc = IF HasExited THEN "closing" ELSE "wait"]

\* What the core already said is still taken.
Looks == loop' = [loop EXCEPT !.pc = "wait"]

\* `note_core`, before every wait.
LookAtCore ==
    /\ At("look") /\ Looks
    /\ clock' = [clock EXCEPT !.gone = @ \/ HasExited]
    /\ UNCHANGED <<queue, cut, heard, silence>> /\ ThreadRuns

\* Mutant: the idle limit counts from the start.
EventSeenNever == clock

\* An event renews the idle limit, and nothing else does.
EventSeen == [clock EXCEPT !.idle = 0]

TakeNext ==
    /\ At("wait") /\ queue # <<>>
    /\ queue' = Tail(queue)
    /\ LET line == Head(queue) IN
          IF line = Noise THEN loop' = Looking /\ UNCHANGED clock
          ELSE loop' = [pc |-> "acting", event |-> line] /\ clock' = EventSeen
    /\ UNCHANGED <<cut, heard, silence>> /\ ThreadRuns

LimitIsOver == clock.idle = IdleLimit \/ clock.left = 0

\* Nothing comes: the stream is over, or the core is gone and what it said is drained.
NothingMore ==
    /\ At("wait") /\ queue = <<>>
    /\ reader.pc = "done" \/ (clock.gone /\ ThreadStands)
    /\ Returns /\ UNCHANGED <<cut, heard>> /\ ThreadRuns

\* A limit is over while the core was alive at the look: the run is cut short, and the core killed.
CutShort ==
    /\ At("wait") /\ queue = <<>> /\ ThreadStands /\ reader.pc # "done"
    /\ ~clock.gone /\ LimitIsOver
    /\ cut' = IF clock.left = 0 THEN "timeout" ELSE "idle"
    /\ stage' = (IF HasExited THEN stage ELSE "dead")
    /\ Returns /\ UNCHANGED <<wrote, pipe, written, holder, reader, heard, folder, result>>

Opens == (Lines \cap {"verdict"}) \cup {"session_verdict"}

\* `Collector::record`.
Recorded(event) ==
    [heard EXCEPT
        !.opened = @ \/ event.kind \in Opens,
        !.errors = CASE event.kind = "start_error" -> "others"
                     [] event.kind = "error" /\ @ = "none" -> "refusals"
                     [] OTHER -> @,
        !.judged = @ \/ event.kind = "session_verdict",
        !.ended = @ \/ event.kind = "ended",
        !.n = event.n, !.gap = @ \/ event.n # heard.n + 1]

\* The event goes to --json, which may stand, and then to the collector.
Act ==
    /\ At("acting")
    /\ heard' = Recorded(loop.event)
    /\ IF loop.event.kind = "ended" THEN Returns
       ELSE loop' = Looking /\ UNCHANGED <<queue, clock, silence>>
    /\ UNCHANGED cut /\ ThreadRuns

\* A tick of the clock.
TimePasses ==
    /\ ThreadStands
    /\ \/ At("acting")
       \/ At("wait") /\ queue = <<>> /\ reader.pc # "done" /\ ~clock.gone /\ ~LimitIsOver
    /\ clock' = [clock EXCEPT !.idle = IF @ = IdleLimit THEN @ ELSE @ + 1,
                              !.left = IF @ \in {0, NoLimit} THEN @ ELSE @ - 1]
    /\ silence' = IF silence = IdleLimit THEN silence ELSE silence + 1
    /\ UNCHANGED <<pipeVars, reader, queue, loop, cut, heard, folder, result>>

-----------------------------------------------------------------------------
(* After the loop: `child.wait`, the evidence file, the exit code.         *)

Closing == UNCHANGED <<pipeVars, reader, queue, clock, cut, heard, silence>>

\* Mutant: an error heard is the core's refusal, whatever it is.
RefusedAnyError == ~heard.opened /\ heard.errors # "none"

\* A refusal of the first command is all a core says without `ended` after it.
RefusedToStart == ~heard.opened /\ heard.errors = "refusals"

core_left_session_open == ~heard.ended /\ ~RefusedToStart

\* The code of a core that left by itself is the verdict of a session that was judged; a killed
\* core's is whatever its killer chose, none of the tool's own among them.
ExitCodes == IF stage = "left" THEN {IF written.judged THEN "verdict" ELSE "other"}
             ELSE {"verdict", "other", "unknown"}

driver_exit_code(code) == IF code = "unknown" THEN "other" ELSE code

TakeStatus ==
    /\ At("closing") /\ HasExited
    /\ \E code \in ExitCodes :
          result' = CASE cut # "none" -> "cut"
                      [] cut = "none" /\ core_left_session_open -> "lost"
                      [] OTHER -> driver_exit_code(code)
    /\ \/ folder' = folder /\ loop' = [Looking EXCEPT !.pc = "exited"]
       \/ /\ loop' = [Looking EXCEPT !.pc = "evidence"]
          /\ \E file \in {"none", "old"}, taken \in 0..ScratchNames :
                folder' = [report |-> TRUE, file |-> file, whole |-> FALSE,
                           beside |-> [i \in Names |-> IF i <= taken THEN "another's" ELSE "free"]]
    /\ Closing

Goes(pc) == loop' = [Looking EXCEPT !.pc = pc]

\* A verdict whose evidence is not where --report says is no verdict.
WithoutEvidence == result' = (IF result = "verdict" THEN "no_evidence" ELSE result)

Mine(i) == folder.beside[i] \in {"cut off", "whole"}

\* The first name that is not taken; a name that cannot be tried ends it, as no name left does.
CreateScratch ==
    /\ At("evidence") /\ Closing
    /\ \/ \E i \in Names :
             /\ folder.beside[i] = "free" /\ \A j \in 1..(i - 1) : folder.beside[j] # "free"
             /\ folder' = [folder EXCEPT !.beside[i] = "cut off"]
             /\ Goes("writing") /\ UNCHANGED result
       \/ UNCHANGED folder /\ Goes("exited") /\ WithoutEvidence

\* Mutant: a write that failed is renamed all the same.
WriteScratchGoesOn ==
    /\ At("writing") /\ Closing
    /\ \E i \in Names :
          /\ Mine(i)
          /\ \/ folder' = [folder EXCEPT !.beside[i] = "whole", !.whole = TRUE]
             \/ UNCHANGED folder
    /\ Goes("renaming") /\ UNCHANGED result

\* The text is written whole, or the scratch file goes again: unless it cannot be removed, which
\* nobody looks at, and then the half stays.
WriteScratch ==
    /\ At("writing") /\ Closing
    /\ \E i \in Names :
          /\ Mine(i)
          /\ \/ folder' = [folder EXCEPT !.beside[i] = "whole", !.whole = TRUE]
                /\ Goes("renaming") /\ UNCHANGED result
             \/ \E left \in {"free", "cut off"} : folder' = [folder EXCEPT !.beside[i] = left]
                /\ Goes("exited") /\ WithoutEvidence

\* What it holds takes the report's name in one step, or stays beside, whether or not a report stood
\* there before.
Rename ==
    /\ At("renaming") /\ Closing /\ Goes("exited")
    /\ \E i \in Names :
          /\ Mine(i)
          /\ \/ folder' = [folder EXCEPT !.file = folder.beside[i], !.beside[i] = "free"] /\ UNCHANGED result
             \/ UNCHANGED folder /\ WithoutEvidence

\* The driver is ended while it writes.
DriverDies ==
    /\ loop.pc \in {"evidence", "writing", "renaming"}
    /\ Goes("died") /\ UNCHANGED <<folder, result>> /\ Closing

LoopStep == LookAtCore \/ TakeNext \/ NothingMore \/ CutShort
CloseStep == TakeStatus \/ CreateScratch \/ WriteScratch \/ Rename

RunNext == PipeRuns \/ ReaderThread \/ LoopStep \/ Act \/ TimePasses \/ CloseStep \/ DriverDies

\* The driver's thread and loop run and time passes; a core that has said its last line leaves.
\* Nothing is asked of whoever reads --json or holds the pipe.
RunFairness ==
    /\ WF_driverVars(ReaderThread) /\ WF_driverVars(LoopStep) /\ WF_driverVars(CloseStep)
    /\ WF_driverVars(TimePasses) /\ WF_driverVars(Leave /\ PipeRuns)

RunSpec == RunInit /\ [][RunNext]_driverVars /\ RunFairness

-----------------------------------------------------------------------------
Exited == At("exited")

\* The types of the variables.
RunTypeOK ==
    /\ PipeTypeOK
    /\ reader \in [pc : {"reading", "sending", "done"}, line : Event]
    /\ queue \in Seq(Event) /\ Len(queue) <= QueueRoom
    /\ loop \in [pc : {"look", "wait", "acting", "closing", "evidence", "writing", "renaming", "exited", "died"},
                 event : Event]
    /\ clock \in [idle : 0..IdleLimit, left : 0..NoLimit, gone : BOOLEAN]
    /\ cut \in {"none", "timeout", "idle"} /\ silence \in 0..IdleLimit
    /\ heard \in [opened : BOOLEAN, errors : {"none", "refusals", "others"}, judged : BOOLEAN,
                  ended : BOOLEAN, n : 0..MaxEvents, gap : BOOLEAN]
    /\ folder \in [report : BOOLEAN, file : {"none", "old", "cut off", "whole"}, whole : BOOLEAN,
                   beside : [Names -> {"free", "another's", "cut off", "whole"}]]
    /\ result \in {"running", "verdict", "no_evidence", "other", "lost", "cut"}

\* The driver exits with a verdict only of a session it read through `ended` with no event left out,
\* or, with a core that left by itself, one the session was judged with too (R4-W3: a killed
\* core's code is not the session's result).  A core killed after it refused the start is the one
\* whose code passes.
VerdictIsRead ==
    result \in {"verdict", "no_evidence"} =>
        /\ cut = "none" /\ ~heard.gap
        /\ heard.ended \/ (stage = "dead" /\ heard.errors = "refusals" /\ ~heard.opened)
        /\ stage = "left" => heard.judged

\* A core that left by itself is never called lost, however late its last lines are read.
ClosedIsNotLost == result = "lost" => stage = "dead"

\* A verdict's code says that the report holds this session's evidence, 8 that it does not; text
\* once written whole is in the report or in a file beside it (R5-D28, evidence_file.rs).
EvidenceIsWhereItSays ==
    Exited /\ folder.report =>
        /\ result = "verdict" => folder.file = "whole"
        /\ result = "no_evidence" => folder.file # "whole"
        /\ folder.whole => folder.file = "whole" \/ \E i \in Names : folder.beside[i] = "whole"

\* No half of the text ever bears the report's name, wherever the driver is ended ("written whole or not
\* at all", the comment at `write`).  One that could not be removed stays beside the report of before,
\* and the run that left it exits with no verdict.
NoHalfIsRead ==
    /\ folder.file # "cut off"
    /\ \A i \in Names : Exited /\ folder.beside[i] = "cut off" =>
           ~folder.whole /\ folder.file # "whole" /\ result # "verdict"

\* What `chrono run` tells its caller by its code is true.
RunIsHonest ==
    RunTypeOK /\ VerdictIsRead /\ ClosedIsNotLost /\ EvidenceIsWhereItSays /\ NoHalfIsRead

\* The idle limit cuts a run short only when the core said nothing for as long (R3-5, M-10).
IdleMeansQuiet == cut' = "idle" /\ cut # "idle" => silence = IdleLimit

\* A file that was beside the report is never written or removed: a process id comes back, and it may hold
\* an earlier run's evidence (the comment at create_scratch).
AnothersStands ==
    ~At("closing") => \A i \in Names : folder.beside[i] = "another's" => folder'.beside[i] = "another's"

\* The command comes back once the core is gone, or its --timeout has passed, whoever holds the pipe:
\* unless whoever reads --json does not (R3-5).
RunIsOver == (HasExited \/ clock.left = 0) /\ loop.pc \notin {"exited", "died", "acting"}
RunReturns == RunIsOver ~> ~RunIsOver
=============================================================================
