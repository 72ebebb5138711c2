----------------------------- MODULE CoreClient -----------------------------
(***************************************************************************)
(* The panel's end of the machine protocol: CoreClient.cs with its read    *)
(* loop, its bounded event channel and its one shutdown, and CoreSession   *)
(* (the handshake and the pump under an idle watchdog).  The other end is  *)
(* any core that keeps CoreOutput, writing into a pipe of limited room     *)
(* that somebody else may hold open after the core is gone.                *)
(*                                                                         *)
(* The window's machine is prompt: the half second dispose gives the read  *)
(* loop runs out only when that loop stands on a read or on a full         *)
(* channel, or the core could not be stopped.                              *)
(***************************************************************************)
EXTENDS CorePipe

CONSTANTS
    Callers,     \* those who may dispose the client
    ChannelRoom  \* MaxQueuedEvents

ASSUME CoreClientAssumption == Callers # {} /\ ChannelRoom \in Nat \ {0}

VARIABLES
    readLoop,  \* its step and the event in hand
    channel,   \* events handed on and not read
    complete,  \* the channel is closed to writers
    endedRead, \* _endedRead
    handed,    \* history: the number of the last event handed on, and whether one was left out
    shutDown,  \* the step of ShutDownAsync
    exitCode,  \* "known", or what the diagnostics say of it: nothing, or that the kill was refused
    caller,    \* each caller of DisposeAsync
    pump,      \* the window's thread: its step and the ticks left to its watchdog
    quiet      \* history: ticks since an event came into the channel

clientVars == <<readLoop, channel, complete, endedRead, handed,
                shutDown, exitCode, caller, pump, quiet>>
vars == <<pipeVars, clientVars>>

Reading == [pc |-> "reading", event |-> Noise]

Init ==
    /\ PipeInit
    /\ readLoop = Reading /\ channel = <<>> /\ complete = FALSE /\ endedRead = FALSE
    /\ handed = [n |-> 0, gap |-> FALSE]
    /\ shutDown = "no" /\ exitCode = "unknown"
    /\ caller = [c \in Callers |-> "no"]
    /\ pump = [pc |-> "handshake", left |-> IdleLimit]
    /\ quiet = 0

\* The core and its pipe move; the client does not.
PipeMoves == (CoreWrites \/ CoreGoesOn \/ NoiseIsWritten \/ HolderCloses) /\ UNCHANGED clientVars

-----------------------------------------------------------------------------
(* ReadEventsAsync.                                                        *)

\* Mutant: a line that is no event ends the reading.
AfterNoiseStop == "stopped"

\* `Interpret`: a line that is no event costs that line.
AfterNoise == "reading"

TakeLine ==
    /\ readLoop.pc = "reading" /\ LineIsTaken
    /\ readLoop' = IF Head(pipe) = Noise THEN [Reading EXCEPT !.pc = AfterNoise]
                   ELSE [pc |-> "handing", event |-> Head(pipe)]
    /\ UNCHANGED <<channel, complete, endedRead, handed, shutDown, exitCode, caller, pump, quiet>>

Full == Len(channel) = ChannelRoom

\* Mutant: a full channel drops the event.
MayHandOnAlways == TRUE

\* BoundedChannelFullMode.Wait.
MayHandOn == ~Full

HandOn ==
    LET event == readLoop.event IN
    /\ readLoop.pc = "handing" /\ ~complete /\ MayHandOn
    /\ channel' = IF Full THEN channel ELSE Append(channel, event)
    /\ handed' = IF Full THEN handed
                 ELSE [n |-> event.n, gap |-> handed.gap \/ event.n # handed.n + 1]
    /\ endedRead' = (endedRead \/ event.kind = "ended")
    /\ quiet' = 0
    /\ readLoop' = Reading
    /\ UNCHANGED <<pipeVars, complete, shutDown, exitCode, caller, pump>>

\* The channel was closed under the write, waiting or new: the event is dropped.
HandOnFails ==
    /\ readLoop.pc = "handing" /\ complete
    /\ readLoop' = [Reading EXCEPT !.pc = "done"]
    /\ UNCHANGED <<pipeVars, channel, complete, endedRead, handed, shutDown, exitCode, caller, pump, quiet>>

\* The end of the stream, or the stream closed under the read.
ReadEnd ==
    /\ readLoop.pc = "reading" /\ (Eof \/ shutDown = "done")
    /\ readLoop' = [Reading EXCEPT !.pc = "done"]
    /\ complete' = TRUE
    /\ UNCHANGED <<pipeVars, channel, endedRead, handed, shutDown, exitCode, caller, pump, quiet>>

ReadStep == TakeLine \/ HandOn \/ HandOnFails \/ ReadEnd

ReaderStands ==
    \/ readLoop.pc = "done"
    \/ readLoop.pc = "reading" /\ pipe = <<>> /\ ~Eof
    \/ readLoop.pc = "handing" /\ Full

-----------------------------------------------------------------------------
(* DisposeAsync.                                                           *)

\* Mutant: a second call returns at once.
DisposeAgain(c) ==
    /\ caller[c] = "no"
    /\ caller' = [caller EXCEPT ![c] = IF shutDown = "no" THEN "waiting" ELSE "returned"]
    /\ shutDown' = IF shutDown = "no" THEN "begin" ELSE shutDown
    /\ UNCHANGED <<pipeVars, readLoop, channel, complete, endedRead, handed, exitCode, pump, quiet>>

\* Every caller awaits the one shutdown.
Dispose(c) ==
    /\ caller[c] = "no"
    /\ caller' = [caller EXCEPT ![c] = "waiting"]
    /\ shutDown' = IF shutDown = "no" THEN "begin" ELSE shutDown
    /\ UNCHANGED <<pipeVars, readLoop, channel, complete, endedRead, handed, exitCode, pump, quiet>>

Return(c) ==
    /\ caller[c] = "waiting" /\ shutDown = "done"
    /\ caller' = [caller EXCEPT ![c] = "returned"]
    /\ UNCHANGED <<pipeVars, readLoop, channel, complete, endedRead, handed, shutDown, exitCode, pump, quiet>>

ShutDown(from, to) ==
    /\ shutDown = from /\ shutDown' = to
    /\ UNCHANGED <<pipe, written, holder, readLoop, channel, endedRead, handed, caller, pump, quiet>>

Same == UNCHANGED <<promise, complete, exitCode>>

\* `end` and the end of stdin, unless the core is gone.
AskToEnd == ShutDown("begin", IF HasExited THEN "drain" ELSE "grace") /\ Same

ExitInTime == HasExited /\ ShutDown("grace", "drain") /\ Same

\* The grace period is over: the core alone is killed, if the system lets it be.
GraceOver ==
    /\ ~HasExited
    /\ ShutDown("grace", "drain")
    /\ \/ stage' = "dead" /\ UNCHANGED exitCode
       \/ exitCode' = "refused" /\ UNCHANGED stage
    /\ UNCHANGED <<wrote, complete>>

\* Mutant: the stream is closed at once.
DrainAtOnce ==
    /\ ShutDown("drain", "join")
    /\ complete' = TRUE /\ UNCHANGED <<promise, exitCode>>

\* The stream is closed once the read loop has taken what the core wrote, `ended` last, or
\* after DrainTimeout.
Drain ==
    /\ endedRead \/ ReaderStands \/ ~HasExited
    /\ ShutDown("drain", "join")
    /\ complete' = TRUE /\ UNCHANGED <<promise, exitCode>>

\* Mutant: the join of the read loop has no limit.
JoinForGood == readLoop.pc = "done" /\ ShutDown("join", "exit") /\ Same

\* `AwaitQuietly` of the two readers, each for JoinTimeout at most.
Join == ShutDown("join", "exit") /\ Same

TakeExitCode ==
    /\ ShutDown("exit", "done")
    /\ exitCode' = (IF HasExited THEN "known" ELSE exitCode) /\ UNCHANGED <<promise, complete>>

ShutDownStep ==
    \/ AskToEnd \/ ExitInTime \/ GraceOver \/ Drain \/ Join \/ TakeExitCode

-----------------------------------------------------------------------------
(* The window's thread: OpenAsync and PumpAsync.                           *)

Pump == UNCHANGED <<pipeVars, readLoop, complete, endedRead, handed, shutDown, exitCode, caller, quiet>>

\* `ReadReadyAsync`: `ready`, or an error instead of it, or neither in time.
Handshake ==
    /\ pump.pc = "handshake" /\ channel # <<>>
    /\ channel' = Tail(channel)
    /\ pump' = [pc |-> CASE Head(channel).kind = "ready" -> "waiting"
                         [] Head(channel).kind = "error" -> "refused"
                         [] OTHER -> "handshake",
                left |-> IdleLimit]
    /\ Pump

HandshakeFails ==
    /\ pump.pc = "handshake" /\ pump' = [pump EXCEPT !.pc = "refused"]
    /\ UNCHANGED channel /\ Pump

\* Mutant: the window runs on while events are handled.
WindowAfterOld(left) == left

\* The window begins again once everything readable was handled.
WindowAfter(left) == IdleLimit

\* `onEvent` for one event; the thread may stand in it for long.
Handle ==
    /\ pump.pc \in {"waiting", "handling"} /\ channel # <<>>
    /\ channel' = Tail(channel)
    /\ pump' = [pump EXCEPT !.pc = "handling"]
    /\ Pump

WaitAgain ==
    /\ pump.pc = "handling" /\ channel = <<>>
    /\ pump' = IF WindowAfter(pump.left) = 0 THEN [pump EXCEPT !.pc = "hung"]
               ELSE [pc |-> "waiting", left |-> WindowAfter(pump.left)]
    /\ UNCHANGED channel /\ Pump

StreamOver ==
    /\ pump.pc = "waiting" /\ channel = <<>> /\ complete
    /\ pump' = [pump EXCEPT !.pc = "over"]
    /\ UNCHANGED channel /\ Pump

\* Time for the watchdog.  An event that is there has already answered the wait.
Tick ==
    /\ pump.pc \in {"waiting", "handling"} /\ ~complete
    /\ quiet' = IF quiet = IdleLimit THEN quiet ELSE quiet + 1
    /\ pump' = IF pump.pc = "waiting" /\ channel = <<>> /\ pump.left = 1 THEN [pc |-> "hung", left |-> 0]
               ELSE IF pump.left > 0 THEN [pump EXCEPT !.left = @ - 1] ELSE pump
    /\ UNCHANGED <<pipeVars, readLoop, channel, complete, endedRead, handed, shutDown, exitCode, caller>>

PumpStep == Handshake \/ Handle \/ WaitAgain \/ StreamOver

-----------------------------------------------------------------------------
Next ==
    \/ PipeMoves \/ ReadStep \/ ShutDownStep \/ PumpStep \/ HandshakeFails \/ Tick
    \/ \E c \in Callers : Dispose(c) \/ Return(c)

Spec == Init /\ [][Next]_vars

\* The client's tasks run, and its timers fire; nothing is asked of the core or the window.
FairSpec ==
    /\ Spec
    /\ WF_vars(ReadStep) /\ WF_vars(ShutDownStep)
    /\ \A c \in Callers : WF_vars(Return(c))

-----------------------------------------------------------------------------
\* The types of the variables.
TypeOK ==
    /\ PipeTypeOK
    /\ complete \in BOOLEAN /\ endedRead \in BOOLEAN 
    /\ exitCode \in {"unknown", "refused", "known"}
    /\ readLoop \in [pc : {"reading", "handing", "done"}, event : Event]
    /\ channel \in Seq(Event) /\ Len(channel) <= ChannelRoom
    /\ handed \in [n : 0..MaxEvents, gap : BOOLEAN]
    /\ shutDown \in {"no", "begin", "grace", "drain", "join", "exit", "done"}
    /\ caller \in [Callers -> {"no", "waiting", "returned"}]
    /\ pump \in [pc : {"handshake", "waiting", "handling", "hung", "refused", "over"}, left : 0..IdleLimit]
    /\ quiet \in 0..IdleLimit

\* The window sees a beginning of what the core wrote, in its order: no event is left out
\* from the middle, whatever is full (the comment at MaxQueuedEvents).
NothingLeftOut == ~handed.gap

\* The event stream of a core that wrote `ended` and left closes with `ended` handed on, unless
\* the window let the channel stand full: dispose waits for the read loop to take the core's
\* last lines (the comment in ShutDownAsync).
EndedIsHandedOn ==
    complete' /\ ~complete /\ HasExited /\ written.ended =>
        endedRead \/ (readLoop.pc = "handing" /\ Full)

\* Whoever disposed of the client has the core's exit code, or is told that the
\* core could not be stopped (the comment at DisposeAsync).
DisposedKnowsTheExit == \A c \in Callers : caller[c] = "returned" => exitCode # "unknown"

\* The watchdog speaks only when no event came for as long as it waits (M-10): not of a
\* core that talked while the window stood.
HungMeansQuiet == pump'.pc = "hung" /\ pump.pc # "hung" => quiet' = IdleLimit

\* Dispose comes back, whoever holds the pipe and whatever is full.
SomeDisposeWaits == \E c \in Callers : caller[c] = "waiting"
EveryDisposeReturns == SomeDisposeWaits ~> ~SomeDisposeWaits

\* A line on the pipe is read, unless the window lets the channel stand full: a line that is
\* no event costs that line and nothing after it (R4-W1).
LineIsLeft == pipe # <<>> /\ ~Full /\ ~complete
LinesAreRead == LineIsLeft ~> ~LineIsLeft

\* The window gets the core's lines with none left out, up to `ended`, and who disposed of a core
\* knows how it went.
ClientIsSound == TypeOK /\ NothingLeftOut /\ DisposedKnowsTheExit
=============================================================================
