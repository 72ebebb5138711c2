------------------------------ MODULE MCChromium ------------------------------
(***************************************************************************)
(* The machines of a Chromium session that share no state, in one run: the *)
(* requests to one context, the clock of the session and its page, the     *)
(* socket of a connection, the calls over one, and the browser's start and *)
(* end.  A behaviour moves one of them.                                    *)
(***************************************************************************)
EXTENDS CdpRequests, CdpClock, DevToolsSocket, DevToolsCalls, BrowserLaunch

BackAndForth == {-2, 1}
StillSegment == [fake0 |-> 6, real0 |-> 0, mult |-> 0, acc |-> 0, dur0 |-> 0]

VARIABLE subject

chromiumVars == <<subject, cdpVars, clockVars, socketVars, callsVars, launchVars>>

ChromiumInit ==
    /\ subject \in {"context", "clock", "socket", "calls", "launch"}
    /\ CdpInit /\ SocketInit /\ CallsInit /\ LaunchInit
    /\ ClockInit /\ (subject # "clock" => panel.seg = StillSegment)

Moves(machine, Its, its) == IF subject = machine THEN Its ELSE UNCHANGED its

ChromiumNext ==
    /\ UNCHANGED subject
    /\ Moves("context", CdpNext, cdpVars)
    /\ Moves("clock", ClockNext, clockVars)
    /\ Moves("socket", SocketNext, socketVars)
    /\ Moves("calls", CallsNext, callsVars)
    /\ Moves("launch", LaunchNext, launchVars)

\* The page comes to its requests and the session to the answers; the threads of a connection
\* run, and a write comes back by its timeout; time passes for a call; a core goes on.
ChromiumFairness ==
    /\ WF_cdpVars(subject = "context" /\ Takes) /\ WF_cdpVars(subject = "context" /\ Handles)
    /\ WF_socketVars(subject = "socket" /\ OwnerReturns) /\ WF_socketVars(subject = "socket" /\ ReaderMoves)
    /\ WF_callsVars(subject = "calls" /\ CallRunsOut) /\ WF_callsVars(subject = "calls" /\ CallTimePasses)
    /\ WF_launchVars(subject = "launch" /\ CoreSteps)

ChromiumSpec == ChromiumInit /\ [][ChromiumNext]_chromiumVars /\ ChromiumFairness

\* Each property is asked of the machine that moves: of the context and the clock,
SoundContext == subject = "context" => ContextIsSound
NothingPutBack == [][subject = "context" => PutsNothingBack]_cdpVars
SoundPages == subject = "clock" => PagesKeepTheClock
ClockForward == [][subject = "clock" => PerfGoesOn /\ WallIsMovedByJumps]_clockVars

\* of a DevTools connection, message by message and call by call,
SoundConnection ==
    /\ subject = "socket" => SocketIsSound
    /\ subject = "calls" => CallsAreSound

\* and of the browser's start and end.
SoundLaunch == subject = "launch" => LaunchIsSound

\* Whoever waits does not wait for ever: a page for the clock, a write and a reader thread for
\* their end, a call for its answer, a start for its session.
Waits ==
    \/ subject = "context" /\ Behind
    \/ subject = "socket" /\ (WriteIsUnderWay \/ ReaderIsLeft)
    \/ subject = "calls" /\ CallIsUnderWay
    \/ subject = "launch" /\ StartIsUnderWay
EveryWaitEnds == Waits ~> ~Waits
=============================================================================
