------------------------------- MODULE MCSession -------------------------------
(***************************************************************************)
(* Three machines that share no state, in one run: a core's running        *)
(* session with its client, the registry value that sessions write and     *)
(* take away, and the bridge to the engines inside the application.  A     *)
(* behaviour moves one of them.                                            *)
(***************************************************************************)
EXTENDS SessionLoop, PolicyValue, EngineBridge

SomeStars == {Absent, Other, Text(TRUE, <<>>), Text(FALSE, <<LongAgo>>)}

\* A Qt host that chose a port of its own, and another process on the port it was told.
HostAndOther == {Key(1, 2), Key(2, 1)}

VARIABLE subject

sessionVars == <<subject, vars, policyVars, bridgeVars>>

SessionInit ==
    /\ subject \in {"loop", "policy", "bridge"}
    /\ Init /\ BridgeInit
    /\ PolicyInit /\ (subject # "policy" => star = Absent /\ value = Absent /\ keys = 0)

Moves(machine, Its, its) == IF subject = machine THEN Its ELSE UNCHANGED its

SessionNext ==
    /\ UNCHANGED subject
    /\ Moves("loop", Next, vars)
    /\ Moves("policy", PolicyNext, policyVars)
    /\ Moves("bridge", BridgeNext, bridgeVars)

\* The reader and the loop are threads the system runs, and time passes; so are the discovery
\* thread, the connects, which end by their deadline, and the turns of the session.
SessionFairness ==
    /\ WF_vars(subject = "loop" /\ ReaderStep)
    /\ WF_vars(subject = "loop" /\ LoopStep)
    /\ WF_vars(subject = "loop" /\ Tick)
    /\ WF_bridgeVars(subject = "bridge" /\ DiscoveryMoves)
    /\ WF_bridgeVars(subject = "bridge" /\ ConnectEnds)
    /\ WF_bridgeVars(subject = "bridge" /\ BridgeTurns)

SessionSpec == SessionInit /\ [][SessionNext]_sessionVars /\ SessionFairness

\* Each property is asked of the machine that moves.  The loop keeps its time and its promises,
\* and its end says what happened;
PromptLoop == subject = "loop" => LoopIsPrompt
EndToldInFull == subject = "loop" => EndSaysItAll
PromiseKept == [][subject = "loop" => Output!OutputNext]_<<Stage, wrote>>

\* what cores leave in the registry is what they found, or told, and nobody else's is touched;
NothingUnsaid == subject = "policy" => LeavesNothingUnsaid
OthersLeftAlone == [][subject = "policy" => LeavesOthersAlone]_policyVars

\* and an engine is connected to once, asked a few times, and its pages are its own.
SoundBridge == subject = "bridge" => BridgeIsSound

\* A session whose family has ended ends, and an engine that stays is heard of.
SessionOwes ==
    \/ subject = "loop" /\ FamilyHasEnded
    \/ subject = "bridge" /\ SomeEngineIsUnheard
NothingIsOwedForGood == SessionOwes ~> ~SessionOwes
=============================================================================
