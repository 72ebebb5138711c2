------------------------------ MODULE MCClients ------------------------------
(***************************************************************************)
(* The two clients of a core, each at the end of the same pipe: the panel  *)
(* and `chrono run`.  A behaviour moves one of them.  The panel's core     *)
(* says one kind of line before its verdict.                               *)
(***************************************************************************)
EXTENDS CoreClient, RunDriver

-----------------------------------------------------------------------------
VARIABLE client

clientsVars == <<client, pipeVars, clientVars, runVars>>

ClientsInit ==
    /\ client \in {"panel", "driver"}
    /\ Init /\ RunInit
    /\ client = "panel" => clock.left = NoLimit

ClientsNext ==
    /\ UNCHANGED client
    /\ \/ client = "panel" /\ Next /\ wrote' # "start_error" /\ UNCHANGED runVars
       \/ client = "driver" /\ RunNext /\ UNCHANGED clientVars

ClientsFairness ==
    /\ WF_vars(client = "panel" /\ ReadStep)
    /\ WF_vars(client = "panel" /\ ShutDownStep)
    /\ \A c \in Callers : WF_vars(client = "panel" /\ Return(c))
    /\ WF_driverVars(client = "driver" /\ ReaderThread)
    /\ WF_driverVars(client = "driver" /\ LoopStep)
    /\ WF_driverVars(client = "driver" /\ CloseStep)
    /\ WF_driverVars(client = "driver" /\ TimePasses)
    /\ WF_driverVars(client = "driver" /\ Leave /\ PipeRuns)

ClientsSpec == ClientsInit /\ [][ClientsNext]_clientsVars /\ ClientsFairness

-----------------------------------------------------------------------------
\* No client cuts its core short, or its own last lines, without the reason it gives: the panel's stream
\* closes with `ended` handed on, a watchdog speaks of a quiet core only, and what stands beside the
\* report stays.
CutsAreJust ==
    /\ [][client = "panel" => EndedIsHandedOn /\ HungMeansQuiet]_vars
    /\ [][client = "driver" => IdleMeansQuiet /\ AnothersStands]_driverVars

\* A dispose comes back and the lines are read, and `chrono run` returns.
Standing ==
    \/ client = "panel" /\ (SomeDisposeWaits \/ LineIsLeft)
    \/ client = "driver" /\ RunIsOver
ClientsGoOn == Standing ~> ~Standing
=============================================================================
