---------------------------- MODULE BrowserLaunch ----------------------------
(***************************************************************************)
(* The browser of a Chromium session, from its start to its end (crates/   *)
(* cli cdp/launch.rs, cdp_session.rs, crates/mech job.rs and PlainChild):  *)
(* an isolated profile, a job that ends the browser with its core, the     *)
(* wait for the port, a launcher that hands the application over, and the  *)
(* profile of another core, which runs or was killed, in the same folder.  *)
(*                                                                         *)
(* A profile is named after its core's pid, which the system may give to   *)
(* another process once the core is gone.  A tick stands for the times the *)
(* code counts in.                                                         *)
(***************************************************************************)
EXTENDS Integers

CONSTANTS
    PORT_WAIT,      \* ticks a launch waits for the port
    GRACE,          \* ticks it goes on waiting once the started process has ended
    ATTEMPTS,       \* times the removal of a profile is tried
    HANDOFF_MARGIN  \* ticks the connection outlives the started process in a handover

ASSUME BrowserLaunchAssumption ==
    {PORT_WAIT, GRACE, ATTEMPTS, HANDOFF_MARGIN} \subseteq Nat \ {0}

VARIABLES
    core,      \* what the core does, the ticks or attempts left, when it saw the first process end
    chromium,  \* the process it started, the others, the port, whether they are in a job
    profile,   \* its directory: "none", "whole", or "damaged" by a removal
    other,     \* another core: whether it lives, holds its profile, has a pid in use, its profile
    reported   \* what the session ended with: "unsaid", "clean" or "left", and a handover

launchVars == <<core, chromium, profile, other, reported>>

NotObserved == -1

LaunchInit ==
    /\ core = [at |-> "out", left |-> 0, exit |-> FALSE, seen |-> NotObserved]
    /\ chromium = [first |-> "none", rest |-> "none", port |-> FALSE, job |-> FALSE]
    /\ profile = "none"
    /\ other = [lives |-> TRUE, holds |-> TRUE, pid |-> TRUE, profile |-> "whole", harmed |-> FALSE]
    /\ reported = [end |-> "unsaid", handed |-> FALSE]

CoreGoes(at) == core' = [core EXCEPT !.at = at]

-----------------------------------------------------------------------------
(* The start.                                                              *)

\* The switches the isolated profile needs are not the tester's to give.
RefusesSwitches ==
    /\ core.at = "out" /\ CoreGoes("over") /\ reported' = [reported EXCEPT !.end = "clean"]
    /\ UNCHANGED <<chromium, profile, other>>

\* Mutant: a profile nobody's core holds is known by how old it is, not by the pid in its name.
AsksForAge ==
    /\ core.at = "out" /\ CoreGoes(IF other.profile = "none" THEN "starting" ELSE "sweeping")
    /\ UNCHANGED <<chromium, profile, other, reported>>

\* `sweep_orphan_profiles`, of the other's name: is the pid in it alive?
AsksForPid ==
    /\ core.at = "out" /\ CoreGoes(IF other.profile = "none" \/ other.pid THEN "starting" ELSE "sweeping")
    /\ UNCHANGED <<chromium, profile, other, reported>>

\* A removal takes everything, or stops at the first file some process holds.
Removal(held) == IF held THEN "damaged" ELSE "none"

SweepsProfile ==
    /\ core.at = "sweeping" /\ CoreGoes("starting")
    /\ other' = [other EXCEPT !.profile = Removal(other.holds), !.harmed = other.lives]
    /\ UNCHANGED <<chromium, profile, reported>>

\* `create_profile_dir`, then `launch_plain`, with a job where the system gives one.
StartsBrowser ==
    /\ core.at = "starting"
    /\ \/ /\ CoreGoes("over") /\ reported' = [reported EXCEPT !.end = "clean"] /\ UNCHANGED <<chromium, profile>>
       \/ /\ profile' = "whole" /\ core' = [core EXCEPT !.at = "removing", !.left = ATTEMPTS]
          /\ UNCHANGED <<chromium, reported>>
       \/ /\ profile' = "whole" /\ core' = [core EXCEPT !.at = "waiting", !.left = PORT_WAIT]
          /\ \E job \in BOOLEAN : chromium' = [chromium EXCEPT !.first = "runs", !.job = job]
          /\ UNCHANGED reported
    /\ UNCHANGED other

\* One pass of the wait: the port, the started process's end - which only shortens the wait -
\* and the deadline.
LooksForPort ==
    /\ core.at = "waiting"
    /\ LET ended == chromium.first = "ended"
           left == IF ended /\ ~core.exit /\ GRACE < core.left THEN GRACE ELSE core.left
       IN  core' = IF chromium.port THEN [core EXCEPT !.at = "connecting"]
                   ELSE IF left = 0 THEN [core EXCEPT !.at = "ending"]
                   ELSE [core EXCEPT !.exit = @ \/ ended, !.left = left - 1]
    /\ UNCHANGED <<chromium, profile, other, reported>>

\* The connection and the first attach, by one deadline; a browser that goes fails them.
ConnectsFirst ==
    /\ core.at = "connecting"
    /\ \/ chromium.port /\ CoreGoes("running")
       \/ CoreGoes("ending")
    /\ UNCHANGED <<chromium, profile, other, reported>>

-----------------------------------------------------------------------------
(* The session and its end.                                                *)

\* `Handoff::observe` in a turn of the loop, and the margin's time passing.
Observes ==
    /\ core.at = "running" /\ chromium.first = "ended" /\ core.seen < HANDOFF_MARGIN
    /\ core' = [core EXCEPT !.seen = @ + 1]
    /\ UNCHANGED <<chromium, profile, other, reported>>

\* The `end` command, or the connection that closed; `followed` is asked as the loop ends.
LeavesTheLoop ==
    /\ core.at = "running" /\ CoreGoes("ending")
    /\ reported' = [reported EXCEPT !.handed = core.seen = HANDOFF_MARGIN]
    /\ UNCHANGED <<chromium, profile, other>>

\* Ended processes may hold the profile a moment longer.
EndAll == [chromium EXCEPT !.first = IF @ = "none" THEN @ ELSE "ended",
                           !.rest = IF chromium.job /\ @ = "runs" THEN "dying" ELSE @]

\* `cleanup`: the whole job is ended, then the profile removed as far as the processes let it.
CleansUp ==
    /\ core.at = "ending" /\ core' = [core EXCEPT !.at = "removing", !.left = ATTEMPTS]
    /\ chromium' = EndAll
    /\ UNCHANGED <<profile, other, reported>>

RemovesProfile ==
    /\ core.at = "removing"
    /\ profile' = Removal(chromium.first = "runs" \/ chromium.rest \in {"runs", "dying"})
    /\ core' = [core EXCEPT !.left = @ - 1,
                            !.at = IF profile' = "none" \/ core.left = 1 THEN "telling" ELSE @]
    /\ UNCHANGED <<chromium, other, reported>>

\* `ended`, with what is still there; the destructor does nothing a second time.
TellsResidue ==
    /\ core.at = "telling" /\ CoreGoes("over")
    /\ reported' = [reported EXCEPT !.end = IF profile = "none" THEN "clean" ELSE "left"]
    /\ UNCHANGED <<chromium, profile, other>>

-----------------------------------------------------------------------------
(* The browser, and what happens to the cores.                             *)

CoresStand == UNCHANGED <<core, profile, other, reported>>

\* The browser starts more processes, and one of them opens the port.
BrowserGrows ==
    /\ \/ chromium.first = "runs" /\ chromium.rest = "none" /\ chromium' = [chromium EXCEPT !.rest = "runs"]
       \/ "runs" \in {chromium.first, chromium.rest} /\ chromium' = [chromium EXCEPT !.port = TRUE]
    /\ CoresStand

\* The window is closed, or a launcher ends and leaves the application to what it started.
BrowserEnds ==
    /\ \/ chromium.first = "runs"
          /\ chromium' = [chromium EXCEPT !.first = "ended", !.port = @ /\ chromium.rest = "runs"]
       \/ chromium.rest \in {"runs", "dying"}
          /\ chromium' = [chromium EXCEPT !.rest = "ended", !.port = @ /\ chromium.first = "runs"]
    /\ CoresStand

\* A killed core runs nothing; the kernel closes its handles, and the job with them.
CoreDies ==
    /\ core.at \notin {"out", "over", "killed"} /\ CoreGoes("killed")
    /\ chromium' = IF chromium.job THEN EndAll ELSE chromium
    /\ UNCHANGED <<profile, other, reported>>

\* The other core goes, its browser after it, and its pid comes to name something else.
OtherMoves ==
    /\ \/ other.lives /\ \E pid \in BOOLEAN : other' = [other EXCEPT !.lives = FALSE, !.pid = pid]
       \/ ~other.lives /\ other' = [other EXCEPT !.pid = ~@]
       \/ ~other.lives /\ other.holds /\ other' = [other EXCEPT !.holds = FALSE]
    /\ UNCHANGED <<core, chromium, profile, reported>>

-----------------------------------------------------------------------------
CoreSteps ==
    \/ AsksForPid \/ SweepsProfile \/ StartsBrowser \/ LooksForPort \/ ConnectsFirst \/ CleansUp \/ RemovesProfile \/ TellsResidue

LaunchNext ==
    \/ RefusesSwitches \/ CoreSteps \/ Observes \/ LeavesTheLoop
    \/ BrowserGrows \/ BrowserEnds \/ CoreDies \/ OtherMoves

-----------------------------------------------------------------------------
LaunchTypeOK ==
    /\ core \in [at : {"out", "sweeping", "starting", "waiting", "connecting", "running", "ending",
                       "removing", "telling", "over", "killed"},
                 left : 0..(PORT_WAIT + ATTEMPTS), exit : BOOLEAN, seen : NotObserved..HANDOFF_MARGIN]
    /\ chromium \in [first : {"none", "runs", "ended"}, port : BOOLEAN, job : BOOLEAN,
                     rest : {"none", "runs", "dying", "ended"}]
    /\ profile \in {"none", "whole", "damaged"}

\* The profile of a session that runs is never touched, by its own core before the end or
\* by another core's sweep, which finds it by name (launch.rs sweep_orphan_profiles).
LivingProfilesAreWhole ==
    /\ core.at \in {"waiting", "connecting", "running", "ending"} => profile = "whole"
    /\ ~other.harmed /\ (other.lives => other.profile = "whole")

\* What a session said of its profile is so: it is gone, or it is there (launch.rs
\* remove_profile, LaunchFailed; docs: untouchable rules 4 and 6).
ResidueIsTrue ==
    /\ reported.end = "clean" => profile = "none"
    /\ reported.end = "left" => profile # "none"

\* A session that ended, or whose core was killed, left nothing of its browser running, but
\* for one the system would not put in a job (PlainChild, job.rs).
NothingRunsOn ==
    core.at \in {"removing", "telling", "over", "killed"} /\ chromium.job =>
        "runs" \notin {chromium.first, chromium.rest}

\* A handover is told only of a started process that ended while the connection went on
\* (cdp_session.rs Handoff::followed).
HandoverIsTrue == reported.handed => chromium.first = "ended" /\ core.seen = HANDOFF_MARGIN

LaunchIsSound ==
    LaunchTypeOK /\ LivingProfilesAreWhole /\ ResidueIsTrue /\ NothingRunsOn /\ HandoverIsTrue

\* Every start comes to a session or to an end that says what it left, though the port never
\* comes and the removal never succeeds.
StartIsUnderWay == core.at \notin {"out", "running", "over", "killed"}
EveryStartEnds == StartIsUnderWay ~> ~StartIsUnderWay
=============================================================================
