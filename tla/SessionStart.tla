----------------------------- MODULE SessionStart -----------------------------
(***************************************************************************)
(* How a core starts a session (`prepare`), and what is left of a start    *)
(* that fails or whose core is killed at any step.                         *)
(*                                                                         *)
(* The core takes the session lock, makes or takes over the control block  *)
(* under its fixed name, writes itself into it, starts the target          *)
(* suspended in a job that ends with the core, loads the hook into it on a *)
(* remote thread, resumes it, and lets the job go.  The hook, on its side, *)
(* joins the session the block describes only while that session's core    *)
(* runs (`install`, `join_refusal`).  The kernel frees the lock of a core  *)
(* that dies before it closes its handles.  An application an earlier      *)
(* session left may hold the block's memory until it exits.                *)
(***************************************************************************)
EXTENDS Naturals, FiniteSets

CONSTANTS
    StartCores,    \* cores of this build on one desktop, each of which starts once
    Mortal         \* those that may be killed

NoCore == "no core"
Earlier == "earlier"    \* the core of the session before the first of them

ASSUME SessionStartAssumption == StartCores \cap {NoCore, Earlier} = {} /\ Mortal \subseteq StartCores

VARIABLES
    cores,     \* each core: its step, and what it learned and told
    lockOwner, \* the session mutex
    block,     \* the control block, while somebody maps it
    leftover,  \* an application of an earlier session, or a stranger, maps it
    apps       \* each core's target, and the hook being loaded into it

startVars == <<cores, lockOwner, block, leftover, apps>>

Blank == [magic |-> "zero", pid |-> NoCore, created |-> NoCore, ended |-> FALSE, anchor |-> NoCore, members |-> {}]
Written(magic, ended) == [Blank EXCEPT !.magic = magic, !.pid = Earlier, !.created = Earlier,
                                       !.ended = ended, !.anchor = Earlier]

NewCore == [pc |-> "new", view |-> FALSE, existed |-> FALSE, reclaimed |-> "nothing", before |-> NoCore,
            seen |-> [wait |-> "none", signalled |-> FALSE, code |-> "none"],
            covered |-> FALSE, told |-> FALSE, refused |-> FALSE, marked |-> FALSE]
NewApp == [life |-> "none", job |-> FALSE, thread |-> "none", exit |-> "none", look |-> NoCore,
           joined |-> NoCore, hooks |-> FALSE, page |-> FALSE]

StartInit ==
    /\ cores = [c \in StartCores |-> NewCore]
    /\ lockOwner = NoCore
    /\ leftover \in BOOLEAN
    /\ IF leftover THEN block \in {Written("ours", TRUE), Written("ours", FALSE), Written("other", FALSE), Written("foreign", FALSE)} ELSE block = Blank
    /\ apps = [c \in StartCores |-> NewApp]

\* The library maps the block while it decides, and for good once it has joined.
Maps(c) == /\ apps[c].life \in {"suspended", "running"}
           /\ apps[c].thread \in {"pid", "joining"} \/ apps[c].joined # NoCore
BlockIsHeld == leftover \/ \E c \in StartCores : cores[c].view \/ Maps(c)

\* The memory goes with the last that maps it; the next to ask for the name gets zeroes.
BlockStands == block' = IF BlockIsHeld' THEN block ELSE Blank

At(c, from) == cores[c].pc = from
Moves(c, to) == cores' = [cores EXCEPT ![c].pc = to]

\* A way out: what the core had learned is not used again.
Leaves(c, how) == cores' = [cores EXCEPT ![c] = [NewCore EXCEPT !.pc = how, !.marked = cores[c].marked]]
GoesOut(c, how) == cores' = [cores EXCEPT ![c] = [NewCore EXCEPT !.pc = how, !.marked = cores[c].marked, !.view = cores[c].view]]
Fails(c) == GoesOut(c, "drop target")
Ended(app) == [NewApp EXCEPT !.life = "ended", !.exit = "signalled", !.hooks = app.hooks]
AppIs(c, app) == apps' = [apps EXCEPT ![c] = app]

-----------------------------------------------------------------------------
(* The lock and the block.                                                 *)

\* `read_active_core_pid`: the pid in a block of this build, and nobody's otherwise.
ActiveCore == IF BlockIsHeld /\ block.magic = "ours" THEN block.pid ELSE NoCore

\* Mutant: whoever finds no core named in the block takes the session.
LockIsOursByPid(c) == ActiveCore \in {NoCore, Earlier} \/ (ActiveCore \in StartCores /\ cores[ActiveCore].pc = "dead")

\* `lock_is_ours`: an abandoned mutex is a free one.
LockIsOurs(c) == lockOwner = NoCore

\* `take_session_lock`.
TakesLock(c) ==
    /\ At(c, "new")
    /\ \/ /\ LockIsOurs(c)
          /\ lockOwner' = c /\ Moves(c, "locked")
       \/ /\ ~LockIsOurs(c)
          /\ Leaves(c, "failed") /\ UNCHANGED lockOwner
    /\ UNCHANGED <<block, leftover, apps>>

\* CreateFileMapping and MapViewOfFile; a name nobody holds is made afresh, filled with zeroes.
OpensBlock(c) ==
    /\ At(c, "locked")
    /\ \/ /\ cores' = [cores EXCEPT ![c].pc = "opened", ![c].view = TRUE, ![c].existed = BlockIsHeld]
       \/ Fails(c)
    /\ UNCHANGED <<lockOwner, block, leftover, apps>>

\* `held_block`.
HeldBlock == CASE block.magic = "ours" -> "ours" [] block.magic = "other" -> "other" [] OTHER -> "foreign"

\* Mutant: the mark is read once the block is zeroed.
ReclaimedZeroed == "dead core"

Reclaimed == IF block.ended THEN "ended" ELSE "dead core"

\* The block that survived is this build's, or nobody touches it.
ExaminesBlock(c) ==
    /\ At(c, "opened")
    /\ \/ ~cores[c].existed /\ Moves(c, "header")
       \/ /\ cores[c].existed /\ HeldBlock = "ours"
          /\ cores' = [cores EXCEPT ![c].pc = "zeroing", ![c].reclaimed = Reclaimed, ![c].before = block.pid]
       \/ /\ cores[c].existed /\ HeldBlock # "ours"
          /\ cores' = [cores EXCEPT ![c].pc = "drop target", ![c].refused = HeldBlock = "foreign"]
    /\ UNCHANGED <<lockOwner, block, leftover, apps>>

Writes(c, from, to, new) ==
    /\ At(c, from) /\ Moves(c, to)
    /\ block' = new
    /\ UNCHANGED <<lockOwner, leftover, apps>>

ZeroesBlock(c)  == Writes(c, "zeroing", "header", Blank)
WritesHeader(c) == Writes(c, "header", "anchor", [block EXCEPT !.magic = "ours"])
WritesAnchor(c) == Writes(c, "anchor", "pid", [block EXCEPT !.anchor = c, !.created = c])
WritesPid(c)    == Writes(c, "pid", "create", [block EXCEPT !.pid = c])

-----------------------------------------------------------------------------
(* The target.                                                             *)

\* `create_in_job`: a system that refuses the job starts the target without one.
CreatesTarget(c) ==
    /\ At(c, "create")
    /\ \/ Fails(c) /\ UNCHANGED apps
       \/ \E job \in BOOLEAN :
            /\ Moves(c, "inject")
            /\ AppIs(c, [NewApp EXCEPT !.life = "suspended", !.job = job])
    /\ UNCHANGED <<lockOwner, block, leftover>>

\* A target of the other bitness, or one whose memory and thread the core cannot have.
CannotInject(c) == At(c, "inject") /\ Fails(c) /\ UNCHANGED <<lockOwner, block, leftover, apps>>

\* The path is written into the target, and the remote thread started.
BeginsLoad(c) ==
    /\ At(c, "inject") /\ Moves(c, "waiting")
    /\ AppIs(c, [apps[c] EXCEPT !.thread = "header", !.page = TRUE])
    /\ UNCHANGED <<lockOwner, block, leftover>>

ThreadDone(c) == apps[c].thread \in {"module", "null"} \/ apps[c].exit # "none"

\* The wait: the thread ends, or the time runs out, or the wait fails.
LoadWaits(c) ==
    /\ At(c, "waiting")
    /\ \E wait \in {"not done"} \cup (IF ThreadDone(c) THEN {"done"} ELSE {}) :
        cores' = [cores EXCEPT ![c].pc = "signalled", ![c].seen = [@ EXCEPT !.wait = wait]]
    /\ UNCHANGED <<lockOwner, block, leftover, apps>>

\* Signalled first, then the code: a target may end between the two.
ReadsSignalled(c) ==
    /\ At(c, "signalled")
    /\ cores' = [cores EXCEPT ![c].pc = "code", ![c].seen = [@ EXCEPT !.signalled = (apps[c].exit = "signalled")]]
    /\ UNCHANGED <<lockOwner, block, leftover, apps>>

\* Mutant: any answer of the thread is a library that loaded.
LoadOutcomeByThread(seen, thread) == IF seen.wait = "done" THEN "loaded" ELSE "not done"

\* `loader::outcome`: the end of the process comes before what its thread answered.
LoadOutcome(seen, thread) ==
    IF seen.signalled \/ seen.code = "status" THEN "target ended"
    ELSE IF seen.wait # "done" THEN seen.wait
    ELSE IF thread = "module" THEN "loaded" ELSE "not loaded"

\* `page_released_safely`.
PageReleased(outcome) == outcome \in {"loaded", "not loaded", "target ended"}

\* A process that ended with 259, and one whose code cannot be read, look like one that runs.
ReadsOutcome(c) ==
    /\ At(c, "code")
    /\ \E code \in {"none"} \cup (IF apps[c].exit = "none" THEN {} ELSE {"status"}) :
        LET outcome == LoadOutcome([cores[c].seen EXCEPT !.code = code], apps[c].thread)
        IN /\ IF outcome = "loaded"
              THEN cores' = [cores EXCEPT ![c].pc = "slot", ![c].seen = NewCore.seen]
              ELSE Fails(c)
           /\ AppIs(c, [apps[c] EXCEPT !.page = @ /\ ~PageReleased(outcome)])
    /\ UNCHANGED <<lockOwner, block, leftover>>

\* `find_pid_slot` of the target's own pid.
FindsSlot(c) ==
    /\ At(c, "slot")
    /\ cores' = [cores EXCEPT ![c].pc = "resume", ![c].covered = c \in block.members]
    /\ UNCHANGED <<lockOwner, block, leftover, apps>>

\* ResumeThread: a failure ends the target instead of leaving it suspended.
Resumes(c) ==
    /\ At(c, "resume")
    /\ \/ /\ Moves(c, "let go")
          /\ AppIs(c, [apps[c] EXCEPT !.life = IF @ = "suspended" THEN "running" ELSE @])
       \/ Fails(c) /\ UNCHANGED apps
    /\ UNCHANGED <<lockOwner, block, leftover>>

\* Mutant: a job that could not be let go is not mentioned.
LetGoNoteOfNoJob(job, letGo) == ~job

\* `let_go_of`: the core says what it could not undo.
LetGoNote(job, letGo) == ~job \/ ~letGo

LetsGo(c) ==
    /\ At(c, "let go")
    /\ \E letGo \in BOOLEAN :
        /\ cores' = [cores EXCEPT ![c].pc = "session", ![c].told = LetGoNote(apps[c].job, letGo)]
        /\ AppIs(c, [apps[c] EXCEPT !.job = @ /\ ~letGo])
    /\ UNCHANGED <<lockOwner, block, leftover>>

-----------------------------------------------------------------------------
(* The ways out.                                                           *)

\* Mutant: the guard lets a target it never resumed stand.
EndedOnTheWayOutNever(app) == app

\* `SuspendedTarget`'s drop: the process by name, then its job.
EndedOnTheWayOut(app) == IF app.life = "none" THEN app ELSE Ended(app)

DropsTarget(c) ==
    /\ At(c, "drop target") /\ GoesOut(c, "drop view")
    /\ AppIs(c, EndedOnTheWayOut(apps[c]))
    /\ UNCHANGED <<lockOwner, leftover>>
    /\ BlockStands

\* `ControlView`'s drop.
DropsView(c) ==
    /\ At(c, "drop view")
    /\ cores' = [cores EXCEPT ![c].pc = "drop lock", ![c].view = FALSE]
    /\ UNCHANGED <<lockOwner, leftover, apps>>
    /\ BlockStands

\* `SessionLock`'s drop: after a failure, and after a session.
DropsLock(c) ==
    /\ At(c, "drop lock")
    /\ Leaves(c, IF cores[c].marked THEN "over" ELSE "failed")
    /\ lockOwner' = NoCore
    /\ UNCHANGED <<block, leftover, apps>>

\* `Session`'s drop: the mark first, while the block is mapped.
MarksEnded(c) ==
    /\ At(c, "session")
    /\ cores' = [cores EXCEPT ![c] = [NewCore EXCEPT !.pc = "drop view", !.view = TRUE, !.marked = TRUE]]
    /\ block' = [block EXCEPT !.ended = TRUE]
    /\ UNCHANGED <<lockOwner, leftover, apps>>

\* Killed: the mutex is abandoned with the thread, then the handles are closed, and a job
\* with a last handle ends its processes.
Dies(c) ==
    /\ c \in Mortal /\ cores[c].pc \notin {"new", "failed", "over", "dying", "dead"}
    /\ GoesOut(c, "dying")
    /\ lockOwner' = IF lockOwner = c THEN NoCore ELSE lockOwner
    /\ UNCHANGED <<block, leftover, apps>>

ClosesHandles(c) ==
    /\ At(c, "dying")
    /\ Leaves(c, "dead")
    /\ AppIs(c, IF apps[c].job THEN Ended(apps[c]) ELSE apps[c])
    /\ UNCHANGED <<lockOwner, leftover>>
    /\ BlockStands

-----------------------------------------------------------------------------
(* The hook in the target, and the system.                                 *)

Loads(c, at) == apps[c].life = "suspended" /\ apps[c].exit = "none" /\ apps[c].thread = at

\* A core whose process has ended is not running, whoever still holds a handle to it.
Running(p) == p \in StartCores /\ cores[p].pc \notin {"new", "failed", "over", "dead"}

\* `join_refusal`.
JoinRefusal(pid, created, ended) == ended \/ pid = NoCore \/ ~Running(pid) \/ created # pid

\* `install`: the header, then the pid, then the rest; the library unloads when it refuses.
ReadsHeader(c) ==
    /\ Loads(c, "header")
    /\ AppIs(c, [apps[c] EXCEPT !.thread = IF BlockIsHeld /\ block.magic = "ours" THEN "pid" ELSE "null"])
    /\ UNCHANGED <<cores, lockOwner, block, leftover>>

ReadsPid(c) ==
    /\ Loads(c, "pid")
    /\ AppIs(c, [apps[c] EXCEPT !.thread = "joining", !.look = block.pid])
    /\ UNCHANGED <<cores, lockOwner, block, leftover>>

Joins(c) ==
    /\ Loads(c, "joining")
    /\ AppIs(c, IF JoinRefusal(apps[c].look, block.created, block.ended)
                THEN [apps[c] EXCEPT !.thread = "null"]
                ELSE [apps[c] EXCEPT !.thread = "installing", !.joined = apps[c].look, !.look = NoCore])
    /\ UNCHANGED <<cores, lockOwner, leftover>>
    /\ BlockStands

\* MinHook, or a detour that cannot be written: the library refuses, or stays without one.
InstallFails(c) ==
    /\ Loads(c, "installing")
    /\ \/ AppIs(c, [apps[c] EXCEPT !.thread = "null", !.joined = NoCore])
       \/ AppIs(c, [apps[c] EXCEPT !.thread = "module"])
    /\ UNCHANGED <<cores, lockOwner, leftover>>
    /\ BlockStands

\* The detours are live, and the pid is published last.
Installs(c) ==
    /\ Loads(c, "installing")
    /\ AppIs(c, [apps[c] EXCEPT !.thread = "module", !.hooks = TRUE])
    /\ block' = [block EXCEPT !.members = @ \cup {c}]
    /\ UNCHANGED <<cores, lockOwner, leftover>>

\* The code is there before the object is signalled.
LoaderEndsTarget(c) ==
    /\ apps[c].life = "suspended" /\ apps[c].thread \notin {"none", "module", "null"} /\ apps[c].exit = "none"
    /\ AppIs(c, [apps[c] EXCEPT !.exit = "code"])
    /\ UNCHANGED <<cores, lockOwner, block, leftover>>

TargetEnds(c) ==
    /\ \/ apps[c].life = "suspended" /\ apps[c].exit = "code"
       \/ apps[c].life = "running"
    /\ AppIs(c, Ended(apps[c]))
    /\ UNCHANGED <<cores, lockOwner, leftover>>
    /\ BlockStands

LeftoverEnds == leftover /\ leftover' = FALSE /\ UNCHANGED <<cores, lockOwner, apps>> /\ BlockStands

StartSteps(c) ==
    \/ TakesLock(c) \/ OpensBlock(c) \/ ExaminesBlock(c) \/ ZeroesBlock(c) \/ WritesHeader(c)
    \/ WritesAnchor(c) \/ WritesPid(c) \/ CreatesTarget(c) \/ CannotInject(c) \/ BeginsLoad(c)
    \/ LoadWaits(c) \/ ReadsSignalled(c) \/ ReadsOutcome(c) \/ FindsSlot(c)
    \/ Resumes(c) \/ LetsGo(c) \/ DropsTarget(c) \/ DropsView(c) \/ DropsLock(c) \/ ClosesHandles(c)

HookLoads(c) == ReadsHeader(c) \/ ReadsPid(c) \/ Joins(c) \/ InstallFails(c) \/ Installs(c)

StartNext ==
    \/ \E c \in StartCores :
        StartSteps(c) \/ HookLoads(c) \/ MarksEnded(c) \/ Dies(c) \/ LoaderEndsTarget(c) \/ TargetEnds(c)
    \/ LeftoverEnds

StartSpec == StartInit /\ [][StartNext]_startVars

-----------------------------------------------------------------------------
Lives(c) == apps[c].life \in {"suspended", "running"}
Gone(c) == cores[c].pc \in {"failed", "over", "dead"}
HasBlock(c) == cores[c].pc \in {"create", "inject", "waiting", "signalled", "code", "slot",
                                "resume", "let go", "session"}

StartTypeOK ==
    /\ lockOwner \in StartCores \cup {NoCore}
    /\ block.magic \in {"zero", "ours", "other", "foreign"} /\ block.members \subseteq StartCores
    /\ \A c \in StartCores : /\ cores[c].reclaimed \in {"nothing", "ended", "dead core"}
                             /\ apps[c].life \in {"none", "suspended", "running", "ended"}

\* A live session's block is nobody else's: from the pid it writes last to its end, the block
\* names that core, holds its anchor and is not taken over by a core that starts meanwhile.
LiveBlockIsUntouched ==
    \A c \in StartCores : HasBlock(c) => block.pid = c /\ block.anchor = c /\ block.magic = "ours"

\* A target runs only with the hook in it, and what the core says it covers is covered (H-2):
\* a load that failed, hung or ended the target is never taken for one that worked.
NoneRunsUnhooked ==
    \A c \in StartCores : /\ apps[c].life = "running" => apps[c].thread = "module"
                          /\ cores[c].covered => apps[c].hooks

\* Whatever step fails and wherever the core is killed, no target is left suspended, except
\* one the system started outside a job under a core that was killed.
NobodyIsLeftSuspended ==
    \A c \in StartCores : Gone(c) /\ apps[c].life = "suspended" => cores[c].pc = "dead" /\ ~apps[c].job

\* An application that runs outlives its core, unless it was said that it would not (ADR-14).
OutlivesItsCore ==
    \A c \in StartCores : At(c, "session") /\ apps[c].job => cores[c].told

\* A takeover is told as it was: "ended in order" exactly when the session before marked its
\* end, and a refusal as a stranger's meets no block of this build, short of one whose core was
\* killed between zeroing it and its header.
TakeoverIsTrue ==
    \A c \in StartCores :
        /\ cores[c].reclaimed = "ended" /\ cores[c].before \in StartCores => cores[cores[c].before].marked
        /\ cores[c].reclaimed = "dead core" /\ cores[c].before \in StartCores => ~cores[cores[c].before].marked
        /\ At(c, "drop target") /\ cores[c].refused =>
            block.magic = "foreign" \/ \E d \in StartCores \ {c} : cores[d].pc \in {"dying", "dead"}

\* A process joins the session of the core that started it; another's only as the suspended
\* target of a core killed outside a job.
JoinsItsOwn ==
    \A c \in StartCores : apps[c].joined \notin {NoCore, c} => cores[c].pc \in {"dying", "dead"}

\* The page with the library's path is not freed under the thread that reads it.
PageOutlivesItsReader == \A c \in StartCores : Loads(c, "header") => apps[c].page

StartIsSound ==
    /\ StartTypeOK /\ LiveBlockIsUntouched /\ NoneRunsUnhooked /\ NobodyIsLeftSuspended
    /\ OutlivesItsCore /\ TakeoverIsTrue /\ JoinsItsOwn /\ PageOutlivesItsReader

\* A start under way, and a lock whose core has gone.
StartIsOpen ==
    \/ \E c \in StartCores : cores[c].pc \notin {"new", "session"} /\ ~Gone(c)
    \/ lockOwner # NoCore /\ Gone(lockOwner)
=============================================================================
