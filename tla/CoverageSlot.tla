----------------------------- MODULE CoverageSlot -----------------------------
(***************************************************************************)
(* What one process claims to have covered (crates/hook, untouchable       *)
(* rule 4).                                                                *)
(*                                                                         *)
(* `install` makes a detour for every channel whose module is there,       *)
(* switches them all on, and writes the mask into the process's slot of    *)
(* the control block.  The watcher, started by whichever detour runs       *)
(* first, looks for modules that arrive later and adds their channels      *)
(* (`late_scan`); the core reads the masks while it does                   *)
(* (`gather_coverage`).  MinHook, outside the repository, keeps for each   *)
(* detour whether it is on and whether it is queued to be, and applies its *)
(* whole queue with every other thread frozen.  A startup channel may have *)
(* two bodies, kernel32's and kernelbase's: a detour that some callers go  *)
(* past is switched on like the others, and its channel is not claimed.    *)
(***************************************************************************)
EXTENDS Naturals, FiniteSets

CONSTANTS
    Startup,      \* the channels of modules every process has
    Modules,      \* the modules that may arrive later, each the set of its channels
    EarlyWatcher  \* a thread started while the library loads runs before it has loaded

Late == UNION Modules
Channels == Startup \cup Late

ASSUME CoverageSlotAssumption ==
    /\ Startup \cap Late = {}
    /\ \A m, n \in Modules : m # n => m \cap n = {}
    /\ EarlyWatcher \in BOOLEAN

VARIABLES
    sessionIs,  \* "running", or "ended"
    present,  \* the channels of the modules loaded so far
    created,  \* the channels that have a trampoline
    on,       \* MinHook: the detours switched on
    queued,   \* MinHook: the detours its queue switches on
    failed,   \* HOOK_FAILED
    todo,     \* LATE_TODO
    install,  \* the install: its step, its `pending` mask, INSTALL_DONE, and history: the
              \* channels that have a detour which some callers go past
    watcher,  \* the watcher: its step and the locals of its scan
    cov,      \* the slot's three masks, and whether its pid is published
    reader      \* one reading of the slot by the core

detours == <<created, on, queued, failed, todo>>
slotVars == <<sessionIs, present, detours, install, watcher, cov, reader>>

Resting == [pc |-> "none", left |-> {}, batch |-> {}, live |-> {}, lost |-> {}, before |-> {}, stored |-> 0]
Reading == [pc |-> "idle", installed |-> {}, failed |-> {}, late |-> {}]

SlotInit ==
    /\ sessionIs = "running"
    /\ \E loaded \in SUBSET Modules : present = Startup \cup UNION loaded
    /\ created = {} /\ on = {} /\ queued = {} /\ failed = {} /\ todo = {}
    /\ install = [pc |-> "making", pending |-> {}, oneWay |-> {}, done |-> FALSE]
    /\ watcher = Resting
    /\ cov = [installed |-> {}, late |-> {}, failed |-> {}, published |-> FALSE]
    /\ reader = Reading

-----------------------------------------------------------------------------
(* The install.                                                            *)

Install(from, to) ==
    /\ install.pc = from
    /\ install' = [install EXCEPT !.pc = to]
    /\ UNCHANGED <<sessionIs, present, watcher, reader>>

\* Mutant: every channel that has a detour is claimed.
MakeHooksClaimAll ==
    /\ install.pc = "making"
    /\ \E made \in SUBSET present : \E oneWay \in SUBSET (made \cap Startup) :
       \E broken \in SUBSET ((present \ made) \cup oneWay) :
        /\ created' = made /\ failed' = broken
        /\ install' = [install EXCEPT !.pc = "enabling", !.pending = made, !.oneWay = oneWay]
    /\ UNCHANGED <<sessionIs, present, on, queued, todo, watcher, cov, reader>>

\* `make_hook`, of every channel whose module is there; an export may be missing.  A detour on
\* kernel32's entry with a body of its own in kernelbase, or on one of two bodies alone, is made
\* and does not claim its channel; the other body may be among the failures, or nothing is.
MakeHooks ==
    /\ install.pc = "making"
    /\ \E made \in SUBSET present : \E oneWay \in SUBSET (made \cap Startup) :
       \E broken \in SUBSET ((present \ made) \cup oneWay) :
        /\ created' = made /\ failed' = broken
        /\ install' = [install EXCEPT !.pc = "enabling", !.pending = made \ oneWay, !.oneWay = oneWay]
    /\ UNCHANGED <<sessionIs, present, on, queued, todo, watcher, cov, reader>>

EnableAll ==
    /\ Install("enabling", "store installed")
    /\ on' = created /\ queued' = created
    /\ UNCHANGED <<created, failed, todo, cov>>

\* MinHook stops at a detour it cannot write and leaves the ones before it on.
EnableAllFails ==
    /\ Install("enabling", "taking back")
    /\ \E part \in SUBSET created : part # created /\ on' = part /\ queued' = part
    /\ UNCHANGED <<created, failed, todo, cov>>

\* `enable_or_take_back`: nothing is claimed, whether or not that works.
TakeBack ==
    /\ Install("taking back", "failed")
    /\ \E part \in SUBSET on : on' = part /\ queued' = part
    /\ UNCHANGED <<created, failed, todo, cov>>

StoreInstalled ==
    /\ Install("store installed", "store failed")
    /\ cov' = [cov EXCEPT !.installed = install.pending]
    /\ UNCHANGED detours

StoreFailed ==
    /\ Install("store failed", "owe")
    /\ cov' = [cov EXCEPT !.failed = failed]
    /\ UNCHANGED detours

Owe ==
    /\ Install("owe", "done")
    /\ todo' = Late \ install.pending
    /\ UNCHANGED <<created, on, queued, failed, cov>>

Done ==
    /\ install.pc = "done"
    /\ install' = [install EXCEPT !.pc = "publish", !.done = TRUE]
    /\ UNCHANGED <<sessionIs, present, detours, watcher, cov, reader>>

PublishSlot ==
    /\ Install("publish", "over")
    /\ cov' = [cov EXCEPT !.published = TRUE]
    /\ UNCHANGED detours

-----------------------------------------------------------------------------
(* The watcher.                                                            *)

Watch(pc) == watcher.pc = pc /\ UNCHANGED <<sessionIs, present, install, reader>>

\* `ensure_watcher`, from the first detour that runs.  A session over by then gets none.
StartWatcher ==
    /\ Watch("none") /\ on # {}
    /\ EarlyWatcher \/ install.pc \in {"over", "failed"}
    /\ watcher' = [watcher EXCEPT !.pc = IF sessionIs = "running" THEN "look" ELSE "gone"]
    /\ UNCHANGED <<detours, cov>>

\* `late_scan` up to its loop.  Nothing is touched before the install stored its mask (R1).
WatcherLooks ==
    /\ Watch("look")
    /\ watcher' = IF install.done /\ todo # {}
                  THEN [Resting EXCEPT !.pc = "resolve", !.left = todo, !.before = failed]
                  ELSE [Resting EXCEPT !.pc = "pause"]
    /\ UNCHANGED <<detours, cov>>

\* Mutant: a detour that could not be created joins the batch.
LateOneAlways(c) ==
    /\ Watch("resolve") /\ c \in watcher.left
    /\ watcher' = [watcher EXCEPT !.left = @ \ {c}, !.batch = @ \cup {c}]
    /\ UNCHANGED <<created, failed, todo, on, queued, cov>>

\* `pin_module` and `late_one`: the bit is no longer owed, whatever comes of it.
LateOne(c) ==
    /\ Watch("resolve") /\ c \in watcher.left
    /\ \/ /\ c \notin present
          /\ watcher' = [watcher EXCEPT !.left = @ \ {c}]
          /\ UNCHANGED <<created, failed, todo>>
       \/ /\ c \in present
          /\ todo' = todo \ {c}
          /\ \/ /\ created' = created \cup {c}
                /\ watcher' = [watcher EXCEPT !.left = @ \ {c}, !.batch = @ \cup {c}]
                /\ UNCHANGED failed
             \/ /\ failed' \in {failed, failed \cup {c}}    \* no export, or no trampoline
                /\ watcher' = [watcher EXCEPT !.left = @ \ {c}]
                /\ UNCHANGED created
    /\ UNCHANGED <<on, queued, cov>>

Resolved == Watch("resolve") /\ watcher.left = {}

NothingCreated ==
    /\ Resolved /\ watcher.batch = {}
    /\ watcher' = [watcher EXCEPT !.pc = "record"]
    /\ UNCHANGED <<detours, cov>>

\* `queue_and_apply`: MinHook applies everything queued, this batch or an earlier one.
ApplyQueue ==
    /\ Resolved /\ watcher.batch # {}
    /\ queued' = queued \cup watcher.batch
    /\ on' = queued'
    /\ watcher' = [watcher EXCEPT !.pc = "record", !.live = watcher.batch]
    /\ UNCHANGED <<created, failed, todo, cov>>

\* It stops part-way: each detour that differs from the queue may have been reached.
ApplyQueueFails ==
    /\ Resolved /\ watcher.batch # {}
    /\ queued' = queued \cup watcher.batch
    /\ \E part \in SUBSET ((queued' \ on) \cup (on \ queued')) :
        /\ part # (queued' \ on) \cup (on \ queued')
        /\ on' = (on \ part) \cup (part \ on)
    /\ watcher' = [watcher EXCEPT !.pc = "one by one", !.left = watcher.batch]
    /\ UNCHANGED <<created, failed, todo, cov>>

\* Mutant: a detour that failed stays in the queue.
EnableOneLateQueued(c) ==
    /\ Watch("one by one") /\ c \in watcher.left
    /\ \/ /\ on' = on \cup {c}
          /\ queued' = IF c \in on THEN queued ELSE queued \cup {c}
          /\ watcher' = [watcher EXCEPT !.left = @ \ {c}, !.live = @ \cup {c}]
       \/ /\ c \notin on
          /\ UNCHANGED <<on, queued>>
          /\ watcher' = [watcher EXCEPT !.left = @ \ {c}, !.lost = @ \cup {c}]
    /\ UNCHANGED <<created, failed, todo, cov>>

\* `enable_one_late`: one that is on already counts as live, and one that fails leaves the
\* queue.
EnableOneLate(c) ==
    /\ Watch("one by one") /\ c \in watcher.left
    /\ \/ /\ on' = on \cup {c}
          /\ queued' = IF c \in on THEN queued ELSE queued \cup {c}
          /\ watcher' = [watcher EXCEPT !.left = @ \ {c}, !.live = @ \cup {c}]
       \/ /\ c \notin on
          /\ queued' = queued \ {c}
          /\ watcher' = [watcher EXCEPT !.left = @ \ {c}, !.lost = @ \cup {c}]
          /\ UNCHANGED on
    /\ UNCHANGED <<created, failed, todo, cov>>

AllTried ==
    /\ Watch("one by one") /\ watcher.left = {}
    /\ watcher' = [watcher EXCEPT !.pc = "record"]
    /\ UNCHANGED <<detours, cov>>

\* `live_cov`: after the end the block may be the next session's.
Ours == IF sessionIs = "running" THEN {TRUE} ELSE BOOLEAN

Record ==
    /\ Watch("record")
    /\ failed' = failed \cup watcher.lost
    /\ \E ours \in Ours :
        watcher' = [watcher EXCEPT !.pc = IF ~ours THEN "pause"
                                          ELSE IF watcher.live # {} THEN "store live" ELSE "store failed"]
    /\ UNCHANGED <<created, on, queued, todo, cov>>

\* Mutant: the coverage mask first, the late mask second.
StoreOrderSwapped == <<"installed", "late">>

\* The late mask first, the coverage mask second.
StoreOrder == <<"late", "installed">>

\* Mutant: every detour of the batch is claimed.
StoreLiveAll(n) ==
    /\ Watch("store live") /\ watcher.stored = n - 1
    /\ cov' = [cov EXCEPT ![StoreOrder[n]] = @ \cup watcher.batch]
    /\ watcher' = [watcher EXCEPT !.stored = n, !.pc = IF n = 2 THEN "store failed" ELSE @]
    /\ UNCHANGED detours

\* OR, never a plain store: the startup bits are the install's.
StoreLive(n) ==
    /\ Watch("store live") /\ watcher.stored = n - 1
    /\ cov' = [cov EXCEPT ![StoreOrder[n]] = @ \cup watcher.live]
    /\ watcher' = [watcher EXCEPT !.stored = n, !.pc = IF n = 2 THEN "store failed" ELSE @]
    /\ UNCHANGED detours

\* Mutant: only a scan that switched something on writes the failures.
StoreLateFailedIfLive ==
    /\ Watch("store failed")
    /\ cov' = IF watcher.live # {} THEN [cov EXCEPT !.failed = failed] ELSE cov
    /\ watcher' = [watcher EXCEPT !.pc = "pause"]
    /\ UNCHANGED detours

StoreLateFailed ==
    /\ Watch("store failed")
    /\ cov' = IF failed # watcher.before THEN [cov EXCEPT !.failed = failed] ELSE cov
    /\ watcher' = [watcher EXCEPT !.pc = "pause"]
    /\ UNCHANGED detours

\* Mutant: the watcher looks again only after a look that found something.
PauseAfterNothing ==
    /\ Watch("pause")
    /\ watcher' = [Resting EXCEPT !.pc = IF todo # {} /\ watcher.batch # {} THEN "wait" ELSE "asleep"]
    /\ UNCHANGED <<detours, cov>>

\* `late_pending`: the wait is bounded while something is owed.
Pause ==
    /\ Watch("pause")
    /\ watcher' = [Resting EXCEPT !.pc = IF todo # {} THEN "wait" ELSE "asleep"]
    /\ UNCHANGED <<detours, cov>>

LookAgain ==
    /\ Watch("wait")
    /\ watcher' = [watcher EXCEPT !.pc = IF sessionIs = "running" THEN "look" ELSE "gone"]
    /\ UNCHANGED <<detours, cov>>

WakeAtTheEnd ==
    /\ Watch("asleep") /\ sessionIs = "ended"
    /\ watcher' = [watcher EXCEPT !.pc = "gone"]
    /\ UNCHANGED <<detours, cov>>

-----------------------------------------------------------------------------
(* The core's reading, and the world.                                      *)

Read(from) ==
    /\ reader.pc = from /\ sessionIs = "running" /\ cov.published
    /\ UNCHANGED <<sessionIs, present, detours, install, watcher, cov>>

ReadInstalled ==
    /\ \/ Read("idle") \/ Read("read")
    /\ reader' = [Reading EXCEPT !.pc = "failed", !.installed = cov.installed]

ReadFailed ==
    /\ Read("failed")
    /\ reader' = [reader EXCEPT !.pc = "late", !.failed = cov.failed \ reader.installed]

ReadLate ==
    /\ Read("late")
    /\ reader' = [reader EXCEPT !.pc = "read", !.late = cov.late \cap reader.installed]

ModuleArrives(m) ==
    /\ ~(m \subseteq present)
    /\ present' = present \cup m
    /\ UNCHANGED <<sessionIs, detours, install, watcher, cov, reader>>

EndSession ==
    /\ sessionIs = "running"
    /\ sessionIs' = "ended"
    /\ UNCHANGED <<present, detours, install, watcher, cov, reader>>

-----------------------------------------------------------------------------
InstallStep ==
    \/ MakeHooks \/ EnableAll \/ EnableAllFails \/ TakeBack
    \/ StoreInstalled \/ StoreFailed \/ Owe \/ Done \/ PublishSlot

WatcherStep ==
    \/ WatcherLooks \/ \E c \in Late : LateOne(c) \/ EnableOneLate(c)
    \/ NothingCreated \/ ApplyQueue \/ ApplyQueueFails \/ AllTried
    \/ Record \/ (\E n \in 1..2 : StoreLive(n)) \/ StoreLateFailed
    \/ Pause \/ LookAgain \/ WakeAtTheEnd

CoreStep == ReadInstalled \/ ReadFailed \/ ReadLate

SlotNext ==
    \/ InstallStep \/ StartWatcher \/ WatcherStep \/ CoreStep
    \/ \E m \in Modules : ModuleArrives(m)
    \/ EndSession

SlotSpec == SlotInit /\ [][SlotNext]_slotVars

-----------------------------------------------------------------------------
\* The types of the variables; a batch holds nothing without a trampoline.
SlotTypeOK ==
    /\ sessionIs \in {"running", "ended"}
    /\ present \subseteq Channels /\ Startup \subseteq present
    /\ on \subseteq created /\ queued \subseteq created /\ created \subseteq present
    /\ failed \subseteq Channels /\ todo \subseteq Late
    /\ install \in [pc : {"making", "enabling", "taking back", "failed", "store installed",
                          "store failed", "owe", "done", "publish", "over"},
                    pending : SUBSET created, oneWay : SUBSET created, done : BOOLEAN]
    /\ watcher \in [pc : {"none", "look", "resolve", "one by one", "record", "store live",
                          "store failed", "pause", "wait", "asleep", "gone"},
                    left : SUBSET Late, batch : SUBSET created, live : SUBSET Late,
                    lost : SUBSET Late, before : SUBSET Channels, stored : 0..2]
    /\ cov \in [installed : SUBSET Channels, late : SUBSET Late, failed : SUBSET Channels,
                published : BOOLEAN]
    /\ reader \in [pc : {"idle", "failed", "late", "read"}, installed : SUBSET Channels,
                 failed : SUBSET Channels, late : SUBSET Late]

\* Only what went live where every caller passes is claimed (untouchable rule 4, R5-P4): no mask the
\* reader can read names a channel whose detour is off, whatever MinHook's queue does later, or one
\* whose detour some callers go past.
ClaimedIsLive == cov.installed \subseteq on \ install.oneWay /\ cov.late \subseteq on

\* The install is over, the session runs, and the watcher is between two scans.
Settled ==
    /\ install.pc = "over" /\ sessionIs = "running"
    /\ watcher.pc \in {"none", "look", "pause", "wait", "asleep"}

\* What went live is claimed, but for the startup's detours that some callers go past: no other is
\* on behind the mask's back, and no late bit was wiped by the install's own store (the comments
\* at INSTALL_DONE and `enable_one_late`).
LiveIsClaimed == Settled => on \ install.oneWay \subseteq cov.installed

\* A detour that could not be made or switched on is in the slot's failures.
FailureIsListed == Settled => failed \subseteq cov.failed

\* In the core's reading, whenever it was taken, a covered channel that went live after the
\* startup is named as late.
LateIsNamed == reader.pc = "read" => reader.installed \ install.pending \subseteq reader.late

\* The channels owed whose module is there, for a watcher that looked, or looks again, after
\* the install stored what is owed.
Owed == IF install.done /\ watcher.pc \notin {"none", "asleep"} THEN todo \cap present ELSE {}

\* A channel still owed is tried once its module is there, unless the session ends first
\* ("keeps looking for the whole session", the comment at `watcher_proc`).
NothingIsOwed == todo \cap present = {} \/ sessionIs = "ended"
OwedIsTried == Owed # {} ~> NothingIsOwed

\* The audit of one process is evidence (rule 4): what it claims is on for every caller, what is on
\* for every caller it claims, and what failed or came late it names, whichever mask the core reads
\* between whichever stores.
AuditIsHonest == SlotTypeOK /\ ClaimedIsLive /\ LiveIsClaimed /\ FailureIsListed /\ LateIsNamed
=============================================================================
