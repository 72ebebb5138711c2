----------------------------- MODULE Inheritance -----------------------------
(***************************************************************************)
(* How a process joins the session of the one that started it (ADR-3).     *)
(*                                                                         *)
(* A detour of CreateProcess starts the child suspended, loads the hook    *)
(* into it on a remote thread, waits for the load up to a limit, counts    *)
(* the child when it did not join, and resumes it (`inherit_into_child`,   *)
(* `account_child`).  The child's hook claims a sign-in slot, installs its *)
(* detours, and publishes its pid last (`install`).  Any process may end   *)
(* at any step, the parent in the middle of the call included, and the     *)
(* system hands a pid on once nobody holds the process.                    *)
(***************************************************************************)
EXTENDS Naturals, FiniteSets

CONSTANTS
    Family,     \* processes, by incarnation, that the launched one starts, itself included
    Root,       \* the launched process
    Strangers,  \* processes of somebody else
    Pids,       \* the numbers the system gives out
    Registries, \* the sizes of the registry to look at (MAX_COV_PIDS)
    Timeless,   \* those whose hook could not read their creation time
    Adopted,    \* those started with a parent chosen for them, outside the family
    Slow        \* those whose load may outlast INJECT_TIMEOUT_MS

Everybody == Family \cup Strangers
NoOne == 0    \* no pid, no slot

ASSUME InheritanceAssumption ==
    /\ Root \in Family /\ Family \cap Strangers = {} /\ IsFiniteSet(Family)
    /\ {"outside", "unknown"} \cap Everybody = {}
    /\ NoOne \notin Pids /\ Pids # {}
    /\ Registries \subseteq Nat \ {0}
    /\ Timeless \subseteq Family \ {Root} /\ Adopted \subseteq Family \ {Root}
    /\ Slow \subseteq Family

VARIABLES
    life,     \* "unborn", "suspended", "running" or "ended"
    pid,      \* its number, kept after its end
    parent,   \* who started it; for a stranger, nobody of the family
    call,     \* the call that creates it, in its parent
    hook,     \* the hook in it
    slot,     \* the slot its hook claimed, NoOne for none
    slots,    \* Ctl.pids, with the creation time of each slot's owner
    claims,   \* Ctl.pid_count
    counted,  \* the children in their parents' uninjected_children
    held      \* the processes the core holds a handle on

tree == <<life, pid, parent, call, hook, slot, slots, claims, counted>>

MaxSlots == Cardinality(DOMAIN slots)

Empty == [pid |-> NoOne, created |-> "unknown"]

Init ==
    /\ life = [p \in Everybody |-> IF p = Root THEN "running" ELSE "unborn"]
    /\ \E n \in Pids :
        /\ pid = [p \in Everybody |-> IF p = Root THEN n ELSE NoOne]
        /\ \E size \in Registries :
            slots = [i \in 1..size |-> IF i = 1 THEN [pid |-> n, created |-> Root] ELSE Empty]
    /\ parent = [p \in Everybody |-> "outside"]
    /\ call = [p \in Family |-> IF p = Root THEN "over" ELSE "none"]
    /\ hook = [p \in Family |-> IF p = Root THEN "signed" ELSE "none"]
    /\ slot = [p \in Family |-> IF p = Root THEN 1 ELSE NoOne]
    /\ claims = 1
    /\ counted = {}
    /\ held = {Root}

Alive(p) == life[p] \in {"suspended", "running"}

\* A number is given out again once its process has ended and nobody holds it: not the
\* core, and not the parent that has yet to account for it.
Free(n) ==
    \A p \in Everybody :
        pid[p] = n => /\ life[p] = "ended" /\ p \notin held
                      /\ p \in Family => (\/ call[p] = "over"
                                          \/ (parent[p] \in Everybody /\ ~Alive(parent[p])))

-----------------------------------------------------------------------------
(* The parent's call.                                                      *)

\* The child is created suspended, and its load started, or not: a child of the other
\* bitness, a path too long.
Start(p, c, n) ==
    /\ life[p] = "running" /\ hook[p] \in {"signed", "full"}
    /\ life[c] = "unborn" /\ Free(n)
    /\ life' = [life EXCEPT ![c] = "suspended"]
    /\ pid' = [pid EXCEPT ![c] = n]
    /\ parent' = [parent EXCEPT ![c] = p]
    /\ call' = [call EXCEPT ![c] = "loading"]
    /\ \E begun \in {"loading", "not_begun"} : hook' = [hook EXCEPT ![c] = begun]
    /\ UNCHANGED <<slot, slots, claims, counted, held>>

Calling(c, step) == call[c] = step /\ life[parent[c]] = "running"

\* LoadLibraryW has returned a module: the install ended, well or not.
Loaded(c) == hook[c] \in {"signed", "full", "failed"}

LoadOver(c) == ~Alive(c) \/ Loaded(c) \/ hook[c] \in {"not_begun", "refused"} \/ c \in Slow

\* Mutant: any slot with the pid is the child's.
FindPidSlotByPid(c) == \E i \in 1..MaxSlots : slots[i].pid = pid[c]

\* Mutant: a slot without a creation time is nobody's.
FindPidSlotTimed(c) == \E i \in 1..MaxSlots : slots[i] = [pid |-> pid[c], created |-> c]

\* `find_pid_slot`: only two known and different creation times rule a slot out.
FindPidSlot(c) ==
    \E i \in 1..MaxSlots : slots[i].pid = pid[c] /\ slots[i].created \in {c, "unknown"}

\* Mutant: a load that answered is a child that joined.
ChildRanUncoveredLoaded(c) == ~Loaded(c)

ChildRanUncovered(c) == ~Loaded(c) \/ (~FindPidSlot(c) /\ claims <= MaxSlots)

\* `account_child`: a child that ended while it was loaded never ran, and a parent without
\* a slot has nowhere to count it.
Account(c) ==
    /\ Calling(c, "loading") /\ LoadOver(c)
    /\ counted' = IF Alive(c) /\ ChildRanUncovered(c) /\ slot[parent[c]] # NoOne
                  THEN counted \cup {c} ELSE counted
    /\ call' = [call EXCEPT ![c] = "accounted"]
    /\ UNCHANGED <<life, pid, parent, hook, slot, slots, claims, held>>

\* By the detour, or later by the application that asked for it suspended.
Resume(c) ==
    /\ Calling(c, "accounted")
    /\ life' = [life EXCEPT ![c] = IF @ = "suspended" THEN "running" ELSE @]
    /\ call' = [call EXCEPT ![c] = "over"]
    /\ UNCHANGED <<pid, parent, hook, slot, slots, claims, counted, held>>

-----------------------------------------------------------------------------
(* The child's hook.                                                       *)

Hook(c, from, to) ==
    /\ Alive(c) /\ hook[c] = from
    /\ hook' = [hook EXCEPT ![c] = to]
    /\ UNCHANGED <<life, pid, parent, call, counted, held>>

\* The library refuses before it changes anything, and unloads.
Refuse(c) == Hook(c, "loading", "refused") /\ UNCHANGED <<slot, slots, claims>>

\* Mutant: the claim is not checked against the end of the registry.
ReserveUnchecked(c) ==
    /\ Hook(c, "loading", "installing")
    /\ claims' = claims + 1
    /\ slot' = [slot EXCEPT ![c] = claims + 1]
    /\ UNCHANGED slots

\* `reserve_cov_slot`: every attempt counts, and one past the end has no slot.
Reserve(c) ==
    /\ Hook(c, "loading", "installing")
    /\ claims' = claims + 1
    /\ slot' = [slot EXCEPT ![c] = IF claims < MaxSlots THEN claims + 1 ELSE NoOne]
    /\ UNCHANGED slots

\* The detours could not be enabled: the library stays, the slot is never published.
Fail(c) == Hook(c, "installing", "failed") /\ UNCHANGED <<slot, slots, claims>>

\* The end of `install`: the pid, last.
Publish(c) ==
    /\ slot[c] # NoOne
    /\ Hook(c, "installing", "signed")
    /\ slots' = [slots EXCEPT ![slot[c]] =
                    [pid |-> pid[c], created |-> IF c \in Timeless THEN "unknown" ELSE c]]
    /\ UNCHANGED <<slot, claims>>

InstallFull(c) ==
    /\ slot[c] = NoOne
    /\ Hook(c, "installing", "full")
    /\ UNCHANGED <<slot, slots, claims>>

-----------------------------------------------------------------------------
(* The system.                                                             *)

End(p) ==
    /\ Alive(p)
    /\ life' = [life EXCEPT ![p] = "ended"]
    /\ UNCHANGED <<pid, parent, call, hook, slot, slots, claims, counted, held>>

StrangerStarts(s, n) ==
    /\ life[s] = "unborn" /\ Free(n)
    /\ life' = [life EXCEPT ![s] = "running"]
    /\ pid' = [pid EXCEPT ![s] = n]
    /\ UNCHANGED <<parent, call, hook, slot, slots, claims, counted, held>>

-----------------------------------------------------------------------------
HookStep(c) == Refuse(c) \/ Reserve(c) \/ Fail(c) \/ Publish(c) \/ InstallFull(c)

TreeStep ==
    \/ \E p \in Family, c \in Family \ {Root}, n \in Pids : Start(p, c, n)
    \/ \E c \in Family \ {Root} : Account(c) \/ Resume(c) \/ HookStep(c)
    \/ \E p \in Everybody : End(p)
    \/ \E s \in Strangers, n \in Pids : StrangerStarts(s, n)

Spec == Init /\ [][TreeStep]_<<tree, held>>

-----------------------------------------------------------------------------
Creations == Family \cup {"unknown"}

\* The types of the variables: no claim points past the registry.
TypeOK ==
    /\ life \in [Everybody -> {"unborn", "suspended", "running", "ended"}]
    /\ pid \in [Everybody -> Pids \cup {NoOne}]
    /\ parent \in [Everybody -> Family \cup {"outside"}]
    /\ call \in [Family -> {"none", "loading", "accounted", "over"}]
    /\ hook \in [Family -> {"none", "not_begun", "loading", "refused", "installing", "failed", "full", "signed"}]
    /\ slot \in [Family -> 0..MaxSlots]
    /\ MaxSlots \in Registries
    /\ slots \in [1..MaxSlots -> [pid : Pids \cup {NoOne}, created : Creations]]
    /\ claims \in 1..Cardinality(Family)
    /\ counted \subseteq Family
    /\ held \subseteq Everybody

\* A slot that cannot be told from the child's: the same number, and no creation time.
Mistakable(c) == \E i \in 1..MaxSlots : slots[i] = [pid |-> pid[c], created |-> "unknown"]

\* A child that runs and did not sign in is in its parent's count, or the registry is full
\* and the session says that (untouchable rule 4; R4-S2): whatever its load answered, and
\* whoever had its pid before.
UncoveredIsCounted ==
    \A c \in Family :
        life[c] = "running" /\ hook[c] # "signed" =>
            c \in counted \/ claims > MaxSlots \/ Mistakable(c)

\* A child in its parent's count did not sign in, unless its load outlasted the wait: the
\* count invents no uncovered child.
CountedRanUncovered == \A c \in counted : hook[c] # "signed" \/ c \in Slow
=============================================================================
