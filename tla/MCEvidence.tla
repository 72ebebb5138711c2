------------------------------ MODULE MCEvidence ------------------------------
(***************************************************************************)
(* Four machines that share no state, in one run: the start of a session   *)
(* by two cores, the watch over a family next to a stranger that takes its *)
(* numbers, the ring of the children by name, and the slot of one          *)
(* process's coverage.  A behaviour moves one.                             *)
(***************************************************************************)
EXTENDS FamilyWatch, UncoveredRing, CoverageSlot, SessionStart

CONSTANTS r, a, s, n1, n2, n3, k, u1, u2, w, c1, c2

Two     == {r, a}
OnlyS   == {s}
OnlyA   == {a}
Nobody  == {}
Numbers == {n1, n2, n3}

OneStartup == {k}
TwoModules == {{u1, u2}, {w}}
TwoCores   == {c1, c2}
OneCore    == {c1}

VARIABLE subject

vars == <<subject, familyVars, ringVars, slotVars, startVars>>

EvidenceInit ==
    /\ subject \in {"family", "ring", "slot", "start"}
    /\ FamilyInit /\ (subject # "family" => pid[Root] = n1)
    /\ RingInit /\ (subject # "ring" => closed = {})
    /\ SlotInit /\ (subject # "slot" => present = Startup)
    /\ StartInit /\ (subject # "start" => ~leftover)

EvidenceNext ==
    /\ UNCHANGED subject
    /\ \/ subject = "family" /\ FamilyNext /\ UNCHANGED <<ringVars, slotVars, startVars>>
       \/ subject = "ring" /\ RingNext /\ UNCHANGED <<familyVars, slotVars, startVars>>
       \/ subject = "slot" /\ SlotNext /\ UNCHANGED <<familyVars, ringVars, startVars>>
       \/ subject = "start" /\ StartNext /\ UNCHANGED <<familyVars, ringVars, slotVars>>

\* The core takes the next step of a look, and its heartbeat comes again and again.
FamilyFairness == WF_familyVars(subject = "family" /\ Look) /\ SF_familyVars(subject = "family" /\ Beat)

\* The child poll comes again and again, and a thread that claimed an entry writes it,
\* unless its process ends first.
RingFairness ==
    /\ WF_ringVars(subject = "ring" /\ RingPoll) /\ WF_ringVars(subject = "ring" /\ PollStep)
    /\ \A p \in RingSlots, i \in 0..RingSize - 1 : WF_ringVars(subject = "ring" /\ Store(p, i))

\* The library's entry returns, and the watcher's thread runs: its timed wait ends.
SlotFairness == WF_slotVars(subject = "slot" /\ InstallStep) /\ WF_slotVars(subject = "slot" /\ WatcherStep)

\* A core that is not killed takes its next step; its waits end.
StartFairness == \A c \in StartCores : WF_startVars(subject = "start" /\ StartSteps(c))

EvidenceSpec ==
    /\ EvidenceInit /\ [][EvidenceNext]_vars
    /\ FamilyFairness /\ RingFairness /\ SlotFairness /\ StartFairness

\* Nothing the session owes stays undone: the end of a session whose family has ended, the names
\* that were written, the channels whose module is there, the start of a session and its lock.
Undone ==
    \/ subject = "family" /\ WatchesNobody
    \/ subject = "ring" /\ SomeoneIsUnnamed
    \/ subject = "slot" /\ Owed # {}
    \/ subject = "start" /\ StartIsOpen
Settles == IF subject = "slot" THEN NothingIsOwed ELSE ~Undone
NothingStaysUndone == Undone ~> Settles
=============================================================================
