---------------------------- MODULE UncoveredRing ----------------------------
(***************************************************************************)
(* The children a process started and the hook could not follow into, by   *)
(* name: a ring of pids in the parent's sign-in slot (crates/ctl) that the *)
(* core reads at each child poll (`Session::poll_uncovered_children`).     *)
(*                                                                         *)
(* A thread of the parent claims an entry by counting it and writes the    *)
(* pid after that (`record_uncovered_child`); the parent may end between   *)
(* the two.  The core takes what it finds past what it took before, and    *)
(* comes back for an entry not written yet, unless nobody can write it any *)
(* more (`ring_pids`).  A child is known here by the entry it claimed.     *)
(***************************************************************************)
EXTENDS Naturals, FiniteSets

CONSTANTS
    Parents,     \* the signed-in processes, the launched one included, in slot order
    RingSize,    \* UNCOVERED_CHILDREN_MAX
    Threads,     \* bound: how many threads of one parent are in a spawn at once
    MaxChildren  \* bound: how many children one parent records

Launched == 1

ASSUME UncoveredRingAssumption ==
    /\ Parents \in Nat \ {0} /\ RingSize \in Nat \ {0}
    /\ Threads \in Nat /\ MaxChildren \in Nat

RingSlots == 1..Parents

VARIABLES
    closed,   \* the parents that do not let the core wait on them, for good
    running,  \* each parent
    count,    \* uncovered_children_count
    pending,  \* entries claimed by a thread that has yet to write them
    ring,     \* entries that hold a pid
    poll,     \* the core's poll: its step, the slot and the entry it is at
    mayRun,   \* what the poll's refresh left of each parent in Family.watch
    consumed, \* Session.consumed_children
    named     \* history: how often each entry was named

ringVars == <<closed, running, count, pending, ring, poll, mayRun, consumed, named>>
parents == <<closed, running, count, pending, ring>>

BetweenPolls == [pc |-> "waiting", slot |-> 1, at |-> 0, upTo |-> 0, writer |-> TRUE]

RingInit ==
    /\ closed \in SUBSET (RingSlots \ {Launched})
    /\ running = [p \in RingSlots |-> TRUE]
    /\ count = [p \in RingSlots |-> 0]
    /\ pending = [p \in RingSlots |-> {}]
    /\ ring = [p \in RingSlots |-> {}]
    /\ poll = BetweenPolls
    /\ mayRun = [p \in RingSlots |-> TRUE]
    /\ consumed = [p \in RingSlots |-> 0]
    /\ named = [p \in RingSlots |-> [i \in 0..RingSize - 1 |-> 0]]

-----------------------------------------------------------------------------
(* The parents.                                                            *)

\* The atomic index; an entry past the ring is counted and not written.
Claim(p) ==
    /\ running[p] /\ Cardinality(pending[p]) < Threads /\ count[p] < MaxChildren
    /\ count' = [count EXCEPT ![p] = @ + 1]
    /\ pending' = [pending EXCEPT ![p] = IF count[p] < RingSize THEN @ \cup {count[p]} ELSE @]
    /\ UNCHANGED <<closed, running, ring, poll, mayRun, consumed, named>>

Store(p, i) ==
    /\ i \in pending[p]
    /\ ring' = [ring EXCEPT ![p] = @ \cup {i}]
    /\ pending' = [pending EXCEPT ![p] = @ \ {i}]
    /\ UNCHANGED <<closed, running, count, poll, mayRun, consumed, named>>

ParentEnds(p) ==
    /\ running[p]
    /\ running' = [running EXCEPT ![p] = FALSE]
    /\ pending' = [pending EXCEPT ![p] = {}]
    /\ UNCHANGED <<closed, count, ring, poll, mayRun, consumed, named>>

-----------------------------------------------------------------------------
(* The core's poll.                                                        *)

PollDoes(pc) == poll.pc = pc /\ UNCHANGED parents

RingPoll ==
    /\ PollDoes("waiting")
    /\ poll' = [BetweenPolls EXCEPT !.pc = "refresh"]
    /\ UNCHANGED <<mayRun, consumed, named>>

NextSlot(pc) == IF poll.slot < Parents THEN [poll EXCEPT !.slot = @ + 1] ELSE [BetweenPolls EXCEPT !.pc = pc]

\* `refresh_family`, before any ring is read: a slot that ended, or could never be watched,
\* may not run (`Family::may_run`).
Refresh ==
    /\ PollDoes("refresh")
    /\ mayRun' = [mayRun EXCEPT ![poll.slot] = @ /\ running[poll.slot] /\ poll.slot \notin closed]
    /\ poll' = NextSlot("count")
    /\ UNCHANGED <<consumed, named>>

\* Mutant: the count is not cut to the ring.
ReadCountUncut ==
    /\ PollDoes("count")
    /\ poll' = [poll EXCEPT !.pc = "writer", !.at = consumed[poll.slot], !.upTo = count[poll.slot]]
    /\ UNCHANGED <<mayRun, consumed, named>>

\* `read_uncovered_children_count`: an entry past the ring holds no name.
ReadCount ==
    /\ PollDoes("count")
    /\ poll' = [poll EXCEPT !.pc = "writer", !.at = consumed[poll.slot],
                            !.upTo = IF count[poll.slot] < RingSize THEN count[poll.slot] ELSE RingSize]
    /\ UNCHANGED <<mayRun, consumed, named>>

\* `slot_may_run`: the launched process is asked now, the others were asked before.
AskWriter ==
    /\ PollDoes("writer")
    /\ poll' = [poll EXCEPT !.pc = "walk",
                            !.writer = IF poll.slot = Launched THEN running[Launched] ELSE mayRun[poll.slot]]
    /\ UNCHANGED <<mayRun, consumed, named>>

\* Mutant: the walk never stops at an entry not written yet.
StopsNever == FALSE

\* Mutant: it stops there even when nobody will write it.
StopsAlways == poll.at \notin ring[poll.slot]

\* An entry not written yet stops the walk while its parent may still write it.
Stops == poll.at \notin ring[poll.slot] /\ poll.writer

TakeEntry ==
    /\ PollDoes("walk") /\ poll.at < poll.upTo /\ ~Stops
    /\ named' = IF poll.at \in ring[poll.slot] THEN [named EXCEPT ![poll.slot][poll.at] = @ + 1] ELSE named
    /\ poll' = [poll EXCEPT !.at = @ + 1]
    /\ UNCHANGED <<mayRun, consumed>>

\* Mutant: the walk remembers how many it named, not how far it got.
EndWalkNamed ==
    /\ PollDoes("walk") /\ (poll.at >= poll.upTo \/ Stops)
    /\ consumed' = [consumed EXCEPT ![poll.slot] = Cardinality({i \in DOMAIN named[poll.slot] : named[poll.slot][i] > 0})]
    /\ poll' = IF poll.slot < Parents THEN [BetweenPolls EXCEPT !.pc = "count", !.slot = poll.slot + 1] ELSE BetweenPolls
    /\ UNCHANGED <<mayRun, named>>

EndWalk ==
    /\ PollDoes("walk") /\ (poll.at >= poll.upTo \/ Stops)
    /\ consumed' = [consumed EXCEPT ![poll.slot] = poll.at]
    /\ poll' = IF poll.slot < Parents THEN [BetweenPolls EXCEPT !.pc = "count", !.slot = poll.slot + 1] ELSE BetweenPolls
    /\ UNCHANGED <<mayRun, named>>

-----------------------------------------------------------------------------
PollStep == Refresh \/ ReadCount \/ AskWriter \/ TakeEntry \/ EndWalk

RingNext ==
    \/ \E p \in RingSlots : Claim(p) \/ ParentEnds(p) \/ \E i \in 0..RingSize - 1 : Store(p, i)
    \/ RingPoll \/ PollStep

RingSpec == RingInit /\ [][RingNext]_ringVars

-----------------------------------------------------------------------------
\* The types of the variables.
RingTypeOK ==
    /\ closed \subseteq RingSlots \ {Launched}
    /\ running \in [RingSlots -> BOOLEAN]
    /\ count \in [RingSlots -> 0..MaxChildren]
    /\ pending \in [RingSlots -> SUBSET (0..RingSize - 1)]
    /\ ring \in [RingSlots -> SUBSET (0..RingSize - 1)]
    /\ poll \in [pc : {"waiting", "refresh", "count", "writer", "walk"}, slot : RingSlots,
                 at : 0..RingSize, upTo : 0..RingSize, writer : BOOLEAN]
    /\ mayRun \in [RingSlots -> BOOLEAN]
    /\ consumed \in [RingSlots -> 0..RingSize]
    /\ named \in [RingSlots -> [0..RingSize - 1 -> Nat]]

\* No child is named twice, however polls and spawns interleave.
NamedOnce == \A p \in RingSlots : \A i \in 0..RingSize - 1 : named[p][i] <= 1

\* The core comes back for an entry not written yet (the comment at
\* `record_uncovered_child`): it passes one over only when nobody will write it, or when the
\* parent is one it could never wait on, which counts as one that writes no more.
ComesBack ==
    \A p \in RingSlots \ closed : \A i \in 0..RingSize - 1 :
        i < consumed[p] /\ named[p][i] = 0 => i \notin ring[p] /\ ~running[p]

\* The children in the ring the session has not named; a parent it could never wait on aside.
Unnamed == {e \in (RingSlots \ closed) \X (0..RingSize - 1) : e[2] \in ring[e[1]] /\ named[e[1]][e[2]] = 0}

\* Every child written into a ring comes to be named, though its parent ended with an entry
\* before it never written (R4-N18); an entry past the ring is only counted.
SomeoneIsUnnamed == Unnamed # {}
WrittenIsNamed == SomeoneIsUnnamed ~> ~SomeoneIsUnnamed

\* The names of the children nobody got into, for threads that record at once, a ring that is full
\* and a parent that ends between its claim and its store: none twice, none passed over.
RingIsSound == RingTypeOK /\ NamedOnce /\ ComesBack
=============================================================================
