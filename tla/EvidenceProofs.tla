---------------------------- MODULE EvidenceProofs ----------------------------
(***************************************************************************)
(* Proofs about a session's start and its evidence: the cores that take a  *)
(* session's block and start its target, SessionStart, for any number of   *)
(* cores and whichever of them may be killed; the ring that names the      *)
(* children no hook covers, UncoveredRing, and the slot of a process's     *)
(* coverage, CoverageSlot, for any parents, entries, channels and modules. *)
(***************************************************************************)
EXTENDS UncoveredRing, CoverageSlot, SessionStart, TLAPS

(***************************************************************************)
(* The ring.  What carries RingIsSound is the frontier of the walk: below  *)
(* it every entry is named once or will never be written, and from it on   *)
(* none is named yet.                                                      *)
(***************************************************************************)
Entries == 0..RingSize - 1

\* How far the names of a parent have been taken: consumed, or the entry the walk is at.
Frontier(p) == IF poll.pc = "walk" /\ poll.slot = p THEN poll.at ELSE consumed[p]

\* A parent that has ended writes no more, and is the only one said not to run.
EndedWritesNoMore == \A p \in RingSlots : ~running[p] => pending[p] = {}
MayRunIsTrue == \A p \in RingSlots \ closed : ~mayRun[p] => ~running[p]
WriterIsTrue == poll.pc = "walk" /\ poll.slot \notin closed /\ ~poll.writer => ~running[poll.slot]

\* The walk begins where the one before it ended.
WalkGoesOn == poll.pc = "writer" => poll.at = consumed[poll.slot]

NamedBelow == \A p \in RingSlots : \A i \in Entries : i >= Frontier(p) => named[p][i] = 0
PassedOver ==
    \A p \in RingSlots \ closed : \A i \in Entries :
        i < Frontier(p) /\ named[p][i] = 0 => i \notin ring[p] /\ ~running[p]
\* What was consumed stays below the frontier.
ConsumedBelow == \A p \in RingSlots : consumed[p] <= Frontier(p)

RingInv ==
    /\ RingTypeOK /\ NamedOnce
    /\ EndedWritesNoMore /\ MayRunIsTrue /\ WriterIsTrue
    /\ WalkGoesOn /\ NamedBelow /\ PassedOver /\ ConsumedBelow
-----------------------------------------------------------------------------
LEMMA Sizes == /\ Parents \in Nat /\ RingSize \in Nat /\ RingSize > 0 /\ 1 \in RingSlots
               /\ Threads \in Nat /\ MaxChildren \in Nat
  BY UncoveredRingAssumption DEF RingSlots

LEMMA RingInvInit == RingInit => RingInv
<1> SUFFICES ASSUME RingInit PROVE RingInv OBVIOUS
<1> USE Sizes DEF RingInit, BetweenPolls
<1>1. RingTypeOK BY DEF RingTypeOK, Launched
<1>2. NamedOnce /\ NamedBelow /\ PassedOver
  BY DEF NamedOnce, NamedBelow, PassedOver, Entries, Frontier
<1>3. EndedWritesNoMore /\ MayRunIsTrue /\ WriterIsTrue /\ WalkGoesOn /\ ConsumedBelow
  BY DEF EndedWritesNoMore, MayRunIsTrue, WriterIsTrue, WalkGoesOn, ConsumedBelow, Frontier
<1> QED BY <1>1, <1>2, <1>3 DEF RingInv

\* The records of the poll.
Polls == [pc : {"waiting", "refresh", "count", "writer", "walk"}, slot : RingSlots,
          at : 0..RingSize, upTo : 0..RingSize, writer : BOOLEAN]

LEMMA RingTypeStep ==
    ASSUME RingTypeOK, [RingNext]_ringVars
    PROVE  RingTypeOK'
<1> USE Sizes
<1>a. /\ poll \in Polls
      /\ BetweenPolls \in Polls
  BY DEF RingTypeOK, Polls, BetweenPolls
<1>b. ASSUME PollDoes(poll.pc), poll' \in Polls, mayRun' \in [RingSlots -> BOOLEAN],
             consumed' \in [RingSlots -> 0..RingSize], named' \in [RingSlots -> [0..RingSize - 1 -> Nat]]
      PROVE  RingTypeOK'
  BY <1>b DEF RingTypeOK, Polls, PollDoes, parents
<1>c. ASSUME UNCHANGED <<closed, poll, mayRun, consumed, named>>, running' \in [RingSlots -> BOOLEAN],
             count' \in [RingSlots -> 0..MaxChildren],
             pending' \in [RingSlots -> SUBSET (0..RingSize - 1)],
             ring' \in [RingSlots -> SUBSET (0..RingSize - 1)]
      PROVE  RingTypeOK'
  BY <1>c DEF RingTypeOK
<1>1. CASE UNCHANGED ringVars BY <1>1 DEF ringVars, RingTypeOK
<1>2. ASSUME NEW p \in RingSlots, Claim(p) PROVE RingTypeOK'
  <2>1. count[p] \in Nat /\ count[p] < MaxChildren /\ pending[p] \subseteq 0..RingSize - 1
    BY <1>2 DEF Claim, RingTypeOK
  <2>2. count' \in [RingSlots -> 0..MaxChildren]
    <3>1. count[p] + 1 \in 0..MaxChildren BY <2>1
    <3>2. count' = [count EXCEPT ![p] = count[p] + 1] BY <1>2 DEF Claim
    <3> QED BY <3>1, <3>2 DEF RingTypeOK
  <2>3. (IF count[p] < RingSize THEN pending[p] \cup {count[p]} ELSE pending[p]) \in SUBSET (0..RingSize - 1)
    BY <2>1
  <2>4. pending' \in [RingSlots -> SUBSET (0..RingSize - 1)] BY <1>2, <2>3 DEF Claim, RingTypeOK
  <2> QED BY <1>2, <1>c, <2>2, <2>4 DEF Claim, RingTypeOK
<1>3. ASSUME NEW p \in RingSlots, ParentEnds(p) PROVE RingTypeOK'
  BY <1>3, <1>c DEF ParentEnds, RingTypeOK
<1>4. ASSUME NEW p \in RingSlots, NEW i \in Entries, Store(p, i) PROVE RingTypeOK'
  BY <1>4, <1>c DEF Store, Entries, RingTypeOK
<1>5. CASE RingPoll
  <2>1. [BetweenPolls EXCEPT !.pc = "refresh"] \in Polls BY <1>a DEF Polls
  <2> QED BY <1>5, <1>b, <2>1 DEF RingPoll, PollDoes, RingTypeOK
<1>6. CASE Refresh
  <2>1. [BetweenPolls EXCEPT !.pc = "count"] \in Polls BY <1>a DEF Polls
  <2>2. poll.slot \in RingSlots BY <1>a DEF Polls
  <2>3. ASSUME poll.slot < Parents PROVE [poll EXCEPT !.slot = poll.slot + 1] \in Polls
    BY <1>a, <2>2, <2>3 DEF Polls, RingSlots
  <2>4. poll' \in Polls BY <1>6, <2>1, <2>3 DEF Refresh, NextSlot
  <2>5. mayRun' \in [RingSlots -> BOOLEAN] BY <1>6, <2>2 DEF Refresh, RingTypeOK
  <2> QED BY <1>6, <1>b, <2>4, <2>5 DEF Refresh, PollDoes, RingTypeOK
<1>7. CASE ReadCount
  <2> DEFINE upTo == IF count[poll.slot] < RingSize THEN count[poll.slot] ELSE RingSize
  <2>1. poll.slot \in RingSlots BY <1>a DEF Polls
  <2>2. upTo \in 0..RingSize /\ consumed[poll.slot] \in 0..RingSize BY <2>1 DEF RingTypeOK
  <2>3. [poll EXCEPT !.pc = "writer", !.at = consumed[poll.slot], !.upTo = upTo] \in Polls
    BY <1>a, <2>2 DEF Polls
  <2> QED BY <1>7, <1>b, <2>3 DEF ReadCount, PollDoes, RingTypeOK
<1>8. CASE AskWriter
  <2> DEFINE writer == IF poll.slot = Launched THEN running[Launched] ELSE mayRun[poll.slot]
  <2>1. writer \in BOOLEAN BY <1>a DEF RingTypeOK, Polls, Launched
  <2>2. [poll EXCEPT !.pc = "walk", !.writer = writer] \in Polls BY <1>a, <2>1 DEF Polls
  <2> QED BY <1>8, <1>b, <2>2 DEF AskWriter, PollDoes, RingTypeOK
<1>9. CASE TakeEntry
  <2>1. poll.at \in 0..RingSize /\ poll.upTo \in 0..RingSize /\ poll.at < poll.upTo /\ poll.slot \in RingSlots
    BY <1>9, <1>a DEF TakeEntry, Polls
  <2>2. [poll EXCEPT !.at = poll.at + 1] \in Polls BY <1>a, <2>1 DEF Polls
  <2>3. [named EXCEPT ![poll.slot][poll.at] = named[poll.slot][poll.at] + 1] \in [RingSlots -> [0..RingSize - 1 -> Nat]]
    BY SMTT(60), <2>1 DEF RingTypeOK
  <2>4. named' \in [RingSlots -> [0..RingSize - 1 -> Nat]] BY <1>9, <2>3 DEF TakeEntry, RingTypeOK
  <2> QED BY <1>9, <1>b, <2>2, <2>4 DEF TakeEntry, PollDoes, RingTypeOK
<1>10. CASE EndWalk
  <2>1. poll.at \in 0..RingSize /\ poll.slot \in RingSlots BY <1>a DEF Polls
  <2>2. ASSUME poll.slot < Parents
        PROVE  [BetweenPolls EXCEPT !.pc = "count", !.slot = poll.slot + 1] \in Polls
    <3>1. poll.slot + 1 \in RingSlots BY <2>1, <2>2 DEF RingSlots
    <3> QED BY <1>a, <3>1 DEF Polls
  <2>3. consumed' \in [RingSlots -> 0..RingSize] BY <1>10, <2>1 DEF EndWalk, RingTypeOK
  <2> QED BY <1>10, <1>a, <1>b, <2>2, <2>3 DEF EndWalk, PollDoes, RingTypeOK
<1> QED BY <1>1, <1>2, <1>3, <1>4, <1>5, <1>6, <1>7, <1>8, <1>9, <1>10 DEF RingNext, PollStep, Entries

\* What a parent does leaves the walk where it is; only the entries of its own ring appear, and
\* only while it runs.
LEMMA ParentsStep ==
    ASSUME RingInv, NEW p \in RingSlots, Claim(p) \/ ParentEnds(p) \/ (\E i \in Entries : Store(p, i))
    PROVE  RingInv'
<1> USE Sizes DEF RingInv
<1>1. /\ UNCHANGED <<closed, poll, mayRun, consumed, named>>
      /\ \A q \in RingSlots : /\ running'[q] => running[q]
                              /\ ~running'[q] => pending'[q] = {}
                              /\ ring'[q] = ring[q] \/ (running[q] /\ running'[q])
  BY DEF Claim, ParentEnds, Store, RingTypeOK, EndedWritesNoMore
<1>2. RingTypeOK' BY RingTypeStep DEF RingNext, Entries
<1>3. NamedOnce' /\ NamedBelow' /\ ConsumedBelow' /\ WalkGoesOn'
  BY <1>1 DEF NamedOnce, NamedBelow, ConsumedBelow, WalkGoesOn, Frontier
<1>4. EndedWritesNoMore' /\ MayRunIsTrue' /\ WriterIsTrue'
  BY <1>1 DEF EndedWritesNoMore, MayRunIsTrue, WriterIsTrue, RingTypeOK
<1>5. PassedOver' BY <1>1 DEF PassedOver, Frontier
<1> QED BY <1>2, <1>3, <1>4, <1>5

LEMMA PollSteps ==
    ASSUME RingInv, RingPoll \/ PollStep
    PROVE  RingInv'
<1> USE Sizes DEF RingInv
<1>a. /\ UNCHANGED parents /\ RingTypeOK'
      /\ poll \in Polls /\ poll.slot \in RingSlots /\ poll.at \in Nat
  <2>1. RingTypeOK' BY RingTypeStep DEF RingNext
  <2>2. UNCHANGED parents
    BY DEF RingPoll, PollStep, Refresh, ReadCount, AskWriter, TakeEntry, EndWalk, PollDoes
  <2>3. poll \in Polls BY DEF RingTypeOK, Polls
  <2> QED BY <2>1, <2>2, <2>3 DEF Polls
<1>b. EndedWritesNoMore' BY <1>a DEF EndedWritesNoMore, parents
<1>1. CASE RingPoll
  <2>1. /\ poll.pc = "waiting" /\ poll'.pc = "refresh"
        /\ UNCHANGED <<closed, running, ring, mayRun, consumed, named>>
    BY <1>1 DEF RingPoll, PollDoes, BetweenPolls, parents
  <2> QED
    BY <1>a, <1>b, <2>1 DEF NamedOnce, NamedBelow, ConsumedBelow, WalkGoesOn, Frontier, MayRunIsTrue, WriterIsTrue,
                            PassedOver
<1>2. CASE Refresh
  <2>1. /\ poll.pc = "refresh" /\ poll'.pc \in {"refresh", "count"}
        /\ UNCHANGED <<closed, running, ring, consumed, named>>
    BY <1>2, <1>a DEF Refresh, NextSlot, PollDoes, BetweenPolls, parents, Polls
  <2>2. MayRunIsTrue' BY <1>2, <1>a, <2>1 DEF Refresh, MayRunIsTrue, RingTypeOK
  <2> QED
    BY <1>a, <1>b, <2>1, <2>2 DEF NamedOnce, NamedBelow, ConsumedBelow, WalkGoesOn, Frontier, WriterIsTrue, PassedOver
<1>3. CASE ReadCount
  <2>1. /\ poll.pc = "count" /\ poll'.pc = "writer" /\ poll'.slot = poll.slot
        /\ poll'.at = consumed[poll.slot]
        /\ UNCHANGED <<closed, running, ring, mayRun, consumed, named>>
    BY <1>3, <1>a DEF ReadCount, PollDoes, parents, Polls
  <2> QED
    BY <1>a, <1>b, <2>1 DEF NamedOnce, NamedBelow, ConsumedBelow, WalkGoesOn, Frontier, MayRunIsTrue, WriterIsTrue,
                            PassedOver
<1>4. CASE AskWriter
  <2>1. /\ poll.pc = "writer" /\ poll'.pc = "walk" /\ poll'.slot = poll.slot /\ poll'.at = poll.at
        /\ poll'.writer = IF poll.slot = Launched THEN running[Launched] ELSE mayRun[poll.slot]
        /\ UNCHANGED <<closed, running, ring, mayRun, consumed, named>>
    BY <1>4, <1>a DEF AskWriter, PollDoes, parents, Polls
  <2>2. poll.at = consumed[poll.slot] /\ consumed[poll.slot] \in Nat
    BY <1>a, <2>1 DEF WalkGoesOn, RingTypeOK
  <2>3. \A q \in RingSlots : Frontier(q)' = Frontier(q) BY <2>1, <2>2 DEF Frontier
  <2>4. NamedOnce' /\ NamedBelow' /\ ConsumedBelow' /\ PassedOver'
    BY <2>1, <2>3 DEF NamedOnce, NamedBelow, ConsumedBelow, PassedOver
  <2>5. WalkGoesOn' /\ MayRunIsTrue' /\ WriterIsTrue'
    BY <1>a, <2>1 DEF WalkGoesOn, MayRunIsTrue, WriterIsTrue
  <2> QED BY <1>a, <1>b, <2>4, <2>5
<1>5. CASE TakeEntry
  <2> DEFINE p == poll.slot
             i == poll.at
  <2>1. /\ poll.pc = "walk" /\ poll'.pc = "walk" /\ poll'.slot = p /\ poll'.at = i + 1
        /\ poll'.writer = poll.writer /\ i < poll.upTo /\ (i \in ring[p] \/ ~poll.writer)
        /\ UNCHANGED <<closed, running, ring, mayRun, consumed>>
    BY <1>5, <1>a DEF TakeEntry, PollDoes, parents, Polls, Stops
  <2>2. i \in Entries /\ poll.upTo \in 0..RingSize BY <1>a, <2>1 DEF Polls, Entries
  <2>3. /\ \A q \in RingSlots, j \in Entries : q # p \/ j # i => named'[q][j] = named[q][j]
        /\ named[p][i] = 0
        /\ named'[p][i] = IF i \in ring[p] THEN 1 ELSE 0
    <3>1. named[p][i] = 0 BY <1>a, <2>1, <2>2 DEF NamedBelow, Frontier
    <3>2. CASE i \in ring[p]
      <4>1. named' = [named EXCEPT ![p][i] = named[p][i] + 1] BY <1>5, <3>2 DEF TakeEntry
      <4>2. named \in [RingSlots -> [Entries -> Nat]] BY DEF RingTypeOK, Entries
      <4>3. \A q \in RingSlots : named'[q] = IF q = p THEN [named[p] EXCEPT ![i] = named[p][i] + 1] ELSE named[q]
        BY <1>a, <4>1, <4>2
      <4>4. named'[p] = [named[p] EXCEPT ![i] = 1] BY <1>a, <3>1, <4>3
      <4>5. named[p] \in [Entries -> Nat] BY <1>a, <4>2
      <4>6. \A j \in Entries : named'[p][j] = IF j = i THEN 1 ELSE named[p][j] BY <4>4, <4>5
      <4>7. \A q \in RingSlots : q # p => named'[q] = named[q] BY <4>3
      <4> HIDE DEF p, i
      <4> QED BY <1>a, <2>2, <3>1, <3>2, <4>6, <4>7
    <3>3. CASE i \notin ring[p] BY <1>5, <3>1, <3>3 DEF TakeEntry
    <3> QED BY <3>1, <3>2, <3>3
  <2>4. /\ Frontier(p) = i /\ Frontier(p)' = i + 1
        /\ \A q \in RingSlots \ {p} : Frontier(q)' = Frontier(q)
    BY <2>1 DEF Frontier
  <2>5. \A q \in RingSlots : Frontier(q) \in Nat /\ consumed[q] \in Nat
    BY <1>a DEF Frontier, RingTypeOK
  <2>b. \A q \in RingSlots : q = p => Frontier(q) = i /\ Frontier(q)' = i + 1 BY <2>1 DEF Frontier
  <2>6. NamedOnce' BY <1>a, <2>2, <2>3 DEF NamedOnce, Entries
  <2>7. NamedBelow'
    <3> SUFFICES ASSUME NEW q \in RingSlots, NEW j \in Entries, j >= Frontier(q)' PROVE named'[q][j] = 0
      BY DEF NamedBelow
    <3>1. j >= Frontier(q) /\ (q # p \/ j # i)
      <4>1. j \in Nat /\ i \in Nat BY <1>a DEF Entries
      <4>2. CASE q = p BY <2>b, <4>1, <4>2
      <4> QED BY <2>4, <4>2
    <3> QED BY <2>3, <3>1 DEF NamedBelow
  <2>8. ConsumedBelow'
    <3> SUFFICES ASSUME NEW q \in RingSlots PROVE consumed[q] <= Frontier(q)'
      BY <2>1 DEF ConsumedBelow
    <3>1. consumed[q] <= Frontier(q) /\ i \in Nat /\ consumed[q] \in Nat
      BY <1>a, <2>5 DEF ConsumedBelow
    <3>2. CASE q = p BY <2>b, <3>1, <3>2
    <3> QED BY <2>4, <3>1, <3>2
  <2>9. PassedOver'
    <3> SUFFICES ASSUME NEW q \in RingSlots \ closed, NEW j \in Entries, j < Frontier(q)', named'[q][j] = 0
                 PROVE  j \notin ring[q] /\ ~running[q]
      BY <2>1 DEF PassedOver
    <3>1. CASE q = p /\ j = i BY <2>1, <2>3, <3>1 DEF WriterIsTrue
    <3>2. CASE q # p \/ j # i
      <4>1. j < Frontier(q)
        <5>1. j \in Nat /\ i \in Nat BY <1>a DEF Entries
        <5>2. CASE q = p BY <2>b, <3>2, <5>1, <5>2
        <5> QED BY <2>4, <5>2
      <4> QED BY <2>3, <3>2, <4>1 DEF PassedOver
    <3> QED BY <3>1, <3>2
  <2>10. WalkGoesOn' /\ MayRunIsTrue' /\ WriterIsTrue'
    BY <2>1 DEF WalkGoesOn, MayRunIsTrue, WriterIsTrue
  <2> QED BY <1>a, <1>b, <2>6, <2>7, <2>8, <2>9, <2>10
<1>6. CASE EndWalk
  <2>1. /\ poll.pc = "walk" /\ poll'.pc \in {"waiting", "count"}
        /\ consumed' = [consumed EXCEPT ![poll.slot] = poll.at]
        /\ UNCHANGED <<closed, running, ring, mayRun, named>>
    BY <1>6 DEF EndWalk, PollDoes, parents, BetweenPolls
  <2>2. \A q \in RingSlots : Frontier(q)' = Frontier(q) /\ consumed'[q] \in Nat
    <3> TAKE q \in RingSlots
    <3>1. consumed'[q] = IF q = poll.slot THEN poll.at ELSE consumed[q] BY <1>a, <2>1 DEF RingTypeOK
    <3>2. consumed[q] \in Nat BY <1>a DEF RingTypeOK
    <3> QED BY <1>a, <2>1, <3>1, <3>2 DEF Frontier
  <2>3. \A q \in RingSlots : Frontier(q)' = consumed'[q] BY <2>1 DEF Frontier
  <2>4. NamedOnce' /\ NamedBelow' /\ PassedOver' BY <2>1, <2>2 DEF NamedOnce, NamedBelow, PassedOver
  <2>5. ConsumedBelow' /\ WalkGoesOn' /\ MayRunIsTrue' /\ WriterIsTrue'
    BY <2>1, <2>2, <2>3 DEF ConsumedBelow, WalkGoesOn, MayRunIsTrue, WriterIsTrue
  <2> QED BY <1>a, <1>b, <2>4, <2>5
<1> QED BY <1>1, <1>2, <1>3, <1>4, <1>5, <1>6 DEF PollStep

\* However many processes the family has, however many children their threads record at once, and
\* wherever one of them ends between its claim and its store: no child is named twice, and none is
\* passed over that could still be written (`ring_pids`, `poll_uncovered_children`).
THEOREM RingSound == RingSpec => []RingIsSound
<1>1. RingInv /\ [RingNext]_ringVars => RingInv'
  <2> SUFFICES ASSUME RingInv, [RingNext]_ringVars PROVE RingInv' OBVIOUS
  <2>1. CASE UNCHANGED ringVars
    BY <2>1 DEF RingInv, ringVars, RingTypeOK, NamedOnce, NamedBelow, ConsumedBelow, WalkGoesOn, Frontier,
                EndedWritesNoMore, MayRunIsTrue, WriterIsTrue, PassedOver
  <2> QED BY <2>1, ParentsStep, PollSteps DEF RingNext, Entries
<1>2. RingInv => RingIsSound
  <2> SUFFICES ASSUME RingInv PROVE ComesBack BY DEF RingInv, RingIsSound
  <2> SUFFICES ASSUME NEW p \in RingSlots \ closed, NEW i \in Entries, i < consumed[p], named[p][i] = 0
               PROVE  i \notin ring[p] /\ ~running[p]
    BY DEF ComesBack, Entries
  <2>1. consumed[p] <= Frontier(p) /\ consumed[p] \in Nat /\ Frontier(p) \in Nat
    BY Sizes DEF RingInv, ConsumedBelow, RingTypeOK, Frontier
  <2> QED BY Sizes, <2>1 DEF RingInv, PassedOver, Entries
<1> QED BY RingInvInit, <1>1, <1>2, PTL DEF RingSpec

-----------------------------------------------------------------------------
(***************************************************************************)
(* The slot.  What carries AuditIsHonest is that MinHook's queue and its   *)
(* detours agree between two scans, and differ during one only by what the *)
(* scan has yet to try: so a scan's failure touches nothing an earlier one *)
(* claimed, and what is on and not claimed is in the scan's hands.         *)
(***************************************************************************)
InstallSteps == {"making", "enabling", "taking back", "failed", "store installed",
                 "store failed", "owe", "done", "publish", "over"}
Scanning     == {"resolve", "one by one", "record", "store live", "store failed"}
WatcherSteps == {"none", "look", "pause", "wait", "asleep", "gone"} \cup Scanning

\* Before the install stored what it switched on, and before it stored what failed.
Unstored  == {"making", "enabling", "taking back", "failed", "store installed"}
Unfailed  == Unstored \cup {"store failed"}

InstallStates == [pc : InstallSteps, pending : SUBSET Channels, oneWay : SUBSET Startup, done : BOOLEAN]
Watchers == [pc : WatcherSteps, left : SUBSET Late, batch : SUBSET Late, live : SUBSET Late,
             lost : SUBSET Late, before : SUBSET Channels, stored : 0..2]
Masks    == [installed : SUBSET Channels, late : SUBSET Late, failed : SUBSET Channels, published : BOOLEAN]
Readings == [pc : {"idle", "failed", "late", "read"}, installed : SUBSET Channels,
             failed : SUBSET Channels, late : SUBSET Late]

TypeInv ==
    /\ sessionIs \in {"running", "ended"}
    /\ present \subseteq Channels /\ Startup \subseteq present
    /\ on \subseteq created /\ queued \subseteq created /\ created \subseteq present
    /\ failed \subseteq Channels /\ todo \subseteq Late
    /\ install \in InstallStates /\ install.pending \subseteq created /\ install.oneWay \subseteq created
    /\ watcher \in Watchers /\ watcher.batch \subseteq created
    /\ cov \in Masks
    /\ reader \in Readings

\* The order of the install, which the watcher and the core wait for.
InstallInv ==
    /\ install.done <=> install.pc \in {"publish", "over"}
    /\ cov.published => install.done
    /\ reader.pc # "idle" => install.done
    /\ ~install.done => watcher.pc \notin Scanning /\ watcher.batch = {} /\ watcher.live = {}
                        /\ install.pending = created \ install.oneWay /\ cov.late = {}
    /\ install.pc \in {"making", "enabling"} => on = {} /\ queued = {} /\ watcher.pc = "none"
    /\ install.pc = "store installed" => on = created
    /\ install.pc \in Unstored => cov.installed = {}

\* MinHook's queue is what is on, and what a scan has yet to try.
QueueInv == queued = IF watcher.pc = "one by one" THEN on \cup watcher.left ELSE on

\* What is claimed, or about to be, is on, and no caller goes past it.
ClaimInv ==
    /\ watcher.live \subseteq on /\ cov.installed \subseteq on /\ cov.late \subseteq on
    /\ (cov.installed \cup install.pending) \cap install.oneWay = {}

\* What is on and not claimed yet is in the scan's hands.
InHand ==
    IF watcher.pc = "one by one" THEN watcher.live \cup watcher.left
    ELSE IF watcher.pc \in {"record", "store live"} THEN watcher.live ELSE {}
LiveInv == sessionIs = "running" /\ install.pc \notin Unstored => on \ install.oneWay \subseteq cov.installed \cup InHand

\* What failed before the scan is in the slot.
FailInv ==
    sessionIs = "running" /\ install.pc \notin Unfailed =>
        (IF watcher.pc \in Scanning THEN watcher.before ELSE failed) \subseteq cov.failed

\* What came late is in the late mask before it is in the other.
LateInv ==
    /\ cov.installed \subseteq install.pending \cup cov.late
    /\ watcher.pc \in {"resolve", "one by one", "record"} => watcher.stored = 0
    /\ watcher.pc = "store live" /\ watcher.stored # 0 => watcher.live \subseteq cov.late
    /\ reader.pc \in {"failed", "late"} => reader.installed \subseteq install.pending \cup cov.late
    /\ LateIsNamed

SlotInv == TypeInv /\ InstallInv /\ QueueInv /\ ClaimInv /\ LiveInv /\ FailInv /\ LateInv
-----------------------------------------------------------------------------
LEMMA Sets == Startup \subseteq Channels /\ Late \subseteq Channels /\ \A m \in Modules : m \subseteq Channels
  BY DEF Channels, Late

LEMMA StoreNumbers == /\ StoreOrder[1] = "late" /\ StoreOrder[2] = "installed"
                      /\ 1 \in 0..2 /\ 2 \in 0..2 /\ 1 # 0 /\ 1 # 2 /\ 1 - 1 = 0 /\ 2 - 1 = 1
  BY DEF StoreOrder

LEMMA RestingType == Resting \in Watchers
  BY DEF Resting, Watchers, WatcherSteps

LEMMA SlotInvInit == SlotInit => SlotInv
<1> SUFFICES ASSUME SlotInit PROVE SlotInv OBVIOUS
<1>1. /\ sessionIs = "running" /\ created = {} /\ on = {} /\ queued = {} /\ failed = {} /\ todo = {}
      /\ install = [pc |-> "making", pending |-> {}, oneWay |-> {}, done |-> FALSE]
      /\ watcher = Resting /\ reader = Reading
      /\ cov = [installed |-> {}, late |-> {}, failed |-> {}, published |-> FALSE]
  BY DEF SlotInit
<1>2. present \subseteq Channels /\ Startup \subseteq present BY Sets DEF SlotInit
<1>3. TypeInv
  BY <1>1, <1>2 DEF TypeInv, InstallStates, InstallSteps, Watchers, WatcherSteps, Scanning, Masks, Readings, Resting, Reading
<1>4. InstallInv /\ QueueInv /\ ClaimInv
  BY <1>1 DEF InstallInv, QueueInv, ClaimInv, Resting, Reading, Scanning, Unstored
<1>5. LiveInv /\ FailInv /\ LateInv
  BY <1>1 DEF LiveInv, FailInv, LateInv, LateIsNamed, Resting, Reading, Unstored, Unfailed
<1> QED BY <1>3, <1>4, <1>5 DEF SlotInv

LEMMA InstallKeeps ==
    ASSUME SlotInv, InstallStep
    PROVE  SlotInv'
<1>a. /\ TypeInv /\ InstallInv /\ QueueInv /\ ClaimInv /\ LiveInv /\ FailInv /\ LateInv
      /\ install \in InstallStates /\ cov \in Masks
  BY DEF SlotInv, TypeInv
<1>1. CASE MakeHooks
  <2>1. PICK made \in SUBSET present, oneWay \in SUBSET present, broken \in SUBSET present :
            /\ oneWay \subseteq made \cap Startup /\ install.pc = "making" /\ created' = made /\ failed' = broken
            /\ install' = [install EXCEPT !.pc = "enabling", !.pending = made \ oneWay, !.oneWay = oneWay]
            /\ UNCHANGED <<sessionIs, present, on, queued, todo, watcher, cov, reader>>
    BY <1>1 DEF MakeHooks
  <2>2. /\ on = {} /\ queued = {} /\ watcher.pc = "none" /\ ~install.done /\ watcher.batch = {} /\ watcher.live = {}
        /\ cov.installed = {} /\ cov.late = {} /\ reader.pc = "idle" /\ ~cov.published
    BY <1>a, <2>1 DEF InstallInv, Unstored
  <2>3. /\ install'.pc = "enabling" /\ install'.pending = made \ oneWay /\ install'.oneWay = oneWay
        /\ install'.done = install.done
    BY <1>a, <2>1 DEF InstallStates
  <2>4. TypeInv'
    <3>1. made \subseteq Channels /\ broken \subseteq Channels BY <1>a, <2>1 DEF TypeInv
    <3>2. install' \in InstallStates BY <1>a, <2>1, <3>1 DEF InstallStates, InstallSteps
    <3> QED BY <1>a, <2>1, <2>2, <2>3, <3>1, <3>2 DEF TypeInv
  <2>5. InstallInv' /\ QueueInv' /\ ClaimInv'
    BY <1>a, <2>1, <2>2, <2>3 DEF InstallInv, QueueInv, ClaimInv, Scanning, Unstored
  <2>6. LiveInv' /\ FailInv' /\ LateInv'
    BY <1>a, <2>1, <2>2, <2>3 DEF LiveInv, FailInv, LateInv, LateIsNamed, Unstored, Unfailed
  <2> QED BY <2>4, <2>5, <2>6 DEF SlotInv

<1>2. CASE EnableAll \/ EnableAllFails \/ TakeBack \/ StoreInstalled \/ StoreFailed \/ Owe \/ Done \/ PublishSlot
  <2> USE DEF Install, detours
  <2>1. /\ UNCHANGED <<sessionIs, present, watcher, reader, created, failed>>
        /\ install'.pending = install.pending /\ install'.oneWay = install.oneWay /\ install' \in InstallStates
        /\ cov'.late = cov.late /\ cov' \in Masks
    <3>1. CASE EnableAll \/ EnableAllFails \/ TakeBack \/ Owe \/ Done
      BY <3>1, <1>a DEF EnableAll, EnableAllFails, TakeBack, Owe, Done, InstallStates, InstallSteps
    <3>2. CASE StoreInstalled \/ StoreFailed \/ PublishSlot
      BY <3>2, <1>a DEF StoreInstalled, StoreFailed, PublishSlot, InstallStates, InstallSteps, Masks, TypeInv
    <3> QED BY <1>2, <3>1, <3>2
  <2>2. CASE EnableAll \/ EnableAllFails \/ TakeBack
    <3>1. /\ \/ install.pc = "enabling" /\ install'.pc = "store installed" /\ on' = created
             \/ install.pc = "enabling" /\ install'.pc = "taking back" /\ on' \subseteq created
             \/ install.pc = "taking back" /\ install'.pc = "failed" /\ on' \subseteq on
          /\ install'.done = install.done /\ queued' = on' /\ UNCHANGED <<todo, cov>>
      BY <2>2, <1>a DEF EnableAll, EnableAllFails, TakeBack, InstallStates
    <3>2. TypeInv' /\ InstallInv' /\ QueueInv' /\ ClaimInv'
      BY <1>a, <2>1, <3>1 DEF TypeInv, InstallInv, QueueInv, ClaimInv, Scanning, Unstored
    <3>3. LiveInv' /\ FailInv' /\ LateInv'
      BY <1>a, <2>1, <3>1 DEF LiveInv, FailInv, LateInv, LateIsNamed, Unstored, Unfailed
    <3> QED BY <3>2, <3>3 DEF SlotInv
  <2>3. CASE StoreInstalled \/ StoreFailed \/ Owe \/ Done \/ PublishSlot
    <3>1. /\ \/ /\ install.pc = "store installed" /\ install'.pc = "store failed"
                /\ cov'.installed = install.pending /\ cov'.failed = cov.failed
             \/ /\ install.pc = "store failed" /\ install'.pc = "owe"
                /\ cov'.installed = cov.installed /\ cov'.failed = failed
             \/ /\ install.pc \in {"owe", "done", "publish"} /\ install'.pc \in {"done", "publish", "over"}
                /\ cov'.installed = cov.installed /\ cov'.failed = cov.failed
          /\ todo' \subseteq Late /\ UNCHANGED <<on, queued>>
      BY <2>3, <1>a DEF StoreInstalled, StoreFailed, Owe, Done, PublishSlot, InstallStates, Masks, TypeInv
    <3>2. /\ install'.done <=> install'.pc \in {"publish", "over"}
          /\ cov'.published => install'.done
          /\ install.done => install'.done
      BY <2>3, <1>a DEF StoreInstalled, StoreFailed, Owe, Done, PublishSlot, InstallStates, Masks, InstallInv
    <3>3. TypeInv' BY <1>a, <2>1, <3>1 DEF TypeInv
    <3>4. InstallInv' BY <1>a, <2>1, <3>1, <3>2 DEF InstallInv, Scanning, Unstored
    <3>7. QueueInv' /\ ClaimInv' BY <1>a, <2>1, <3>1 DEF InstallInv, QueueInv, ClaimInv
    <3>5. LiveInv' /\ FailInv'
      BY <1>a, <2>1, <3>1, <3>2 DEF LiveInv, InHand, FailInv, InstallInv, ClaimInv, Scanning, Unstored, Unfailed
    <3>6. LateInv' BY <1>a, <2>1, <3>1 DEF LateInv, LateIsNamed, InstallInv, Unstored
    <3> QED BY <3>3, <3>4, <3>5, <3>6, <3>7 DEF SlotInv
  <2> QED BY <1>2, <2>2, <2>3

<1> QED BY <1>1, <1>2 DEF InstallStep

LEMMA WatcherKeeps ==
    ASSUME SlotInv, StartWatcher \/ WatcherStep
    PROVE  SlotInv'
<1>a. /\ TypeInv /\ InstallInv /\ QueueInv /\ ClaimInv /\ LiveInv /\ FailInv /\ LateInv
      /\ watcher \in Watchers /\ cov \in Masks /\ watcher.batch \subseteq created
      /\ watcher.pc \in Scanning => install.done
      /\ install.oneWay \cap Late = {}
  BY CoverageSlotAssumption DEF SlotInv, TypeInv, InstallInv, InstallStates
<1>b. UNCHANGED <<sessionIs, present, install, reader>>
  BY DEF StartWatcher, WatcherStep, WatcherLooks, LateOne, EnableOneLate, NothingCreated, ApplyQueue, ApplyQueueFails,
         AllTried, Record, StoreLive, StoreLateFailed, Pause, LookAgain, WakeAtTheEnd, Resolved, Watch

<1>1. CASE StartWatcher \/ NothingCreated \/ AllTried \/ LookAgain \/ WakeAtTheEnd
  <2>1. /\ \/ /\ watcher.pc \in {"none", "wait", "asleep"} /\ watcher'.pc \in {"look", "gone"}
              /\ watcher.pc = "none" => on # {}
           \/ watcher.pc \in {"resolve", "one by one"} /\ watcher'.pc = "record"
        /\ watcher.pc = "one by one" => watcher.left = {}
        /\ watcher'.left = watcher.left /\ watcher'.batch = watcher.batch /\ watcher'.live = watcher.live
        /\ watcher'.lost = watcher.lost /\ watcher'.before = watcher.before /\ watcher'.stored = watcher.stored
        /\ UNCHANGED <<created, on, queued, failed, todo, cov>>
    BY <1>1, <1>a DEF StartWatcher, NothingCreated, AllTried, LookAgain, WakeAtTheEnd, Resolved, Watch, Watchers, detours
  <2>2. TypeInv'
    <3>1. watcher' \in Watchers
      BY <1>1, <1>a DEF StartWatcher, NothingCreated, AllTried, LookAgain, WakeAtTheEnd, Resolved, Watch,
                        Watchers, WatcherSteps, Scanning
    <3> QED BY <1>a, <1>b, <2>1, <3>1, Sets DEF TypeInv, Watchers, Masks
  <2>3. InstallInv' BY <1>a, <1>b, <2>1 DEF InstallInv, Scanning, Unstored
  <2>4. QueueInv' /\ ClaimInv' BY <1>a, <1>b, <2>1 DEF QueueInv, ClaimInv, InstallInv, Scanning
  <2>5. LiveInv' /\ FailInv' BY <1>a, <1>b, <2>1 DEF LiveInv, InHand, FailInv, ClaimInv, Scanning
  <2>6. LateInv' BY <1>a, <1>b, <2>1 DEF LateInv, LateIsNamed
  <2> QED BY <2>2, <2>3, <2>4, <2>5, <2>6 DEF SlotInv

<1>2. CASE WatcherLooks
  <2>1. \/ /\ install.done /\ watcher' = [Resting EXCEPT !.pc = "resolve", !.left = todo, !.before = failed]
        \/ watcher' = [Resting EXCEPT !.pc = "pause"]
    BY <1>2 DEF WatcherLooks
  <2>2. /\ watcher.pc = "look" /\ watcher'.pc \in {"resolve", "pause"} /\ (watcher'.pc = "resolve" => install.done)
        /\ watcher'.batch = {} /\ watcher'.live = {} /\ watcher'.lost = {} /\ watcher'.stored = 0
        /\ watcher'.pc = "resolve" => watcher'.before = failed
        /\ UNCHANGED <<created, on, queued, failed, todo, cov>>
    BY <1>2, <2>1 DEF WatcherLooks, Watch, Resting, detours
  <2>3. TypeInv'
    <3>1. todo \in SUBSET Late /\ failed \in SUBSET Channels BY <1>a DEF TypeInv
    <3>2. /\ [Resting EXCEPT !.pc = "resolve", !.left = todo, !.before = failed] \in Watchers
          /\ [Resting EXCEPT !.pc = "pause"] \in Watchers
      BY RestingType, <3>1 DEF Watchers, WatcherSteps, Scanning
    <3>3. watcher' \in Watchers BY <2>1, <3>2
    <3> QED BY <1>a, <1>b, <2>2, <3>3 DEF TypeInv
  <2>4. InstallInv' /\ QueueInv' /\ ClaimInv'
    BY <1>a, <1>b, <2>2 DEF InstallInv, QueueInv, ClaimInv, Scanning, Unstored
  <2>5. LiveInv' /\ FailInv' /\ LateInv'
    BY <1>a, <1>b, <2>2 DEF LiveInv, InHand, FailInv, LateInv, LateIsNamed, Scanning
  <2> QED BY <2>3, <2>4, <2>5 DEF SlotInv

<1>3. ASSUME NEW c \in Late, LateOne(c) PROVE SlotInv'
  <2>1. /\ watcher.pc = "resolve" /\ watcher'.pc = "resolve" /\ watcher'.left = watcher.left \ {c}
        /\ watcher'.live = watcher.live /\ watcher'.lost = watcher.lost
        /\ watcher'.before = watcher.before /\ watcher'.stored = watcher.stored
        /\ UNCHANGED <<on, queued, cov>>
    BY <1>3, <1>a DEF LateOne, Watch, Watchers
  <2>2. /\ \/ watcher'.batch = watcher.batch /\ created' = created
           \/ watcher'.batch = watcher.batch \cup {c} /\ created' = created \cup {c} /\ c \in present
        /\ failed' \in {failed, failed \cup {c}} /\ todo' \subseteq todo
    BY <1>3, <1>a DEF LateOne, Watch, Watchers
  <2>3. TypeInv'
    <3>1. watcher' \in Watchers
      <4>1. /\ [watcher EXCEPT !.left = watcher.left \ {c}] \in Watchers
            /\ [watcher EXCEPT !.left = watcher.left \ {c}, !.batch = watcher.batch \cup {c}] \in Watchers
        BY <1>a DEF Watchers
      <4> QED BY <1>3, <4>1 DEF LateOne
    <3> QED BY <1>a, <1>b, <2>1, <2>2, <3>1, Sets DEF TypeInv
  <2>4. InstallInv' /\ QueueInv' /\ ClaimInv'
    BY <1>a, <1>b, <2>1 DEF InstallInv, QueueInv, ClaimInv, Scanning, Unstored
  <2>5. LiveInv' /\ FailInv' /\ LateInv'
    BY <1>a, <1>b, <2>1 DEF LiveInv, InHand, FailInv, LateInv, LateIsNamed, Scanning
  <2> QED BY <2>3, <2>4, <2>5 DEF SlotInv

<1>5. CASE ApplyQueue
  <2>1. /\ watcher.pc = "resolve" /\ watcher'.pc = "record"
        /\ watcher'.left = watcher.left /\ watcher'.batch = watcher.batch /\ watcher'.live = watcher.batch
        /\ watcher'.lost = watcher.lost /\ watcher'.before = watcher.before /\ watcher'.stored = watcher.stored
        /\ queued' = queued \cup watcher.batch /\ on' = queued \cup watcher.batch /\ UNCHANGED <<created, failed, todo, cov>>
    BY <1>5, <1>a, Sets DEF ApplyQueue, Watch, Resolved, Resting, Watchers, Masks, detours, StoreOrder
  <2>2. TypeInv'
    <3>1. watcher' \in Watchers
      BY <1>5, <1>a DEF ApplyQueue, Watch, Resting, Watchers, WatcherSteps, Scanning, TypeInv
    <3> QED BY <1>a, <1>b, <2>1, <3>1, Sets DEF TypeInv, Watchers, Masks
  <2>3. InstallInv' BY <1>a, <1>b, <2>1 DEF InstallInv, Scanning, Unstored
  <2>4. QueueInv' /\ ClaimInv' BY <1>a, <1>b, <2>1 DEF QueueInv, ClaimInv, InstallInv, Scanning
  <2>5. LiveInv' /\ FailInv'
    BY <1>a, <1>b, <2>1 DEF QueueInv, LiveInv, InHand, FailInv, ClaimInv, Scanning
  <2>6. LateInv' BY <1>a, <1>b, <2>1 DEF LateInv, LateIsNamed
  <2> QED BY <2>2, <2>3, <2>4, <2>5, <2>6 DEF SlotInv

<1>6. CASE ApplyQueueFails
  <2>1. /\ watcher.pc = "resolve" /\ watcher'.pc = "one by one"
        /\ watcher'.left = watcher.batch /\ watcher'.batch = watcher.batch /\ watcher'.live = watcher.live
        /\ watcher'.lost = watcher.lost /\ watcher'.before = watcher.before /\ watcher'.stored = watcher.stored
        /\ queued' = queued \cup watcher.batch /\ UNCHANGED <<created, failed, todo, cov>>
    BY <1>6, <1>a DEF ApplyQueueFails, Resolved, Watch, Watchers
  <2>2. queued = on BY <1>a, <2>1 DEF QueueInv
  <2>3. on \subseteq on' /\ on' \subseteq on \cup watcher.batch BY <1>6, <2>2 DEF ApplyQueueFails
  <2>4. TypeInv'
    <3>1. watcher' \in Watchers
      BY <1>6, <1>a DEF ApplyQueueFails, Resolved, Watch, Watchers, WatcherSteps, Scanning
    <3> QED BY <1>a, <1>b, <2>1, <2>3, <3>1 DEF TypeInv
  <2>5. InstallInv' BY <1>a, <1>b, <2>1, <2>3 DEF InstallInv, Scanning, Unstored
  <2>6. QueueInv' /\ ClaimInv' BY <1>a, <1>b, <2>1, <2>2, <2>3 DEF QueueInv, ClaimInv
  <2>7. LiveInv' /\ FailInv' /\ LateInv'
    BY <1>a, <1>b, <2>1, <2>3 DEF LiveInv, InHand, FailInv, LateInv, LateIsNamed, Scanning
  <2> QED BY <2>4, <2>5, <2>6, <2>7 DEF SlotInv

<1>7. ASSUME NEW c \in Late, EnableOneLate(c) PROVE SlotInv'
  <2>1. /\ watcher.pc = "one by one" /\ watcher'.pc = "one by one" /\ c \in watcher.left
        /\ watcher'.left = watcher.left \ {c} /\ watcher'.batch = watcher.batch
        /\ watcher'.before = watcher.before /\ watcher'.stored = watcher.stored
        /\ UNCHANGED <<created, failed, todo, cov>>
    BY <1>7, <1>a DEF EnableOneLate, Watch, Watchers
  <2>2. \/ on' = on \cup {c} /\ queued' = (IF c \in on THEN queued ELSE queued \cup {c}) /\ watcher'.live = watcher.live \cup {c}
        \/ c \notin on /\ on' = on /\ queued' = queued \ {c} /\ watcher'.live = watcher.live
    BY <1>7, <1>a DEF EnableOneLate, Watch, Watchers
  <2>3. queued = on \cup watcher.left BY <1>a, <2>1 DEF QueueInv
  <2>4. TypeInv'
    <3>1. watcher' \in Watchers
      <4>1. /\ [watcher EXCEPT !.left = watcher.left \ {c}, !.live = watcher.live \cup {c}] \in Watchers
            /\ [watcher EXCEPT !.left = watcher.left \ {c}, !.lost = watcher.lost \cup {c}] \in Watchers
        BY <1>a DEF Watchers
      <4> QED BY <1>7, <4>1 DEF EnableOneLate
    <3> QED BY <1>a, <1>b, <2>1, <2>2, <2>3, <3>1 DEF TypeInv
  <2>5. InstallInv' BY <1>a, <1>b, <2>1 DEF InstallInv, Scanning, Unstored
  <2>6. QueueInv' /\ ClaimInv' BY <1>a, <1>b, <2>1, <2>2, <2>3 DEF QueueInv, ClaimInv
  <2>7. LiveInv' /\ FailInv' /\ LateInv'
    BY <1>a, <1>b, <2>1, <2>2 DEF LiveInv, InHand, FailInv, LateInv, LateIsNamed, Scanning
  <2> QED BY <2>4, <2>5, <2>6, <2>7 DEF SlotInv

<1>9. CASE Record
  <2>1. /\ watcher.pc = "record" /\ watcher'.pc \in {"pause", "store live", "store failed"}
        /\ watcher'.left = watcher.left /\ watcher'.batch = watcher.batch /\ watcher'.live = watcher.live
        /\ watcher'.lost = watcher.lost /\ watcher'.before = watcher.before /\ watcher'.stored = watcher.stored
        /\ failed' = failed \cup watcher.lost /\ UNCHANGED <<created, on, queued, todo, cov>>
        /\ watcher'.pc = "store failed" => watcher.live = {}
        /\ watcher'.pc = "pause" => sessionIs # "running"
    BY ZenonT(60), <1>9, <1>a, Sets DEF Record, Watch, Ours, Resting, Watchers, Masks, detours, StoreOrder
  <2>2. TypeInv'
    <3>1. watcher' \in Watchers
      BY <1>9, <1>a DEF Record, Watch, Resting, Watchers, WatcherSteps, Scanning, TypeInv
    <3> QED BY <1>a, <1>b, <2>1, <3>1, Sets DEF TypeInv, Watchers, Masks
  <2>3. InstallInv' BY <1>a, <1>b, <2>1 DEF InstallInv, Scanning, Unstored
  <2>4. QueueInv' /\ ClaimInv' BY <1>a, <1>b, <2>1 DEF QueueInv, ClaimInv, InstallInv, Scanning
  <2>5. LiveInv' /\ FailInv' BY <1>a, <1>b, <2>1 DEF LiveInv, InHand, FailInv, ClaimInv, Scanning
  <2>6. LateInv' BY <1>a, <1>b, <2>1 DEF LateInv, LateIsNamed
  <2> QED BY <2>2, <2>3, <2>4, <2>5, <2>6 DEF SlotInv

<1>10. CASE StoreLive(1)
  <2>a. /\ watcher.pc = "store live" /\ watcher.stored = 0
        /\ cov' = [cov EXCEPT !.late = cov.late \cup watcher.live]
        /\ watcher' = [watcher EXCEPT !.stored = 1, !.pc = "store live"]
        /\ UNCHANGED <<created, on, queued, failed, todo>>
    BY <1>10, StoreNumbers DEF StoreLive, Watch, detours
  <2>1. /\ watcher.pc = "store live" /\ watcher'.pc = "store live"
        /\ watcher'.left = watcher.left /\ watcher'.batch = watcher.batch /\ watcher'.live = watcher.live
        /\ watcher'.lost = watcher.lost /\ watcher'.before = watcher.before /\ watcher'.stored = 1
        /\ cov'.late = cov.late \cup watcher.live /\ cov'.installed = cov.installed
        /\ cov'.failed = cov.failed /\ cov'.published = cov.published /\ UNCHANGED <<created, on, queued, failed, todo>>
    BY <1>a, <2>a DEF Watchers, Masks
  <2>2. TypeInv'
    <3>1. watcher' \in Watchers BY <1>a, <2>a, StoreNumbers DEF Watchers, WatcherSteps, Scanning
    <3>2. cov' \in Masks BY <1>a, <2>a, Sets DEF Masks, Watchers
    <3> QED BY <1>a, <1>b, <2>1, <3>1, <3>2, Sets DEF TypeInv, Watchers, Masks
  <2>3. InstallInv' BY <1>a, <1>b, <2>1 DEF InstallInv, Scanning, Unstored
  <2>4. QueueInv' /\ ClaimInv' BY <1>a, <1>b, <2>1 DEF QueueInv, ClaimInv, InstallInv, Scanning
  <2>5. LiveInv' /\ FailInv' BY <1>a, <1>b, <2>1 DEF LiveInv, InHand, FailInv, ClaimInv, Scanning
  <2>6. LateInv' BY <1>a, <1>b, <2>1 DEF LateInv, LateIsNamed
  <2> QED BY <2>2, <2>3, <2>4, <2>5, <2>6 DEF SlotInv

<1>11. CASE StoreLive(2)
  <2>a. /\ watcher.pc = "store live" /\ watcher.stored = 1
        /\ cov' = [cov EXCEPT !.installed = cov.installed \cup watcher.live]
        /\ watcher' = [watcher EXCEPT !.stored = 2, !.pc = "store failed"]
        /\ UNCHANGED <<created, on, queued, failed, todo>>
    BY <1>11, StoreNumbers DEF StoreLive, Watch, detours
  <2>1. /\ watcher.pc = "store live" /\ watcher'.pc = "store failed"
        /\ watcher'.left = watcher.left /\ watcher'.batch = watcher.batch /\ watcher'.live = watcher.live
        /\ watcher'.lost = watcher.lost /\ watcher'.before = watcher.before /\ watcher'.stored = 2
        /\ watcher.stored = 1 /\ cov'.installed = cov.installed \cup watcher.live /\ cov'.late = cov.late
        /\ cov'.failed = cov.failed /\ cov'.published = cov.published /\ UNCHANGED <<created, on, queued, failed, todo>>
    BY <1>a, <2>a DEF Watchers, Masks
  <2>2. TypeInv'
    <3>1. watcher' \in Watchers BY <1>a, <2>a, StoreNumbers DEF Watchers, WatcherSteps, Scanning
    <3>2. cov' \in Masks BY <1>a, <2>a, Sets DEF Masks, Watchers
    <3> QED BY <1>a, <1>b, <2>1, <3>1, <3>2, Sets DEF TypeInv, Watchers, Masks
  <2>3. InstallInv' BY <1>a, <1>b, <2>1 DEF InstallInv, Scanning, Unstored
  <2>4. QueueInv' /\ ClaimInv'
    <3>1. watcher.live \cap install.oneWay = {} BY <1>a DEF Watchers
    <3> QED BY <1>a, <1>b, <2>1, <3>1 DEF QueueInv, ClaimInv, InstallInv, Scanning
  <2>5. LiveInv' /\ FailInv' BY <1>a, <1>b, <2>1 DEF LiveInv, InHand, FailInv, ClaimInv, Scanning
  <2>6. LateInv' BY <1>a, <1>b, <2>1, StoreNumbers DEF LateInv, LateIsNamed
  <2> QED BY <2>2, <2>3, <2>4, <2>5, <2>6 DEF SlotInv

<1>12. CASE StoreLateFailed
  <2>1. /\ watcher.pc = "store failed" /\ watcher'.pc = "pause"
        /\ watcher'.left = watcher.left /\ watcher'.batch = watcher.batch /\ watcher'.live = watcher.live
        /\ watcher'.lost = watcher.lost /\ watcher'.before = watcher.before /\ watcher'.stored = watcher.stored
        /\ cov'.failed = (IF failed # watcher.before THEN failed ELSE cov.failed)
        /\ cov'.installed = cov.installed /\ cov'.late = cov.late /\ cov'.published = cov.published
        /\ UNCHANGED <<created, on, queued, failed, todo>>
    BY <1>12, <1>a, Sets DEF StoreLateFailed, Watch, Resting, Watchers, Masks, detours, StoreOrder
  <2>2. TypeInv'
    <3>1. watcher' \in Watchers
      BY <1>12, <1>a DEF StoreLateFailed, Watch, Resting, Watchers, WatcherSteps, Scanning, TypeInv
    <3>2. cov' \in Masks BY <1>12, <1>a DEF StoreLateFailed, Masks, Watchers, StoreOrder, TypeInv
    <3> QED BY <1>a, <1>b, <2>1, <3>1, <3>2, Sets DEF TypeInv, Watchers, Masks
  <2>3. InstallInv' BY <1>a, <1>b, <2>1 DEF InstallInv, Scanning, Unstored
  <2>4. QueueInv' /\ ClaimInv' BY <1>a, <1>b, <2>1 DEF QueueInv, ClaimInv, InstallInv, Scanning
  <2>5. LiveInv' /\ FailInv' BY <1>a, <1>b, <2>1 DEF LiveInv, InHand, FailInv, ClaimInv, Scanning
  <2>6. LateInv' BY <1>a, <1>b, <2>1 DEF LateInv, LateIsNamed
  <2> QED BY <2>2, <2>3, <2>4, <2>5, <2>6 DEF SlotInv

<1>13. CASE Pause
  <2>1. /\ watcher.pc = "pause" /\ watcher'.pc \in {"wait", "asleep"}
        /\ watcher'.left = {} /\ watcher'.batch = {} /\ watcher'.live = {}
        /\ watcher'.lost = {} /\ watcher'.before = {} /\ watcher'.stored = 0
        /\ UNCHANGED <<created, on, queued, failed, todo, cov>>
    BY <1>13, <1>a, Sets DEF Pause, Watch, Resting, Watchers, Masks, detours, StoreOrder
  <2>2. TypeInv'
    <3>1. watcher' \in Watchers
      <4>1. [Resting EXCEPT !.pc = "wait"] \in Watchers /\ [Resting EXCEPT !.pc = "asleep"] \in Watchers
        BY RestingType DEF Watchers, WatcherSteps
      <4> QED BY <1>13, <4>1 DEF Pause
    <3> QED BY <1>a, <1>b, <2>1, <3>1, Sets DEF TypeInv, Watchers, Masks
  <2>3. InstallInv' BY <1>a, <1>b, <2>1 DEF InstallInv, Scanning, Unstored
  <2>4. QueueInv' /\ ClaimInv' BY <1>a, <1>b, <2>1 DEF QueueInv, ClaimInv, InstallInv, Scanning
  <2>5. LiveInv' /\ FailInv' BY <1>a, <1>b, <2>1 DEF LiveInv, InHand, FailInv, ClaimInv, Scanning
  <2>6. LateInv' BY <1>a, <1>b, <2>1 DEF LateInv, LateIsNamed
  <2> QED BY <2>2, <2>3, <2>4, <2>5, <2>6 DEF SlotInv

<1>16. ASSUME NEW n \in 1..2, StoreLive(n) PROVE SlotInv' BY <1>10, <1>11, <1>16
<1> QED BY <1>1, <1>2, <1>3, <1>5, <1>6, <1>7, <1>9, <1>12, <1>13, <1>16 DEF WatcherStep

LEMMA CoreKeeps ==
    ASSUME SlotInv, CoreStep
    PROVE  SlotInv'
<1>a. /\ TypeInv /\ InstallInv /\ LateInv /\ reader \in Readings /\ cov \in Masks
  BY DEF SlotInv, TypeInv
<1>1. /\ UNCHANGED <<sessionIs, present, created, on, queued, failed, todo, install, watcher, cov>>
      /\ cov.published /\ install.done
  BY <1>a DEF CoreStep, ReadInstalled, ReadFailed, ReadLate, Read, detours, InstallInv
<1>2. QueueInv' /\ ClaimInv' /\ LiveInv' /\ FailInv'
  BY <1>1 DEF SlotInv, QueueInv, ClaimInv, LiveInv, InHand, FailInv
<1>3. InstallInv' BY <1>a, <1>1 DEF InstallInv
<1>4. TypeInv' /\ LateInv'
  <2>1. CASE ReadInstalled
    <3>1. /\ reader' \in Readings /\ reader'.pc = "failed" /\ reader'.installed = cov.installed
      BY <2>1, <1>a DEF ReadInstalled, Reading, Readings, Masks
    <3> QED BY <1>a, <1>1, <3>1 DEF TypeInv, LateInv, LateIsNamed
  <2>2. CASE ReadFailed
    <3>1. reader' \in Readings /\ reader.pc = "failed" /\ reader'.pc = "late" /\ reader'.installed = reader.installed
      BY <2>2, <1>a DEF ReadFailed, Read, Readings, Masks
    <3> QED BY <1>a, <1>1, <3>1 DEF TypeInv, LateInv, LateIsNamed
  <2>3. CASE ReadLate
    <3>1. /\ reader' \in Readings /\ reader.pc = "late" /\ reader'.pc = "read"
          /\ reader'.installed = reader.installed /\ reader'.late = cov.late \cap reader.installed
      BY <2>3, <1>a DEF ReadLate, Read, Readings, Masks
    <3> QED BY <1>a, <1>1, <3>1 DEF TypeInv, LateInv, LateIsNamed
  <2> QED BY <2>1, <2>2, <2>3 DEF CoreStep
<1> QED BY <1>2, <1>3, <1>4 DEF SlotInv

LEMMA WorldKeeps ==
    ASSUME SlotInv, (\E m \in Modules : ModuleArrives(m)) \/ EndSession \/ UNCHANGED slotVars
    PROVE  SlotInv'
<1>1. /\ UNCHANGED <<created, on, queued, failed, todo, install, watcher, cov, reader>>
      /\ present \subseteq present' /\ present' \subseteq Channels
      /\ sessionIs' \in {sessionIs, "ended"}
  BY Sets DEF SlotInv, TypeInv, ModuleArrives, EndSession, slotVars, detours
<1>2. TypeInv' BY <1>1 DEF SlotInv, TypeInv
<1>3. InstallInv' /\ QueueInv' /\ ClaimInv' BY <1>1 DEF SlotInv, InstallInv, QueueInv, ClaimInv
<1>4. LiveInv' /\ FailInv' /\ LateInv'
  BY <1>1 DEF SlotInv, LiveInv, InHand, FailInv, LateInv, LateIsNamed
<1> QED BY <1>2, <1>3, <1>4 DEF SlotInv

LEMMA SlotInvIsEnough == SlotInv => AuditIsHonest
<1> SUFFICES ASSUME SlotInv PROVE AuditIsHonest OBVIOUS
<1>1. SlotTypeOK
  BY DEF SlotInv, TypeInv, SlotTypeOK, InstallStates, InstallSteps, Watchers, WatcherSteps, Scanning, Masks, Readings
<1>2. ClaimedIsLive /\ LateIsNamed BY DEF SlotInv, ClaimInv, LateInv, ClaimedIsLive
<1>3. LiveIsClaimed /\ FailureIsListed
  BY DEF SlotInv, LiveInv, InHand, FailInv, LiveIsClaimed, FailureIsListed, Settled, Scanning, Unstored, Unfailed
<1> QED BY <1>1, <1>2, <1>3 DEF AuditIsHonest

\* Whatever channels and modules there are, however the install, the watcher's scans, MinHook's
\* failures, the core's readings and the end of the session interleave: a process claims only
\* what is on, claims all that is on once a scan is over, lists what failed, and names what came
\* late (`install`, `late_scan`, `enable_one_late`, `gather_coverage`).
THEOREM AuditHonest == SlotSpec => []AuditIsHonest
<1>1. SlotInv /\ [SlotNext]_slotVars => SlotInv'
  BY InstallKeeps, WatcherKeeps, CoreKeeps, WorldKeeps DEF SlotNext
<1> QED BY SlotInvInit, <1>1, SlotInvIsEnough, PTL DEF SlotSpec

-----------------------------------------------------------------------------
(***************************************************************************)
(* The start.  What carries StartIsSound is the lock: whoever stands       *)
(* between the lock and the end of its session is the only one there, so   *)
(* the block a core has written is the block its target reads.             *)
(***************************************************************************)
(* The inductive invariant.                                                *)

Names == StartCores \cup {NoCore, Earlier}

Steps == {"new", "locked", "opened", "zeroing", "header", "anchor", "pid", "create", "inject",
          "waiting", "signalled", "code", "slot", "resume", "let go", "session",
          "drop target", "drop view", "drop lock", "failed", "over", "dying", "dead"}

Seen == [wait : {"none", "done", "not done"}, signalled : BOOLEAN, code : {"none"}]

Cores == [pc : Steps, view : BOOLEAN, existed : BOOLEAN,
          reclaimed : {"nothing", "ended", "dead core"}, before : Names, seen : Seen,
          covered : BOOLEAN, told : BOOLEAN, refused : BOOLEAN, marked : BOOLEAN]

Blocks == [magic : {"zero", "ours", "other", "foreign"}, pid : Names, created : Names,
           ended : BOOLEAN, anchor : Names, members : SUBSET StartCores]

Apps == [life : {"none", "suspended", "running", "ended"}, job : BOOLEAN,
         thread : {"none", "header", "pid", "joining", "installing", "module", "null"},
         exit : {"none", "code", "signalled"}, look : Names, joined : Names,
         hooks : BOOLEAN, page : BOOLEAN]

StartTypeInv ==
    /\ cores \in [StartCores -> Cores]
    /\ lockOwner \in StartCores \cup {NoCore}
    /\ block \in Blocks
    /\ leftover \in BOOLEAN
    /\ apps \in [StartCores -> Apps]

\* Before the core names itself in the block, and what it leaves behind for good.
Nameless == {"new", "locked", "opened", "zeroing", "header", "anchor", "pid"}
Killed   == {"dying", "dead"}
Outside  == {"new", "failed", "over"} \cup Killed

\* A core that holds the lock is the only one, and from the view on it maps the block.
LockInv(c) ==
    /\ cores[c].pc \notin Outside => lockOwner = c
    /\ cores[c].pc \notin Outside \cup {"locked", "drop target", "drop view", "drop lock"} => cores[c].view
    /\ cores[c].view => cores[c].pc \notin {"new", "locked", "drop lock", "failed", "over", "dead"}
    /\ cores[c].refused => At(c, "drop target") /\ cores[c].view

\* The block as the core has written it, which its target reads.
HasStarted(c) == HasBlock(c) \/ (At(c, "drop target") /\ apps[c].life # "none")
Virgin(c)     == (At(c, "opened") /\ ~cores[c].existed) \/ At(c, "header")

BlockInv(c) ==
    /\ cores[c].pc \in Nameless => block.pid # c
    /\ Virgin(c) \/ cores[c].pc \in {"anchor", "pid"} => block.pid = NoCore /\ ~block.ended
    /\ cores[c].pc \in {"anchor", "pid"} => block.magic = "ours"
    /\ At(c, "pid") => block.anchor = c
    /\ HasStarted(c) => cores[c].view /\ block.pid = c /\ block.anchor = c /\ block.magic = "ours"
    /\ block.pid = c => block.ended = cores[c].marked
    /\ c \in block.members => apps[c].hooks

\* Who refused it met a stranger's, or somebody was killed.
RefusedInv(c) == cores[c].refused => block.magic = "foreign" \/ \E d \in StartCores : cores[d].pc \in Killed

\* Nobody maps it: it is not there.  It is there without its magic: somebody makes it, or was killed at that.
FreshInv ==
    /\ ~BlockIsHeld => block = Blank
    /\ BlockIsHeld /\ block.magic = "zero" => \E d \in StartCores : Virgin(d) \/ cores[d].pc \in Killed

\* What a core tells of the session before, while it is in it.
BeforeInv(c) ==
    cores[c].reclaimed # "nothing" /\ cores[c].before \in StartCores =>
        /\ cores[cores[c].before].pc \in {"failed", "over"} \cup Killed
        /\ cores[cores[c].before].marked = (cores[c].reclaimed = "ended")

\* The life of a target follows its core's steps.
LifeInv(c) ==
    /\ cores[c].pc \in Nameless \cup {"create"} => apps[c].life = "none"
    /\ apps[c].life = "suspended" =>
        cores[c].pc \in {"inject", "waiting", "signalled", "code", "slot", "resume", "drop target"} \cup Killed
    /\ apps[c].life = "running" =>
        cores[c].pc \in {"let go", "session", "drop view", "drop lock", "failed", "over"} \cup Killed
    /\ apps[c].life = "none" => ~apps[c].hooks /\ ~apps[c].job /\ apps[c].joined = NoCore
    /\ apps[c].life = "ended" => ~apps[c].job
    /\ apps[c].exit = "signalled" => apps[c].life = "ended"
    /\ apps[c].life = "suspended" /\ At(c, "dead") => ~apps[c].job

\* The thread that loads the hook, next to what the core has read of it.
LoadInv(c) ==
    /\ apps[c].life = "running" => apps[c].thread = "module"
    /\ apps[c].life = "suspended" /\ At(c, "inject") => apps[c].thread = "none"
    /\ apps[c].life = "suspended" /\ cores[c].pc \in {"slot", "resume"} => apps[c].thread = "module"
    /\ At(c, "code") /\ cores[c].seen.signalled => apps[c].life = "ended"
    /\ cores[c].pc \in {"signalled", "code"} /\ cores[c].seen.wait = "done" /\ apps[c].life = "suspended" =>
        apps[c].thread \in {"module", "null"} \/ apps[c].exit # "none"
    /\ Loads(c, "header") => apps[c].page
    /\ apps[c].thread = "installing" => apps[c].joined # NoCore

\* What the core says of it.
NoteInv(c) ==
    /\ cores[c].marked => cores[c].pc \in {"drop view", "drop lock", "over"} \cup Killed
    /\ At(c, "session") /\ apps[c].job => cores[c].told
    /\ cores[c].covered => apps[c].hooks

\* A process reads the block of its own core while that core stands.
JoinInv(c) ==
    cores[c].pc \notin Killed =>
        /\ apps[c].joined \in {NoCore, c}
        /\ apps[c].life = "suspended" /\ apps[c].thread = "joining" => apps[c].look = c

StartInv ==
    /\ StartTypeInv /\ FreshInv
    /\ \A c \in StartCores : /\ LockInv(c) /\ BlockInv(c) /\ RefusedInv(c) /\ BeforeInv(c)
                             /\ LifeInv(c) /\ LoadInv(c) /\ NoteInv(c) /\ JoinInv(c)

-----------------------------------------------------------------------------
(* What each step does, field by field.                                    *)

\* The other cores stand, and their targets.
CoresStand(c) == \A d \in StartCores \ {c} : cores'[d] = cores[d]
AppsStand(c)  == \A d \in StartCores \ {c} : apps'[d] = apps[d]

\* The core takes its next step and learns nothing.
OnlyPc(c, to) ==
    /\ cores'[c].pc = to /\ cores'[c].view = cores[c].view /\ cores'[c].existed = cores[c].existed
    /\ cores'[c].reclaimed = cores[c].reclaimed /\ cores'[c].before = cores[c].before
    /\ cores'[c].seen = cores[c].seen /\ cores'[c].covered = cores[c].covered
    /\ cores'[c].told = cores[c].told /\ cores'[c].refused = cores[c].refused
    /\ cores'[c].marked = cores[c].marked

\* The core is on a way out, and what it had learned is gone.
Out(c, to, view) ==
    /\ cores'[c].pc = to /\ cores'[c].view = view /\ cores'[c].existed = FALSE
    /\ cores'[c].reclaimed = "nothing" /\ cores'[c].before = NoCore
    /\ cores'[c].seen = NewCore.seen /\ cores'[c].covered = FALSE
    /\ cores'[c].told = FALSE /\ cores'[c].refused = FALSE
    /\ cores'[c].marked = cores[c].marked

\* The target has ended, and with it its thread, its view and its job.
IsEnded(c) ==
    /\ apps'[c].life = "ended" /\ apps'[c].job = FALSE /\ apps'[c].thread = "none"
    /\ apps'[c].exit = "signalled" /\ apps'[c].joined = NoCore /\ apps'[c].hooks = apps[c].hooks

\* Nobody signs in to the block or is forgotten by it.
MembersStand == block'.members = block.members

\* The load is over for the thread that reads the path: it has answered, or its process has ended.
ReadToTheEnd(c) ==
    \/ cores[c].seen.signalled
    \/ apps[c].exit # "none"
    \/ cores[c].seen.wait = "done"

LEMMA CoreNames == \A c \in StartCores : c # NoCore /\ c # Earlier
  BY SessionStartAssumption

LEMMA MovesDoes ==
    ASSUME StartTypeInv, NEW c \in StartCores, NEW to, Moves(c, to)
    PROVE  OnlyPc(c, to) /\ CoresStand(c)
  BY DEF StartTypeInv, Moves, OnlyPc, CoresStand, Cores

LEMMA LeavesDoes ==
    ASSUME StartTypeInv, NEW c \in StartCores, NEW to, Leaves(c, to)
    PROVE  Out(c, to, FALSE) /\ CoresStand(c)
  BY DEF StartTypeInv, Leaves, Out, CoresStand, Cores, NewCore

LEMMA GoesOutDoes ==
    ASSUME StartTypeInv, NEW c \in StartCores, NEW to, GoesOut(c, to)
    PROVE  Out(c, to, cores[c].view) /\ CoresStand(c)
  BY DEF StartTypeInv, GoesOut, Out, CoresStand, Cores, NewCore

LEMMA FailsDoes ==
    ASSUME StartTypeInv, NEW c \in StartCores, Fails(c)
    PROVE  Out(c, "drop target", cores[c].view) /\ CoresStand(c)
  BY GoesOutDoes DEF Fails

LEMMA TakesLockDoes ==
    ASSUME StartTypeInv, NEW c \in StartCores, TakesLock(c)
    PROVE  /\ At(c, "new") /\ CoresStand(c) /\ UNCHANGED <<block, leftover, apps>>
           /\ \/ /\ OnlyPc(c, "locked") /\ lockOwner = NoCore /\ lockOwner' = c
              \/ /\ Out(c, "failed", FALSE) /\ lockOwner' = lockOwner
  BY MovesDoes, LeavesDoes DEF TakesLock, At, LockIsOurs

LEMMA OpensBlockDoes ==
    ASSUME StartTypeInv, NEW c \in StartCores, OpensBlock(c)
    PROVE  /\ At(c, "locked") /\ CoresStand(c) /\ UNCHANGED <<lockOwner, block, leftover, apps>>
           /\ \/ /\ cores'[c].pc = "opened" /\ cores'[c].view = TRUE
                 /\ cores'[c].existed = BlockIsHeld /\ cores'[c].reclaimed = cores[c].reclaimed
                 /\ cores'[c].before = cores[c].before /\ cores'[c].seen = cores[c].seen
                 /\ cores'[c].covered = cores[c].covered /\ cores'[c].told = cores[c].told
                 /\ cores'[c].refused = cores[c].refused /\ cores'[c].marked = cores[c].marked
              \/ /\ Out(c, "drop target", cores[c].view)
<1>1. At(c, "locked") /\ UNCHANGED <<lockOwner, block, leftover, apps>> BY DEF OpensBlock
<1>2. CASE Fails(c) BY <1>1, <1>2, FailsDoes
<1>3. CASE cores' = [cores EXCEPT ![c].pc = "opened", ![c].view = TRUE, ![c].existed = BlockIsHeld]
  <2>1. /\ CoresStand(c) /\ cores'[c].pc = "opened" /\ cores'[c].view = TRUE
        /\ cores'[c].existed = BlockIsHeld /\ cores'[c].reclaimed = cores[c].reclaimed
        /\ cores'[c].before = cores[c].before /\ cores'[c].seen = cores[c].seen
        /\ cores'[c].covered = cores[c].covered /\ cores'[c].told = cores[c].told
        /\ cores'[c].refused = cores[c].refused /\ cores'[c].marked = cores[c].marked
    BY ZenonT(60), <1>3 DEF StartTypeInv, Cores, CoresStand
  <2> QED BY <1>1, <2>1
<1> QED BY <1>2, <1>3 DEF OpensBlock

LEMMA ExaminesBlockDoes ==
    ASSUME StartTypeInv, NEW c \in StartCores, ExaminesBlock(c)
    PROVE  /\ At(c, "opened") /\ CoresStand(c) /\ UNCHANGED <<lockOwner, block, leftover, apps>>
           /\ \/ /\ ~cores[c].existed /\ OnlyPc(c, "header")
              \/ /\ cores[c].existed /\ block.magic = "ours" /\ cores'[c].pc = "zeroing"
                 /\ cores'[c].reclaimed = Reclaimed /\ cores'[c].before = block.pid
                 /\ cores'[c].view = cores[c].view /\ cores'[c].existed = cores[c].existed
                 /\ cores'[c].seen = cores[c].seen /\ cores'[c].covered = cores[c].covered
                 /\ cores'[c].told = cores[c].told /\ cores'[c].refused = cores[c].refused
                 /\ cores'[c].marked = cores[c].marked
              \/ /\ cores[c].existed /\ block.magic # "ours" /\ cores'[c].pc = "drop target"
                 /\ cores'[c].refused = (block.magic \notin {"ours", "other"})
                 /\ cores'[c].view = cores[c].view /\ cores'[c].existed = cores[c].existed
                 /\ cores'[c].reclaimed = cores[c].reclaimed /\ cores'[c].before = cores[c].before
                 /\ cores'[c].seen = cores[c].seen /\ cores'[c].covered = cores[c].covered
                 /\ cores'[c].told = cores[c].told /\ cores'[c].marked = cores[c].marked
<1>1. At(c, "opened") /\ UNCHANGED <<lockOwner, block, leftover, apps>> BY DEF ExaminesBlock
<1>2. CASE ~cores[c].existed /\ Moves(c, "header") BY <1>1, <1>2, MovesDoes
<1>3. CASE /\ cores[c].existed /\ HeldBlock = "ours"
           /\ cores' = [cores EXCEPT ![c].pc = "zeroing", ![c].reclaimed = Reclaimed, ![c].before = block.pid]
  <2>1. block.magic = "ours" BY <1>3 DEF HeldBlock
  <2>2. cores' = [cores EXCEPT ![c].pc = "zeroing", ![c].reclaimed = Reclaimed, ![c].before = block.pid]
    BY <1>3
  <2>3. /\ CoresStand(c) /\ cores'[c].pc = "zeroing" /\ cores'[c].reclaimed = Reclaimed
        /\ cores'[c].before = block.pid /\ cores'[c].view = cores[c].view
        /\ cores'[c].existed = cores[c].existed
    BY ZenonT(60), <2>2 DEF StartTypeInv, Cores, CoresStand
  <2>4. /\ cores'[c].existed = cores[c].existed /\ cores'[c].seen = cores[c].seen
        /\ cores'[c].covered = cores[c].covered /\ cores'[c].told = cores[c].told
        /\ cores'[c].refused = cores[c].refused /\ cores'[c].marked = cores[c].marked
    <3>1. cores[c] \in Cores /\ c \in DOMAIN cores BY DEF StartTypeInv
    <3>2. cores'[c] = [cores[c] EXCEPT !.pc = "zeroing", !.reclaimed = Reclaimed, !.before = block.pid]
      BY <2>2, <3>1
    <3>3. cores'[c].existed = cores[c].existed /\ cores'[c].seen = cores[c].seen
      BY <3>1, <3>2 DEF Cores
    <3>4. cores'[c].covered = cores[c].covered /\ cores'[c].told = cores[c].told
      BY <3>1, <3>2 DEF Cores
    <3>5. cores'[c].refused = cores[c].refused /\ cores'[c].marked = cores[c].marked
      BY <3>1, <3>2 DEF Cores
    <3> QED BY <3>3, <3>4, <3>5
  <2> QED BY <1>1, <1>3, <2>1, <2>3, <2>4
<1>4. CASE /\ cores[c].existed /\ HeldBlock # "ours"
           /\ cores' = [cores EXCEPT ![c].pc = "drop target", ![c].refused = HeldBlock = "foreign"]
  <2>1. block.magic # "ours" /\ ((HeldBlock = "foreign") <=> block.magic \notin {"ours", "other"})
    BY <1>4 DEF HeldBlock
  <2>2. /\ CoresStand(c) /\ cores'[c].pc = "drop target"
        /\ cores'[c].refused = (HeldBlock = "foreign") /\ cores'[c].view = cores[c].view
        /\ cores'[c].existed = cores[c].existed /\ cores'[c].reclaimed = cores[c].reclaimed
        /\ cores'[c].before = cores[c].before /\ cores'[c].seen = cores[c].seen
        /\ cores'[c].covered = cores[c].covered /\ cores'[c].told = cores[c].told
        /\ cores'[c].marked = cores[c].marked
    BY <1>4 DEF StartTypeInv, Cores, CoresStand
  <2> QED BY <1>1, <1>4, <2>1, <2>2
<1> QED BY <1>2, <1>3, <1>4 DEF ExaminesBlock

LEMMA ZeroesBlockDoes ==
    ASSUME StartTypeInv, NEW c \in StartCores, ZeroesBlock(c)
    PROVE  /\ At(c, "zeroing") /\ CoresStand(c) /\ OnlyPc(c, "header") /\ block' = Blank
           /\ UNCHANGED <<lockOwner, leftover, apps>>
  BY MovesDoes DEF ZeroesBlock, Writes, At, StartTypeInv, Blocks, MembersStand

LEMMA WritesHeaderDoes ==
    ASSUME StartTypeInv, NEW c \in StartCores, WritesHeader(c)
    PROVE  /\ At(c, "header") /\ CoresStand(c) /\ OnlyPc(c, "anchor") /\ block'.magic = "ours"
           /\ MembersStand /\ block'.anchor = block.anchor /\ block'.pid = block.pid
           /\ block'.ended = block.ended /\ UNCHANGED <<lockOwner, leftover, apps>>
  BY MovesDoes DEF WritesHeader, Writes, At, StartTypeInv, Blocks, MembersStand

LEMMA WritesAnchorDoes ==
    ASSUME StartTypeInv, NEW c \in StartCores, WritesAnchor(c)
    PROVE  /\ At(c, "anchor") /\ CoresStand(c) /\ OnlyPc(c, "pid") /\ block'.magic = block.magic
           /\ MembersStand /\ block'.anchor = c /\ block'.pid = block.pid
           /\ block'.ended = block.ended /\ UNCHANGED <<lockOwner, leftover, apps>>
  BY MovesDoes DEF WritesAnchor, Writes, At, StartTypeInv, Blocks, MembersStand

LEMMA WritesPidDoes ==
    ASSUME StartTypeInv, NEW c \in StartCores, WritesPid(c)
    PROVE  /\ At(c, "pid") /\ CoresStand(c) /\ OnlyPc(c, "create") /\ block'.magic = block.magic
           /\ MembersStand /\ block'.anchor = block.anchor /\ block'.pid = c
           /\ block'.ended = block.ended /\ UNCHANGED <<lockOwner, leftover, apps>>
  BY MovesDoes DEF WritesPid, Writes, At, StartTypeInv, Blocks, MembersStand

LEMMA CreatesTargetDoes ==
    ASSUME StartTypeInv, NEW c \in StartCores, CreatesTarget(c)
    PROVE  /\ At(c, "create") /\ CoresStand(c) /\ AppsStand(c)
           /\ UNCHANGED <<lockOwner, block, leftover>>
           /\ \/ /\ Out(c, "drop target", cores[c].view) /\ apps'[c] = apps[c]
              \/ /\ OnlyPc(c, "inject") /\ apps'[c].life = "suspended" /\ apps'[c].thread = "none"
                 /\ apps'[c].exit = "none" /\ apps'[c].joined = NoCore /\ apps'[c].hooks = FALSE
  BY MovesDoes, FailsDoes DEF CreatesTarget, At, AppIs, AppsStand, StartTypeInv, NewApp

LEMMA CannotInjectDoes ==
    ASSUME StartTypeInv, NEW c \in StartCores, CannotInject(c)
    PROVE  /\ At(c, "inject") /\ CoresStand(c) /\ Out(c, "drop target", cores[c].view)
           /\ UNCHANGED <<lockOwner, block, leftover, apps>>
  BY FailsDoes DEF CannotInject, At

LEMMA BeginsLoadDoes ==
    ASSUME StartTypeInv, NEW c \in StartCores, BeginsLoad(c)
    PROVE  /\ At(c, "inject") /\ CoresStand(c) /\ AppsStand(c) /\ OnlyPc(c, "waiting")
           /\ apps'[c].thread = "header" /\ apps'[c].page = TRUE /\ apps'[c].life = apps[c].life
           /\ apps'[c].job = apps[c].job /\ apps'[c].exit = apps[c].exit
           /\ apps'[c].look = apps[c].look /\ apps'[c].joined = apps[c].joined
           /\ apps'[c].hooks = apps[c].hooks /\ UNCHANGED <<lockOwner, block, leftover>>
  BY MovesDoes DEF BeginsLoad, At, StartTypeInv, Apps, AppIs, AppsStand

LEMMA LoadWaitsDoes ==
    ASSUME StartTypeInv, NEW c \in StartCores, LoadWaits(c)
    PROVE  /\ At(c, "waiting") /\ CoresStand(c) /\ (cores'[c].seen.wait = "done" => ThreadDone(c))
           /\ cores'[c].pc = "signalled" /\ cores'[c].view = cores[c].view
           /\ cores'[c].existed = cores[c].existed /\ cores'[c].reclaimed = cores[c].reclaimed
           /\ cores'[c].before = cores[c].before /\ cores'[c].covered = cores[c].covered
           /\ cores'[c].told = cores[c].told /\ cores'[c].refused = cores[c].refused
           /\ cores'[c].marked = cores[c].marked /\ UNCHANGED <<lockOwner, block, leftover, apps>>
<1>1. PICK wait \in {"not done", "done"} :
          /\ wait = "done" => ThreadDone(c)
          /\ cores' = [cores EXCEPT ![c].pc = "signalled", ![c].seen = [@ EXCEPT !.wait = wait]]
  BY DEF LoadWaits
<1>2. cores'[c].seen.wait = wait BY ZenonT(60), <1>1 DEF StartTypeInv, Cores, Seen
<1>3. /\ CoresStand(c) /\ cores'[c].pc = "signalled" /\ cores'[c].view = cores[c].view
      /\ cores'[c].existed = cores[c].existed /\ cores'[c].reclaimed = cores[c].reclaimed
      /\ cores'[c].before = cores[c].before /\ cores'[c].covered = cores[c].covered
      /\ cores'[c].told = cores[c].told /\ cores'[c].refused = cores[c].refused
      /\ cores'[c].marked = cores[c].marked
  BY ZenonT(60), <1>1 DEF StartTypeInv, Cores, CoresStand
<1>4. At(c, "waiting") /\ UNCHANGED <<lockOwner, block, leftover, apps>> BY DEF LoadWaits
<1> QED BY <1>1, <1>2, <1>3, <1>4

LEMMA ReadsSignalledDoes ==
    ASSUME StartTypeInv, NEW c \in StartCores, ReadsSignalled(c)
    PROVE  /\ At(c, "signalled") /\ CoresStand(c)
           /\ cores'[c].seen.signalled = (apps[c].exit = "signalled")
           /\ cores'[c].seen.wait = cores[c].seen.wait /\ cores'[c].pc = "code"
           /\ cores'[c].view = cores[c].view /\ cores'[c].existed = cores[c].existed
           /\ cores'[c].reclaimed = cores[c].reclaimed /\ cores'[c].before = cores[c].before
           /\ cores'[c].covered = cores[c].covered /\ cores'[c].told = cores[c].told
           /\ cores'[c].refused = cores[c].refused /\ cores'[c].marked = cores[c].marked
           /\ UNCHANGED <<lockOwner, block, leftover, apps>>
<1>1. cores' = [cores EXCEPT ![c].pc = "code",
                             ![c].seen = [@ EXCEPT !.signalled = (apps[c].exit = "signalled")]]
  BY DEF ReadsSignalled
<1>2. cores'[c].seen = [cores[c].seen EXCEPT !.signalled = (apps[c].exit = "signalled")]
  BY <1>1 DEF StartTypeInv, Cores
<1>3. cores[c].seen \in Seen BY DEF StartTypeInv, Cores
<1>4. cores'[c].seen.signalled = (apps[c].exit = "signalled") /\ cores'[c].seen.wait = cores[c].seen.wait
  BY <1>2, <1>3 DEF Seen
<1>5. /\ CoresStand(c) /\ cores'[c].pc = "code" /\ cores'[c].view = cores[c].view
      /\ cores'[c].existed = cores[c].existed /\ cores'[c].reclaimed = cores[c].reclaimed
      /\ cores'[c].before = cores[c].before /\ cores'[c].covered = cores[c].covered
      /\ cores'[c].told = cores[c].told /\ cores'[c].refused = cores[c].refused
      /\ cores'[c].marked = cores[c].marked
  BY ZenonT(60), <1>1 DEF StartTypeInv, Cores, CoresStand
<1>6. At(c, "signalled") /\ UNCHANGED <<lockOwner, block, leftover, apps>> BY DEF ReadsSignalled
<1> QED BY <1>4, <1>5, <1>6

LEMMA ReadsOutcomeDoes ==
    ASSUME StartTypeInv, NEW c \in StartCores, ReadsOutcome(c)
    PROVE  /\ At(c, "code") /\ CoresStand(c) /\ AppsStand(c) /\ apps'[c].life = apps[c].life
           /\ apps'[c].job = apps[c].job /\ apps'[c].thread = apps[c].thread
           /\ apps'[c].exit = apps[c].exit /\ apps'[c].look = apps[c].look
           /\ apps'[c].joined = apps[c].joined /\ apps'[c].hooks = apps[c].hooks
           /\ (apps'[c].page = apps[c].page \/ ReadToTheEnd(c))
           /\ UNCHANGED <<lockOwner, block, leftover>>
           /\ \/ /\ apps[c].thread = "module" /\ cores'[c].pc = "slot"
                 /\ cores'[c].view = cores[c].view /\ cores'[c].existed = cores[c].existed
                 /\ cores'[c].reclaimed = cores[c].reclaimed /\ cores'[c].before = cores[c].before
                 /\ cores'[c].covered = cores[c].covered /\ cores'[c].told = cores[c].told
                 /\ cores'[c].refused = cores[c].refused /\ cores'[c].marked = cores[c].marked
              \/ /\ Out(c, "drop target", cores[c].view)
<1>1. PICK code \in {"none"} \cup (IF apps[c].exit = "none" THEN {} ELSE {"status"}) :
          LET outcome == LoadOutcome([cores[c].seen EXCEPT !.code = code], apps[c].thread)
          IN /\ IF outcome = "loaded"
                THEN cores' = [cores EXCEPT ![c].pc = "slot", ![c].seen = NewCore.seen]
                ELSE Fails(c)
             /\ AppIs(c, [apps[c] EXCEPT !.page = @ /\ ~PageReleased(outcome)])
  BY DEF ReadsOutcome
<1> DEFINE seen    == [cores[c].seen EXCEPT !.code = code]
           outcome == LoadOutcome(seen, apps[c].thread)
<1>2. /\ seen.code = code /\ seen.wait = cores[c].seen.wait /\ seen.wait \in {"none", "done", "not done"}
      /\ seen.signalled = cores[c].seen.signalled
  BY ZenonT(60) DEF StartTypeInv, Cores, Seen
<1>3. code = "status" => apps[c].exit # "none" BY <1>1
<1>4. outcome = "loaded" => apps[c].thread = "module" BY <1>2 DEF LoadOutcome
<1>5. PageReleased(outcome) => ReadToTheEnd(c)
  BY <1>2, <1>3 DEF LoadOutcome, PageReleased, ReadToTheEnd
<1>6. At(c, "code") /\ UNCHANGED <<lockOwner, block, leftover>> BY DEF ReadsOutcome
<1>7. /\ AppsStand(c) /\ apps'[c].page = (apps[c].page /\ ~PageReleased(outcome))
      /\ apps'[c].life = apps[c].life /\ apps'[c].job = apps[c].job
      /\ apps'[c].thread = apps[c].thread /\ apps'[c].exit = apps[c].exit
      /\ apps'[c].look = apps[c].look /\ apps'[c].joined = apps[c].joined
      /\ apps'[c].hooks = apps[c].hooks
  BY <1>1 DEF StartTypeInv, Apps, AppIs, AppsStand
<1>8. apps'[c].page = apps[c].page \/ ReadToTheEnd(c) BY <1>5, <1>7 DEF StartTypeInv, Apps
<1>9. CASE outcome = "loaded"
  <2>1. cores' = [cores EXCEPT ![c].pc = "slot", ![c].seen = NewCore.seen] BY <1>1, <1>9
  <2>2. /\ CoresStand(c) /\ cores'[c].pc = "slot" /\ cores'[c].view = cores[c].view
        /\ cores'[c].existed = cores[c].existed /\ cores'[c].reclaimed = cores[c].reclaimed
        /\ cores'[c].before = cores[c].before /\ cores'[c].covered = cores[c].covered
        /\ cores'[c].told = cores[c].told /\ cores'[c].refused = cores[c].refused
        /\ cores'[c].marked = cores[c].marked
    BY ZenonT(60), <2>1 DEF StartTypeInv, Cores, CoresStand
  <2> QED BY <1>4, <1>6, <1>7, <1>8, <1>9, <2>2
<1>10. CASE outcome # "loaded"
  <2>1. Out(c, "drop target", cores[c].view) /\ CoresStand(c) BY <1>1, <1>10, FailsDoes
  <2> QED BY <1>6, <1>7, <1>8, <2>1
<1> QED BY <1>9, <1>10

LEMMA FindsSlotDoes ==
    ASSUME StartTypeInv, NEW c \in StartCores, FindsSlot(c)
    PROVE  /\ At(c, "slot") /\ CoresStand(c) /\ cores'[c].pc = "resume"
           /\ cores'[c].covered = (c \in block.members) /\ cores'[c].view = cores[c].view
           /\ cores'[c].existed = cores[c].existed /\ cores'[c].reclaimed = cores[c].reclaimed
           /\ cores'[c].before = cores[c].before /\ cores'[c].seen = cores[c].seen
           /\ cores'[c].told = cores[c].told /\ cores'[c].refused = cores[c].refused
           /\ cores'[c].marked = cores[c].marked /\ UNCHANGED <<lockOwner, block, leftover, apps>>
  BY ZenonT(60) DEF FindsSlot, At, StartTypeInv, Cores, CoresStand

LEMMA ResumesDoes ==
    ASSUME StartTypeInv, NEW c \in StartCores, Resumes(c)
    PROVE  /\ At(c, "resume") /\ CoresStand(c) /\ AppsStand(c)
           /\ UNCHANGED <<lockOwner, block, leftover>>
           /\ \/ /\ OnlyPc(c, "let go")
                 /\ apps'[c].life = (IF apps[c].life = "suspended" THEN "running" ELSE apps[c].life)
                 /\ apps'[c].job = apps[c].job /\ apps'[c].thread = apps[c].thread
                 /\ apps'[c].exit = apps[c].exit /\ apps'[c].look = apps[c].look
                 /\ apps'[c].joined = apps[c].joined /\ apps'[c].hooks = apps[c].hooks
                 /\ apps'[c].page = apps[c].page
              \/ /\ Out(c, "drop target", cores[c].view) /\ apps'[c] = apps[c]
<1>1. CASE /\ Moves(c, "let go")
           /\ AppIs(c, [apps[c] EXCEPT !.life = IF @ = "suspended" THEN "running" ELSE @])
  BY ZenonT(60), <1>1, MovesDoes DEF Resumes, At, StartTypeInv, Apps, AppIs, AppsStand
<1>2. CASE Fails(c) /\ UNCHANGED apps BY <1>2, FailsDoes DEF Resumes, At, AppsStand
<1> QED BY <1>1, <1>2 DEF Resumes

LEMMA LetsGoDoes ==
    ASSUME StartTypeInv, NEW c \in StartCores, LetsGo(c)
    PROVE  /\ At(c, "let go") /\ CoresStand(c) /\ AppsStand(c)
           /\ (apps'[c].job => cores'[c].told /\ apps[c].job) /\ cores'[c].pc = "session"
           /\ cores'[c].view = cores[c].view /\ cores'[c].existed = cores[c].existed
           /\ cores'[c].reclaimed = cores[c].reclaimed /\ cores'[c].before = cores[c].before
           /\ cores'[c].seen = cores[c].seen /\ cores'[c].covered = cores[c].covered
           /\ cores'[c].refused = cores[c].refused /\ cores'[c].marked = cores[c].marked
           /\ apps'[c].life = apps[c].life /\ apps'[c].thread = apps[c].thread
           /\ apps'[c].exit = apps[c].exit /\ apps'[c].look = apps[c].look
           /\ apps'[c].joined = apps[c].joined /\ apps'[c].hooks = apps[c].hooks
           /\ apps'[c].page = apps[c].page /\ UNCHANGED <<lockOwner, block, leftover>>
<1>1. PICK letGo \in BOOLEAN :
          /\ cores' = [cores EXCEPT ![c].pc = "session", ![c].told = LetGoNote(apps[c].job, letGo)]
          /\ AppIs(c, [apps[c] EXCEPT !.job = @ /\ ~letGo])
  BY DEF LetsGo
<1>2. cores'[c].told = LetGoNote(apps[c].job, letGo) BY <1>1 DEF StartTypeInv, Cores
<1>3. apps'[c].job = (apps[c].job /\ ~letGo) BY <1>1 DEF StartTypeInv, Apps, AppIs
<1>4. apps'[c].job => cores'[c].told /\ apps[c].job BY <1>2, <1>3 DEF LetGoNote
<1>5. /\ CoresStand(c) /\ cores'[c].pc = "session" /\ cores'[c].view = cores[c].view
      /\ cores'[c].existed = cores[c].existed /\ cores'[c].reclaimed = cores[c].reclaimed
      /\ cores'[c].before = cores[c].before /\ cores'[c].seen = cores[c].seen
      /\ cores'[c].covered = cores[c].covered /\ cores'[c].refused = cores[c].refused
      /\ cores'[c].marked = cores[c].marked
  BY ZenonT(60), <1>1 DEF StartTypeInv, Cores, CoresStand
<1>6. /\ AppsStand(c) /\ apps'[c].life = apps[c].life /\ apps'[c].thread = apps[c].thread
      /\ apps'[c].exit = apps[c].exit /\ apps'[c].look = apps[c].look
      /\ apps'[c].joined = apps[c].joined /\ apps'[c].hooks = apps[c].hooks
      /\ apps'[c].page = apps[c].page
  BY <1>1 DEF StartTypeInv, Apps, AppIs, AppsStand
<1>7. At(c, "let go") /\ UNCHANGED <<lockOwner, block, leftover>> BY DEF LetsGo
<1> QED BY <1>4, <1>5, <1>6, <1>7

LEMMA DropsTargetDoes ==
    ASSUME StartTypeInv, NEW c \in StartCores, DropsTarget(c)
    PROVE  /\ At(c, "drop target") /\ CoresStand(c) /\ AppsStand(c)
           /\ Out(c, "drop view", cores[c].view) /\ UNCHANGED <<lockOwner, leftover>>
           /\ BlockStands
           /\ \/ /\ apps[c].life = "none" /\ apps'[c] = apps[c]
              \/ /\ apps[c].life # "none" /\ IsEnded(c)
  BY GoesOutDoes DEF DropsTarget, EndedOnTheWayOut, Ended, NewApp, IsEnded, At, AppIs, AppsStand,
     StartTypeInv

LEMMA DropsViewDoes ==
    ASSUME StartTypeInv, NEW c \in StartCores, DropsView(c)
    PROVE  /\ At(c, "drop view") /\ CoresStand(c) /\ cores'[c].pc = "drop lock"
           /\ cores'[c].view = FALSE /\ cores'[c].existed = cores[c].existed
           /\ cores'[c].reclaimed = cores[c].reclaimed /\ cores'[c].before = cores[c].before
           /\ cores'[c].seen = cores[c].seen /\ cores'[c].covered = cores[c].covered
           /\ cores'[c].told = cores[c].told /\ cores'[c].refused = cores[c].refused
           /\ cores'[c].marked = cores[c].marked /\ UNCHANGED <<lockOwner, leftover, apps>>
           /\ BlockStands
  BY ZenonT(60) DEF DropsView, At, StartTypeInv, Cores, CoresStand

LEMMA DropsLockDoes ==
    ASSUME StartTypeInv, NEW c \in StartCores, DropsLock(c)
    PROVE  /\ At(c, "drop lock") /\ CoresStand(c)
           /\ Out(c, IF cores[c].marked THEN "over" ELSE "failed", FALSE) /\ lockOwner' = NoCore
           /\ UNCHANGED <<block, leftover, apps>>
  BY LeavesDoes DEF DropsLock, At

LEMMA MarksEndedDoes ==
    ASSUME StartTypeInv, NEW c \in StartCores, MarksEnded(c)
    PROVE  /\ At(c, "session") /\ CoresStand(c) /\ block'.magic = block.magic /\ MembersStand
           /\ block'.anchor = block.anchor /\ block'.pid = block.pid /\ block'.ended
           /\ cores'[c].pc = "drop view" /\ cores'[c].view = TRUE /\ cores'[c].existed = FALSE
           /\ cores'[c].reclaimed = "nothing" /\ cores'[c].before = NoCore
           /\ cores'[c].seen = NewCore.seen /\ cores'[c].covered = FALSE /\ cores'[c].told = FALSE
           /\ cores'[c].refused = FALSE /\ cores'[c].marked = TRUE
           /\ UNCHANGED <<lockOwner, leftover, apps>>
  BY DEF MarksEnded, At, NewCore, MembersStand, Blocks, StartTypeInv, Cores, CoresStand

LEMMA DiesDoes ==
    ASSUME StartTypeInv, NEW c \in StartCores, Dies(c)
    PROVE  /\ cores[c].pc \notin {"new", "failed", "over", "dying", "dead"} /\ CoresStand(c)
           /\ Out(c, "dying", cores[c].view) /\ lockOwner' \in {lockOwner, NoCore}
           /\ (lockOwner' = lockOwner \/ lockOwner = c) /\ UNCHANGED <<block, leftover, apps>>
  BY GoesOutDoes DEF Dies

LEMMA ClosesHandlesDoes ==
    ASSUME StartTypeInv, NEW c \in StartCores, ClosesHandles(c)
    PROVE  /\ At(c, "dying") /\ CoresStand(c) /\ AppsStand(c) /\ Out(c, "dead", FALSE)
           /\ UNCHANGED <<lockOwner, leftover>> /\ BlockStands
           /\ \/ /\ apps[c].job /\ IsEnded(c)
              \/ /\ ~apps[c].job /\ apps'[c] = apps[c]
  BY LeavesDoes DEF ClosesHandles, Ended, NewApp, IsEnded, At, AppIs, AppsStand, StartTypeInv

LEMMA ReadsHeaderDoes ==
    ASSUME StartTypeInv, NEW c \in StartCores, ReadsHeader(c)
    PROVE  /\ Loads(c, "header") /\ AppsStand(c) /\ apps'[c].life = apps[c].life
           /\ apps'[c].job = apps[c].job /\ apps'[c].exit = apps[c].exit
           /\ apps'[c].look = apps[c].look /\ apps'[c].joined = apps[c].joined
           /\ apps'[c].hooks = apps[c].hooks /\ apps'[c].page = apps[c].page
           /\ UNCHANGED <<cores, lockOwner, block, leftover>>
           /\ \/ /\ BlockIsHeld /\ apps'[c].thread = "pid"
              \/ /\ apps'[c].thread = "null"
  BY DEF ReadsHeader, Loads, StartTypeInv, Apps, AppIs, AppsStand

LEMMA ReadsPidDoes ==
    ASSUME StartTypeInv, NEW c \in StartCores, ReadsPid(c)
    PROVE  /\ Loads(c, "pid") /\ AppsStand(c) /\ apps'[c].thread = "joining"
           /\ apps'[c].look = block.pid /\ apps'[c].life = apps[c].life
           /\ apps'[c].job = apps[c].job /\ apps'[c].exit = apps[c].exit
           /\ apps'[c].joined = apps[c].joined /\ apps'[c].hooks = apps[c].hooks
           /\ apps'[c].page = apps[c].page /\ UNCHANGED <<cores, lockOwner, block, leftover>>
  BY DEF ReadsPid, Loads, StartTypeInv, Apps, AppIs, AppsStand

LEMMA JoinsDoes ==
    ASSUME StartTypeInv, NEW c \in StartCores, Joins(c)
    PROVE  /\ Loads(c, "joining") /\ AppsStand(c) /\ UNCHANGED <<cores, lockOwner, leftover>>
           /\ BlockStands
           /\ \/ /\ apps'[c].thread = "null" /\ apps'[c].life = apps[c].life
                 /\ apps'[c].job = apps[c].job /\ apps'[c].exit = apps[c].exit
                 /\ apps'[c].look = apps[c].look /\ apps'[c].joined = apps[c].joined
                 /\ apps'[c].hooks = apps[c].hooks /\ apps'[c].page = apps[c].page
              \/ /\ apps[c].look # NoCore /\ apps'[c].thread = "installing"
                 /\ apps'[c].joined = apps[c].look /\ apps'[c].look = NoCore
                 /\ apps'[c].life = apps[c].life /\ apps'[c].job = apps[c].job
                 /\ apps'[c].exit = apps[c].exit /\ apps'[c].hooks = apps[c].hooks
                 /\ apps'[c].page = apps[c].page
  BY DEF Joins, Loads, JoinRefusal, Running, StartTypeInv, Apps, AppIs, AppsStand

LEMMA InstallFailsDoes ==
    ASSUME StartTypeInv, NEW c \in StartCores, InstallFails(c)
    PROVE  /\ Loads(c, "installing") /\ AppsStand(c) /\ UNCHANGED <<cores, lockOwner, leftover>>
           /\ BlockStands
           /\ \/ /\ apps'[c].thread = "null" /\ apps'[c].joined = NoCore
                 /\ apps'[c].life = apps[c].life /\ apps'[c].job = apps[c].job
                 /\ apps'[c].exit = apps[c].exit /\ apps'[c].look = apps[c].look
                 /\ apps'[c].hooks = apps[c].hooks /\ apps'[c].page = apps[c].page
              \/ /\ apps'[c].thread = "module" /\ apps'[c].life = apps[c].life
                 /\ apps'[c].job = apps[c].job /\ apps'[c].exit = apps[c].exit
                 /\ apps'[c].look = apps[c].look /\ apps'[c].joined = apps[c].joined
                 /\ apps'[c].hooks = apps[c].hooks /\ apps'[c].page = apps[c].page
  BY ZenonT(60) DEF InstallFails, Loads, StartTypeInv, Apps, AppIs, AppsStand

LEMMA InstallsDoes ==
    ASSUME StartTypeInv, NEW c \in StartCores, Installs(c)
    PROVE  /\ Loads(c, "installing") /\ AppsStand(c) /\ apps'[c].thread = "module"
           /\ apps'[c].hooks = TRUE /\ apps'[c].life = apps[c].life /\ apps'[c].job = apps[c].job
           /\ apps'[c].exit = apps[c].exit /\ apps'[c].look = apps[c].look
           /\ apps'[c].joined = apps[c].joined /\ apps'[c].page = apps[c].page
           /\ block'.magic = block.magic /\ block'.members = block.members \cup {c}
           /\ block'.anchor = block.anchor /\ block'.pid = block.pid /\ block'.ended = block.ended
           /\ UNCHANGED <<cores, lockOwner, leftover>>
  BY DEF Installs, Loads, Blocks, MembersStand, StartTypeInv, Apps, AppIs, AppsStand

LEMMA LoaderEndsTargetDoes ==
    ASSUME StartTypeInv, NEW c \in StartCores, LoaderEndsTarget(c)
    PROVE  /\ apps[c].life = "suspended" /\ apps[c].thread \notin {"none", "module", "null"}
           /\ apps[c].exit = "none" /\ AppsStand(c) /\ apps'[c].exit = "code"
           /\ apps'[c].life = apps[c].life /\ apps'[c].job = apps[c].job
           /\ apps'[c].thread = apps[c].thread /\ apps'[c].look = apps[c].look
           /\ apps'[c].joined = apps[c].joined /\ apps'[c].hooks = apps[c].hooks
           /\ apps'[c].page = apps[c].page /\ UNCHANGED <<cores, lockOwner, block, leftover>>
  BY DEF LoaderEndsTarget, Loads, StartTypeInv, Apps, AppIs, AppsStand

LEMMA TargetEndsDoes ==
    ASSUME StartTypeInv, NEW c \in StartCores, TargetEnds(c)
    PROVE  /\ apps[c].life \in {"suspended", "running"} /\ AppsStand(c) /\ IsEnded(c)
           /\ UNCHANGED <<cores, lockOwner, leftover>> /\ BlockStands
  BY DEF TargetEnds, Ended, NewApp, IsEnded, AppIs, AppsStand, StartTypeInv

-----------------------------------------------------------------------------
(* Whose step it is.                                                       *)

StartCoreStep(c) == \/ StartSteps(c) \/ HookLoads(c) \/ MarksEnded(c) \/ Dies(c)
               \/ LoaderEndsTarget(c) \/ TargetEnds(c)

LEMMA StepOfOne ==
    ASSUME [StartNext]_startVars
    PROVE  UNCHANGED startVars \/ LeftoverEnds \/ \E c \in StartCores : StartCoreStep(c)
  BY DEF StartNext, StartCoreStep

\* What a core does leaves the other cores and their targets as they are, and gives or takes the
\* lock only where it is free or the core's own.
LEMMA OthersStand ==
    ASSUME StartTypeInv, NEW c \in StartCores, StartCoreStep(c)
    PROVE  /\ \A d \in StartCores \ {c} : cores'[d] = cores[d] /\ apps'[d] = apps[d]
           /\ lockOwner' = lockOwner \/ lockOwner = NoCore \/ lockOwner = c \/ At(c, "drop lock")
           /\ leftover' = leftover
<1>1. CASE TakesLock(c) BY <1>1, TakesLockDoes DEF CoresStand, AppsStand
<1>2. CASE OpensBlock(c) BY <1>2, OpensBlockDoes DEF CoresStand, AppsStand
<1>3. CASE ExaminesBlock(c) BY <1>3, ExaminesBlockDoes DEF CoresStand, AppsStand
<1>4. CASE ZeroesBlock(c) BY <1>4, ZeroesBlockDoes DEF CoresStand, AppsStand
<1>5. CASE WritesHeader(c) BY <1>5, WritesHeaderDoes DEF CoresStand, AppsStand
<1>6. CASE WritesAnchor(c) BY <1>6, WritesAnchorDoes DEF CoresStand, AppsStand
<1>7. CASE WritesPid(c) BY <1>7, WritesPidDoes DEF CoresStand, AppsStand
<1>8. CASE CreatesTarget(c) BY <1>8, CreatesTargetDoes DEF CoresStand, AppsStand
<1>9. CASE CannotInject(c) BY <1>9, CannotInjectDoes DEF CoresStand, AppsStand
<1>10. CASE BeginsLoad(c) BY <1>10, BeginsLoadDoes DEF CoresStand, AppsStand
<1>11. CASE LoadWaits(c) BY <1>11, LoadWaitsDoes DEF CoresStand, AppsStand
<1>12. CASE ReadsSignalled(c) BY <1>12, ReadsSignalledDoes DEF CoresStand, AppsStand
<1>13. CASE ReadsOutcome(c) BY <1>13, ReadsOutcomeDoes DEF CoresStand, AppsStand
<1>14. CASE FindsSlot(c) BY <1>14, FindsSlotDoes DEF CoresStand, AppsStand
<1>15. CASE Resumes(c) BY <1>15, ResumesDoes DEF CoresStand, AppsStand
<1>16. CASE LetsGo(c) BY <1>16, LetsGoDoes DEF CoresStand, AppsStand
<1>17. CASE DropsTarget(c) BY <1>17, DropsTargetDoes DEF CoresStand, AppsStand
<1>18. CASE DropsView(c) BY <1>18, DropsViewDoes DEF CoresStand, AppsStand
<1>19. CASE DropsLock(c) BY <1>19, DropsLockDoes DEF CoresStand, AppsStand
<1>20. CASE MarksEnded(c) BY <1>20, MarksEndedDoes DEF CoresStand, AppsStand
<1>21. CASE Dies(c) BY <1>21, DiesDoes DEF CoresStand, AppsStand
<1>22. CASE ClosesHandles(c) BY <1>22, ClosesHandlesDoes DEF CoresStand, AppsStand
<1>23. CASE ReadsHeader(c) BY <1>23, ReadsHeaderDoes DEF CoresStand, AppsStand
<1>24. CASE ReadsPid(c) BY <1>24, ReadsPidDoes DEF CoresStand, AppsStand
<1>25. CASE Joins(c) BY <1>25, JoinsDoes DEF CoresStand, AppsStand
<1>26. CASE InstallFails(c) BY <1>26, InstallFailsDoes DEF CoresStand, AppsStand
<1>27. CASE Installs(c) BY <1>27, InstallsDoes DEF CoresStand, AppsStand
<1>28. CASE LoaderEndsTarget(c) BY <1>28, LoaderEndsTargetDoes DEF CoresStand, AppsStand
<1>29. CASE TargetEnds(c) BY <1>29, TargetEndsDoes DEF CoresStand, AppsStand
<1> QED BY <1>1, <1>2, <1>3, <1>4, <1>5, <1>6, <1>7, <1>8, <1>9, <1>10, <1>11, <1>12, <1>13, <1>14,
     <1>15, <1>16, <1>17, <1>18, <1>19, <1>20, <1>21, <1>22, <1>23, <1>24, <1>25, <1>26, <1>27,
     <1>28, <1>29
  DEF StartCoreStep, StartSteps, HookLoads

-----------------------------------------------------------------------------
(* Types.                                                                  *)

LEMMA MovesTyped ==
    ASSUME StartTypeInv, NEW c \in StartCores, NEW to \in Steps, Moves(c, to)
    PROVE  cores' \in [StartCores -> Cores]
  BY ZenonT(60) DEF StartTypeInv, Moves, Cores

LEMMA NewTyped == NewCore \in Cores /\ NewApp \in Apps /\ Blank \in Blocks
  BY DEF NewCore, Cores, Steps, Names, Seen, NewApp, Apps, Blank, Blocks

LEMMA LeavesTyped ==
    ASSUME StartTypeInv, NEW c \in StartCores, NEW to \in Steps, Leaves(c, to)
    PROVE  cores' \in [StartCores -> Cores]
<1>1. [NewCore EXCEPT !.pc = to, !.marked = cores[c].marked] \in Cores
  BY NewTyped DEF StartTypeInv, Cores
<1> QED BY <1>1 DEF StartTypeInv, Leaves

LEMMA GoesOutTyped ==
    ASSUME StartTypeInv, NEW c \in StartCores, NEW to \in Steps, GoesOut(c, to)
    PROVE  cores' \in [StartCores -> Cores]
<1>1. [NewCore EXCEPT !.pc = to, !.marked = cores[c].marked, !.view = cores[c].view] \in Cores
  BY NewTyped DEF StartTypeInv, Cores
<1> QED BY <1>1 DEF StartTypeInv, GoesOut

LEMMA AppTyped ==
    ASSUME StartTypeInv, NEW c \in StartCores, NEW app \in Apps, AppIs(c, app)
    PROVE  apps' \in [StartCores -> Apps]
  BY DEF StartTypeInv, AppIs

LEMMA EndedTyped ==
    ASSUME StartTypeInv, NEW c \in StartCores
    PROVE  Ended(apps[c]) \in Apps
  BY NewTyped DEF StartTypeInv, Ended, Apps

LEMMA BlockStandsTyped ==
    ASSUME StartTypeInv, BlockStands
    PROVE  block' \in Blocks
  BY NewTyped DEF StartTypeInv, BlockStands

LEMMA TypeInit == StartInit => StartTypeInv
<1> SUFFICES ASSUME StartInit PROVE StartTypeInv OBVIOUS
<1>1. \A m \in {"ours", "other", "foreign"}, e \in BOOLEAN : Written(m, e) \in Blocks
  BY NewTyped DEF Written, Blocks, Names
<1>2. block \in Blocks BY <1>1, NewTyped DEF StartInit
<1>3. cores \in [StartCores -> Cores] /\ apps \in [StartCores -> Apps] BY NewTyped DEF StartInit
<1> QED BY <1>2, <1>3 DEF StartInit, StartTypeInv

LEMMA TypeStep ==
    ASSUME StartTypeInv, [StartNext]_startVars
    PROVE  StartTypeInv'
<1>1. CASE UNCHANGED startVars BY <1>1 DEF startVars, StartTypeInv
<1>2. CASE LeftoverEnds BY <1>2, BlockStandsTyped DEF LeftoverEnds, StartTypeInv
<1>3. ASSUME NEW c \in StartCores, TakesLock(c) PROVE StartTypeInv'
  <2>1. cores' \in [StartCores -> Cores] BY <1>3, MovesTyped, LeavesTyped DEF TakesLock, Steps
  <2>2. apps' \in [StartCores -> Apps] BY <1>3 DEF TakesLock, StartTypeInv
  <2>3. block' \in Blocks BY <1>3 DEF TakesLock, StartTypeInv
  <2>4. lockOwner' \in StartCores \cup {NoCore} /\ leftover' \in BOOLEAN
    BY <1>3 DEF TakesLock, StartTypeInv
  <2> QED BY <2>1, <2>2, <2>3, <2>4 DEF StartTypeInv
<1>4. ASSUME NEW c \in StartCores, OpensBlock(c) PROVE StartTypeInv'
  <2>1. cores' \in [StartCores -> Cores]
    <3>1. CASE Fails(c) BY <3>1, GoesOutTyped DEF Fails, Steps
    <3>2. CASE cores' = [cores EXCEPT ![c].pc = "opened", ![c].view = TRUE, ![c].existed = BlockIsHeld]
      <4>1. BlockIsHeld \in BOOLEAN BY DEF BlockIsHeld, StartTypeInv
      <4>7. cores[c] \in Cores BY DEF StartTypeInv
      <4>8. [cores[c] EXCEPT !.pc = "opened", !.view = TRUE, !.existed = BlockIsHeld] \in Cores
        BY <4>7, <4>1 DEF Cores, Steps
      <4>9. [cores EXCEPT ![c].pc = "opened", ![c].view = TRUE, ![c].existed = BlockIsHeld]
              = [cores EXCEPT ![c] = [cores[c] EXCEPT !.pc = "opened", !.view = TRUE, !.existed = BlockIsHeld]]
        BY DEF StartTypeInv
      <4> QED BY <3>2, <4>8, <4>9 DEF StartTypeInv
    <3> QED BY <1>4, <3>1, <3>2 DEF OpensBlock
  <2>2. apps' \in [StartCores -> Apps] BY <1>4 DEF OpensBlock, StartTypeInv
  <2>3. block' \in Blocks BY <1>4 DEF OpensBlock, StartTypeInv
  <2>4. lockOwner' \in StartCores \cup {NoCore} /\ leftover' \in BOOLEAN
    BY <1>4 DEF OpensBlock, StartTypeInv
  <2> QED BY <2>1, <2>2, <2>3, <2>4 DEF StartTypeInv
<1>5. ASSUME NEW c \in StartCores, ExaminesBlock(c) PROVE StartTypeInv'
  <2>1. cores' \in [StartCores -> Cores]
    <3>1. CASE Moves(c, "header") BY <3>1, MovesTyped DEF Steps
    <3>2. CASE cores' = [cores EXCEPT ![c].pc = "zeroing", ![c].reclaimed = Reclaimed, ![c].before = block.pid]
      <4>1. Reclaimed \in {"ended", "dead core"} /\ block.pid \in Names
        BY DEF Reclaimed, StartTypeInv, Blocks
      <4>7. cores[c] \in Cores BY DEF StartTypeInv
      <4>8. [cores[c] EXCEPT !.pc = "zeroing", !.reclaimed = Reclaimed, !.before = block.pid] \in Cores
        BY <4>7, <4>1 DEF Cores, Steps
      <4>9. [cores EXCEPT ![c].pc = "zeroing", ![c].reclaimed = Reclaimed, ![c].before = block.pid]
              = [cores EXCEPT ![c] = [cores[c] EXCEPT !.pc = "zeroing", !.reclaimed = Reclaimed, !.before = block.pid]]
        BY DEF StartTypeInv
      <4> QED BY <3>2, <4>8, <4>9 DEF StartTypeInv
    <3>3. CASE cores' = [cores EXCEPT ![c].pc = "drop target", ![c].refused = HeldBlock = "foreign"]
      <4>7. cores[c] \in Cores BY DEF StartTypeInv
      <4>8. [cores[c] EXCEPT !.pc = "drop target", !.refused = (HeldBlock = "foreign")] \in Cores
        BY <4>7 DEF Cores, Steps
      <4>9. [cores EXCEPT ![c].pc = "drop target", ![c].refused = (HeldBlock = "foreign")]
              = [cores EXCEPT ![c] = [cores[c] EXCEPT !.pc = "drop target", !.refused = (HeldBlock = "foreign")]]
        BY DEF StartTypeInv
      <4> QED BY <3>3, <4>8, <4>9 DEF StartTypeInv
    <3> QED BY <1>5, <3>1, <3>2, <3>3 DEF ExaminesBlock
  <2>2. apps' \in [StartCores -> Apps] BY <1>5 DEF ExaminesBlock, StartTypeInv
  <2>3. block' \in Blocks BY <1>5 DEF ExaminesBlock, StartTypeInv
  <2>4. lockOwner' \in StartCores \cup {NoCore} /\ leftover' \in BOOLEAN
    BY <1>5 DEF ExaminesBlock, StartTypeInv
  <2> QED BY <2>1, <2>2, <2>3, <2>4 DEF StartTypeInv
<1>6. ASSUME NEW c \in StartCores, ZeroesBlock(c) PROVE StartTypeInv'
  <2>1. cores' \in [StartCores -> Cores] BY <1>6, MovesTyped DEF ZeroesBlock, Writes, Steps
  <2>2. apps' \in [StartCores -> Apps] BY <1>6 DEF ZeroesBlock, Writes, StartTypeInv
  <2>3. block' \in Blocks BY <1>6, NewTyped DEF ZeroesBlock, Writes
  <2>4. lockOwner' \in StartCores \cup {NoCore} /\ leftover' \in BOOLEAN
    BY <1>6 DEF ZeroesBlock, Writes, StartTypeInv
  <2> QED BY <2>1, <2>2, <2>3, <2>4 DEF StartTypeInv
<1>7. ASSUME NEW c \in StartCores, WritesHeader(c) PROVE StartTypeInv'
  <2>1. cores' \in [StartCores -> Cores] BY <1>7, MovesTyped DEF WritesHeader, Writes, Steps
  <2>2. apps' \in [StartCores -> Apps] BY <1>7 DEF WritesHeader, Writes, StartTypeInv
  <2>3. block' \in Blocks BY <1>7 DEF WritesHeader, Writes, StartTypeInv, Blocks, Names
  <2>4. lockOwner' \in StartCores \cup {NoCore} /\ leftover' \in BOOLEAN
    BY <1>7 DEF WritesHeader, Writes, StartTypeInv
  <2> QED BY <2>1, <2>2, <2>3, <2>4 DEF StartTypeInv
<1>8. ASSUME NEW c \in StartCores, WritesAnchor(c) PROVE StartTypeInv'
  <2>1. cores' \in [StartCores -> Cores] BY <1>8, MovesTyped DEF WritesAnchor, Writes, Steps
  <2>2. apps' \in [StartCores -> Apps] BY <1>8 DEF WritesAnchor, Writes, StartTypeInv
  <2>3. block' \in Blocks BY <1>8 DEF WritesAnchor, Writes, StartTypeInv, Blocks, Names
  <2>4. lockOwner' \in StartCores \cup {NoCore} /\ leftover' \in BOOLEAN
    BY <1>8 DEF WritesAnchor, Writes, StartTypeInv
  <2> QED BY <2>1, <2>2, <2>3, <2>4 DEF StartTypeInv
<1>9. ASSUME NEW c \in StartCores, WritesPid(c) PROVE StartTypeInv'
  <2>1. cores' \in [StartCores -> Cores] BY <1>9, MovesTyped DEF WritesPid, Writes, Steps
  <2>2. apps' \in [StartCores -> Apps] BY <1>9 DEF WritesPid, Writes, StartTypeInv
  <2>3. block' \in Blocks BY <1>9 DEF WritesPid, Writes, StartTypeInv, Blocks, Names
  <2>4. lockOwner' \in StartCores \cup {NoCore} /\ leftover' \in BOOLEAN
    BY <1>9 DEF WritesPid, Writes, StartTypeInv
  <2> QED BY <2>1, <2>2, <2>3, <2>4 DEF StartTypeInv
<1>10. ASSUME NEW c \in StartCores, CreatesTarget(c) PROVE StartTypeInv'
  <2>1. cores' \in [StartCores -> Cores]
    BY <1>10, MovesTyped, GoesOutTyped DEF CreatesTarget, Fails, Steps
  <2>2. apps' \in [StartCores -> Apps]
    <3>1. \A job \in BOOLEAN : [NewApp EXCEPT !.life = "suspended", !.job = job] \in Apps
      BY NewTyped DEF Apps
    <3> QED BY <1>10, <3>1, AppTyped DEF CreatesTarget, StartTypeInv
  <2>3. block' \in Blocks BY <1>10 DEF CreatesTarget, StartTypeInv
  <2>4. lockOwner' \in StartCores \cup {NoCore} /\ leftover' \in BOOLEAN
    BY <1>10 DEF CreatesTarget, StartTypeInv
  <2> QED BY <2>1, <2>2, <2>3, <2>4 DEF StartTypeInv
<1>11. ASSUME NEW c \in StartCores, CannotInject(c) PROVE StartTypeInv'
  <2>1. cores' \in [StartCores -> Cores] BY <1>11, GoesOutTyped DEF CannotInject, Fails, Steps
  <2>2. apps' \in [StartCores -> Apps] BY <1>11 DEF CannotInject, StartTypeInv
  <2>3. block' \in Blocks BY <1>11 DEF CannotInject, StartTypeInv
  <2>4. lockOwner' \in StartCores \cup {NoCore} /\ leftover' \in BOOLEAN
    BY <1>11 DEF CannotInject, StartTypeInv
  <2> QED BY <2>1, <2>2, <2>3, <2>4 DEF StartTypeInv
<1>12. ASSUME NEW c \in StartCores, BeginsLoad(c) PROVE StartTypeInv'
  <2>1. cores' \in [StartCores -> Cores] BY <1>12, MovesTyped DEF BeginsLoad, Steps
  <2>2. apps' \in [StartCores -> Apps]
    BY ZenonT(60), <1>12 DEF BeginsLoad, AppIs, StartTypeInv, Apps
  <2>3. block' \in Blocks BY <1>12 DEF BeginsLoad, StartTypeInv
  <2>4. lockOwner' \in StartCores \cup {NoCore} /\ leftover' \in BOOLEAN
    BY <1>12 DEF BeginsLoad, StartTypeInv
  <2> QED BY <2>1, <2>2, <2>3, <2>4 DEF StartTypeInv
<1>13. ASSUME NEW c \in StartCores, LoadWaits(c) PROVE StartTypeInv'
  <2>1. cores' \in [StartCores -> Cores]
    <3>1. PICK wait \in {"not done", "done"} :
              cores' = [cores EXCEPT ![c].pc = "signalled", ![c].seen = [@ EXCEPT !.wait = wait]]
      BY <1>13 DEF LoadWaits
    <3>2. cores[c].seen \in Seen BY DEF StartTypeInv, Cores
    <3>3. [cores[c].seen EXCEPT !.wait = wait] \in Seen BY <3>2 DEF Seen
    <3>4. cores' = [cores EXCEPT ![c].pc = "signalled", ![c].seen = [cores[c].seen EXCEPT !.wait = wait]]
      BY <3>1 DEF StartTypeInv
    <3>7. cores[c] \in Cores BY DEF StartTypeInv
    <3>8. [cores[c] EXCEPT !.pc = "signalled", !.seen = [cores[c].seen EXCEPT !.wait = wait]] \in Cores
      BY <3>7, <3>3 DEF Cores, Steps
    <3>9. [cores EXCEPT ![c].pc = "signalled", ![c].seen = [cores[c].seen EXCEPT !.wait = wait]]
            = [cores EXCEPT ![c] = [cores[c] EXCEPT !.pc = "signalled", !.seen = [cores[c].seen EXCEPT !.wait = wait]]]
      BY DEF StartTypeInv
    <3> QED BY <3>4, <3>8, <3>9 DEF StartTypeInv
  <2>2. apps' \in [StartCores -> Apps] BY <1>13 DEF LoadWaits, StartTypeInv
  <2>3. block' \in Blocks BY <1>13 DEF LoadWaits, StartTypeInv
  <2>4. lockOwner' \in StartCores \cup {NoCore} /\ leftover' \in BOOLEAN
    BY <1>13 DEF LoadWaits, StartTypeInv
  <2> QED BY <2>1, <2>2, <2>3, <2>4 DEF StartTypeInv
<1>14. ASSUME NEW c \in StartCores, ReadsSignalled(c) PROVE StartTypeInv'
  <2>1. cores' \in [StartCores -> Cores]
    <3>1. cores' = [cores EXCEPT ![c].pc = "code",
                                 ![c].seen = [@ EXCEPT !.signalled = (apps[c].exit = "signalled")]]
      BY <1>14 DEF ReadsSignalled
    <3>2. cores[c].seen \in Seen BY DEF StartTypeInv, Cores
    <3>3. [cores[c].seen EXCEPT !.signalled = (apps[c].exit = "signalled")] \in Seen
      BY <3>2 DEF Seen
    <3>4. cores' = [cores EXCEPT ![c].pc = "code", ![c].seen = [cores[c].seen EXCEPT !.signalled = (apps[c].exit = "signalled")]]
      BY <3>1 DEF StartTypeInv
    <3>7. cores[c] \in Cores BY DEF StartTypeInv
    <3>8. [cores[c] EXCEPT !.pc = "code", !.seen = [cores[c].seen EXCEPT !.signalled = (apps[c].exit = "signalled")]] \in Cores
      BY <3>7, <3>3 DEF Cores, Steps
    <3>9. [cores EXCEPT ![c].pc = "code", ![c].seen = [cores[c].seen EXCEPT !.signalled = (apps[c].exit = "signalled")]]
            = [cores EXCEPT ![c] = [cores[c] EXCEPT !.pc = "code", !.seen = [cores[c].seen EXCEPT !.signalled = (apps[c].exit = "signalled")]]]
      BY DEF StartTypeInv
    <3> QED BY <3>4, <3>8, <3>9 DEF StartTypeInv
  <2>2. apps' \in [StartCores -> Apps] BY <1>14 DEF ReadsSignalled, StartTypeInv
  <2>3. block' \in Blocks BY <1>14 DEF ReadsSignalled, StartTypeInv
  <2>4. lockOwner' \in StartCores \cup {NoCore} /\ leftover' \in BOOLEAN
    BY <1>14 DEF ReadsSignalled, StartTypeInv
  <2> QED BY <2>1, <2>2, <2>3, <2>4 DEF StartTypeInv
<1>15. ASSUME NEW c \in StartCores, ReadsOutcome(c) PROVE StartTypeInv'
  <2>1. cores' \in [StartCores -> Cores]
    <3>1. Fails(c) \/ cores' = [cores EXCEPT ![c].pc = "slot", ![c].seen = NewCore.seen]
      BY <1>15 DEF ReadsOutcome
    <3>2. NewCore.seen \in Seen BY NewTyped DEF Cores
    <3>3. CASE cores' = [cores EXCEPT ![c].pc = "slot", ![c].seen = NewCore.seen]
      <4>7. cores[c] \in Cores BY DEF StartTypeInv
      <4>8. [cores[c] EXCEPT !.pc = "slot", !.seen = NewCore.seen] \in Cores
        BY <4>7, <3>2 DEF Cores, Steps
      <4>9. [cores EXCEPT ![c].pc = "slot", ![c].seen = NewCore.seen]
              = [cores EXCEPT ![c] = [cores[c] EXCEPT !.pc = "slot", !.seen = NewCore.seen]]
        BY DEF StartTypeInv
      <4> QED BY <3>3, <4>8, <4>9 DEF StartTypeInv
    <3> QED BY <3>1, <3>3, GoesOutTyped DEF Fails, Steps
  <2>2. apps' \in [StartCores -> Apps]
    <3>1. PICK b \in BOOLEAN : AppIs(c, [apps[c] EXCEPT !.page = @ /\ ~b])
      BY <1>15 DEF ReadsOutcome, PageReleased
    <3>2. [apps[c] EXCEPT !.page = @ /\ ~b] \in Apps BY ZenonT(60) DEF StartTypeInv, Apps
    <3> QED BY <3>1, <3>2, AppTyped
  <2>3. block' \in Blocks BY <1>15 DEF ReadsOutcome, StartTypeInv
  <2>4. lockOwner' \in StartCores \cup {NoCore} /\ leftover' \in BOOLEAN
    BY <1>15 DEF ReadsOutcome, StartTypeInv
  <2> QED BY <2>1, <2>2, <2>3, <2>4 DEF StartTypeInv
<1>16. ASSUME NEW c \in StartCores, FindsSlot(c) PROVE StartTypeInv'
  <2>1. cores' \in [StartCores -> Cores]
    <3> DEFINE isIn == c \in block.members
    <3>1. cores' = [cores EXCEPT ![c].pc = "resume", ![c].covered = isIn] /\ isIn \in BOOLEAN
      BY <1>16 DEF FindsSlot
    <3> HIDE DEF isIn
    <3>7. cores[c] \in Cores BY DEF StartTypeInv
    <3>8. [cores[c] EXCEPT !.pc = "resume", !.covered = isIn] \in Cores
      BY <3>7, <3>1 DEF Cores, Steps
    <3>9. [cores EXCEPT ![c].pc = "resume", ![c].covered = isIn]
            = [cores EXCEPT ![c] = [cores[c] EXCEPT !.pc = "resume", !.covered = isIn]]
      BY DEF StartTypeInv
    <3> QED BY <3>1, <3>8, <3>9 DEF StartTypeInv
  <2>2. apps' \in [StartCores -> Apps] BY <1>16 DEF FindsSlot, StartTypeInv
  <2>3. block' \in Blocks BY <1>16 DEF FindsSlot, StartTypeInv
  <2>4. lockOwner' \in StartCores \cup {NoCore} /\ leftover' \in BOOLEAN
    BY <1>16 DEF FindsSlot, StartTypeInv
  <2> QED BY <2>1, <2>2, <2>3, <2>4 DEF StartTypeInv
<1>17. ASSUME NEW c \in StartCores, Resumes(c) PROVE StartTypeInv'
  <2>1. cores' \in [StartCores -> Cores]
    BY <1>17, MovesTyped, GoesOutTyped DEF Resumes, Fails, Steps
  <2>2. apps' \in [StartCores -> Apps]
    <3>1. [apps[c] EXCEPT !.life = IF @ = "suspended" THEN "running" ELSE @] \in Apps
      <4>1. apps[c] \in Apps BY DEF StartTypeInv
      <4> QED BY <4>1 DEF Apps
    <3> QED BY <1>17, <3>1, AppTyped DEF Resumes, StartTypeInv
  <2>3. block' \in Blocks BY <1>17 DEF Resumes, StartTypeInv
  <2>4. lockOwner' \in StartCores \cup {NoCore} /\ leftover' \in BOOLEAN
    BY <1>17 DEF Resumes, StartTypeInv
  <2> QED BY <2>1, <2>2, <2>3, <2>4 DEF StartTypeInv
<1>18. ASSUME NEW c \in StartCores, LetsGo(c) PROVE StartTypeInv'
  <2>1. cores' \in [StartCores -> Cores]
    <3>1. PICK letGo \in BOOLEAN :
              cores' = [cores EXCEPT ![c].pc = "session", ![c].told = LetGoNote(apps[c].job, letGo)]
      BY <1>18 DEF LetsGo
    <3>2. LetGoNote(apps[c].job, letGo) \in BOOLEAN BY DEF LetGoNote
    <3>7. cores[c] \in Cores BY DEF StartTypeInv
    <3>8. [cores[c] EXCEPT !.pc = "session", !.told = LetGoNote(apps[c].job, letGo)] \in Cores
      BY <3>7, <3>2 DEF Cores, Steps
    <3>9. [cores EXCEPT ![c].pc = "session", ![c].told = LetGoNote(apps[c].job, letGo)]
            = [cores EXCEPT ![c] = [cores[c] EXCEPT !.pc = "session", !.told = LetGoNote(apps[c].job, letGo)]]
      BY DEF StartTypeInv
    <3> QED BY <3>1, <3>8, <3>9 DEF StartTypeInv
  <2>2. apps' \in [StartCores -> Apps]
    <3>1. PICK letGo \in BOOLEAN : AppIs(c, [apps[c] EXCEPT !.job = @ /\ ~letGo])
      BY <1>18 DEF LetsGo
    <3>2. [apps[c] EXCEPT !.job = @ /\ ~letGo] \in Apps BY ZenonT(60) DEF StartTypeInv, Apps
    <3> QED BY <3>1, <3>2, AppTyped
  <2>3. block' \in Blocks BY <1>18 DEF LetsGo, StartTypeInv
  <2>4. lockOwner' \in StartCores \cup {NoCore} /\ leftover' \in BOOLEAN
    BY <1>18 DEF LetsGo, StartTypeInv
  <2> QED BY <2>1, <2>2, <2>3, <2>4 DEF StartTypeInv
<1>19. ASSUME NEW c \in StartCores, DropsTarget(c) PROVE StartTypeInv'
  <2>1. cores' \in [StartCores -> Cores] BY <1>19, GoesOutTyped DEF DropsTarget, Steps
  <2>2. apps' \in [StartCores -> Apps]
    <3>1. apps[c] \in Apps BY DEF StartTypeInv
    <3> QED BY <1>19, <3>1, AppTyped, EndedTyped DEF DropsTarget, EndedOnTheWayOut
  <2>3. block' \in Blocks BY <1>19, BlockStandsTyped DEF DropsTarget
  <2>4. lockOwner' \in StartCores \cup {NoCore} /\ leftover' \in BOOLEAN
    BY <1>19 DEF DropsTarget, StartTypeInv
  <2> QED BY <2>1, <2>2, <2>3, <2>4 DEF StartTypeInv
<1>20. ASSUME NEW c \in StartCores, DropsView(c) PROVE StartTypeInv'
  <2>1. cores' \in [StartCores -> Cores]
    <3>7. cores[c] \in Cores BY DEF StartTypeInv
    <3>8. [cores[c] EXCEPT !.pc = "drop lock", !.view = FALSE] \in Cores BY <3>7 DEF Cores, Steps
    <3>9. [cores EXCEPT ![c].pc = "drop lock", ![c].view = FALSE]
            = [cores EXCEPT ![c] = [cores[c] EXCEPT !.pc = "drop lock", !.view = FALSE]]
      BY DEF StartTypeInv
    <3> QED BY <1>20,  <3>8, <3>9 DEF StartTypeInv, DropsView
  <2>2. apps' \in [StartCores -> Apps] BY <1>20 DEF DropsView, StartTypeInv
  <2>3. block' \in Blocks BY <1>20, BlockStandsTyped DEF DropsView
  <2>4. lockOwner' \in StartCores \cup {NoCore} /\ leftover' \in BOOLEAN
    BY <1>20 DEF DropsView, StartTypeInv
  <2> QED BY <2>1, <2>2, <2>3, <2>4 DEF StartTypeInv
<1>21. ASSUME NEW c \in StartCores, DropsLock(c) PROVE StartTypeInv'
  <2>1. cores' \in [StartCores -> Cores] BY <1>21, LeavesTyped DEF DropsLock, Steps
  <2>2. apps' \in [StartCores -> Apps] BY <1>21 DEF DropsLock, StartTypeInv
  <2>3. block' \in Blocks BY <1>21 DEF DropsLock, StartTypeInv
  <2>4. lockOwner' \in StartCores \cup {NoCore} /\ leftover' \in BOOLEAN
    BY <1>21 DEF DropsLock, StartTypeInv
  <2> QED BY <2>1, <2>2, <2>3, <2>4 DEF StartTypeInv
<1>22. ASSUME NEW c \in StartCores, MarksEnded(c) PROVE StartTypeInv'
  <2>1. cores' \in [StartCores -> Cores]
    <3>1. [NewCore EXCEPT !.pc = "drop view", !.view = TRUE, !.marked = TRUE] \in Cores
      BY NewTyped DEF Cores, Steps
    <3> QED BY <1>22, <3>1 DEF MarksEnded, StartTypeInv
  <2>2. apps' \in [StartCores -> Apps] BY <1>22 DEF MarksEnded, StartTypeInv
  <2>3. block' \in Blocks BY <1>22 DEF MarksEnded, StartTypeInv, Blocks
  <2>4. lockOwner' \in StartCores \cup {NoCore} /\ leftover' \in BOOLEAN
    BY <1>22 DEF MarksEnded, StartTypeInv
  <2> QED BY <2>1, <2>2, <2>3, <2>4 DEF StartTypeInv
<1>23. ASSUME NEW c \in StartCores, Dies(c) PROVE StartTypeInv'
  <2>1. cores' \in [StartCores -> Cores] BY <1>23, GoesOutTyped DEF Dies, Steps
  <2>2. apps' \in [StartCores -> Apps] BY <1>23 DEF Dies, StartTypeInv
  <2>3. block' \in Blocks BY <1>23 DEF Dies, StartTypeInv
  <2>4. lockOwner' \in StartCores \cup {NoCore} /\ leftover' \in BOOLEAN
    BY <1>23 DEF Dies, StartTypeInv
  <2> QED BY <2>1, <2>2, <2>3, <2>4 DEF StartTypeInv
<1>24. ASSUME NEW c \in StartCores, ClosesHandles(c) PROVE StartTypeInv'
  <2>1. cores' \in [StartCores -> Cores] BY <1>24, LeavesTyped DEF ClosesHandles, Steps
  <2>2. apps' \in [StartCores -> Apps]
    <3>1. apps[c] \in Apps BY DEF StartTypeInv
    <3> QED BY <1>24, <3>1, AppTyped, EndedTyped DEF ClosesHandles
  <2>3. block' \in Blocks BY <1>24, BlockStandsTyped DEF ClosesHandles
  <2>4. lockOwner' \in StartCores \cup {NoCore} /\ leftover' \in BOOLEAN
    BY <1>24 DEF ClosesHandles, StartTypeInv
  <2> QED BY <2>1, <2>2, <2>3, <2>4 DEF StartTypeInv
<1>25. ASSUME NEW c \in StartCores, ReadsHeader(c) PROVE StartTypeInv'
  <2>1. cores' \in [StartCores -> Cores] BY <1>25 DEF ReadsHeader, StartTypeInv
  <2>2. apps' \in [StartCores -> Apps] BY <1>25 DEF ReadsHeader, AppIs, StartTypeInv, Apps
  <2>3. block' \in Blocks BY <1>25 DEF ReadsHeader, StartTypeInv
  <2>4. lockOwner' \in StartCores \cup {NoCore} /\ leftover' \in BOOLEAN
    BY <1>25 DEF ReadsHeader, StartTypeInv
  <2> QED BY <2>1, <2>2, <2>3, <2>4 DEF StartTypeInv
<1>26. ASSUME NEW c \in StartCores, ReadsPid(c) PROVE StartTypeInv'
  <2>1. cores' \in [StartCores -> Cores] BY <1>26 DEF ReadsPid, StartTypeInv
  <2>2. apps' \in [StartCores -> Apps]
    <3>1. [apps[c] EXCEPT !.thread = "joining", !.look = block.pid] \in Apps
      BY ZenonT(60) DEF StartTypeInv, Apps, Blocks
    <3> QED BY <1>26, <3>1, AppTyped DEF ReadsPid
  <2>3. block' \in Blocks BY <1>26 DEF ReadsPid, StartTypeInv
  <2>4. lockOwner' \in StartCores \cup {NoCore} /\ leftover' \in BOOLEAN
    BY <1>26 DEF ReadsPid, StartTypeInv
  <2> QED BY <2>1, <2>2, <2>3, <2>4 DEF StartTypeInv
<1>27. ASSUME NEW c \in StartCores, Joins(c) PROVE StartTypeInv'
  <2>1. cores' \in [StartCores -> Cores] BY <1>27 DEF Joins, StartTypeInv
  <2>2. apps' \in [StartCores -> Apps]
    <3>1. /\ [apps[c] EXCEPT !.thread = "null"] \in Apps
          /\ [apps[c] EXCEPT !.thread = "installing", !.joined = apps[c].look, !.look = NoCore] \in Apps
      BY ZenonT(60) DEF StartTypeInv, Apps, Names
    <3> QED BY <1>27, <3>1, AppTyped DEF Joins
  <2>3. block' \in Blocks BY <1>27, BlockStandsTyped DEF Joins
  <2>4. lockOwner' \in StartCores \cup {NoCore} /\ leftover' \in BOOLEAN
    BY <1>27 DEF Joins, StartTypeInv
  <2> QED BY <2>1, <2>2, <2>3, <2>4 DEF StartTypeInv
<1>28. ASSUME NEW c \in StartCores, InstallFails(c) PROVE StartTypeInv'
  <2>1. cores' \in [StartCores -> Cores] BY <1>28 DEF InstallFails, StartTypeInv
  <2>2. apps' \in [StartCores -> Apps]
    <3>1. /\ [apps[c] EXCEPT !.thread = "null", !.joined = NoCore] \in Apps
          /\ [apps[c] EXCEPT !.thread = "module"] \in Apps
      BY ZenonT(60) DEF StartTypeInv, Apps, Names
    <3> QED BY <1>28, <3>1, AppTyped DEF InstallFails
  <2>3. block' \in Blocks BY <1>28, BlockStandsTyped DEF InstallFails
  <2>4. lockOwner' \in StartCores \cup {NoCore} /\ leftover' \in BOOLEAN
    BY <1>28 DEF InstallFails, StartTypeInv
  <2> QED BY <2>1, <2>2, <2>3, <2>4 DEF StartTypeInv
<1>29. ASSUME NEW c \in StartCores, Installs(c) PROVE StartTypeInv'
  <2>1. cores' \in [StartCores -> Cores] BY <1>29 DEF Installs, StartTypeInv
  <2>2. apps' \in [StartCores -> Apps] BY ZenonT(60), <1>29 DEF Installs, AppIs, StartTypeInv, Apps
  <2>3. block' \in Blocks BY <1>29 DEF Installs, StartTypeInv, Blocks
  <2>4. lockOwner' \in StartCores \cup {NoCore} /\ leftover' \in BOOLEAN
    BY <1>29 DEF Installs, StartTypeInv
  <2> QED BY <2>1, <2>2, <2>3, <2>4 DEF StartTypeInv
<1>30. ASSUME NEW c \in StartCores, LoaderEndsTarget(c) PROVE StartTypeInv'
  <2>1. cores' \in [StartCores -> Cores] BY <1>30 DEF LoaderEndsTarget, StartTypeInv
  <2>2. apps' \in [StartCores -> Apps] BY <1>30 DEF LoaderEndsTarget, AppIs, StartTypeInv, Apps
  <2>3. block' \in Blocks BY <1>30 DEF LoaderEndsTarget, StartTypeInv
  <2>4. lockOwner' \in StartCores \cup {NoCore} /\ leftover' \in BOOLEAN
    BY <1>30 DEF LoaderEndsTarget, StartTypeInv
  <2> QED BY <2>1, <2>2, <2>3, <2>4 DEF StartTypeInv
<1>31. ASSUME NEW c \in StartCores, TargetEnds(c) PROVE StartTypeInv'
  <2>1. cores' \in [StartCores -> Cores] BY <1>31 DEF TargetEnds, StartTypeInv
  <2>2. apps' \in [StartCores -> Apps] BY <1>31, AppTyped, EndedTyped DEF TargetEnds
  <2>3. block' \in Blocks BY <1>31, BlockStandsTyped DEF TargetEnds
  <2>4. lockOwner' \in StartCores \cup {NoCore} /\ leftover' \in BOOLEAN
    BY <1>31 DEF TargetEnds, StartTypeInv
  <2> QED BY <2>1, <2>2, <2>3, <2>4 DEF StartTypeInv
<1> QED BY <1>1, <1>2, <1>3, <1>4, <1>5, <1>6, <1>7, <1>8, <1>9, <1>10, <1>11, <1>12, <1>13, <1>14,
     <1>15, <1>16, <1>17, <1>18, <1>19, <1>20, <1>21, <1>22, <1>23, <1>24, <1>25, <1>26, <1>27,
     <1>28, <1>29, <1>30, <1>31
  DEF StartNext, StartSteps, HookLoads

-----------------------------------------------------------------------------
(* Every part of the invariant holds after a step.                         *)

\* Only a core that finds the lock free takes it, and it lets go of it last.
LEMMA LockStep ==
    ASSUME StartInv, [StartNext]_startVars, NEW d \in StartCores
    PROVE  LockInv(d)'
<1>a. StartTypeInv /\ \A c \in StartCores : LockInv(c) BY DEF StartInv
<1> USE <1>a, CoreNames DEF LockInv, Outside, Killed, OnlyPc, Out, At
<1>1. CASE UNCHANGED startVars \/ LeftoverEnds BY <1>1 DEF startVars, LeftoverEnds
<1>2. ASSUME NEW c \in StartCores \ {d}, StartCoreStep(c) PROVE LockInv(d)'
  BY ZenonT(60), <1>2, OthersStand
<1>3. CASE UNCHANGED <<cores, lockOwner>> BY <1>3
<1>4. CASE TakesLock(d) BY <1>4, TakesLockDoes
<1>5. CASE OpensBlock(d) BY <1>5, OpensBlockDoes
<1>6. CASE ExaminesBlock(d) BY <1>6, ExaminesBlockDoes
<1>7. CASE ZeroesBlock(d) BY <1>7, ZeroesBlockDoes
<1>8. CASE WritesHeader(d) BY <1>8, WritesHeaderDoes
<1>9. CASE WritesAnchor(d) BY <1>9, WritesAnchorDoes
<1>10. CASE WritesPid(d) BY <1>10, WritesPidDoes
<1>11. CASE CreatesTarget(d) BY <1>11, CreatesTargetDoes
<1>12. CASE CannotInject(d) BY <1>12, CannotInjectDoes
<1>13. CASE BeginsLoad(d) BY <1>13, BeginsLoadDoes
<1>14. CASE LoadWaits(d) BY <1>14, LoadWaitsDoes
<1>15. CASE ReadsSignalled(d) BY <1>15, ReadsSignalledDoes
<1>16. CASE ReadsOutcome(d) BY <1>16, ReadsOutcomeDoes
<1>17. CASE FindsSlot(d) BY <1>17, FindsSlotDoes
<1>18. CASE Resumes(d) BY <1>18, ResumesDoes
<1>19. CASE LetsGo(d) BY <1>19, LetsGoDoes
<1>20. CASE DropsTarget(d) BY <1>20, DropsTargetDoes
<1>21. CASE DropsView(d) BY <1>21, DropsViewDoes
<1>22. CASE DropsLock(d) BY <1>22, DropsLockDoes
<1>23. CASE MarksEnded(d) BY <1>23, MarksEndedDoes
<1>24. CASE Dies(d) BY <1>24, DiesDoes
<1>25. CASE ClosesHandles(d) BY <1>25, ClosesHandlesDoes
<1> QED
  BY ZenonT(60), <1>1, <1>2, <1>3, <1>4, <1>5, <1>6, <1>7, <1>8, <1>9, <1>10, <1>11, <1>12, <1>13, <1>14,
     <1>15, <1>16, <1>17, <1>18, <1>19, <1>20, <1>21, <1>22, <1>23, <1>24, <1>25, StepOfOne
  DEF StartCoreStep, StartSteps, HookLoads, ReadsHeader, ReadsPid, Joins, InstallFails, Installs,
      LoaderEndsTarget, TargetEnds

\* Memory that somebody still maps stands.
LEMMA StandsWhileHeld ==
    ASSUME BlockStands
    PROVE  /\ block' = block \/ block' = Blank
           /\ BlockIsHeld' => block' = block
           /\ \A d \in StartCores : cores'[d].view => block' = block
  BY DEF BlockStands, BlockIsHeld

\* What is not in the hands of the core that holds the lock is not written by another.
LEMMA BlockByAnother ==
    ASSUME StartTypeInv, \A e \in StartCores : LockInv(e) /\ BlockInv(e),
           NEW c \in StartCores, NEW d \in StartCores \ {c}, StartCoreStep(c)
    PROVE  /\ (block'.pid = block.pid /\ block'.ended = block.ended) \/ block'.pid \in {c, NoCore}
           /\ d \in block'.members => d \in block.members
           /\ cores[d].pc \notin Outside /\ cores[d].view =>
                /\ block'.magic = block.magic /\ block'.anchor = block.anchor
                /\ block'.pid = block.pid /\ block'.ended = block.ended
<1>a. LockInv(c) /\ LockInv(d) /\ BlockInv(c) OBVIOUS
<1>b. cores[d].pc \notin Outside => lockOwner # c /\ cores[c].pc \in Outside BY <1>a DEF LockInv
<1>c. /\ cores'[d] = cores[d]
      /\ Blank.pid = NoCore /\ Blank.members = {}
  BY OthersStand DEF Blank
<1>1. CASE TakesLock(c) BY <1>1, TakesLockDoes
<1>2. CASE OpensBlock(c) BY <1>2, OpensBlockDoes
<1>3. CASE ExaminesBlock(c) BY <1>3, ExaminesBlockDoes
<1>4. CASE ZeroesBlock(c) BY <1>4, <1>b, <1>c, ZeroesBlockDoes DEF At, MembersStand, Outside, Killed
<1>5. CASE WritesHeader(c)
  BY <1>5, <1>b, <1>c, WritesHeaderDoes DEF At, MembersStand, Outside, Killed
<1>6. CASE WritesAnchor(c)
  BY <1>6, <1>b, <1>c, WritesAnchorDoes DEF At, MembersStand, Outside, Killed
<1>7. CASE WritesPid(c) BY <1>7, <1>b, <1>c, WritesPidDoes DEF At, MembersStand, Outside, Killed
<1>8. CASE CreatesTarget(c) BY <1>8, CreatesTargetDoes
<1>9. CASE CannotInject(c) BY <1>9, CannotInjectDoes
<1>10. CASE BeginsLoad(c) BY <1>10, BeginsLoadDoes
<1>11. CASE LoadWaits(c) BY <1>11, LoadWaitsDoes
<1>12. CASE ReadsSignalled(c) BY <1>12, ReadsSignalledDoes
<1>13. CASE ReadsOutcome(c) BY <1>13, ReadsOutcomeDoes
<1>14. CASE FindsSlot(c) BY <1>14, FindsSlotDoes
<1>15. CASE Resumes(c) BY <1>15, ResumesDoes
<1>16. CASE LetsGo(c) BY <1>16, LetsGoDoes
<1>17. CASE DropsTarget(c) BY <1>17, <1>c, DropsTargetDoes, StandsWhileHeld
<1>18. CASE DropsView(c) BY <1>18, <1>c, DropsViewDoes, StandsWhileHeld
<1>19. CASE DropsLock(c) BY <1>19, DropsLockDoes
<1>20. CASE MarksEnded(c)
  BY <1>20, <1>b, <1>a, <1>b, <1>c, MarksEndedDoes DEF At, MembersStand, Outside, Killed,
     BlockInv, HasStarted, HasBlock
<1>21. CASE Dies(c) BY <1>21, DiesDoes
<1>22. CASE ClosesHandles(c) BY <1>22, <1>c, ClosesHandlesDoes, StandsWhileHeld
<1>23. CASE ReadsHeader(c) BY <1>23, ReadsHeaderDoes
<1>24. CASE ReadsPid(c) BY <1>24, ReadsPidDoes
<1>25. CASE Joins(c) BY <1>25, <1>c, JoinsDoes, StandsWhileHeld
<1>26. CASE InstallFails(c) BY <1>26, <1>c, InstallFailsDoes, StandsWhileHeld
<1>27. CASE Installs(c) BY <1>27, InstallsDoes
<1>28. CASE LoaderEndsTarget(c) BY <1>28, LoaderEndsTargetDoes
<1>29. CASE TargetEnds(c) BY <1>29, <1>c, TargetEndsDoes, StandsWhileHeld
<1> QED BY <1>1, <1>2, <1>3, <1>4, <1>5, <1>6, <1>7, <1>8, <1>9, <1>10, <1>11, <1>12, <1>13, <1>14,
     <1>15, <1>16, <1>17, <1>18, <1>19, <1>20, <1>21, <1>22, <1>23, <1>24, <1>25, <1>26, <1>27,
     <1>28, <1>29
  DEF StartCoreStep, StartSteps, HookLoads

\* What a core has become is for good.
LEMMA KilledStays ==
    ASSUME StartTypeInv, NEW c \in StartCores, StartCoreStep(c), NEW e \in StartCores
    PROVE  /\ cores[e].pc \in Killed => cores'[e].pc \in Killed
           /\ cores[e].pc \in {"failed", "over"} \cup Killed =>
                cores'[e].pc \in {"failed", "over"} \cup Killed /\ cores'[e].marked = cores[e].marked
<1>a. CASE e # c BY <1>a, OthersStand
<1>b. CASE e = c
  <2>1. CASE TakesLock(c) BY <2>1, <1>b, TakesLockDoes DEF At, Killed, Out
  <2>2. CASE OpensBlock(c) BY <2>2, <1>b, OpensBlockDoes DEF At, Killed, Out
  <2>3. CASE ExaminesBlock(c) BY <2>3, <1>b, ExaminesBlockDoes DEF At, Killed, Out
  <2>4. CASE ZeroesBlock(c) BY <2>4, <1>b, ZeroesBlockDoes DEF At, Killed, Out
  <2>5. CASE WritesHeader(c) BY <2>5, <1>b, WritesHeaderDoes DEF At, Killed, Out
  <2>6. CASE WritesAnchor(c) BY <2>6, <1>b, WritesAnchorDoes DEF At, Killed, Out
  <2>7. CASE WritesPid(c) BY <2>7, <1>b, WritesPidDoes DEF At, Killed, Out
  <2>8. CASE CreatesTarget(c) BY <2>8, <1>b, CreatesTargetDoes DEF At, Killed, Out
  <2>9. CASE CannotInject(c) BY <2>9, <1>b, CannotInjectDoes DEF At, Killed, Out
  <2>10. CASE BeginsLoad(c) BY <2>10, <1>b, BeginsLoadDoes DEF At, Killed, Out
  <2>11. CASE LoadWaits(c) BY <2>11, <1>b, LoadWaitsDoes DEF At, Killed, Out
  <2>12. CASE ReadsSignalled(c) BY <2>12, <1>b, ReadsSignalledDoes DEF At, Killed, Out
  <2>13. CASE ReadsOutcome(c) BY <2>13, <1>b, ReadsOutcomeDoes DEF At, Killed, Out
  <2>14. CASE FindsSlot(c) BY <2>14, <1>b, FindsSlotDoes DEF At, Killed, Out
  <2>15. CASE Resumes(c) BY <2>15, <1>b, ResumesDoes DEF At, Killed, Out
  <2>16. CASE LetsGo(c) BY <2>16, <1>b, LetsGoDoes DEF At, Killed, Out
  <2>17. CASE DropsTarget(c) BY <2>17, <1>b, DropsTargetDoes DEF At, Killed, Out
  <2>18. CASE DropsView(c) BY <2>18, <1>b, DropsViewDoes DEF At, Killed, Out
  <2>19. CASE DropsLock(c) BY <2>19, <1>b, DropsLockDoes DEF At, Killed, Out
  <2>20. CASE MarksEnded(c) BY <2>20, <1>b, MarksEndedDoes DEF At, Killed, Out
  <2>21. CASE Dies(c) BY <2>21, <1>b, DiesDoes DEF At, Killed, Out
  <2>22. CASE ClosesHandles(c) BY <2>22, <1>b, ClosesHandlesDoes DEF At, Killed, Out
  <2>23. CASE ReadsHeader(c) BY <2>23, <1>b, ReadsHeaderDoes DEF At, Killed, Out
  <2>24. CASE ReadsPid(c) BY <2>24, <1>b, ReadsPidDoes DEF At, Killed, Out
  <2>25. CASE Joins(c) BY <2>25, <1>b, JoinsDoes DEF At, Killed, Out
  <2>26. CASE InstallFails(c) BY <2>26, <1>b, InstallFailsDoes DEF At, Killed, Out
  <2>27. CASE Installs(c) BY <2>27, <1>b, InstallsDoes DEF At, Killed, Out
  <2>28. CASE LoaderEndsTarget(c) BY <2>28, <1>b, LoaderEndsTargetDoes DEF At, Killed, Out
  <2>29. CASE TargetEnds(c) BY <2>29, <1>b, TargetEndsDoes DEF At, Killed, Out
  <2> QED BY <2>1, <2>2, <2>3, <2>4, <2>5, <2>6, <2>7, <2>8, <2>9, <2>10, <2>11, <2>12, <2>13, <2>14,
       <2>15, <2>16, <2>17, <2>18, <2>19, <2>20, <2>21, <2>22, <2>23, <2>24, <2>25, <2>26,
       <2>27, <2>28, <2>29
    DEF StartCoreStep, StartSteps, HookLoads
<1> QED BY <1>a, <1>b

\* What a core has written into the block stands until its end.
LEMMA BlockStep ==
    ASSUME StartInv, [StartNext]_startVars, NEW d \in StartCores
    PROVE  BlockInv(d)'
<1>a. StartTypeInv /\ FreshInv /\ LifeInv(d) /\ NoteInv(d) /\ \A e \in StartCores : LockInv(e) /\ BlockInv(e)
  BY DEF StartInv
<1>b. StartTypeInv /\ FreshInv /\ LifeInv(d) /\ NoteInv(d) /\ LockInv(d) /\ BlockInv(d) BY <1>a
<1>c. Blank.pid = NoCore /\ Blank.members = {} /\ Blank.ended = FALSE BY DEF Blank
<1>d. ~BlockIsHeld => block = Blank BY <1>b DEF FreshInv
<1>1. CASE UNCHANGED startVars \/ LeftoverEnds
  <2>1. UNCHANGED <<cores, apps>> /\ (block' = block \/ BlockStands)
    BY <1>1 DEF startVars, LeftoverEnds
  <2> QED
    BY <1>b, <1>c, <2>1, StandsWhileHeld, CoreNames DEF BlockInv, LockInv, HasStarted, HasBlock,
       Virgin, At, Outside, Killed
<1>2. ASSUME NEW c \in StartCores \ {d}, StartCoreStep(c) PROVE BlockInv(d)'
  <2>1. cores'[d] = cores[d] /\ apps'[d] = apps[d] BY <1>2, <1>a, OthersStand
  <2>2. \A e \in StartCores : cores[e].pc \in Killed => cores'[e].pc \in Killed
    BY <1>2, <1>a, KilledStays
  <2>3. /\ (block'.pid = block.pid /\ block'.ended = block.ended) \/ block'.pid \in {c, NoCore}
        /\ d \in block'.members => d \in block.members
        /\ cores[d].pc \notin Outside /\ cores[d].view =>
              /\ block'.magic = block.magic /\ block'.anchor = block.anchor
              /\ block'.pid = block.pid /\ block'.ended = block.ended
    BY <1>2, <1>a, BlockByAnother
  <2> QED
    BY ZenonT(60), <1>b, <2>1, <2>2, <2>3, CoreNames DEF BlockInv, LockInv, HasStarted, HasBlock, Virgin,
       At, Outside, Killed
<1>3. CASE TakesLock(d)
  BY <1>3, <1>b, <1>c, TakesLockDoes, CoreNames DEF BlockInv, HasStarted, HasBlock, Virgin, At,
     Nameless, OnlyPc, Out
<1>4. CASE OpensBlock(d)
  <2>1. apps[d].life = "none" /\ block.pid # d
    BY <1>4, <1>b, OpensBlockDoes DEF LifeInv, BlockInv, Nameless, At
  <2>2. CASE Out(d, "drop target", cores[d].view)
    BY <1>4, <1>b, <2>1, <2>2, OpensBlockDoes DEF BlockInv, HasStarted, HasBlock, Virgin, At,
       Nameless, Out
  <2>3. CASE cores'[d].pc = "opened" /\ cores'[d].existed = BlockIsHeld
    <3>1. ~cores'[d].existed => block.pid = NoCore /\ ~block.ended BY <1>c, <1>d, <2>3
    <3> QED
      BY <1>4, <1>b, <2>1, <2>3, <3>1, OpensBlockDoes DEF BlockInv, HasStarted, HasBlock,
         Virgin, At, Nameless
  <2> QED BY <1>4, <1>b, <2>2, <2>3, OpensBlockDoes
<1>5. CASE ExaminesBlock(d)
  BY <1>5, <1>b, <1>c, ExaminesBlockDoes, CoreNames DEF BlockInv, HasStarted, HasBlock, Virgin,
     At, Nameless, OnlyPc, LifeInv
<1>6. CASE ZeroesBlock(d)
  BY ZenonT(60), <1>6, <1>b, <1>c, ZeroesBlockDoes, CoreNames DEF BlockInv, HasStarted, HasBlock, Virgin, At,
     Nameless, OnlyPc
<1>7. CASE WritesHeader(d)
  BY <1>7, <1>b, <1>c, WritesHeaderDoes, CoreNames DEF BlockInv, HasStarted, HasBlock, Virgin, At,
     Nameless, OnlyPc, MembersStand
<1>8. CASE WritesAnchor(d)
  BY <1>8, <1>b, <1>c, WritesAnchorDoes, CoreNames DEF BlockInv, HasStarted, HasBlock, Virgin, At,
     Nameless, OnlyPc, MembersStand
<1>9. CASE WritesPid(d)
  <2>1. ~cores[d].marked /\ cores[d].view /\ ~block.ended
    BY <1>9, <1>b, WritesPidDoes DEF NoteInv, LockInv, BlockInv, Outside, Killed, At
  <2>2. cores[d].marked = FALSE /\ block.ended = FALSE BY <1>b, <2>1 DEF StartTypeInv, Cores, Blocks
  <2>3. /\ cores'[d].pc = "create" /\ cores'[d].view /\ cores'[d].marked = FALSE
        /\ block'.pid = d /\ block'.ended = FALSE /\ block'.members = block.members /\ apps' = apps
    BY <1>9, <1>b, <2>1, <2>2, WritesPidDoes DEF OnlyPc, MembersStand
  <2>4. block'.anchor = d /\ block'.magic = "ours" BY <1>9, <1>b, WritesPidDoes DEF BlockInv, At
  <2> QED BY <1>b, <2>3, <2>4 DEF BlockInv, HasStarted, HasBlock, Virgin, At, Nameless
<1>10. CASE CreatesTarget(d)
  BY ZenonT(60), <1>10, <1>b, <1>c, CreatesTargetDoes, CoreNames DEF BlockInv, HasStarted, HasBlock, Virgin,
     At, Nameless, OnlyPc, Out, LockInv, LifeInv, Outside, Killed
<1>11. CASE CannotInject(d)
  BY <1>11, <1>b, <1>c, CannotInjectDoes, CoreNames DEF BlockInv, HasStarted, HasBlock, Virgin,
     At, Nameless, Out
<1>12. CASE BeginsLoad(d)
  BY <1>12, <1>b, <1>c, BeginsLoadDoes, CoreNames DEF BlockInv, HasStarted, HasBlock, Virgin, At,
     Nameless, OnlyPc
<1>13. CASE LoadWaits(d)
  BY <1>13, <1>b, <1>c, LoadWaitsDoes, CoreNames DEF BlockInv, HasStarted, HasBlock, Virgin, At,
     Nameless
<1>14. CASE ReadsSignalled(d)
  BY <1>14, <1>b, <1>c, ReadsSignalledDoes, CoreNames DEF BlockInv, HasStarted, HasBlock, Virgin,
     At, Nameless
<1>15. CASE ReadsOutcome(d)
  BY <1>15, <1>b, <1>c, ReadsOutcomeDoes, CoreNames DEF BlockInv, HasStarted, HasBlock, Virgin,
     At, Nameless, Out
<1>16. CASE FindsSlot(d)
  BY <1>16, <1>b, <1>c, FindsSlotDoes, CoreNames DEF BlockInv, HasStarted, HasBlock, Virgin, At,
     Nameless
<1>17. CASE Resumes(d)
  BY <1>17, <1>b, <1>c, ResumesDoes, CoreNames DEF BlockInv, HasStarted, HasBlock, Virgin, At,
     Nameless, OnlyPc, Out
<1>18. CASE LetsGo(d)
  BY <1>18, <1>b, <1>c, LetsGoDoes, CoreNames DEF BlockInv, HasStarted, HasBlock, Virgin, At,
     Nameless
<1>19. CASE DropsTarget(d)
  <2>1. d \in block'.members => d \in block.members
    BY <1>19, <1>b, <1>c, DropsTargetDoes, StandsWhileHeld
  <2>2. apps'[d].hooks = apps[d].hooks BY <1>19, <1>b, DropsTargetDoes DEF IsEnded
  <2>3. block' = block \/ block'.pid = NoCore BY <1>19, <1>b, <1>c, DropsTargetDoes, StandsWhileHeld
  <2>4. Out(d, "drop view", cores'[d].view) BY <1>19, <1>b, DropsTargetDoes DEF Out
  <2> QED
    BY <1>b, <2>1, <2>2, <2>3, <2>4, CoreNames DEF BlockInv, HasStarted, HasBlock, Virgin, At,
       Nameless, Out
<1>20. CASE DropsView(d)
  BY ZenonT(60), <1>20, <1>b, <1>c, DropsViewDoes, StandsWhileHeld, CoreNames DEF BlockInv, HasStarted,
     HasBlock, Virgin, At, Nameless, IsEnded
<1>21. CASE DropsLock(d)
  BY <1>21, <1>b, <1>c, DropsLockDoes, CoreNames DEF BlockInv, HasStarted, HasBlock, Virgin, At,
     Nameless, Out
<1>22. CASE MarksEnded(d)
  BY <1>22, <1>b, <1>c, MarksEndedDoes, CoreNames DEF BlockInv, HasStarted, HasBlock, Virgin, At,
     Nameless, MembersStand
<1>23. CASE Dies(d)
  BY <1>23, <1>b, <1>c, DiesDoes, CoreNames DEF BlockInv, HasStarted, HasBlock, Virgin, At,
     Nameless, Out
<1>24. CASE ClosesHandles(d)
  <2>1. d \in block'.members => d \in block.members
    BY <1>24, <1>b, <1>c, ClosesHandlesDoes, StandsWhileHeld
  <2>2. apps'[d].hooks = apps[d].hooks BY <1>24, <1>b, ClosesHandlesDoes DEF IsEnded
  <2>3. block' = block \/ block'.pid = NoCore
    BY <1>24, <1>b, <1>c, ClosesHandlesDoes, StandsWhileHeld
  <2>4. Out(d, "dead", cores'[d].view) BY <1>24, <1>b, ClosesHandlesDoes DEF Out
  <2> QED
    BY <1>b, <2>1, <2>2, <2>3, <2>4, CoreNames DEF BlockInv, HasStarted, HasBlock, Virgin, At,
       Nameless, Out
<1>25. CASE ReadsHeader(d)
  BY <1>25, <1>b, <1>c, ReadsHeaderDoes, CoreNames DEF BlockInv, HasStarted, HasBlock, Virgin, At
<1>26. CASE ReadsPid(d)
  BY <1>26, <1>b, <1>c, ReadsPidDoes, CoreNames DEF BlockInv, HasStarted, HasBlock, Virgin, At
<1>27. CASE Joins(d)
  BY ZenonT(60), <1>27, <1>b, <1>c, JoinsDoes, StandsWhileHeld, CoreNames DEF BlockInv, HasStarted, HasBlock,
     Virgin, At, LockInv, Outside, Killed
<1>28. CASE InstallFails(d)
  BY ZenonT(60), <1>28, <1>b, <1>c, InstallFailsDoes, StandsWhileHeld, CoreNames DEF BlockInv, HasStarted,
     HasBlock, Virgin, At, LockInv, Outside, Killed
<1>29. CASE Installs(d)
  BY <1>29, <1>b, <1>c, InstallsDoes, CoreNames DEF BlockInv, HasStarted, HasBlock, Virgin, At
<1>30. CASE LoaderEndsTarget(d)
  BY <1>30, <1>b, <1>c, LoaderEndsTargetDoes, CoreNames DEF BlockInv, HasStarted, HasBlock,
     Virgin, At
<1>31. CASE TargetEnds(d)
  BY ZenonT(60), <1>31, <1>b, <1>c, TargetEndsDoes, StandsWhileHeld, CoreNames DEF BlockInv, HasStarted,
     HasBlock, Virgin, At, LockInv, Outside, Killed, IsEnded
<1> QED BY <1>1, <1>2, <1>3, <1>4, <1>5, <1>6, <1>7, <1>8, <1>9, <1>10, <1>11, <1>12, <1>13, <1>14,
     <1>15, <1>16, <1>17, <1>18, <1>19, <1>20, <1>21, <1>22, <1>23, <1>24, <1>25, <1>26, <1>27,
     <1>28, <1>29, <1>30, <1>31, StepOfOne
  DEF StartCoreStep, StartSteps, HookLoads

\* A block without its magic is one that somebody is making, and nobody does under another's lock:
\* its maker was killed.
LEMMA RefusedStep ==
    ASSUME StartInv, [StartNext]_startVars, NEW d \in StartCores
    PROVE  RefusedInv(d)'
<1>a. StartTypeInv /\ FreshInv /\ \A e \in StartCores : LockInv(e) /\ BlockInv(e) /\ RefusedInv(e)
  BY DEF StartInv
<1>b. LockInv(d) /\ RefusedInv(d) /\ LockInv(d)' BY <1>a, LockStep
<1>c. ASSUME ~cores'[d].refused PROVE RefusedInv(d)' BY <1>c DEF RefusedInv
<1>d. cores'[d].refused => cores'[d].pc = "drop target" /\ cores'[d].view BY <1>b DEF LockInv, At
<1>1. CASE UNCHANGED startVars \/ LeftoverEnds
  <2>1. UNCHANGED cores /\ (block' = block \/ BlockStands) BY <1>1 DEF startVars, LeftoverEnds
  <2> QED BY <1>b, <1>d, <2>1, StandsWhileHeld DEF RefusedInv
<1>2. ASSUME NEW c \in StartCores \ {d}, StartCoreStep(c) PROVE RefusedInv(d)'
  <2>1. cores'[d] = cores[d] /\ apps'[d] = apps[d] BY <1>2, <1>a, OthersStand
  <2>2. \A e \in StartCores : cores[e].pc \in Killed => cores'[e].pc \in Killed
    BY <1>2, <1>a, KilledStays
  <2>3. cores[d].pc \notin Outside /\ cores[d].view => block'.magic = block.magic
    BY <1>2, <1>a, BlockByAnother
  <2> QED BY <1>b, <1>d, <2>1, <2>2, <2>3 DEF RefusedInv, Outside, Killed
<1>3. CASE TakesLock(d) BY <1>3, <1>a, <1>b, <1>c, <1>d, TakesLockDoes DEF At, OnlyPc, Out
<1>4. CASE OpensBlock(d) BY <1>4, <1>a, <1>b, <1>c, <1>d, OpensBlockDoes DEF At, Out
<1>5. CASE ExaminesBlock(d)
  <2>1. CASE ~cores'[d].refused BY <1>c, <2>1
  <2>2. CASE cores'[d].refused
    <3>1. /\ At(d, "opened") /\ cores[d].existed /\ UNCHANGED block /\ CoresStand(d)
          /\ block.magic \notin {"ours", "other"} /\ cores'[d].pc = "drop target"
      BY <1>5, <1>a, <1>d, <2>2, ExaminesBlockDoes DEF OnlyPc
    <3>2. block.magic \in {"zero", "foreign"} BY <1>a, <3>1 DEF StartTypeInv, Blocks
    <3>3. CASE block.magic = "foreign" BY <3>1, <3>3 DEF RefusedInv
    <3>4. CASE block.magic = "zero"
      <4>1. BlockIsHeld BY <1>b, <3>1 DEF BlockIsHeld, LockInv, At, Outside, Killed
      <4>2. PICK e \in StartCores : Virgin(e) \/ cores[e].pc \in Killed
        BY <1>a, <3>4, <4>1 DEF FreshInv
      <4>3. ~Virgin(d) BY <3>1 DEF Virgin, At
      <4>4. ASSUME e # d, Virgin(e) PROVE FALSE
        BY <1>a, <1>b, <3>1, <4>4 DEF LockInv, Virgin, At, Outside, Killed
      <4>5. cores[e].pc \in Killed BY <4>2, <4>3, <4>4
      <4>6. e # d BY <3>1, <4>5 DEF At, Killed
      <4> QED BY <3>1, <4>5, <4>6 DEF RefusedInv, CoresStand
    <3> QED BY <3>2, <3>3, <3>4
  <2> QED BY <2>1, <2>2
<1>6. CASE ZeroesBlock(d) BY <1>6, <1>a, <1>b, <1>c, <1>d, ZeroesBlockDoes DEF At, OnlyPc
<1>7. CASE WritesHeader(d) BY <1>7, <1>a, <1>b, <1>c, <1>d, WritesHeaderDoes DEF At, OnlyPc
<1>8. CASE WritesAnchor(d) BY <1>8, <1>a, <1>b, <1>c, <1>d, WritesAnchorDoes DEF At, OnlyPc
<1>9. CASE WritesPid(d) BY <1>9, <1>a, <1>b, <1>c, <1>d, WritesPidDoes DEF At, OnlyPc
<1>10. CASE CreatesTarget(d) BY <1>10, <1>a, <1>b, <1>c, <1>d, CreatesTargetDoes DEF At, OnlyPc, Out
<1>11. CASE CannotInject(d) BY <1>11, <1>a, <1>b, <1>c, <1>d, CannotInjectDoes DEF At, Out
<1>12. CASE BeginsLoad(d) BY <1>12, <1>a, <1>b, <1>c, <1>d, BeginsLoadDoes DEF At, OnlyPc
<1>13. CASE LoadWaits(d) BY <1>13, <1>a, <1>b, <1>c, <1>d, LoadWaitsDoes DEF At
<1>14. CASE ReadsSignalled(d) BY <1>14, <1>a, <1>b, <1>c, <1>d, ReadsSignalledDoes DEF At
<1>15. CASE ReadsOutcome(d) BY <1>15, <1>a, <1>b, <1>c, <1>d, ReadsOutcomeDoes DEF At, Out
<1>16. CASE FindsSlot(d) BY <1>16, <1>a, <1>b, <1>c, <1>d, FindsSlotDoes DEF At
<1>17. CASE Resumes(d) BY <1>17, <1>a, <1>b, <1>c, <1>d, ResumesDoes DEF At, OnlyPc, Out
<1>18. CASE LetsGo(d) BY <1>18, <1>a, <1>b, <1>c, <1>d, LetsGoDoes DEF At
<1>19. CASE DropsTarget(d) BY <1>19, <1>a, <1>b, <1>c, <1>d, DropsTargetDoes DEF At, Out
<1>20. CASE DropsView(d) BY <1>20, <1>a, <1>b, <1>c, <1>d, DropsViewDoes DEF At
<1>21. CASE DropsLock(d) BY <1>21, <1>a, <1>c, DropsLockDoes DEF Out
<1>22. CASE MarksEnded(d) BY <1>22, <1>a, <1>b, <1>c, <1>d, MarksEndedDoes DEF At
<1>23. CASE Dies(d) BY <1>23, <1>a, <1>b, <1>c, <1>d, DiesDoes DEF At, Out
<1>24. CASE ClosesHandles(d) BY <1>24, <1>a, <1>b, <1>c, <1>d, ClosesHandlesDoes DEF At, Out
<1>25. CASE ReadsHeader(d)
  <2>1. UNCHANGED cores /\ (block' = block \/ BlockStands \/ block'.magic = block.magic)
    BY <1>25, <1>a, ReadsHeaderDoes
  <2> QED BY <1>b, <1>d, <2>1, StandsWhileHeld DEF RefusedInv
<1>26. CASE ReadsPid(d)
  <2>1. UNCHANGED cores /\ (block' = block \/ BlockStands \/ block'.magic = block.magic)
    BY <1>26, <1>a, ReadsPidDoes
  <2> QED BY <1>b, <1>d, <2>1, StandsWhileHeld DEF RefusedInv
<1>27. CASE Joins(d)
  <2>1. UNCHANGED cores /\ (block' = block \/ BlockStands \/ block'.magic = block.magic)
    BY <1>27, <1>a, JoinsDoes
  <2> QED BY <1>b, <1>d, <2>1, StandsWhileHeld DEF RefusedInv
<1>28. CASE InstallFails(d)
  <2>1. UNCHANGED cores /\ (block' = block \/ BlockStands \/ block'.magic = block.magic)
    BY <1>28, <1>a, InstallFailsDoes
  <2> QED BY <1>b, <1>d, <2>1, StandsWhileHeld DEF RefusedInv
<1>29. CASE Installs(d)
  <2>1. UNCHANGED cores /\ (block' = block \/ BlockStands \/ block'.magic = block.magic)
    BY <1>29, <1>a, InstallsDoes
  <2> QED BY <1>b, <1>d, <2>1, StandsWhileHeld DEF RefusedInv
<1>30. CASE LoaderEndsTarget(d)
  <2>1. UNCHANGED cores /\ (block' = block \/ BlockStands \/ block'.magic = block.magic)
    BY <1>30, <1>a, LoaderEndsTargetDoes
  <2> QED BY <1>b, <1>d, <2>1, StandsWhileHeld DEF RefusedInv
<1>31. CASE TargetEnds(d)
  <2>1. UNCHANGED cores /\ (block' = block \/ BlockStands \/ block'.magic = block.magic)
    BY <1>31, <1>a, TargetEndsDoes
  <2> QED BY <1>b, <1>d, <2>1, StandsWhileHeld DEF RefusedInv
<1> QED BY <1>1, <1>2, <1>3, <1>4, <1>5, <1>6, <1>7, <1>8, <1>9, <1>10, <1>11, <1>12, <1>13, <1>14,
     <1>15, <1>16, <1>17, <1>18, <1>19, <1>20, <1>21, <1>22, <1>23, <1>24, <1>25, <1>26, <1>27,
     <1>28, <1>29, <1>30, <1>31, StepOfOne
  DEF StartCoreStep, StartSteps, HookLoads

\* The core the block names when it is taken over has gone, and its mark is the block's.
LEMMA BeforeStep ==
    ASSUME StartInv, [StartNext]_startVars, NEW d \in StartCores
    PROVE  BeforeInv(d)'
<1>a. StartTypeInv /\ \A e \in StartCores : LockInv(e) /\ BlockInv(e) /\ BeforeInv(e)
  BY DEF StartInv
<1>b. BeforeInv(d) /\ LockInv(d) /\ BlockInv(d) BY <1>a
<1>c. ASSUME NEW c \in StartCores, StartCoreStep(c),
             cores'[d].reclaimed = cores[d].reclaimed, cores'[d].before = cores[d].before
      PROVE  BeforeInv(d)'
  <2>1. \A e \in StartCores : cores[e].pc \in {"failed", "over"} \cup Killed =>
          cores'[e].pc \in {"failed", "over"} \cup Killed /\ cores'[e].marked = cores[e].marked
    BY <1>a, <1>c, KilledStays
  <2> QED BY <1>b, <1>c, <2>1 DEF BeforeInv
<1>d. ASSUME cores'[d].reclaimed = "nothing" PROVE BeforeInv(d)' BY <1>d DEF BeforeInv
<1>1. CASE UNCHANGED startVars \/ LeftoverEnds BY <1>1, <1>b DEF startVars, LeftoverEnds, BeforeInv
<1>2. ASSUME NEW c \in StartCores \ {d}, StartCoreStep(c) PROVE BeforeInv(d)'
  <2>1. cores'[d] = cores[d] BY <1>2, <1>a, OthersStand
  <2> QED BY <1>2, <1>c, <2>1
<1>3. CASE TakesLock(d)
  BY <1>3, <1>a, <1>c, <1>d, TakesLockDoes DEF StartCoreStep, StartSteps, OnlyPc, Out
<1>4. CASE OpensBlock(d)
  BY <1>4, <1>a, <1>c, <1>d, OpensBlockDoes DEF StartCoreStep, StartSteps, Out
<1>5. CASE ExaminesBlock(d)
  <2>1. CASE cores'[d].reclaimed = cores[d].reclaimed /\ cores'[d].before = cores[d].before
    BY <1>5, <1>c, <2>1 DEF StartCoreStep, StartSteps
  <2>2. CASE cores'[d].reclaimed = Reclaimed /\ cores'[d].before = block.pid
    <3>1. At(d, "opened") /\ CoresStand(d) BY <1>5, <1>a, ExaminesBlockDoes
    <3>2. (Reclaimed = "ended") <=> block.ended BY DEF Reclaimed
    <3>3. ASSUME block.pid \in StartCores
          PROVE  /\ cores'[block.pid].pc \in {"failed", "over"} \cup Killed
                 /\ cores'[block.pid].marked = block.ended
      <4> DEFINE e == block.pid
      <4>1. e # d BY <1>b, <3>1 DEF BlockInv, Nameless, At
      <4>2. cores[e].pc \in Outside /\ cores[e].pc # "new" /\ cores[e].marked = block.ended
        BY <1>a, <1>b, <3>1, <3>3, <4>1 DEF LockInv, BlockInv, Nameless, Outside, Killed, At
      <4>3. cores'[e] = cores[e] BY <3>1, <3>3, <4>1 DEF CoresStand
      <4> QED BY <4>2, <4>3 DEF Outside
    <3>4. block.ended \in BOOLEAN BY <1>a DEF StartTypeInv, Blocks
    <3> QED BY <2>2, <3>2, <3>3, <3>4 DEF BeforeInv
  <2> QED BY <1>5, <1>a, <2>1, <2>2, ExaminesBlockDoes DEF OnlyPc
<1>6. CASE ZeroesBlock(d)
  BY <1>6, <1>a, <1>c, <1>d, ZeroesBlockDoes DEF StartCoreStep, StartSteps, OnlyPc
<1>7. CASE WritesHeader(d)
  BY <1>7, <1>a, <1>c, <1>d, WritesHeaderDoes DEF StartCoreStep, StartSteps, OnlyPc
<1>8. CASE WritesAnchor(d)
  BY <1>8, <1>a, <1>c, <1>d, WritesAnchorDoes DEF StartCoreStep, StartSteps, OnlyPc
<1>9. CASE WritesPid(d)
  BY <1>9, <1>a, <1>c, <1>d, WritesPidDoes DEF StartCoreStep, StartSteps, OnlyPc
<1>10. CASE CreatesTarget(d)
  BY <1>10, <1>a, <1>c, <1>d, CreatesTargetDoes DEF StartCoreStep, StartSteps, OnlyPc, Out
<1>11. CASE CannotInject(d)
  BY <1>11, <1>a, <1>c, <1>d, CannotInjectDoes DEF StartCoreStep, StartSteps, Out
<1>12. CASE BeginsLoad(d)
  BY <1>12, <1>a, <1>c, <1>d, BeginsLoadDoes DEF StartCoreStep, StartSteps, OnlyPc
<1>13. CASE LoadWaits(d) BY <1>13, <1>a, <1>c, <1>d, LoadWaitsDoes DEF StartCoreStep, StartSteps
<1>14. CASE ReadsSignalled(d)
  BY <1>14, <1>a, <1>c, <1>d, ReadsSignalledDoes DEF StartCoreStep, StartSteps
<1>15. CASE ReadsOutcome(d)
  BY <1>15, <1>a, <1>c, <1>d, ReadsOutcomeDoes DEF StartCoreStep, StartSteps, Out
<1>16. CASE FindsSlot(d) BY <1>16, <1>a, <1>c, <1>d, FindsSlotDoes DEF StartCoreStep, StartSteps
<1>17. CASE Resumes(d)
  BY <1>17, <1>a, <1>c, <1>d, ResumesDoes DEF StartCoreStep, StartSteps, OnlyPc, Out
<1>18. CASE LetsGo(d) BY <1>18, <1>a, <1>c, <1>d, LetsGoDoes DEF StartCoreStep, StartSteps
<1>19. CASE DropsTarget(d)
  BY <1>19, <1>a, <1>c, <1>d, DropsTargetDoes DEF StartCoreStep, StartSteps, Out
<1>20. CASE DropsView(d) BY <1>20, <1>a, <1>c, <1>d, DropsViewDoes DEF StartCoreStep, StartSteps
<1>21. CASE DropsLock(d)
  BY <1>21, <1>a, <1>c, <1>d, DropsLockDoes DEF StartCoreStep, StartSteps, Out
<1>22. CASE MarksEnded(d) BY <1>22, <1>a, <1>c, <1>d, MarksEndedDoes DEF StartCoreStep, StartSteps
<1>23. CASE Dies(d) BY <1>23, <1>a, <1>c, <1>d, DiesDoes DEF StartCoreStep, StartSteps, Out
<1>24. CASE ClosesHandles(d)
  BY <1>24, <1>a, <1>c, <1>d, ClosesHandlesDoes DEF StartCoreStep, StartSteps, Out
<1>25. CASE ReadsHeader(d)
  BY <1>25, <1>a, <1>c, ReadsHeaderDoes DEF StartCoreStep, StartSteps, HookLoads
<1>26. CASE ReadsPid(d) BY <1>26, <1>a, <1>c, ReadsPidDoes DEF StartCoreStep, StartSteps, HookLoads
<1>27. CASE Joins(d) BY <1>27, <1>a, <1>c, JoinsDoes DEF StartCoreStep, StartSteps, HookLoads
<1>28. CASE InstallFails(d)
  BY <1>28, <1>a, <1>c, InstallFailsDoes DEF StartCoreStep, StartSteps, HookLoads
<1>29. CASE Installs(d) BY <1>29, <1>a, <1>c, InstallsDoes DEF StartCoreStep, StartSteps, HookLoads
<1>30. CASE LoaderEndsTarget(d)
  BY <1>30, <1>a, <1>c, LoaderEndsTargetDoes DEF StartCoreStep, StartSteps, HookLoads
<1>31. CASE TargetEnds(d)
  BY <1>31, <1>a, <1>c, TargetEndsDoes DEF StartCoreStep, StartSteps, HookLoads
<1> QED BY <1>1, <1>2, <1>3, <1>4, <1>5, <1>6, <1>7, <1>8, <1>9, <1>10, <1>11, <1>12, <1>13, <1>14,
     <1>15, <1>16, <1>17, <1>18, <1>19, <1>20, <1>21, <1>22, <1>23, <1>24, <1>25, <1>26, <1>27,
     <1>28, <1>29, <1>30, <1>31, StepOfOne
  DEF StartCoreStep, StartSteps, HookLoads

\* What a core and its target hold of the block, and who is making one.
Holds(c) == cores[c].view \/ Maps(c)
Makes(c) == Virgin(c) \/ cores[c].pc \in Killed

LEMMA HeldByOthers ==
    ASSUME StartTypeInv, NEW c \in StartCores, StartCoreStep(c)
    PROVE  /\ Holds(c) => BlockIsHeld
           /\ Holds(c)' => BlockIsHeld'
           /\ BlockIsHeld /\ (Holds(c) => Holds(c)') => BlockIsHeld'
           /\ BlockIsHeld' /\ (Holds(c)' => Holds(c)) => BlockIsHeld
           /\ (\E d \in StartCores : Makes(d)) /\ (Makes(c) => Makes(c)') => \E d \in StartCores : Makes(d)'
           /\ Makes(c)' => \E d \in StartCores : Makes(d)'
<1>1. /\ \A d \in StartCores \ {c} : cores'[d] = cores[d] /\ apps'[d] = apps[d]
      /\ leftover' = leftover
  BY OthersStand
<1>2. \A d \in StartCores \ {c} : (Holds(d)' <=> Holds(d)) /\ (Makes(d)' <=> Makes(d))
  BY <1>1 DEF Holds, Maps, Makes, Virgin, At
<1>3. BlockIsHeld <=> leftover \/ \E d \in StartCores : Holds(d) BY DEF BlockIsHeld, Holds
<1>4. BlockIsHeld' <=> leftover' \/ \E d \in StartCores : Holds(d)' BY DEF BlockIsHeld, Holds
<1> QED BY <1>1, <1>2, <1>3, <1>4

\* The block stays, or its last hold goes with it, or the core writes what it holds.
KeepsBlock(c)  == /\ UNCHANGED block /\ (Holds(c) => Holds(c)')
                  /\ (Holds(c)' => BlockIsHeld \/ Makes(c)') /\ (Makes(c) => Makes(c)')
LetsBlockGo(c) == BlockStands /\ (Holds(c)' => Holds(c)) /\ (Makes(c) => Makes(c)')
MakesBlock(c)  == Holds(c)' /\ (block'.magic # "zero" \/ Makes(c)')
SignsBlock(c)  == Holds(c) /\ Holds(c)' /\ block'.magic = block.magic /\ (Makes(c) => Makes(c)')

LEMMA FreshByOne ==
    ASSUME StartTypeInv, FreshInv, NEW c \in StartCores, StartCoreStep(c),
           KeepsBlock(c) \/ LetsBlockGo(c) \/ MakesBlock(c) \/ SignsBlock(c)
    PROVE  FreshInv'
<1>1. /\ ~BlockIsHeld => block = Blank
      /\ BlockIsHeld /\ block.magic = "zero" => \E d \in StartCores : Makes(d)
  BY DEF FreshInv, Makes
<1>2. /\ Holds(c) => BlockIsHeld
      /\ Holds(c)' => BlockIsHeld'
      /\ BlockIsHeld /\ (Holds(c) => Holds(c)') => BlockIsHeld'
      /\ BlockIsHeld' /\ (Holds(c)' => Holds(c)) => BlockIsHeld
      /\ (\E d \in StartCores : Makes(d)) /\ (Makes(c) => Makes(c)') => \E d \in StartCores : Makes(d)'
      /\ Makes(c)' => \E d \in StartCores : Makes(d)'
  BY HeldByOthers
<1>3. BlockStands => /\ ~BlockIsHeld' => block' = Blank
                     /\ BlockIsHeld' => block' = block
  BY DEF BlockStands
<1>4. /\ ~BlockIsHeld' => block' = Blank
      /\ BlockIsHeld' /\ block'.magic = "zero" => \E d \in StartCores : Makes(d)'
  BY <1>1, <1>2, <1>3 DEF KeepsBlock, LetsBlockGo, MakesBlock, SignsBlock
<1> QED BY <1>4 DEF FreshInv, Makes

\* The last hold takes the memory with it.
LEMMA FreshStep ==
    ASSUME StartInv, [StartNext]_startVars
    PROVE  FreshInv'
<1>a. StartTypeInv /\ FreshInv /\ \A e \in StartCores : LockInv(e) /\ BlockInv(e) /\ LifeInv(e) /\ LoadInv(e)
  BY DEF StartInv
<1>1. CASE UNCHANGED startVars BY <1>1, <1>a DEF startVars, FreshInv, BlockIsHeld, Maps, Virgin, At
<1>2. CASE LeftoverEnds
  <2>1. UNCHANGED <<cores, apps>> /\ (BlockIsHeld' => block' = block /\ BlockIsHeld) /\ (~BlockIsHeld' => block' = Blank)
    BY <1>2 DEF LeftoverEnds, BlockStands, BlockIsHeld, Maps
  <2> QED BY <1>a, <2>1 DEF FreshInv, Virgin, At
<1>3. ASSUME NEW c \in StartCores, TakesLock(c) PROVE FreshInv'
  <2>1. StartTypeInv /\ LockInv(c) /\ BlockInv(c) /\ LifeInv(c) /\ LoadInv(c) /\ (Holds(c) => BlockIsHeld)
    BY <1>a DEF BlockIsHeld, Holds
  <2>2. KeepsBlock(c)
    BY <1>3, <2>1, TakesLockDoes DEF At, Loads, Holds, Maps, Makes, Virgin, Killed, OnlyPc, Out,
       LockInv, KeepsBlock
  <2> QED BY <1>3, <1>a, <2>2, FreshByOne DEF StartCoreStep, StartSteps, HookLoads
<1>4. ASSUME NEW c \in StartCores, OpensBlock(c) PROVE FreshInv'
  <2>1. StartTypeInv /\ LockInv(c) /\ BlockInv(c) /\ LifeInv(c) /\ LoadInv(c) /\ (Holds(c) => BlockIsHeld)
    BY <1>a DEF BlockIsHeld, Holds
  <2>2. KeepsBlock(c)
    BY <1>4, <2>1, OpensBlockDoes DEF At, Loads, Holds, Maps, Makes, Virgin, Killed, Out,
       KeepsBlock
  <2> QED BY <1>4, <1>a, <2>2, FreshByOne DEF StartCoreStep, StartSteps, HookLoads
<1>5. ASSUME NEW c \in StartCores, ExaminesBlock(c) PROVE FreshInv'
  <2>1. StartTypeInv /\ LockInv(c) /\ BlockInv(c) /\ LifeInv(c) /\ LoadInv(c) /\ (Holds(c) => BlockIsHeld)
    BY <1>a DEF BlockIsHeld, Holds
  <2>2. KeepsBlock(c)
    <3>1. cores[c].view /\ UNCHANGED <<block, apps>> /\ At(c, "opened")
      BY <1>5, <2>1, ExaminesBlockDoes DEF LockInv, Outside, Killed, At
    <3>2. cores'[c].view /\ (cores[c].existed \/ At(c, "header")')
      BY <1>5, <2>1, <3>1, ExaminesBlockDoes DEF OnlyPc, At
    <3> QED BY <2>1, <3>1, <3>2 DEF Holds, Maps, Makes, Virgin, At, Killed, KeepsBlock
  <2> QED BY <1>5, <1>a, <2>2, FreshByOne DEF StartCoreStep, StartSteps, HookLoads
<1>6. ASSUME NEW c \in StartCores, ZeroesBlock(c) PROVE FreshInv'
  <2>1. StartTypeInv /\ LockInv(c) /\ BlockInv(c) /\ LifeInv(c) /\ LoadInv(c) /\ (Holds(c) => BlockIsHeld)
    BY <1>a DEF BlockIsHeld, Holds
  <2>2. MakesBlock(c)
    BY <1>6, <2>1, ZeroesBlockDoes DEF At, Loads, Holds, Maps, Makes, Virgin, Killed, OnlyPc,
       LockInv, Outside, MakesBlock
  <2> QED BY <1>6, <1>a, <2>2, FreshByOne DEF StartCoreStep, StartSteps, HookLoads
<1>7. ASSUME NEW c \in StartCores, WritesHeader(c) PROVE FreshInv'
  <2>1. StartTypeInv /\ LockInv(c) /\ BlockInv(c) /\ LifeInv(c) /\ LoadInv(c) /\ (Holds(c) => BlockIsHeld)
    BY <1>a DEF BlockIsHeld, Holds
  <2>2. MakesBlock(c)
    BY <1>7, <2>1, WritesHeaderDoes DEF At, Loads, Holds, Maps, Makes, Virgin, Killed, OnlyPc,
       BlockInv, HasStarted, HasBlock, LockInv, Outside, MakesBlock
  <2> QED BY <1>7, <1>a, <2>2, FreshByOne DEF StartCoreStep, StartSteps, HookLoads
<1>8. ASSUME NEW c \in StartCores, WritesAnchor(c) PROVE FreshInv'
  <2>1. StartTypeInv /\ LockInv(c) /\ BlockInv(c) /\ LifeInv(c) /\ LoadInv(c) /\ (Holds(c) => BlockIsHeld)
    BY <1>a DEF BlockIsHeld, Holds
  <2>2. MakesBlock(c)
    BY <1>8, <2>1, WritesAnchorDoes DEF At, Loads, Holds, Maps, Makes, Virgin, Killed, OnlyPc,
       BlockInv, HasStarted, HasBlock, LockInv, Outside, MakesBlock
  <2> QED BY <1>8, <1>a, <2>2, FreshByOne DEF StartCoreStep, StartSteps, HookLoads
<1>9. ASSUME NEW c \in StartCores, WritesPid(c) PROVE FreshInv'
  <2>1. StartTypeInv /\ LockInv(c) /\ BlockInv(c) /\ LifeInv(c) /\ LoadInv(c) /\ (Holds(c) => BlockIsHeld)
    BY <1>a DEF BlockIsHeld, Holds
  <2>2. MakesBlock(c)
    BY <1>9, <2>1, WritesPidDoes DEF At, Loads, Holds, Maps, Makes, Virgin, Killed, OnlyPc,
       BlockInv, HasStarted, HasBlock, LockInv, Outside, MakesBlock
  <2> QED BY <1>9, <1>a, <2>2, FreshByOne DEF StartCoreStep, StartSteps, HookLoads
<1>10. ASSUME NEW c \in StartCores, CreatesTarget(c) PROVE FreshInv'
  <2>1. StartTypeInv /\ LockInv(c) /\ BlockInv(c) /\ LifeInv(c) /\ LoadInv(c) /\ (Holds(c) => BlockIsHeld)
    BY <1>a DEF BlockIsHeld, Holds
  <2>2. KeepsBlock(c)
    BY <1>10, <2>1, CreatesTargetDoes DEF At, Loads, Holds, Maps, Makes, Virgin, Killed, OnlyPc,
       Out, LifeInv, LoadInv, Nameless, KeepsBlock
  <2> QED BY <1>10, <1>a, <2>2, FreshByOne DEF StartCoreStep, StartSteps, HookLoads
<1>11. ASSUME NEW c \in StartCores, CannotInject(c) PROVE FreshInv'
  <2>1. StartTypeInv /\ LockInv(c) /\ BlockInv(c) /\ LifeInv(c) /\ LoadInv(c) /\ (Holds(c) => BlockIsHeld)
    BY <1>a DEF BlockIsHeld, Holds
  <2>2. KeepsBlock(c)
    BY <1>11, <2>1, CannotInjectDoes DEF At, Loads, Holds, Maps, Makes, Virgin, Killed, Out,
       KeepsBlock
  <2> QED BY <1>11, <1>a, <2>2, FreshByOne DEF StartCoreStep, StartSteps, HookLoads
<1>12. ASSUME NEW c \in StartCores, BeginsLoad(c) PROVE FreshInv'
  <2>1. StartTypeInv /\ LockInv(c) /\ BlockInv(c) /\ LifeInv(c) /\ LoadInv(c) /\ (Holds(c) => BlockIsHeld)
    BY <1>a DEF BlockIsHeld, Holds
  <2>2. KeepsBlock(c)
    BY <1>12, <2>1, BeginsLoadDoes DEF At, Loads, Holds, Maps, Makes, Virgin, Killed, OnlyPc,
       LifeInv, LoadInv, Nameless, KeepsBlock
  <2> QED BY <1>12, <1>a, <2>2, FreshByOne DEF StartCoreStep, StartSteps, HookLoads
<1>13. ASSUME NEW c \in StartCores, LoadWaits(c) PROVE FreshInv'
  <2>1. StartTypeInv /\ LockInv(c) /\ BlockInv(c) /\ LifeInv(c) /\ LoadInv(c) /\ (Holds(c) => BlockIsHeld)
    BY <1>a DEF BlockIsHeld, Holds
  <2>2. KeepsBlock(c)
    BY <1>13, <2>1, LoadWaitsDoes DEF At, Loads, Holds, Maps, Makes, Virgin, Killed, KeepsBlock
  <2> QED BY <1>13, <1>a, <2>2, FreshByOne DEF StartCoreStep, StartSteps, HookLoads
<1>14. ASSUME NEW c \in StartCores, ReadsSignalled(c) PROVE FreshInv'
  <2>1. StartTypeInv /\ LockInv(c) /\ BlockInv(c) /\ LifeInv(c) /\ LoadInv(c) /\ (Holds(c) => BlockIsHeld)
    BY <1>a DEF BlockIsHeld, Holds
  <2>2. KeepsBlock(c)
    BY <1>14, <2>1, ReadsSignalledDoes DEF At, Loads, Holds, Maps, Makes, Virgin, Killed,
       KeepsBlock
  <2> QED BY <1>14, <1>a, <2>2, FreshByOne DEF StartCoreStep, StartSteps, HookLoads
<1>15. ASSUME NEW c \in StartCores, ReadsOutcome(c) PROVE FreshInv'
  <2>1. StartTypeInv /\ LockInv(c) /\ BlockInv(c) /\ LifeInv(c) /\ LoadInv(c) /\ (Holds(c) => BlockIsHeld)
    BY <1>a DEF BlockIsHeld, Holds
  <2>2. KeepsBlock(c)
    BY <1>15, <2>1, ReadsOutcomeDoes DEF At, Loads, Holds, Maps, Makes, Virgin, Killed, Out,
       KeepsBlock
  <2> QED BY <1>15, <1>a, <2>2, FreshByOne DEF StartCoreStep, StartSteps, HookLoads
<1>16. ASSUME NEW c \in StartCores, FindsSlot(c) PROVE FreshInv'
  <2>1. StartTypeInv /\ LockInv(c) /\ BlockInv(c) /\ LifeInv(c) /\ LoadInv(c) /\ (Holds(c) => BlockIsHeld)
    BY <1>a DEF BlockIsHeld, Holds
  <2>2. KeepsBlock(c)
    BY <1>16, <2>1, FindsSlotDoes DEF At, Loads, Holds, Maps, Makes, Virgin, Killed, KeepsBlock
  <2> QED BY <1>16, <1>a, <2>2, FreshByOne DEF StartCoreStep, StartSteps, HookLoads
<1>17. ASSUME NEW c \in StartCores, Resumes(c) PROVE FreshInv'
  <2>1. StartTypeInv /\ LockInv(c) /\ BlockInv(c) /\ LifeInv(c) /\ LoadInv(c) /\ (Holds(c) => BlockIsHeld)
    BY <1>a DEF BlockIsHeld, Holds
  <2>2. KeepsBlock(c)
    BY <1>17, <2>1, ResumesDoes DEF At, Loads, Holds, Maps, Makes, Virgin, Killed, OnlyPc, Out,
       LifeInv, LoadInv, Nameless, KeepsBlock
  <2> QED BY <1>17, <1>a, <2>2, FreshByOne DEF StartCoreStep, StartSteps, HookLoads
<1>18. ASSUME NEW c \in StartCores, LetsGo(c) PROVE FreshInv'
  <2>1. StartTypeInv /\ LockInv(c) /\ BlockInv(c) /\ LifeInv(c) /\ LoadInv(c) /\ (Holds(c) => BlockIsHeld)
    BY <1>a DEF BlockIsHeld, Holds
  <2>2. KeepsBlock(c)
    BY <1>18, <2>1, LetsGoDoes DEF At, Loads, Holds, Maps, Makes, Virgin, Killed, KeepsBlock
  <2> QED BY <1>18, <1>a, <2>2, FreshByOne DEF StartCoreStep, StartSteps, HookLoads
<1>19. ASSUME NEW c \in StartCores, DropsTarget(c) PROVE FreshInv'
  <2>1. StartTypeInv /\ LockInv(c) /\ BlockInv(c) /\ LifeInv(c) /\ LoadInv(c) /\ (Holds(c) => BlockIsHeld)
    BY <1>a DEF BlockIsHeld, Holds
  <2>2. LetsBlockGo(c)
    BY <1>19, <2>1, DropsTargetDoes DEF At, Loads, Holds, Maps, Makes, Virgin, Killed, Out,
       IsEnded, LetsBlockGo
  <2> QED BY <1>19, <1>a, <2>2, FreshByOne DEF StartCoreStep, StartSteps, HookLoads
<1>20. ASSUME NEW c \in StartCores, DropsView(c) PROVE FreshInv'
  <2>1. StartTypeInv /\ LockInv(c) /\ BlockInv(c) /\ LifeInv(c) /\ LoadInv(c) /\ (Holds(c) => BlockIsHeld)
    BY <1>a DEF BlockIsHeld, Holds
  <2>2. LetsBlockGo(c)
    BY <1>20, <2>1, DropsViewDoes DEF At, Loads, Holds, Maps, Makes, Virgin, Killed, LockInv,
       LetsBlockGo
  <2> QED BY <1>20, <1>a, <2>2, FreshByOne DEF StartCoreStep, StartSteps, HookLoads
<1>21. ASSUME NEW c \in StartCores, DropsLock(c) PROVE FreshInv'
  <2>1. StartTypeInv /\ LockInv(c) /\ BlockInv(c) /\ LifeInv(c) /\ LoadInv(c) /\ (Holds(c) => BlockIsHeld)
    BY <1>a DEF BlockIsHeld, Holds
  <2>2. KeepsBlock(c)
    BY <1>21, <2>1, DropsLockDoes DEF At, Loads, Holds, Maps, Makes, Virgin, Killed, Out,
       LockInv, KeepsBlock
  <2> QED BY <1>21, <1>a, <2>2, FreshByOne DEF StartCoreStep, StartSteps, HookLoads
<1>22. ASSUME NEW c \in StartCores, MarksEnded(c) PROVE FreshInv'
  <2>1. StartTypeInv /\ LockInv(c) /\ BlockInv(c) /\ LifeInv(c) /\ LoadInv(c) /\ (Holds(c) => BlockIsHeld)
    BY <1>a DEF BlockIsHeld, Holds
  <2>2. MakesBlock(c)
    BY <1>22, <2>1, MarksEndedDoes DEF At, Loads, Holds, Maps, Makes, Virgin, Killed, BlockInv,
       HasStarted, HasBlock, LockInv, Outside, MakesBlock
  <2> QED BY <1>22, <1>a, <2>2, FreshByOne DEF StartCoreStep, StartSteps, HookLoads
<1>23. ASSUME NEW c \in StartCores, Dies(c) PROVE FreshInv'
  <2>1. StartTypeInv /\ LockInv(c) /\ BlockInv(c) /\ LifeInv(c) /\ LoadInv(c) /\ (Holds(c) => BlockIsHeld)
    BY <1>a DEF BlockIsHeld, Holds
  <2>2. KeepsBlock(c)
    BY <1>23, <2>1, DiesDoes DEF At, Loads, Holds, Maps, Makes, Virgin, Killed, Out, KeepsBlock
  <2> QED BY <1>23, <1>a, <2>2, FreshByOne DEF StartCoreStep, StartSteps, HookLoads
<1>24. ASSUME NEW c \in StartCores, ClosesHandles(c) PROVE FreshInv'
  <2>1. StartTypeInv /\ LockInv(c) /\ BlockInv(c) /\ LifeInv(c) /\ LoadInv(c) /\ (Holds(c) => BlockIsHeld)
    BY <1>a DEF BlockIsHeld, Holds
  <2>2. LetsBlockGo(c)
    BY <1>24, <2>1, ClosesHandlesDoes DEF At, Loads, Holds, Maps, Makes, Virgin, Killed, Out,
       LockInv, IsEnded, LetsBlockGo
  <2> QED BY <1>24, <1>a, <2>2, FreshByOne DEF StartCoreStep, StartSteps, HookLoads
<1>25. ASSUME NEW c \in StartCores, ReadsHeader(c) PROVE FreshInv'
  <2>1. StartTypeInv /\ LockInv(c) /\ BlockInv(c) /\ LifeInv(c) /\ LoadInv(c) /\ (Holds(c) => BlockIsHeld)
    BY <1>a DEF BlockIsHeld, Holds
  <2>2. KeepsBlock(c)
    BY <1>25, <2>1, ReadsHeaderDoes DEF At, Loads, Holds, Maps, Makes, Virgin, Killed,
       KeepsBlock
  <2> QED BY <1>25, <1>a, <2>2, FreshByOne DEF StartCoreStep, StartSteps, HookLoads
<1>26. ASSUME NEW c \in StartCores, ReadsPid(c) PROVE FreshInv'
  <2>1. StartTypeInv /\ LockInv(c) /\ BlockInv(c) /\ LifeInv(c) /\ LoadInv(c) /\ (Holds(c) => BlockIsHeld)
    BY <1>a DEF BlockIsHeld, Holds
  <2>2. KeepsBlock(c)
    BY <1>26, <2>1, ReadsPidDoes DEF At, Loads, Holds, Maps, Makes, Virgin, Killed, KeepsBlock
  <2> QED BY <1>26, <1>a, <2>2, FreshByOne DEF StartCoreStep, StartSteps, HookLoads
<1>27. ASSUME NEW c \in StartCores, Joins(c) PROVE FreshInv'
  <2>1. StartTypeInv /\ LockInv(c) /\ BlockInv(c) /\ LifeInv(c) /\ LoadInv(c) /\ (Holds(c) => BlockIsHeld)
    BY <1>a DEF BlockIsHeld, Holds
  <2>2. LetsBlockGo(c)
    BY <1>27, <2>1, JoinsDoes DEF At, Loads, Holds, Maps, Makes, Virgin, Killed, LetsBlockGo
  <2> QED BY <1>27, <1>a, <2>2, FreshByOne DEF StartCoreStep, StartSteps, HookLoads
<1>28. ASSUME NEW c \in StartCores, InstallFails(c) PROVE FreshInv'
  <2>1. StartTypeInv /\ LockInv(c) /\ BlockInv(c) /\ LifeInv(c) /\ LoadInv(c) /\ (Holds(c) => BlockIsHeld)
    BY <1>a DEF BlockIsHeld, Holds
  <2>2. LetsBlockGo(c)
    BY <1>28, <2>1, InstallFailsDoes DEF At, Loads, Holds, Maps, Makes, Virgin, Killed,
       LetsBlockGo
  <2> QED BY <1>28, <1>a, <2>2, FreshByOne DEF StartCoreStep, StartSteps, HookLoads
<1>29. ASSUME NEW c \in StartCores, Installs(c) PROVE FreshInv'
  <2>1. StartTypeInv /\ LockInv(c) /\ BlockInv(c) /\ LifeInv(c) /\ LoadInv(c) /\ (Holds(c) => BlockIsHeld)
    BY <1>a DEF BlockIsHeld, Holds
  <2>2. SignsBlock(c)
    <3>1. /\ apps[c].life = "suspended" /\ apps[c].joined # NoCore /\ UNCHANGED cores
          /\ apps'[c].life = apps[c].life /\ apps'[c].joined = apps[c].joined
          /\ block'.magic = block.magic
      BY <1>29, <2>1, InstallsDoes DEF Loads, LoadInv
    <3> QED BY <3>1 DEF Holds, Maps, Makes, Virgin, At, SignsBlock
  <2> QED BY <1>29, <1>a, <2>2, FreshByOne DEF StartCoreStep, StartSteps, HookLoads
<1>30. ASSUME NEW c \in StartCores, LoaderEndsTarget(c) PROVE FreshInv'
  <2>1. StartTypeInv /\ LockInv(c) /\ BlockInv(c) /\ LifeInv(c) /\ LoadInv(c) /\ (Holds(c) => BlockIsHeld)
    BY <1>a DEF BlockIsHeld, Holds
  <2>2. KeepsBlock(c)
    BY <1>30, <2>1, LoaderEndsTargetDoes DEF At, Loads, Holds, Maps, Makes, Virgin, Killed,
       KeepsBlock
  <2> QED BY <1>30, <1>a, <2>2, FreshByOne DEF StartCoreStep, StartSteps, HookLoads
<1>31. ASSUME NEW c \in StartCores, TargetEnds(c) PROVE FreshInv'
  <2>1. StartTypeInv /\ LockInv(c) /\ BlockInv(c) /\ LifeInv(c) /\ LoadInv(c) /\ (Holds(c) => BlockIsHeld)
    BY <1>a DEF BlockIsHeld, Holds
  <2>2. LetsBlockGo(c)
    BY <1>31, <2>1, TargetEndsDoes DEF At, Loads, Holds, Maps, Makes, Virgin, Killed, IsEnded,
       LetsBlockGo
  <2> QED BY <1>31, <1>a, <2>2, FreshByOne DEF StartCoreStep, StartSteps, HookLoads
<1> QED BY <1>1, <1>2, <1>3, <1>4, <1>5, <1>6, <1>7, <1>8, <1>9, <1>10, <1>11, <1>12, <1>13, <1>14,
     <1>15, <1>16, <1>17, <1>18, <1>19, <1>20, <1>21, <1>22, <1>23, <1>24, <1>25, <1>26, <1>27,
     <1>28, <1>29, <1>30, <1>31, StepOfOne
  DEF StartCoreStep, StartSteps, HookLoads

\* A target that is not resumed is ended on every way out.
LEMMA LifeStep ==
    ASSUME StartInv, [StartNext]_startVars, NEW d \in StartCores
    PROVE  LifeInv(d)'
<1>a. StartTypeInv /\ LifeInv(d) BY DEF StartInv
<1> USE <1>a, CoreNames DEF LifeInv
<1>1. CASE UNCHANGED startVars \/ LeftoverEnds BY <1>1 DEF startVars, LeftoverEnds, At
<1>2. ASSUME NEW c \in StartCores \ {d}, StartCoreStep(c) PROVE LifeInv(d)'
  BY <1>2, OthersStand DEF At
<1>3. CASE TakesLock(d) BY <1>3, TakesLockDoes DEF OnlyPc, Out, IsEnded, At, Nameless, Killed, Loads
<1>4. CASE OpensBlock(d)
  BY <1>4, OpensBlockDoes DEF OnlyPc, Out, IsEnded, At, Nameless, Killed, Loads
<1>5. CASE ExaminesBlock(d)
  BY <1>5, ExaminesBlockDoes DEF OnlyPc, Out, IsEnded, At, Nameless, Killed, Loads
<1>6. CASE ZeroesBlock(d)
  BY <1>6, ZeroesBlockDoes DEF OnlyPc, Out, IsEnded, At, Nameless, Killed, Loads
<1>7. CASE WritesHeader(d)
  BY <1>7, WritesHeaderDoes DEF OnlyPc, Out, IsEnded, At, Nameless, Killed, Loads
<1>8. CASE WritesAnchor(d)
  BY <1>8, WritesAnchorDoes DEF OnlyPc, Out, IsEnded, At, Nameless, Killed, Loads
<1>9. CASE WritesPid(d) BY <1>9, WritesPidDoes DEF OnlyPc, Out, IsEnded, At, Nameless, Killed, Loads
<1>10. CASE CreatesTarget(d)
  BY <1>10, CreatesTargetDoes DEF OnlyPc, Out, IsEnded, At, Nameless, Killed, Loads
<1>11. CASE CannotInject(d)
  BY <1>11, CannotInjectDoes DEF OnlyPc, Out, IsEnded, At, Nameless, Killed, Loads
<1>12. CASE BeginsLoad(d)
  BY <1>12, BeginsLoadDoes DEF OnlyPc, Out, IsEnded, At, Nameless, Killed, Loads
<1>13. CASE LoadWaits(d)
  BY <1>13, LoadWaitsDoes DEF OnlyPc, Out, IsEnded, At, Nameless, Killed, Loads
<1>14. CASE ReadsSignalled(d)
  BY <1>14, ReadsSignalledDoes DEF OnlyPc, Out, IsEnded, At, Nameless, Killed, Loads
<1>15. CASE ReadsOutcome(d)
  BY <1>15, ReadsOutcomeDoes DEF OnlyPc, Out, IsEnded, At, Nameless, Killed, Loads
<1>16. CASE FindsSlot(d)
  BY <1>16, FindsSlotDoes DEF OnlyPc, Out, IsEnded, At, Nameless, Killed, Loads
<1>17. CASE Resumes(d)
  <2>1. CASE apps[d].life = "suspended"
    BY <1>17, <2>1, ResumesDoes DEF OnlyPc, Out, At, Nameless, Killed
  <2>2. CASE apps[d].life # "suspended"
    BY <1>17, <2>2, ResumesDoes DEF OnlyPc, Out, At, Nameless, Killed
  <2> QED BY <2>1, <2>2
<1>18. CASE LetsGo(d) BY <1>18, LetsGoDoes DEF OnlyPc, Out, IsEnded, At, Nameless, Killed, Loads
<1>19. CASE DropsTarget(d)
  BY <1>19, DropsTargetDoes DEF OnlyPc, Out, IsEnded, At, Nameless, Killed, Loads
<1>20. CASE DropsView(d)
  BY <1>20, DropsViewDoes DEF OnlyPc, Out, IsEnded, At, Nameless, Killed, Loads
<1>21. CASE DropsLock(d)
  BY <1>21, DropsLockDoes DEF OnlyPc, Out, IsEnded, At, Nameless, Killed, Loads
<1>22. CASE MarksEnded(d)
  BY <1>22, MarksEndedDoes DEF OnlyPc, Out, IsEnded, At, Nameless, Killed, Loads
<1>23. CASE Dies(d) BY <1>23, DiesDoes DEF OnlyPc, Out, IsEnded, At, Nameless, Killed, Loads
<1>24. CASE ClosesHandles(d)
  BY <1>24, ClosesHandlesDoes DEF OnlyPc, Out, IsEnded, At, Nameless, Killed, Loads
<1>25. CASE ReadsHeader(d)
  BY <1>25, ReadsHeaderDoes DEF OnlyPc, Out, IsEnded, At, Nameless, Killed, Loads
<1>26. CASE ReadsPid(d) BY <1>26, ReadsPidDoes DEF OnlyPc, Out, IsEnded, At, Nameless, Killed, Loads
<1>27. CASE Joins(d) BY <1>27, JoinsDoes DEF OnlyPc, Out, IsEnded, At, Nameless, Killed, Loads
<1>28. CASE InstallFails(d)
  BY <1>28, InstallFailsDoes DEF OnlyPc, Out, IsEnded, At, Nameless, Killed, Loads
<1>29. CASE Installs(d) BY <1>29, InstallsDoes DEF OnlyPc, Out, IsEnded, At, Nameless, Killed, Loads
<1>30. CASE LoaderEndsTarget(d)
  BY <1>30, LoaderEndsTargetDoes DEF OnlyPc, Out, IsEnded, At, Nameless, Killed, Loads
<1>31. CASE TargetEnds(d)
  BY <1>31, TargetEndsDoes DEF OnlyPc, Out, IsEnded, At, Nameless, Killed, Loads
<1> QED BY <1>1, <1>2, <1>3, <1>4, <1>5, <1>6, <1>7, <1>8, <1>9, <1>10, <1>11, <1>12, <1>13, <1>14,
     <1>15, <1>16, <1>17, <1>18, <1>19, <1>20, <1>21, <1>22, <1>23, <1>24, <1>25, <1>26, <1>27,
     <1>28, <1>29, <1>30, <1>31, StepOfOne
  DEF StartCoreStep, StartSteps, HookLoads

\* Nothing is resumed but a target whose thread answered with the module.
LEMMA LoadStep ==
    ASSUME StartInv, [StartNext]_startVars, NEW d \in StartCores
    PROVE  LoadInv(d)'
<1>a. StartTypeInv /\ LifeInv(d) /\ LoadInv(d) BY DEF StartInv
<1> USE <1>a, CoreNames DEF LoadInv
<1>1. CASE UNCHANGED startVars \/ LeftoverEnds BY <1>1 DEF startVars, LeftoverEnds, At, Loads
<1>2. ASSUME NEW c \in StartCores \ {d}, StartCoreStep(c) PROVE LoadInv(d)'
  BY ZenonT(60), <1>2, OthersStand DEF At, Loads
<1>3. CASE TakesLock(d)
  BY <1>3, TakesLockDoes DEF OnlyPc, Out, IsEnded, At, Nameless, Killed, Loads, LifeInv,
     ThreadDone, ReadToTheEnd
<1>4. CASE OpensBlock(d)
  BY <1>4, OpensBlockDoes DEF OnlyPc, Out, IsEnded, At, Nameless, Killed, Loads, LifeInv,
     ThreadDone, ReadToTheEnd
<1>5. CASE ExaminesBlock(d)
  BY <1>5, ExaminesBlockDoes DEF OnlyPc, Out, IsEnded, At, Nameless, Killed, Loads, LifeInv,
     ThreadDone, ReadToTheEnd
<1>6. CASE ZeroesBlock(d)
  BY <1>6, ZeroesBlockDoes DEF OnlyPc, Out, IsEnded, At, Nameless, Killed, Loads, LifeInv,
     ThreadDone, ReadToTheEnd
<1>7. CASE WritesHeader(d)
  BY <1>7, WritesHeaderDoes DEF OnlyPc, Out, IsEnded, At, Nameless, Killed, Loads, LifeInv,
     ThreadDone, ReadToTheEnd
<1>8. CASE WritesAnchor(d)
  BY <1>8, WritesAnchorDoes DEF OnlyPc, Out, IsEnded, At, Nameless, Killed, Loads, LifeInv,
     ThreadDone, ReadToTheEnd
<1>9. CASE WritesPid(d)
  BY <1>9, WritesPidDoes DEF OnlyPc, Out, IsEnded, At, Nameless, Killed, Loads, LifeInv,
     ThreadDone, ReadToTheEnd
<1>10. CASE CreatesTarget(d)
  BY <1>10, CreatesTargetDoes DEF OnlyPc, Out, IsEnded, At, Nameless, Killed, Loads, LifeInv,
     ThreadDone, ReadToTheEnd
<1>11. CASE CannotInject(d)
  BY <1>11, CannotInjectDoes DEF OnlyPc, Out, IsEnded, At, Nameless, Killed, Loads, LifeInv,
     ThreadDone, ReadToTheEnd
<1>12. CASE BeginsLoad(d)
  BY <1>12, BeginsLoadDoes DEF OnlyPc, Out, IsEnded, At, Nameless, Killed, Loads, LifeInv,
     ThreadDone, ReadToTheEnd
<1>13. CASE LoadWaits(d)
  BY <1>13, LoadWaitsDoes DEF OnlyPc, Out, IsEnded, At, Nameless, Killed, Loads, LifeInv,
     ThreadDone, ReadToTheEnd
<1>14. CASE ReadsSignalled(d)
  BY <1>14, ReadsSignalledDoes DEF OnlyPc, Out, IsEnded, At, Nameless, Killed, Loads, LifeInv,
     ThreadDone, ReadToTheEnd
<1>15. CASE ReadsOutcome(d)
  BY <1>15, ReadsOutcomeDoes DEF OnlyPc, Out, IsEnded, At, Nameless, Killed, Loads, LifeInv,
     ThreadDone, ReadToTheEnd
<1>16. CASE FindsSlot(d)
  BY <1>16, FindsSlotDoes DEF OnlyPc, Out, IsEnded, At, Nameless, Killed, Loads, LifeInv,
     ThreadDone, ReadToTheEnd
<1>17. CASE Resumes(d)
  BY <1>17, ResumesDoes DEF OnlyPc, Out, IsEnded, At, Nameless, Killed, Loads, LifeInv,
     ThreadDone, ReadToTheEnd
<1>18. CASE LetsGo(d)
  BY <1>18, LetsGoDoes DEF OnlyPc, Out, IsEnded, At, Nameless, Killed, Loads, LifeInv, ThreadDone,
     ReadToTheEnd
<1>19. CASE DropsTarget(d)
  BY <1>19, DropsTargetDoes DEF OnlyPc, Out, IsEnded, At, Nameless, Killed, Loads, LifeInv,
     ThreadDone, ReadToTheEnd
<1>20. CASE DropsView(d)
  BY <1>20, DropsViewDoes DEF OnlyPc, Out, IsEnded, At, Nameless, Killed, Loads, LifeInv,
     ThreadDone, ReadToTheEnd
<1>21. CASE DropsLock(d)
  BY <1>21, DropsLockDoes DEF OnlyPc, Out, IsEnded, At, Nameless, Killed, Loads, LifeInv,
     ThreadDone, ReadToTheEnd
<1>22. CASE MarksEnded(d)
  BY <1>22, MarksEndedDoes DEF OnlyPc, Out, IsEnded, At, Nameless, Killed, Loads, LifeInv,
     ThreadDone, ReadToTheEnd
<1>23. CASE Dies(d)
  BY <1>23, DiesDoes DEF OnlyPc, Out, IsEnded, At, Nameless, Killed, Loads, LifeInv, ThreadDone,
     ReadToTheEnd
<1>24. CASE ClosesHandles(d)
  BY <1>24, ClosesHandlesDoes DEF OnlyPc, Out, IsEnded, At, Nameless, Killed, Loads, LifeInv,
     ThreadDone, ReadToTheEnd
<1>25. CASE ReadsHeader(d)
  BY <1>25, ReadsHeaderDoes DEF OnlyPc, Out, IsEnded, At, Nameless, Killed, Loads, LifeInv,
     ThreadDone, ReadToTheEnd
<1>26. CASE ReadsPid(d)
  BY <1>26, ReadsPidDoes DEF OnlyPc, Out, IsEnded, At, Nameless, Killed, Loads, LifeInv,
     ThreadDone, ReadToTheEnd
<1>27. CASE Joins(d)
  BY ZenonT(60), <1>27, JoinsDoes DEF OnlyPc, Out, IsEnded, At, Nameless, Killed, Loads, LifeInv, ThreadDone,
     ReadToTheEnd
<1>28. CASE InstallFails(d)
  BY <1>28, InstallFailsDoes DEF OnlyPc, Out, IsEnded, At, Nameless, Killed, Loads, LifeInv,
     ThreadDone, ReadToTheEnd
<1>29. CASE Installs(d)
  BY <1>29, InstallsDoes DEF OnlyPc, Out, IsEnded, At, Nameless, Killed, Loads, LifeInv,
     ThreadDone, ReadToTheEnd
<1>30. CASE LoaderEndsTarget(d)
  BY <1>30, LoaderEndsTargetDoes DEF OnlyPc, Out, IsEnded, At, Nameless, Killed, Loads, LifeInv,
     ThreadDone, ReadToTheEnd
<1>31. CASE TargetEnds(d)
  BY <1>31, TargetEndsDoes DEF OnlyPc, Out, IsEnded, At, Nameless, Killed, Loads, LifeInv,
     ThreadDone, ReadToTheEnd
<1> QED BY <1>1, <1>2, <1>3, <1>4, <1>5, <1>6, <1>7, <1>8, <1>9, <1>10, <1>11, <1>12, <1>13, <1>14,
     <1>15, <1>16, <1>17, <1>18, <1>19, <1>20, <1>21, <1>22, <1>23, <1>24, <1>25, <1>26, <1>27,
     <1>28, <1>29, <1>30, <1>31, StepOfOne
  DEF StartCoreStep, StartSteps, HookLoads

\* What the core says of its target.
LEMMA NoteStep ==
    ASSUME StartInv, [StartNext]_startVars, NEW d \in StartCores
    PROVE  NoteInv(d)'
<1>a. StartTypeInv /\ LifeInv(d) /\ NoteInv(d) /\ BlockInv(d) BY DEF StartInv
<1> USE <1>a, CoreNames DEF NoteInv
<1>1. CASE UNCHANGED startVars \/ LeftoverEnds BY <1>1 DEF startVars, LeftoverEnds, At
<1>2. ASSUME NEW c \in StartCores \ {d}, StartCoreStep(c) PROVE NoteInv(d)'
  BY <1>2, OthersStand DEF At
<1>3. CASE TakesLock(d)
  BY <1>3, TakesLockDoes DEF OnlyPc, Out, IsEnded, At, Nameless, Killed, Loads, LifeInv, BlockInv
<1>4. CASE OpensBlock(d)
  BY <1>4, OpensBlockDoes DEF OnlyPc, Out, IsEnded, At, Nameless, Killed, Loads, LifeInv, BlockInv
<1>5. CASE ExaminesBlock(d)
  BY <1>5, ExaminesBlockDoes DEF OnlyPc, Out, IsEnded, At, Nameless, Killed, Loads, LifeInv,
     BlockInv
<1>6. CASE ZeroesBlock(d)
  BY <1>6, ZeroesBlockDoes DEF OnlyPc, Out, IsEnded, At, Nameless, Killed, Loads, LifeInv,
     BlockInv
<1>7. CASE WritesHeader(d)
  BY <1>7, WritesHeaderDoes DEF OnlyPc, Out, IsEnded, At, Nameless, Killed, Loads, LifeInv,
     BlockInv
<1>8. CASE WritesAnchor(d)
  BY <1>8, WritesAnchorDoes DEF OnlyPc, Out, IsEnded, At, Nameless, Killed, Loads, LifeInv,
     BlockInv
<1>9. CASE WritesPid(d)
  BY <1>9, WritesPidDoes DEF OnlyPc, Out, IsEnded, At, Nameless, Killed, Loads, LifeInv, BlockInv
<1>10. CASE CreatesTarget(d)
  BY <1>10, CreatesTargetDoes DEF OnlyPc, Out, IsEnded, At, Nameless, Killed, Loads, LifeInv,
     BlockInv
<1>11. CASE CannotInject(d)
  BY <1>11, CannotInjectDoes DEF OnlyPc, Out, IsEnded, At, Nameless, Killed, Loads, LifeInv,
     BlockInv
<1>12. CASE BeginsLoad(d)
  BY <1>12, BeginsLoadDoes DEF OnlyPc, Out, IsEnded, At, Nameless, Killed, Loads, LifeInv,
     BlockInv
<1>13. CASE LoadWaits(d)
  BY <1>13, LoadWaitsDoes DEF OnlyPc, Out, IsEnded, At, Nameless, Killed, Loads, LifeInv, BlockInv
<1>14. CASE ReadsSignalled(d)
  BY <1>14, ReadsSignalledDoes DEF OnlyPc, Out, IsEnded, At, Nameless, Killed, Loads, LifeInv,
     BlockInv
<1>15. CASE ReadsOutcome(d)
  BY <1>15, ReadsOutcomeDoes DEF OnlyPc, Out, IsEnded, At, Nameless, Killed, Loads, LifeInv,
     BlockInv
<1>16. CASE FindsSlot(d)
  BY <1>16, FindsSlotDoes DEF OnlyPc, Out, IsEnded, At, Nameless, Killed, Loads, LifeInv, BlockInv
<1>17. CASE Resumes(d)
  BY <1>17, ResumesDoes DEF OnlyPc, Out, IsEnded, At, Nameless, Killed, Loads, LifeInv, BlockInv
<1>18. CASE LetsGo(d)
  BY <1>18, LetsGoDoes DEF OnlyPc, Out, IsEnded, At, Nameless, Killed, Loads, LifeInv, BlockInv
<1>19. CASE DropsTarget(d)
  BY <1>19, DropsTargetDoes DEF OnlyPc, Out, IsEnded, At, Nameless, Killed, Loads, LifeInv,
     BlockInv
<1>20. CASE DropsView(d)
  BY <1>20, DropsViewDoes DEF OnlyPc, Out, IsEnded, At, Nameless, Killed, Loads, LifeInv, BlockInv
<1>21. CASE DropsLock(d)
  BY <1>21, DropsLockDoes DEF OnlyPc, Out, IsEnded, At, Nameless, Killed, Loads, LifeInv, BlockInv
<1>22. CASE MarksEnded(d)
  BY <1>22, MarksEndedDoes DEF OnlyPc, Out, IsEnded, At, Nameless, Killed, Loads, LifeInv,
     BlockInv
<1>23. CASE Dies(d)
  BY <1>23, DiesDoes DEF OnlyPc, Out, IsEnded, At, Nameless, Killed, Loads, LifeInv, BlockInv
<1>24. CASE ClosesHandles(d)
  BY <1>24, ClosesHandlesDoes DEF OnlyPc, Out, IsEnded, At, Nameless, Killed, Loads, LifeInv,
     BlockInv
<1>25. CASE ReadsHeader(d)
  BY <1>25, ReadsHeaderDoes DEF OnlyPc, Out, IsEnded, At, Nameless, Killed, Loads, LifeInv,
     BlockInv
<1>26. CASE ReadsPid(d)
  BY <1>26, ReadsPidDoes DEF OnlyPc, Out, IsEnded, At, Nameless, Killed, Loads, LifeInv, BlockInv
<1>27. CASE Joins(d)
  BY <1>27, JoinsDoes DEF OnlyPc, Out, IsEnded, At, Nameless, Killed, Loads, LifeInv, BlockInv
<1>28. CASE InstallFails(d)
  BY <1>28, InstallFailsDoes DEF OnlyPc, Out, IsEnded, At, Nameless, Killed, Loads, LifeInv,
     BlockInv
<1>29. CASE Installs(d)
  BY <1>29, InstallsDoes DEF OnlyPc, Out, IsEnded, At, Nameless, Killed, Loads, LifeInv, BlockInv
<1>30. CASE LoaderEndsTarget(d)
  BY <1>30, LoaderEndsTargetDoes DEF OnlyPc, Out, IsEnded, At, Nameless, Killed, Loads, LifeInv,
     BlockInv
<1>31. CASE TargetEnds(d)
  BY <1>31, TargetEndsDoes DEF OnlyPc, Out, IsEnded, At, Nameless, Killed, Loads, LifeInv,
     BlockInv
<1> QED BY <1>1, <1>2, <1>3, <1>4, <1>5, <1>6, <1>7, <1>8, <1>9, <1>10, <1>11, <1>12, <1>13, <1>14,
     <1>15, <1>16, <1>17, <1>18, <1>19, <1>20, <1>21, <1>22, <1>23, <1>24, <1>25, <1>26, <1>27,
     <1>28, <1>29, <1>30, <1>31, StepOfOne
  DEF StartCoreStep, StartSteps, HookLoads

\* The pid the library reads in the block is its own core's.
LEMMA JoinStep ==
    ASSUME StartInv, [StartNext]_startVars, NEW d \in StartCores
    PROVE  JoinInv(d)'
<1>a. StartTypeInv /\ JoinInv(d) /\ BlockInv(d) /\ LifeInv(d) BY DEF StartInv
<1> USE <1>a, CoreNames DEF JoinInv, Killed, OnlyPc, Out, IsEnded, At, Loads
<1>1. CASE UNCHANGED startVars \/ LeftoverEnds BY <1>1 DEF startVars, LeftoverEnds
<1>2. ASSUME NEW c \in StartCores \ {d}, StartCoreStep(c) PROVE JoinInv(d)' BY <1>2, OthersStand
<1>3. CASE TakesLock(d) BY <1>3, TakesLockDoes
<1>4. CASE OpensBlock(d) BY <1>4, OpensBlockDoes
<1>5. CASE ExaminesBlock(d) BY <1>5, ExaminesBlockDoes
<1>6. CASE ZeroesBlock(d) BY <1>6, ZeroesBlockDoes
<1>7. CASE WritesHeader(d) BY <1>7, WritesHeaderDoes
<1>8. CASE WritesAnchor(d) BY <1>8, WritesAnchorDoes
<1>9. CASE WritesPid(d) BY <1>9, WritesPidDoes
<1>10. CASE CreatesTarget(d) BY <1>10, CreatesTargetDoes DEF Killed
<1>11. CASE CannotInject(d) BY <1>11, CannotInjectDoes
<1>12. CASE BeginsLoad(d) BY <1>12, BeginsLoadDoes
<1>13. CASE LoadWaits(d) BY <1>13, LoadWaitsDoes
<1>14. CASE ReadsSignalled(d) BY <1>14, ReadsSignalledDoes
<1>15. CASE ReadsOutcome(d) BY <1>15, ReadsOutcomeDoes
<1>16. CASE FindsSlot(d) BY <1>16, FindsSlotDoes
<1>17. CASE Resumes(d) BY <1>17, ResumesDoes
<1>18. CASE LetsGo(d) BY <1>18, LetsGoDoes
<1>19. CASE DropsTarget(d) BY <1>19, DropsTargetDoes
<1>20. CASE DropsView(d) BY <1>20, DropsViewDoes
<1>21. CASE DropsLock(d) BY <1>21, DropsLockDoes
<1>22. CASE MarksEnded(d) BY <1>22, MarksEndedDoes
<1>23. CASE Dies(d) BY <1>23, DiesDoes
<1>24. CASE ClosesHandles(d) BY <1>24, ClosesHandlesDoes
<1>25. CASE ReadsHeader(d) BY <1>25, ReadsHeaderDoes
<1>26. CASE ReadsPid(d) BY <1>26, ReadsPidDoes DEF LifeInv, BlockInv, HasStarted, HasBlock, Killed
<1>27. CASE Joins(d) BY <1>27, JoinsDoes
<1>28. CASE InstallFails(d) BY <1>28, InstallFailsDoes
<1>29. CASE Installs(d) BY <1>29, InstallsDoes
<1>30. CASE LoaderEndsTarget(d) BY <1>30, LoaderEndsTargetDoes
<1>31. CASE TargetEnds(d) BY <1>31, TargetEndsDoes
<1> QED BY <1>1, <1>2, <1>3, <1>4, <1>5, <1>6, <1>7, <1>8, <1>9, <1>10, <1>11, <1>12, <1>13, <1>14,
     <1>15, <1>16, <1>17, <1>18, <1>19, <1>20, <1>21, <1>22, <1>23, <1>24, <1>25, <1>26, <1>27,
     <1>28, <1>29, <1>30, <1>31, StepOfOne
  DEF StartCoreStep, StartSteps, HookLoads

-----------------------------------------------------------------------------
(* The invariant holds at the start, after every step, and is enough.      *)

LEMMA StartInvInit == StartInit => StartInv
<1> SUFFICES ASSUME StartInit PROVE StartInv OBVIOUS
<1>1. StartTypeInv BY TypeInit
<1>2. /\ \A c \in StartCores : cores[c] = NewCore /\ apps[c] = NewApp
      /\ lockOwner = NoCore
      /\ leftover => block.magic # "zero" /\ block.pid = Earlier /\ block.members = {}
      /\ ~leftover => block = Blank
  BY DEF StartInit, Written, Blank
<1>3. BlockIsHeld <=> leftover BY <1>2 DEF BlockIsHeld, Maps, NewCore, NewApp
<1>4. FreshInv BY <1>2, <1>3 DEF FreshInv
<1>5. block.pid \in {NoCore, Earlier} /\ block.members = {} BY <1>2 DEF Blank
<1> SUFFICES ASSUME NEW c \in StartCores
             PROVE  /\ LockInv(c) /\ BlockInv(c) /\ RefusedInv(c) /\ BeforeInv(c)
                    /\ LifeInv(c) /\ LoadInv(c) /\ NoteInv(c) /\ JoinInv(c)
  BY <1>1, <1>4 DEF StartInv
<1>6. cores[c] = NewCore /\ apps[c] = NewApp BY <1>2
<1>7. LockInv(c) /\ RefusedInv(c) /\ BeforeInv(c)
  BY <1>6 DEF LockInv, RefusedInv, BeforeInv, NewCore, Outside, Killed
<1>8. BlockInv(c)
  <2>1. cores[c].pc = "new" /\ block.pid # c /\ c \notin block.members
    BY <1>5, <1>6, CoreNames DEF NewCore
  <2> QED BY <2>1 DEF BlockInv, Virgin, HasStarted, HasBlock, At
<1>9. LifeInv(c) /\ LoadInv(c) /\ NoteInv(c) /\ JoinInv(c)
  BY <1>6 DEF LifeInv, LoadInv, NoteInv, JoinInv, NewCore, NewApp, Nameless, Killed, At, Loads
<1> QED BY <1>7, <1>8, <1>9

LEMMA StartInvStep == StartInv /\ [StartNext]_startVars => StartInv'
<1> SUFFICES ASSUME StartInv, [StartNext]_startVars PROVE StartInv' OBVIOUS
<1>1. StartTypeInv' BY TypeStep DEF StartInv
<1>2. FreshInv' BY FreshStep
<1>3. ASSUME NEW c \in StartCores
      PROVE  /\ LockInv(c)' /\ BlockInv(c)' /\ RefusedInv(c)' /\ BeforeInv(c)'
             /\ LifeInv(c)' /\ LoadInv(c)' /\ NoteInv(c)' /\ JoinInv(c)'
  BY LockStep, BlockStep, RefusedStep, BeforeStep, LifeStep, LoadStep, NoteStep, JoinStep
<1> QED BY <1>1, <1>2, <1>3 DEF StartInv

LEMMA StartInvIsEnough == StartInv => StartIsSound
<1> SUFFICES ASSUME StartInv PROVE StartIsSound OBVIOUS
<1>a. /\ StartTypeInv
      /\ \A c \in StartCores : /\ LockInv(c) /\ BlockInv(c) /\ RefusedInv(c) /\ BeforeInv(c)
                              /\ LifeInv(c) /\ LoadInv(c) /\ NoteInv(c) /\ JoinInv(c)
  BY DEF StartInv
<1>1. StartTypeOK BY <1>a DEF StartTypeOK, StartTypeInv, Blocks, Cores, Apps
<1>2. LiveBlockIsUntouched BY <1>a DEF LiveBlockIsUntouched, BlockInv, HasStarted
<1>3. NoneRunsUnhooked /\ PageOutlivesItsReader
  BY <1>a DEF NoneRunsUnhooked, PageOutlivesItsReader, LoadInv, NoteInv
<1>4. NobodyIsLeftSuspended BY <1>a DEF NobodyIsLeftSuspended, LifeInv, Gone, Killed, At
<1>5. OutlivesItsCore BY <1>a DEF OutlivesItsCore, NoteInv
<1>6. TakeoverIsTrue
  <2>1. ASSUME NEW c \in StartCores, cores[c].reclaimed # "nothing", cores[c].before \in StartCores
        PROVE  cores[cores[c].before].marked = (cores[c].reclaimed = "ended")
    BY <1>a, <2>1 DEF BeforeInv
  <2>2. ASSUME NEW c \in StartCores, At(c, "drop target"), cores[c].refused, block.magic # "foreign"
        PROVE  \E d \in StartCores \ {c} : cores[d].pc \in {"dying", "dead"}
    BY <1>a, <2>2 DEF RefusedInv, Killed, At
  <2> QED BY <2>1, <2>2 DEF TakeoverIsTrue
<1>7. JoinsItsOwn BY <1>a DEF JoinsItsOwn, JoinInv, Killed
<1> QED BY <1>1, <1>2, <1>3, <1>4, <1>5, <1>6, <1>7 DEF StartIsSound

\* However many cores start on the desktop, at whatever step one fails or is killed and whatever
\* an earlier session left there: a live session's block is nobody else's, its target runs only
\* with the hook in it, nobody is left suspended but a target started outside a job under a core
\* that was killed, and the takeover of a block is told as it was (`prepare` and its guards).
THEOREM StartSound == StartSpec => []StartIsSound
<1>1. StartSpec => []StartInv BY StartInvInit, StartInvStep, PTL DEF StartSpec
<1> QED BY <1>1, StartInvIsEnough, PTL
=============================================================================
