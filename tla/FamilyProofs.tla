---------------------------- MODULE FamilyProofs ----------------------------
(***************************************************************************)
(* The family of a session, and of a refused one, for every family, every  *)
(* registry and every order of their steps: that the children nobody       *)
(* followed are counted as they are, that no look forgets a process of the *)
(* session, and that a search ends nobody but the application.             *)
(*                                                                         *)
(* The tree by itself comes first (TreeInv: who claimed which slot, which  *)
(* numbers are had by the living, what each parent has accounted for),     *)
(* then what the core has learnt of it in its look (FamilyInv).  A step of *)
(* the tree is told to the core's part by TreeMoves, what such a step may  *)
(* change under a look.  The search of a refused family stands by itself   *)
(* (EndInv).                                                               *)
(***************************************************************************)
EXTENDS MCFamilyEnds, TLAPS, FiniteSetTheorems, WellFoundedInduction

-----------------------------------------------------------------------------
(* A session and its family: the inductive invariant.                      *)

Reserved == {c \in Family : hook[c] \in {"installing", "failed", "full", "signed"}}

\* What its owner wrote into a slot.
Signature(c) == [pid |-> pid[c], created |-> IF c \in Timeless THEN "unknown" ELSE c]

\* Every claim was made once, and a slot is what its one owner wrote, or empty.
ClaimsInv ==
    /\ claims = Cardinality(Reserved)
    /\ slot[Root] = 1 /\ hook[Root] = "signed"
    /\ \A c \in Family :
        /\ slot[c] # NoOne => c \in Reserved /\ slot[c] <= claims /\ hook[c] # "full"
        /\ c \in Reserved /\ slot[c] = NoOne => claims > MaxSlots /\ hook[c] # "signed"
        /\ hook[c] = "signed" => slots[slot[c]] = Signature(c)
    /\ \A c, d \in Family : slot[c] = slot[d] /\ slot[c] # NoOne => c = d
    /\ \A i \in 1..MaxSlots : slots[i] = Empty \/ \E c \in Family : slot[c] = i /\ hook[c] = "signed"

\* A number is had by one living process at a time, and a child that runs is out of its call.
LivesInv ==
    /\ \A p \in Everybody : life[p] = "unborn" <=> pid[p] = NoOne
    /\ \A p, q \in Everybody : Alive(p) /\ Alive(q) /\ pid[p] = pid[q] => p = q
    /\ \A c \in Family :
        /\ life[c] = "unborn" <=> call[c] = "none"
        /\ call[c] = "none" => hook[c] = "none"
        /\ life[c] = "running" => call[c] = "over"
        /\ parent[c] \in Family => hook[parent[c]] \in {"signed", "full"}
        /\ c # Root /\ life[c] # "unborn" => parent[c] \in Family
    /\ parent[Root] = "outside"

\* What the parent of a child that is out of its load has made of it.
AccountsInv ==
    \A c \in Family :
        /\ c \in counted => /\ call[c] \in {"accounted", "over"}
                            /\ c \in Slow \/ hook[c] \in {"not_begun", "refused", "failed", "full"}
        /\ call[c] \in {"accounted", "over"} /\ Alive(c) /\ c \notin counted =>
            /\ hook[c] # "signed" => claims > MaxSlots \/ Mistakable(c)
            /\ hook[c] \in {"loading", "installing"} => slot[parent[c]] = NoOne

TreeInv == TypeOK /\ ClaimsInv /\ LivesInv /\ AccountsInv

\* The owner of a slot, signed in.
Owns(c, i) == c \in Family /\ slot[c] = i /\ hook[c] = "signed"

\* Why the core does not watch a member that lives.
Excused(c) ==
    \/ watch[slot[c]] = "denied" /\ c \in Closed
    \/ /\ watch[slot[c]] = "turned_away" /\ c \in Timeless \cup WaitOnly
       /\ c \in Adopted \/ parent[c] # Root

\* What the core made of each slot.
WatchInv ==
    /\ \A i \in Slots : watch[i] # "unseen" => slots[i].pid # NoOne
    /\ \A c \in Family \ {Root} :
        hook[c] = "signed" /\ Alive(c) => watch[slot[c]] \in {"unseen", c} \/ Excused(c)

\* The look that is under way.
InLook == core.pc \in {"scan", "open", "wait"}
LookInv ==
    /\ core.pc = "scan" => core.at \in Slots
    /\ \A i \in core.seen : slots[i].pid # NoOne
    /\ before \subseteq Signed
    /\ InLook => \A p \in before : (core.pc = "scan" => slot[p] < core.at) => slot[p] \in core.seen
    /\ core.pc = "wait" => \A i \in core.seen \ {RootSlot} : watch[i] # "unseen"
    /\ core.opened # {} => core.pc = "open"
    /\ \A m \in core.opened :
        /\ m.slot \in core.seen \ {RootSlot} /\ watch[m.slot] = "unseen" /\ m.id = Identity(m.slot, m.proc)
        /\ \A c \in Family : Owns(c, m.slot) /\ Alive(c) => m.proc = c
    /\ \A l, m \in core.opened : l.slot = m.slot => l = m

\* A look of the heartbeat that found the launched process gone, and the end it decides on.
FoundGone == core.for = "beat" /\ ((InLook /\ ~core.launched) \/ core.pc = "close")
BeatInv ==
    /\ FoundGone => /\ ~Alive(Root)
                    /\ \A p \in Family : parent[p] = Root /\ Followed(p) => p \in before
    /\ Ending => \A p \in before \ {Root} : watch[slot[p]] # "unseen" /\ watch[slot[p]] \notin Everybody

\* What is still to be asked of once the session has been folded.
Closing == core.pc \in {"last_look", "left", "left_pids"} \/ (InLook /\ core.for = "close")
CloseInv ==
    /\ Closing => \A p \in before : Alive(p) => pid[p] \in asked
    /\ core.pc = "left_pids" => ~Alive(Root)
    /\ core.pc = "over" /\ ~left => \A p \in before \cup {Root} : ~Alive(p)

FamilyInv == TreeInv /\ FamilyTypeOK /\ WatchInv /\ LookInv /\ BeatInv /\ CloseInv
LEMMA LeastIs ==
    ASSUME NEW S \in SUBSET Nat, S # {}
    PROVE  Min(S) \in S /\ \A y \in S : Min(S) <= y
<1> DEFINE R == OpToRel(<, Nat)
<1>1. IsWellFoundedOn(R, Nat) BY NatLessThanWellFounded
<1>2. \E x \in S : \A y \in S : ~(<<y, x>> \in R)
  <2> HIDE DEF R
  <2> QED BY <1>1, WFMin
<1>3. \A x, y \in Nat : y < x => <<y, x>> \in R BY DEF OpToRel
<1>4. PICK x \in S : \A y \in S : ~(<<y, x>> \in R) BY <1>2
<1>5. \A y \in S : y \in Nat /\ x \in Nat /\ ~(y < x)
  <2> HIDE DEF R
  <2> QED BY <1>3, <1>4
<1>6. \A y \in S : x <= y BY <1>5
<1> QED BY <1>6 DEF Min

-----------------------------------------------------------------------------
(* The registry and the family in it.                                      *)

LEMMA SlotsAre ==
    ASSUME TypeOK
    PROVE  /\ MaxSlots \in Nat \ {0} /\ DOMAIN slots = 1..MaxSlots /\ 1 \in 1..MaxSlots
           /\ \A c \in Family : c \in Everybody
           /\ Root \in Family /\ Root \in Everybody
<1>1. MaxSlots \in Nat \ {0} BY InheritanceAssumption DEF TypeOK
<1>2. DOMAIN slots = 1..MaxSlots BY DEF TypeOK
<1> QED BY <1>1, <1>2, InheritanceAssumption DEF Everybody

LEMMA TreeStarts == Init => TreeInv
<1> SUFFICES ASSUME Init PROVE TreeInv OBVIOUS
<1> USE DEF NoOne
<1>0. /\ Root \in Family /\ Family \subseteq Everybody /\ IsFiniteSet(Family) /\ NoOne \notin Pids /\ Registries \subseteq Nat \ {0}
      /\ "outside" \notin Everybody /\ "unknown" \notin Everybody
  BY InheritanceAssumption DEF Everybody
<1>1. PICK number \in Pids, size \in Registries :
        /\ pid = [p \in Everybody |-> IF p = Root THEN number ELSE NoOne]
        /\ slots = [i \in 1..size |-> IF i = 1 THEN [pid |-> number, created |-> Root] ELSE Empty]
  BY DEF Init
<1>2. MaxSlots = size /\ size \in Nat \ {0} /\ DOMAIN slots = 1..size /\ 1 \in 1..size
  <2>1. size \in Nat \ {0} /\ DOMAIN slots = 1..size BY <1>0, <1>1
  <2>2. Cardinality(1..size) = size BY <2>1, FS_Interval
  <2> QED BY <2>1, <2>2 DEF MaxSlots
<1>3. Cardinality(Family) \in Nat /\ Cardinality(Family) >= 1
  <2>1. Cardinality(Family) \in Nat /\ Family # {} BY <1>0, FS_CardinalityType
  <2> QED BY <1>0, <2>1, FS_EmptySet
<1>4. /\ life = [p \in Everybody |-> IF p = Root THEN "running" ELSE "unborn"]
      /\ parent = [p \in Everybody |-> "outside"]
      /\ call = [p \in Family |-> IF p = Root THEN "over" ELSE "none"]
      /\ hook = [p \in Family |-> IF p = Root THEN "signed" ELSE "none"]
      /\ slot = [p \in Family |-> IF p = Root THEN 1 ELSE NoOne]
      /\ claims = 1 /\ counted = {} /\ held = {Root}
  BY DEF Init
<1>5. TypeOK
  <2>1. slots \in [1..MaxSlots -> [pid : Pids \cup {NoOne}, created : Creations]]
    BY <1>0, <1>1, <1>2 DEF Empty, Creations
  <2>2. slot \in [Family -> 0..MaxSlots] /\ MaxSlots \in Registries BY <1>2, <1>4
  <2>3. claims \in 1..Cardinality(Family) BY <1>3, <1>4
  <2> QED BY <1>0, <1>1, <1>4, <2>1, <2>2, <2>3 DEF TypeOK
<1>6. ClaimsInv
  <2>1. Reserved = {Root} BY <1>0, <1>4 DEF Reserved
  <2>2. claims = Cardinality(Reserved) BY <1>4, <2>1, FS_Singleton
  <2>3. slots[1] = Signature(Root) BY <1>0, <1>1, <1>2, InheritanceAssumption DEF Signature
  <2>4. \A c \in Family : slot[c] # NoOne => c = Root BY <1>4
  <2>5. \A i \in 1..MaxSlots : slots[i] = Empty \/ (slot[Root] = i /\ hook[Root] = "signed")
    BY <1>0, <1>1, <1>2, <1>4
  <2>6. slot[Root] = 1 /\ hook[Root] = "signed" /\ \A c \in Family \ {Root} : hook[c] = "none"
    BY <1>0, <1>4
  <2> QED BY <1>0, <1>4, <2>1, <2>2, <2>3, <2>4, <2>5, <2>6 DEF ClaimsInv
<1>7. LivesInv BY <1>0, <1>1, <1>4 DEF LivesInv, Alive
<1>8. AccountsInv BY <1>0, <1>4 DEF AccountsInv, Alive
<1> QED BY <1>5, <1>6, <1>7, <1>8 DEF TreeInv

\* What a step of the tree does that the core can see: nobody comes back, no number and no slot
\* changes, a slot is written once, and the launched process starts nothing once it has ended.
TreeMoves ==
    /\ MaxSlots' = MaxSlots
    /\ \A p \in Everybody : pid[p] # NoOne => pid'[p] = pid[p] /\ (Alive(p)' => Alive(p))
    /\ \A c \in Family :
        /\ life[c] # "unborn" => parent'[c] = parent[c]
        /\ hook[c] = "signed" => hook'[c] = "signed" /\ slot'[c] = slot[c]
        /\ hook'[c] = "signed" /\ hook[c] # "signed" => slots[slot'[c]] = Empty
    /\ \A i \in 1..MaxSlots : slots[i] # Empty => slots'[i] = slots[i]
    /\ ~Alive(Root) => \A c \in Family : parent'[c] = Root /\ hook'[c] = "signed" /\ life'[c] = "running" /\ c \notin counted' =>
                            parent[c] = Root /\ hook[c] = "signed" /\ life[c] = "running" /\ c \notin counted

LEMMA Starting ==
    ASSUME TreeInv, NEW p \in Family, NEW c \in Family \ {Root}, NEW number \in Pids, Start(p, c, number)
    PROVE  TreeInv' /\ TreeMoves
<1> USE DEF TreeInv
<1>0. /\ c \in Everybody /\ p \in Everybody /\ c # Root /\ number # NoOne
      /\ \A d \in Family : d \in Everybody
  BY SlotsAre, InheritanceAssumption
<1>1. PICK begun \in {"loading", "not_begun"} : hook' = [hook EXCEPT ![c] = begun] BY DEF Start
<1>2. /\ life[p] = "running" /\ hook[p] \in {"signed", "full"} /\ life[c] = "unborn" /\ Free(number)
      /\ life' = [life EXCEPT ![c] = "suspended"]
      /\ pid' = [pid EXCEPT ![c] = number]
      /\ parent' = [parent EXCEPT ![c] = p]
      /\ call' = [call EXCEPT ![c] = "loading"]
      /\ slot' = slot /\ slots' = slots /\ claims' = claims /\ counted' = counted /\ held' = held
  BY DEF Start
<1>3. pid[c] = NoOne /\ call[c] = "none" /\ hook[c] = "none" /\ p # c BY <1>0, <1>2 DEF LivesInv
<1>4. /\ life'[c] = "suspended" /\ pid'[c] = number /\ parent'[c] = p /\ call'[c] = "loading" /\ hook'[c] \in {"loading", "not_begun"}
      /\ \A q \in Everybody \ {c} : life'[q] = life[q] /\ pid'[q] = pid[q] /\ parent'[q] = parent[q]
      /\ \A q \in Family \ {c} : call'[q] = call[q] /\ hook'[q] = hook[q]
  BY <1>0, <1>1, <1>2 DEF TypeOK
<1>5. MaxSlots' = MaxSlots BY <1>2 DEF MaxSlots
<1>6. TypeOK' BY <1>0, <1>1, <1>2, <1>5 DEF TypeOK, Creations
<1>7. \A q \in Everybody : Alive(q)' <=> (q = c \/ Alive(q)) BY <1>4 DEF Alive
<1>8. ClaimsInv'
  <2>1. Reserved' = Reserved BY <1>1, <1>3, <1>4 DEF Reserved
  <2>2. \A d \in Family : d # c => hook'[d] = hook[d] /\ Signature(d)' = Signature(d)
    BY <1>0, <1>4 DEF Signature
  <2>3. hook'[c] \in {"loading", "not_begun"} /\ hook[c] = "none" /\ Root \in Family /\ Root # c
    BY <1>0, <1>1, <1>3, <1>4, SlotsAre
  <2>4. slot[c] = NoOne /\ c \notin Reserved BY <2>3 DEF ClaimsInv, Reserved
  <2>5. \A d \in Family : hook'[d] = "signed" <=> hook[d] = "signed" BY <2>2, <2>3
  <2>6. \A d \in Family : hook'[d] = "full" <=> hook[d] = "full" BY <2>2, <2>3
  <2> QED BY <1>2, <1>5, <2>1, <2>2, <2>3, <2>4, <2>5, <2>6 DEF ClaimsInv
<1>9. LivesInv'
  <2>1. \A q \in Everybody : life'[q] = "unborn" <=> pid'[q] = NoOne BY <1>0, <1>4 DEF LivesInv
  <2>2. \A q \in Everybody : pid[q] = number => ~Alive(q) BY <1>2 DEF Free, Alive
  <2>3. \A q, o \in Everybody : Alive(q)' /\ Alive(o)' /\ pid'[q] = pid'[o] => q = o
    BY <1>4, <1>7, <2>2 DEF LivesInv
  <2>4. ASSUME NEW d \in Family
        PROVE  /\ life'[d] = "unborn" <=> call'[d] = "none"
               /\ call'[d] = "none" => hook'[d] = "none"
               /\ life'[d] = "running" => call'[d] = "over"
               /\ parent'[d] \in Family => hook'[parent'[d]] \in {"signed", "full"}
               /\ d # Root /\ life'[d] # "unborn" => parent'[d] \in Family
    <3>1. CASE d = c BY <1>0, <1>2, <1>3, <1>4, <3>1
    <3>2. CASE d # c BY <1>0, <1>3, <1>4, <3>2 DEF LivesInv
    <3> QED BY <3>1, <3>2
  <2>5. parent'[Root] = "outside" BY <1>0, <1>4, SlotsAre DEF LivesInv
  <2> QED BY <2>1, <2>3, <2>4, <2>5 DEF LivesInv
<1>10. AccountsInv'
  <2> SUFFICES ASSUME NEW d \in Family, d \in counted \/ (call'[d] \in {"accounted", "over"} /\ Alive(d)')
               PROVE  /\ d \in counted => /\ call'[d] \in {"accounted", "over"}
                                          /\ d \in Slow \/ hook'[d] \in {"not_begun", "refused", "failed", "full"}
                      /\ call'[d] \in {"accounted", "over"} /\ Alive(d)' /\ d \notin counted =>
                          /\ hook'[d] # "signed" => claims > MaxSlots \/ Mistakable(d)'
                          /\ hook'[d] \in {"loading", "installing"} => slot[parent'[d]] = NoOne
    BY <1>2, <1>5 DEF AccountsInv
  <2>1. d # c BY <1>3, <1>4 DEF AccountsInv
  <2>2. Mistakable(d) => Mistakable(d)' BY <1>0, <1>2, <1>4, <1>5, <2>1 DEF Mistakable
  <2> QED BY <1>0, <1>4, <1>7, <2>1, <2>2 DEF AccountsInv
<1>11. TreeMoves
  <2>1. \A q \in Everybody : pid[q] # NoOne => pid'[q] = pid[q] /\ (Alive(q)' => Alive(q))
    BY <1>3, <1>4, <1>7
  <2>2. \A d \in Family : life[d] # "unborn" => parent'[d] = parent[d] BY <1>0, <1>2, <1>4
  <2>3. \A d \in Family : /\ hook[d] = "signed" => hook'[d] = "signed" /\ slot'[d] = slot[d]
                          /\ ~(hook'[d] = "signed" /\ hook[d] # "signed")
    BY <1>1, <1>2, <1>3, <1>4
  <2>4. ~Alive(Root) => p # Root BY <1>2 DEF Alive
  <2>5. ~Alive(Root) => \A d \in Family : parent'[d] = Root /\ life'[d] = "running" =>
                          parent[d] = Root /\ hook'[d] = hook[d] /\ life[d] = "running"
    BY <1>0, <1>4, <2>4
  <2> QED BY <1>2, <1>5, <2>1, <2>2, <2>3, <2>5 DEF TreeMoves
<1> QED BY <1>6, <1>8, <1>9, <1>10, <1>11

\* A slot with a child's number and creation time is the child's own, and it signed in.
LEMMA SlotIsOwn ==
    ASSUME TreeInv, NEW c \in Family, NEW i \in 1..MaxSlots, slots[i].created = c
    PROVE  hook[c] = "signed"
<1> USE DEF TreeInv
<1>1. c # "unknown" BY SlotsAre, InheritanceAssumption
<1>2. slots[i] # Empty BY <1>1 DEF Empty
<1>3. PICK d \in Family : slot[d] = i /\ hook[d] = "signed" BY <1>2 DEF TreeInv, ClaimsInv
<1>4. slots[i] = Signature(d) BY <1>3 DEF TreeInv, ClaimsInv
<1> QED BY <1>1, <1>3, <1>4 DEF Signature

LEMMA Accounting == ASSUME TreeInv, NEW c \in Family \ {Root}, Account(c) PROVE TreeInv' /\ TreeMoves
<1> USE DEF TreeInv
<1>0. c \in Everybody /\ MaxSlots \in Nat /\ (\A d \in Family : d \in Everybody) /\ c # "unknown"
  BY SlotsAre, InheritanceAssumption
<1>1. /\ call[c] = "loading" /\ LoadOver(c)
      /\ counted' = IF Alive(c) /\ ChildRanUncovered(c) /\ slot[parent[c]] # NoOne THEN counted \cup {c} ELSE counted
      /\ call' = [call EXCEPT ![c] = "accounted"]
      /\ life' = life /\ pid' = pid /\ parent' = parent /\ hook' = hook /\ slot' = slot /\ slots' = slots
      /\ claims' = claims /\ held' = held
  BY DEF Account, Calling
<1>2. /\ MaxSlots' = MaxSlots /\ (\A q : (Alive(q)' <=> Alive(q)) /\ (Mistakable(q)' <=> Mistakable(q))) /\ Reserved' = Reserved
      /\ \A d : Signature(d)' = Signature(d)
  BY <1>1 DEF MaxSlots, Alive, Mistakable, Reserved, Signature
<1>3. \A d \in Family : call'[d] = (IF d = c THEN "accounted" ELSE call[d]) BY <1>1 DEF TypeOK
<1>4. counted \subseteq counted' /\ counted' \subseteq counted \cup {c} /\ c \notin counted
  BY <1>1 DEF AccountsInv
<1>5. TypeOK' BY <1>1, <1>2, <1>4 DEF TypeOK, Creations
<1>6. ClaimsInv' BY <1>1, <1>2 DEF ClaimsInv
<1>7. LivesInv' BY <1>1, <1>2, <1>3 DEF LivesInv
<1>8. hook[c] = "signed" => FindPidSlot(c)
  <2> SUFFICES ASSUME hook[c] = "signed" PROVE FindPidSlot(c) OBVIOUS
  <2>1. slot[c] # NoOne /\ slot[c] \in 0..MaxSlots /\ slots[slot[c]] = Signature(c)
    BY DEF ClaimsInv, TypeOK, Reserved
  <2>2. slot[c] \in 1..MaxSlots BY <1>0, <2>1 DEF NoOne
  <2> QED BY <2>1, <2>2 DEF FindPidSlot, Signature
<1>9. FindPidSlot(c) /\ hook[c] # "signed" => Mistakable(c)
  <2> SUFFICES ASSUME FindPidSlot(c), hook[c] # "signed" PROVE Mistakable(c) OBVIOUS
  <2>1. PICK i \in 1..MaxSlots : slots[i].pid = pid[c] /\ slots[i].created \in {c, "unknown"}
    BY DEF FindPidSlot
  <2>2. slots[i].created = "unknown" BY <2>1, SlotIsOwn
  <2>3. slots[i] \in [pid : Pids \cup {NoOne}, created : Creations] BY <2>1 DEF TypeOK
  <2>4. slots[i] = [pid |-> pid[c], created |-> "unknown"] BY <2>1, <2>2, <2>3
  <2> QED BY <2>4 DEF Mistakable
<1>10. AccountsInv'
  <2>1. ASSUME NEW d \in Family, d # c
        PROVE  /\ d \in counted' => /\ call'[d] \in {"accounted", "over"}
                                    /\ d \in Slow \/ hook[d] \in {"not_begun", "refused", "failed", "full"}
               /\ call'[d] \in {"accounted", "over"} /\ Alive(d)' /\ d \notin counted' =>
                    /\ hook[d] # "signed" => claims > MaxSlots \/ Mistakable(d)
                    /\ hook[d] \in {"loading", "installing"} => slot[parent[d]] = NoOne
    BY <1>2, <1>3, <1>4, <2>1 DEF AccountsInv
  <2>2. c \in counted' => c \in Slow \/ hook[c] \in {"not_begun", "refused", "failed", "full"}
    BY <1>1, <1>4, <1>8 DEF LoadOver, Loaded, ChildRanUncovered
  <2>3. c \notin counted' /\ Alive(c) =>
                    /\ hook[c] # "signed" => claims > MaxSlots \/ Mistakable(c)
                    /\ hook[c] \in {"loading", "installing"} => slot[parent[c]] = NoOne
    <3>1. c \notin counted' /\ Alive(c) => ~ChildRanUncovered(c) \/ slot[parent[c]] = NoOne BY <1>1
    <3>2. ~ChildRanUncovered(c) => (hook[c] # "signed" => claims > MaxSlots \/ Mistakable(c)) /\ hook[c] \notin {"loading", "installing"}
      <4>1. claims \in Int /\ MaxSlots \in Int BY <1>0 DEF TypeOK
      <4> QED BY <1>9, <4>1 DEF ChildRanUncovered, Loaded
    <3>3. c \notin counted' /\ Alive(c) /\ slot[parent[c]] = NoOne => claims > MaxSlots
      <4>1. Alive(c) => parent[c] \in Family /\ hook[parent[c]] \in {"signed", "full"}
        BY DEF Alive, LivesInv
      <4> QED BY <4>1 DEF ClaimsInv, Reserved
    <3> QED BY <3>1, <3>2, <3>3
  <2> QED BY <1>1, <1>2, <1>3, <2>1, <2>2, <2>3 DEF AccountsInv
<1>11. TreeMoves BY <1>1, <1>2, <1>4 DEF TreeMoves
<1> QED BY <1>5, <1>6, <1>7, <1>10, <1>11

LEMMA Resuming == ASSUME TreeInv, NEW c \in Family \ {Root}, Resume(c) PROVE TreeInv' /\ TreeMoves
<1> USE DEF TreeInv
<1>0. c \in Everybody /\ \A d \in Family : d \in Everybody BY SlotsAre
<1>1. /\ call[c] = "accounted" /\ life[parent[c]] = "running"
      /\ life' = [life EXCEPT ![c] = IF @ = "suspended" THEN "running" ELSE @]
      /\ call' = [call EXCEPT ![c] = "over"]
      /\ pid' = pid /\ parent' = parent /\ hook' = hook /\ slot' = slot /\ slots' = slots
      /\ claims' = claims /\ counted' = counted /\ held' = held
  BY DEF Resume, Calling
<1>2. /\ \A q \in Everybody \ {c} : life'[q] = life[q]
      /\ \A q \in Family \ {c} : call'[q] = call[q]
      /\ call'[c] = "over" /\ life'[c] = (IF life[c] = "suspended" THEN "running" ELSE life[c])
  BY <1>0, <1>1 DEF TypeOK
<1>3. \A q \in Everybody : (Alive(q)' <=> Alive(q)) /\ (life'[q] = "unborn" <=> life[q] = "unborn")
  BY <1>2 DEF Alive
<1>4. /\ MaxSlots' = MaxSlots /\ (\A q : Mistakable(q)' <=> Mistakable(q)) /\ Reserved' = Reserved
      /\ \A d : Signature(d)' = Signature(d)
  BY <1>1 DEF MaxSlots, Mistakable, Reserved, Signature
<1>5. TypeOK'
  <2>1. life' \in [Everybody -> {"unborn", "suspended", "running", "ended"}] /\ call' \in [Family -> {"none", "loading", "accounted", "over"}]
    BY <1>0, <1>1 DEF TypeOK
  <2> QED BY <1>1, <1>4, <2>1 DEF TypeOK, Creations
<1>6. ClaimsInv' BY <1>1, <1>4 DEF ClaimsInv
<1>7. LivesInv'
  <2>1. \A d \in Family : /\ call'[d] = "none" <=> call[d] = "none"
                          /\ life'[d] = "running" => call'[d] = "over"
    BY <1>0, <1>1, <1>2 DEF LivesInv
  <2> QED BY <1>0, <1>1, <1>3, <2>1 DEF LivesInv
<1>8. AccountsInv'
  <2>1. \A d \in Family : call'[d] \in {"accounted", "over"} <=> call[d] \in {"accounted", "over"}
    BY <1>1, <1>2
  <2> QED BY <1>0, <1>1, <1>3, <1>4, <2>1 DEF AccountsInv
<1>9. TreeMoves
  <2>1. ~Alive(Root) => parent[c] # Root BY <1>1 DEF Alive
  <2> QED BY <1>0, <1>1, <1>2, <1>3, <1>4, <2>1 DEF TreeMoves
<1> QED BY <1>5, <1>6, <1>7, <1>8, <1>9

\* The steps of a hook that claim and publish nothing.
LEMMA HookGoes ==
    ASSUME TreeInv, NEW c \in Family \ {Root}, Refuse(c) \/ Fail(c) \/ InstallFull(c)
    PROVE  TreeInv' /\ TreeMoves
<1> USE DEF TreeInv
<1>0. c \in Everybody /\ \A d \in Family : d \in Everybody BY SlotsAre
<1>1. PICK from \in {"loading", "installing"}, to \in {"refused", "failed", "full"} :
        /\ Hook(c, from, to)
        /\ from = "loading" <=> to = "refused"
        /\ to = "full" => slot[c] = NoOne
  BY DEF Refuse, Fail, InstallFull
<1>2. /\ hook[c] = from /\ hook' = [hook EXCEPT ![c] = to]
      /\ life' = life /\ pid' = pid /\ parent' = parent /\ call' = call /\ slot' = slot /\ slots' = slots
      /\ claims' = claims /\ counted' = counted /\ held' = held
  BY <1>1 DEF Hook, Refuse, Fail, InstallFull
<1>3. hook'[c] = to /\ \A q \in Family \ {c} : hook'[q] = hook[q] BY <1>2 DEF TypeOK
<1>4. /\ MaxSlots' = MaxSlots /\ \A q : (Alive(q)' <=> Alive(q)) /\ (Mistakable(q)' <=> Mistakable(q))
      /\ \A d : Signature(d)' = Signature(d)
  BY <1>2 DEF MaxSlots, Mistakable, Alive, Signature
<1>5. TypeOK' BY <1>1, <1>2, <1>4 DEF TypeOK, Creations
<1>6. ClaimsInv'
  <2>1. Reserved' = Reserved BY <1>1, <1>2, <1>3 DEF Reserved
  <2>2. \A d \in Family : hook'[d] = "signed" <=> hook[d] = "signed" BY <1>1, <1>2, <1>3
  <2>3. \A d \in Family : hook'[d] = "full" => hook[d] = "full" \/ slot[d] = NoOne
    BY <1>1, <1>2, <1>3
  <2> QED BY <1>2, <1>4, <2>1, <2>2, <2>3 DEF ClaimsInv
<1>7. LivesInv'
  <2>1. \A d \in Family : hook[d] \in {"signed", "full"} => hook'[d] = hook[d] BY <1>1, <1>2, <1>3
  <2>2. call[c] # "none" BY <1>1, <1>2 DEF LivesInv
  <2> QED BY <1>2, <1>3, <1>4, <2>1, <2>2 DEF LivesInv
<1>8. AccountsInv'
  <2>1. \A d \in Family : /\ hook'[d] = "signed" <=> hook[d] = "signed"
                          /\ hook'[d] \in {"loading", "installing"} => hook[d] \in {"loading", "installing"}
                          /\ hook[d] \in {"not_begun", "refused", "failed", "full"} => hook'[d] \in {"not_begun", "refused", "failed", "full"}
    BY <1>1, <1>2, <1>3
  <2> QED BY <1>2, <1>4, <2>1 DEF AccountsInv
<1>9. TreeMoves
  <2>1. \A d \in Family : hook'[d] = "signed" <=> hook[d] = "signed" BY <1>1, <1>2, <1>3
  <2> QED BY <1>2, <1>4, <2>1 DEF TreeMoves
<1> QED BY <1>5, <1>6, <1>7, <1>8, <1>9

LEMMA Reserving == ASSUME TreeInv, NEW c \in Family \ {Root}, Reserve(c) PROVE TreeInv' /\ TreeMoves
<1> USE DEF TreeInv
<1>0. c \in Everybody /\ (\A d \in Family : d \in Everybody) /\ MaxSlots \in Nat BY SlotsAre
<1>1. /\ hook[c] = "loading" /\ hook' = [hook EXCEPT ![c] = "installing"]
      /\ claims' = claims + 1 /\ slot' = [slot EXCEPT ![c] = IF claims < MaxSlots THEN claims + 1 ELSE NoOne]
      /\ life' = life /\ pid' = pid /\ parent' = parent /\ call' = call /\ slots' = slots
      /\ counted' = counted /\ held' = held
  BY DEF Reserve, Hook
<1>2. /\ hook'[c] = "installing" /\ slot'[c] = (IF claims < MaxSlots THEN claims + 1 ELSE NoOne)
      /\ \A q \in Family \ {c} : hook'[q] = hook[q] /\ slot'[q] = slot[q]
  BY <1>1 DEF TypeOK
<1>3. /\ MaxSlots' = MaxSlots /\ \A q : (Alive(q)' <=> Alive(q)) /\ (Mistakable(q)' <=> Mistakable(q))
      /\ \A d : Signature(d)' = Signature(d)
  BY <1>1 DEF MaxSlots, Mistakable, Alive, Signature
<1>4. Reserved' = Reserved \cup {c} /\ c \notin Reserved BY <1>1, <1>2 DEF Reserved
<1>5. /\ claims \in Nat /\ claims' = Cardinality(Reserved') /\ Cardinality(Family) \in Nat /\ claims' <= Cardinality(Family)
  <2>1. IsFiniteSet(Family) /\ Reserved \subseteq Family /\ Reserved' \subseteq Family
    BY <1>1, InheritanceAssumption DEF Reserved
  <2>2. IsFiniteSet(Reserved) /\ Cardinality(Reserved') <= Cardinality(Family) /\ Cardinality(Family) \in Nat
    BY <2>1, FS_Subset, FS_CardinalityType
  <2>3. Cardinality(Reserved \cup {c}) = Cardinality(Reserved) + 1 BY <1>4, <2>2, FS_AddElement
  <2>4. Cardinality(Reserved) \in Nat BY <2>2, FS_CardinalityType
  <2> QED BY <1>1, <1>4, <2>2, <2>3, <2>4 DEF ClaimsInv
<1>6. slot[c] = NoOne BY <1>4 DEF ClaimsInv
<1>7. TypeOK'
  <2>1. hook' \in [Family -> {"none", "not_begun", "loading", "refused", "installing", "failed", "full", "signed"}]
    BY <1>1 DEF TypeOK
  <2>2. (IF claims < MaxSlots THEN claims + 1 ELSE NoOne) \in 0..MaxSlots BY <1>0, <1>5 DEF NoOne
  <2>3. slot' \in [Family -> 0..MaxSlots] BY <1>1, <2>2 DEF TypeOK
  <2>4. claims' \in 1..Cardinality(Family) BY <1>1, <1>5
  <2> QED BY <1>1, <1>3, <2>1, <2>3, <2>4 DEF TypeOK, Creations
<1>8. ClaimsInv'
  <2>1. slot'[Root] = 1 /\ hook'[Root] = "signed" BY <1>2, SlotsAre DEF ClaimsInv
  <2>2. ASSUME NEW d \in Family
        PROVE  /\ slot'[d] # NoOne => d \in Reserved' /\ slot'[d] <= claims' /\ hook'[d] # "full"
               /\ d \in Reserved' /\ slot'[d] = NoOne => claims' > MaxSlots /\ hook'[d] # "signed"
               /\ hook'[d] = "signed" => slots[slot'[d]] = Signature(d)
    <3>1. CASE d = c
      <4>1. hook'[d] = "installing" /\ d \in Reserved' BY <1>2, <1>4, <3>1
      <4>2. slot'[d] # NoOne => slot'[d] <= claims' BY <1>0, <1>1, <1>2, <1>5, <3>1
      <4>3. slot'[d] = NoOne => claims' > MaxSlots BY <1>0, <1>1, <1>2, <1>5, <3>1 DEF NoOne
      <4> QED BY <4>1, <4>2, <4>3
    <3>2. CASE d # c
      <4>1. hook'[d] = hook[d] /\ slot'[d] = slot[d] /\ (d \in Reserved' <=> d \in Reserved) /\ slot[d] \in Nat
        BY <1>0, <1>2, <1>4, <3>2 DEF TypeOK
      <4> QED BY <1>0, <1>1, <1>5, <4>1 DEF ClaimsInv
    <3> QED BY <3>1, <3>2
  <2>3. ASSUME NEW d \in Family, NEW o \in Family, slot'[d] = slot'[o], slot'[d] # NoOne PROVE d = o
    <3>1. \A x \in Family : slot[x] \in Nat /\ (slot[x] # NoOne => slot[x] <= claims)
      BY <1>0 DEF ClaimsInv, TypeOK
    <3>2. \A x \in Family : x # c /\ slot'[x] # NoOne => slot'[x] # claims + 1 BY <1>2, <1>5, <3>1
    <3>3. slot'[c] # NoOne => slot'[c] = claims + 1 BY <1>2
    <3> QED BY <1>2, <2>3, <3>2, <3>3 DEF ClaimsInv
  <2>4. \A i \in 1..MaxSlots : slots[i] = Empty \/ \E d \in Family : slot'[d] = i /\ hook'[d] = "signed"
    BY <1>1, <1>2 DEF ClaimsInv
  <2> QED BY <1>1, <1>3, <1>5, <2>1, <2>2, <2>3, <2>4 DEF ClaimsInv
<1>9. LivesInv'
  <2>1. \A d \in Family : hook[d] \in {"signed", "full"} => hook'[d] = hook[d] BY <1>1, <1>2
  <2>2. call[c] # "none" BY <1>1 DEF LivesInv
  <2> QED BY <1>1, <1>2, <1>3, <2>1, <2>2 DEF LivesInv
<1>10. AccountsInv'
  <2> SUFFICES ASSUME NEW d \in Family, d \in counted \/ (call[d] \in {"accounted", "over"} /\ Alive(d))
               PROVE  /\ d \in counted => /\ call[d] \in {"accounted", "over"}
                                          /\ d \in Slow \/ hook'[d] \in {"not_begun", "refused", "failed", "full"}
                      /\ call[d] \in {"accounted", "over"} /\ Alive(d) /\ d \notin counted =>
                          /\ hook'[d] # "signed" => claims' > MaxSlots \/ Mistakable(d)
                          /\ hook'[d] \in {"loading", "installing"} => slot'[parent[d]] = NoOne
    BY <1>1, <1>3 DEF AccountsInv
  <2>1. claims' > claims /\ claims \in Nat /\ claims' \in Nat BY <1>1, <1>5
  <2>2. claims > MaxSlots => claims' > MaxSlots BY <1>0, <2>1
  <2>3. Alive(d) => slot'[parent[d]] = slot[parent[d]] \/ d = Root
    <3>1. Alive(d) /\ d # Root => parent[d] \in Family /\ hook[parent[d]] \in {"signed", "full"}
      BY DEF Alive, LivesInv
    <3> QED BY <1>1, <1>2, <3>1
  <2>4. hook'[d] \in {"loading", "installing"} => hook[d] \in {"loading", "installing"} /\ d # Root
    <3>1. hook[Root] = "signed" /\ Root # c BY DEF ClaimsInv
    <3> QED BY <1>1, <1>2, <3>1
  <2>5. /\ hook'[d] # "signed" => hook[d] # "signed"
        /\ hook[d] \in {"not_begun", "refused", "failed", "full"} => hook'[d] = hook[d]
    BY <1>1, <1>2
  <2> QED BY <2>2, <2>3, <2>4, <2>5 DEF AccountsInv
<1>11. TreeMoves
  <2>1. \A d \in Family : /\ hook'[d] = "signed" <=> hook[d] = "signed"
                          /\ hook[d] = "signed" => slot'[d] = slot[d]
    BY <1>1, <1>2
  <2> QED BY <1>1, <1>3, <2>1 DEF TreeMoves
<1> QED BY <1>7, <1>8, <1>9, <1>10, <1>11

LEMMA Publishing == ASSUME TreeInv, NEW c \in Family \ {Root}, Publish(c) PROVE TreeInv' /\ TreeMoves
<1> USE DEF TreeInv
<1>0. c \in Everybody /\ (\A d \in Family : d \in Everybody) /\ MaxSlots \in Nat /\ "unknown" \notin Everybody /\ NoOne \notin Pids
  BY SlotsAre, InheritanceAssumption
<1> DEFINE mine == [pid |-> pid[c], created |-> IF c \in Timeless THEN "unknown" ELSE c]
<1>1. /\ hook[c] = "installing" /\ hook' = [hook EXCEPT ![c] = "signed"] /\ slot[c] # NoOne
      /\ slots' = [slots EXCEPT ![slot[c]] = mine]
      /\ life' = life /\ pid' = pid /\ parent' = parent /\ call' = call /\ slot' = slot /\ claims' = claims
      /\ counted' = counted /\ held' = held
  BY DEF Publish, Hook
<1>2. hook'[c] = "signed" /\ \A q \in Family \ {c} : hook'[q] = hook[q] BY <1>1 DEF TypeOK
<1>3. slot[c] \in 1..MaxSlots BY <1>0, <1>1 DEF TypeOK, NoOne
<1>4. mine = Signature(c) /\ mine \in [pid : Pids \cup {NoOne}, created : Creations]
  <2>1. pid[c] \in Pids \cup {NoOne} BY <1>0 DEF TypeOK
  <2> QED BY <2>1 DEF Signature, Creations
<1>5. /\ slots'[slot[c]] = mine /\ \A i \in 1..MaxSlots : i # slot[c] => slots'[i] = slots[i]
      /\ slots' \in [1..MaxSlots -> [pid : Pids \cup {NoOne}, created : Creations]] /\ DOMAIN slots' = DOMAIN slots
  <2> HIDE DEF mine
  <2> QED BY <1>1, <1>3, <1>4 DEF TypeOK
<1>6. slots[slot[c]] = Empty BY <1>1, <1>3 DEF ClaimsInv
<1>7. /\ MaxSlots' = MaxSlots /\ \A q : (Alive(q)' <=> Alive(q))
      /\ \A d : Signature(d)' = Signature(d)
  BY <1>1, <1>5 DEF MaxSlots, Alive, Signature
<1> HIDE DEF mine
<1>8. TypeOK'
  <2>1. hook' \in [Family -> {"none", "not_begun", "loading", "refused", "installing", "failed", "full", "signed"}]
    BY <1>1 DEF TypeOK
  <2> QED BY <1>1, <1>5, <1>7, <2>1 DEF TypeOK, Creations
<1>9. ClaimsInv'
  <2>1. Reserved' = Reserved BY <1>1, <1>2 DEF Reserved
  <2>2. \A d \in Family : hook'[d] = "signed" => slots'[slot[d]] = Signature(d)
    <3>1. ASSUME NEW d \in Family, d # c, hook[d] = "signed" PROVE slots'[slot[d]] = Signature(d)
      <4>1. slot[d] # NoOne /\ slot[d] # slot[c] BY <1>1, <3>1 DEF ClaimsInv, Reserved
      <4>2. slot[d] \in 1..MaxSlots BY <1>0, <4>1 DEF TypeOK, NoOne
      <4> QED BY <1>5, <3>1, <4>1, <4>2 DEF ClaimsInv
    <3> QED BY <1>2, <1>4, <1>5, <3>1
  <2>3. \A i \in 1..MaxSlots : slots'[i] = Empty \/ \E d \in Family : slot[d] = i /\ hook'[d] = "signed"
    BY <1>2, <1>5 DEF ClaimsInv
  <2>4. \A d \in Family : /\ hook'[d] = "full" => hook[d] = "full"
                          /\ hook'[d] = "signed" => slot[d] # NoOne
    BY <1>1, <1>2 DEF ClaimsInv, Reserved
  <2>5. hook'[Root] = "signed" BY <1>2, SlotsAre DEF ClaimsInv
  <2> QED BY <1>1, <1>7, <2>1, <2>2, <2>3, <2>4, <2>5 DEF ClaimsInv
<1>10. LivesInv'
  <2>1. \A d \in Family : hook[d] \in {"signed", "full"} => hook'[d] = hook[d] BY <1>1, <1>2
  <2>2. call[c] # "none" BY <1>1 DEF LivesInv
  <2> QED BY <1>1, <1>2, <1>7, <2>1, <2>2 DEF LivesInv
<1>11. AccountsInv'
  <2>1. ASSUME NEW d \in Family, Alive(d), Mistakable(d) PROVE Mistakable(d)'
    <3>1. pid[d] # NoOne BY <1>0, <2>1 DEF LivesInv, Alive
    <3>2. PICK i \in 1..MaxSlots : slots[i] = [pid |-> pid[d], created |-> "unknown"]
      BY <2>1 DEF Mistakable
    <3>3. i # slot[c] BY <1>6, <3>1, <3>2 DEF Empty
    <3> QED BY <1>1, <1>5, <1>7, <3>2, <3>3 DEF Mistakable
  <2>2. \A d \in Family : /\ hook'[d] # "signed" => hook[d] # "signed"
                          /\ hook'[d] \in {"loading", "installing"} => hook[d] \in {"loading", "installing"}
                          /\ hook[d] \in {"not_begun", "refused", "failed", "full"} => hook'[d] = hook[d]
    BY <1>1, <1>2
  <2> QED BY <1>1, <1>7, <2>1, <2>2 DEF AccountsInv
<1>12. TreeMoves
  <2>1. \A d \in Family : /\ hook[d] = "signed" => hook'[d] = "signed"
                          /\ hook'[d] = "signed" /\ hook[d] # "signed" => slots[slot[d]] = Empty
    BY <1>1, <1>2, <1>6
  <2>2. \A i \in 1..MaxSlots : slots[i] # Empty => slots'[i] = slots[i] BY <1>5, <1>6
  <2>3. ASSUME parent[c] = Root, life[c] = "running", c \notin counted PROVE FALSE
    <3>1. call[c] = "over" /\ Alive(c) BY <2>3 DEF LivesInv, Alive
    <3>2. slot[Root] = NoOne BY <1>1, <2>3, <3>1 DEF AccountsInv
    <3> QED BY <3>2 DEF ClaimsInv, NoOne
  <2> QED BY <1>1, <1>2, <1>7, <2>1, <2>2, <2>3 DEF TreeMoves
<1> QED BY <1>8, <1>9, <1>10, <1>11, <1>12

LEMMA ProcessEnds == ASSUME TreeInv, NEW p \in Everybody, End(p) PROVE TreeInv' /\ TreeMoves
<1> USE DEF TreeInv
<1>1. /\ Alive(p) /\ life' = [life EXCEPT ![p] = "ended"]
      /\ pid' = pid /\ parent' = parent /\ call' = call /\ hook' = hook /\ slot' = slot /\ slots' = slots
      /\ claims' = claims /\ counted' = counted /\ held' = held
  BY DEF End
<1>2. life'[p] = "ended" /\ \A q \in Everybody \ {p} : life'[q] = life[q] BY <1>1 DEF TypeOK
<1>3. \A q \in Everybody : /\ Alive(q)' => Alive(q)
                           /\ life'[q] = "unborn" <=> life[q] = "unborn"
                           /\ life'[q] = "running" => life[q] = "running"
  BY <1>1, <1>2 DEF Alive
<1>4. /\ MaxSlots' = MaxSlots /\ (\A q : Mistakable(q)' <=> Mistakable(q)) /\ Reserved' = Reserved
      /\ \A d : Signature(d)' = Signature(d)
  BY <1>1 DEF MaxSlots, Mistakable, Reserved, Signature
<1>5. TypeOK'
  <2>1. life' \in [Everybody -> {"unborn", "suspended", "running", "ended"}] BY <1>1 DEF TypeOK
  <2> QED BY <1>1, <1>4, <2>1 DEF TypeOK, Creations
<1>6. ClaimsInv' BY <1>1, <1>4 DEF ClaimsInv
<1>7. LivesInv' BY <1>1, <1>3, SlotsAre DEF LivesInv
<1>8. AccountsInv' BY <1>1, <1>3, <1>4, SlotsAre DEF AccountsInv
<1>9. TreeMoves BY <1>1, <1>3, <1>4, SlotsAre DEF TreeMoves
<1> QED BY <1>5, <1>6, <1>7, <1>8, <1>9

LEMMA StrangerComes ==
    ASSUME TreeInv, NEW p \in Strangers, NEW number \in Pids, StrangerStarts(p, number)
    PROVE  TreeInv' /\ TreeMoves
<1> USE DEF TreeInv
<1>0. p \in Everybody /\ p \notin Family /\ (\A d \in Family : d \in Everybody /\ d # p) /\ number # NoOne
  BY InheritanceAssumption DEF Everybody
<1>1. /\ life[p] = "unborn" /\ Free(number) /\ life' = [life EXCEPT ![p] = "running"] /\ pid' = [pid EXCEPT ![p] = number]
      /\ parent' = parent /\ call' = call /\ hook' = hook /\ slot' = slot /\ slots' = slots
      /\ claims' = claims /\ counted' = counted /\ held' = held
  BY DEF StrangerStarts
<1>2. /\ life'[p] = "running" /\ pid'[p] = number
      /\ \A q \in Everybody \ {p} : life'[q] = life[q] /\ pid'[q] = pid[q]
  BY <1>0, <1>1 DEF TypeOK
<1>3. /\ \A q \in Everybody : Alive(q)' <=> (q = p \/ Alive(q))
      /\ pid[p] = NoOne
  BY <1>0, <1>1, <1>2 DEF Alive, LivesInv
<1>4. /\ MaxSlots' = MaxSlots /\ Reserved' = Reserved
      /\ \A d \in Family : Signature(d)' = Signature(d) /\ (Mistakable(d)' <=> Mistakable(d))
  BY <1>0, <1>1, <1>2 DEF MaxSlots, Mistakable, Reserved, Signature
<1>5. TypeOK'
  <2>1. life' \in [Everybody -> {"unborn", "suspended", "running", "ended"}] /\ pid' \in [Everybody -> Pids \cup {NoOne}]
    BY <1>1 DEF TypeOK
  <2> QED BY <1>1, <1>4, <2>1 DEF TypeOK, Creations
<1>6. ClaimsInv' BY <1>1, <1>4 DEF ClaimsInv
<1>7. LivesInv'
  <2>1. \A q \in Everybody : life'[q] = "unborn" <=> pid'[q] = NoOne BY <1>0, <1>2 DEF LivesInv
  <2>2. \A q \in Everybody : pid[q] = number => ~Alive(q) BY <1>1 DEF Free, Alive
  <2>3. \A q, o \in Everybody : Alive(q)' /\ Alive(o)' /\ pid'[q] = pid'[o] => q = o
    BY <1>2, <1>3, <2>2 DEF LivesInv
  <2> QED BY <1>0, <1>1, <1>2, <2>1, <2>3 DEF LivesInv
<1>8. AccountsInv' BY <1>0, <1>1, <1>2, <1>3, <1>4 DEF AccountsInv
<1>9. TreeMoves BY <1>0, <1>1, <1>2, <1>3, <1>4, SlotsAre DEF TreeMoves
<1> QED BY <1>5, <1>6, <1>7, <1>8, <1>9

LEMMA TreeSteps == TreeInv /\ TreeStep => TreeInv' /\ TreeMoves /\ held' = held
<1> SUFFICES ASSUME TreeInv, TreeStep PROVE TreeInv' /\ TreeMoves /\ held' = held OBVIOUS
<1>1. held' = held
  BY DEF TreeStep, Start, Account, Resume, HookStep, Refuse, Reserve, Fail, Publish, InstallFull, Hook, End, StrangerStarts
<1>2. ASSUME NEW p \in Family, NEW c \in Family \ {Root}, NEW number \in Pids, Start(p, c, number) PROVE TreeInv' /\ TreeMoves
  BY <1>2, Starting
<1>3. ASSUME NEW c \in Family \ {Root}, Account(c) \/ Resume(c) \/ HookStep(c) PROVE TreeInv' /\ TreeMoves
  BY <1>3, Accounting, Resuming, HookGoes, Reserving, Publishing DEF HookStep
<1>4. ASSUME NEW p \in Everybody, End(p) PROVE TreeInv' /\ TreeMoves BY <1>4, ProcessEnds
<1>5. ASSUME NEW p \in Strangers, NEW number \in Pids, StrangerStarts(p, number) PROVE TreeInv' /\ TreeMoves
  BY <1>5, StrangerComes
<1> QED BY <1>1, <1>2, <1>3, <1>4, <1>5 DEF TreeStep

-----------------------------------------------------------------------------
(* What the core makes of it.                                              *)

\* A member that signed in has a slot of the registry, and its number is in it.
LEMMA SignedHas ==
    ASSUME TreeInv, NEW c \in Family, hook[c] = "signed"
    PROVE  /\ slot[c] \in Slots /\ slot[c] # NoOne /\ slots[slot[c]] = Signature(c) /\ slots[slot[c]].pid = pid[c]
           /\ pid[c] # NoOne /\ pid[c] \in Pids /\ life[c] # "unborn"
           /\ \A d \in Family : slot[d] = slot[c] => d = c
<1> USE DEF TreeInv
<1>0. MaxSlots \in Nat /\ c \in Everybody BY SlotsAre
<1>1. slot[c] # NoOne /\ slots[slot[c]] = Signature(c) BY DEF ClaimsInv, Reserved
<1>2. slot[c] \in Slots BY <1>0, <1>1 DEF TypeOK, NoOne, Slots
<1>3. life[c] # "unborn" /\ pid[c] # NoOne BY <1>0 DEF LivesInv
<1>4. pid[c] \in Pids BY <1>0, <1>3 DEF TypeOK
<1>5. \A d \in Family : slot[d] = slot[c] => d = c BY <1>1 DEF ClaimsInv
<1> QED BY <1>1, <1>2, <1>3, <1>4, <1>5 DEF Signature

\* The core changes nothing of the tree.
LEMMA Standing ==
    ASSUME TreeInv, UNCHANGED tree, held' \subseteq Everybody
    PROVE  /\ TreeInv'
           /\ MaxSlots' = MaxSlots /\ Slots' = Slots /\ RootSlot' = RootSlot /\ Signed' = Signed
           /\ \A q : (Alive(q)' <=> Alive(q)) /\ (Followed(q)' <=> Followed(q))
           /\ \A q, i : (Owns(q, i)' <=> Owns(q, i)) /\ Identity(i, q)' = Identity(i, q)
           /\ life' = life /\ pid' = pid /\ parent' = parent /\ hook' = hook /\ slot' = slot /\ slots' = slots
           /\ counted' = counted
<1> USE DEF tree
<1>1. /\ MaxSlots' = MaxSlots /\ Reserved' = Reserved
      /\ \A q : (Alive(q)' <=> Alive(q)) /\ (Mistakable(q)' <=> Mistakable(q)) /\ Signature(q)' = Signature(q)
  BY DEF MaxSlots, Reserved, Alive, Mistakable, Signature
<1>2. TypeOK' BY <1>1 DEF TypeOK, TreeInv, Creations
<1>3. ClaimsInv' BY <1>1 DEF TreeInv, ClaimsInv
<1>4. LivesInv' BY <1>1 DEF TreeInv, LivesInv
<1>5. AccountsInv' BY <1>1 DEF TreeInv, AccountsInv
<1>6. /\ Slots' = Slots /\ RootSlot' = RootSlot /\ Signed' = Signed
      /\ \A q : Followed(q)' <=> Followed(q)
      /\ \A q, i : (Owns(q, i)' <=> Owns(q, i)) /\ Identity(i, q)' = Identity(i, q)
  BY <1>1 DEF Slots, RootSlot, Signed, Followed, Owns, Identity
<1> QED BY <1>1, <1>2, <1>3, <1>4, <1>5, <1>6 DEF TreeInv

\* What a step must leave of the invariant, once the tree stands.
CoreHolds == FamilyTypeOK /\ WatchInv /\ LookInv /\ BeatInv /\ CloseInv

LEMMA CoreIs ==
    ASSUME FamilyTypeOK
    PROVE  /\ core = [pc |-> core.pc, for |-> core.for, launched |-> core.launched, at |-> core.at,
                      seen |-> core.seen, opened |-> core.opened]
           /\ DOMAIN core = {"pc", "for", "launched", "at", "seen", "opened"}
           /\ core.pc \in {"waiting", "scan", "open", "wait", "close", "last_look", "left", "left_pids", "over"}
           /\ core.for \in {"poll", "beat", "close"} /\ core.launched \in BOOLEAN
           /\ core.at \in 1..MaxSlots + 1 /\ core.seen \subseteq Slots
           /\ core.opened \subseteq [slot : Slots, proc : Everybody, id : {"same", "other", "unknown"}]
BY DEF FamilyTypeOK

\* A step that changes what the core does next and nothing it has learnt of the slots.
LEMMA Turning ==
    ASSUME FamilyInv, UNCHANGED tree, held' \subseteq Everybody, watch' = watch, unwatchable' = unwatchable,
           NEW pc \in {"waiting", "scan", "close", "last_look", "left", "left_pids", "over"},
           NEW for \in {"poll", "beat", "close"}, NEW launched \in BOOLEAN,
           core' = [pc |-> pc, for |-> for, launched |-> launched, at |-> 1, seen |-> {}, opened |-> {}]
                \/ (core' = [core EXCEPT !.pc = pc] /\ core.opened = {} /\ pc \notin {"scan", "open", "wait"}),
           asked' \subseteq Pids, left' \in BOOLEAN, before' \subseteq Signed,
           BeatInv', CloseInv'
    PROVE  FamilyInv'
<1> USE DEF FamilyInv
<1>1. /\ TreeInv' /\ MaxSlots' = MaxSlots /\ Slots' = Slots /\ RootSlot' = RootSlot /\ Signed' = Signed
      /\ \A q : (Alive(q)' <=> Alive(q))
      /\ hook' = hook /\ slot' = slot /\ slots' = slots /\ parent' = parent
  BY Standing
<1>2. /\ core'.pc = pc /\ core'.opened = {}
      /\ pc = "scan" => core'.at = 1
      /\ \A i \in core'.seen : i \in core.seen
  BY CoreIs
<1>3. MaxSlots \in Nat /\ 1 \in Slots /\ 1 \in 1..MaxSlots + 1 BY SlotsAre DEF TreeInv, Slots
<1>4. FamilyTypeOK'
  <2>1. core' \in [pc : {"waiting", "scan", "open", "wait", "close", "last_look", "left", "left_pids", "over"},
                   for : {"poll", "beat", "close"}, launched : BOOLEAN, at : 1..MaxSlots + 1, seen : SUBSET Slots,
                   opened : SUBSET [slot : Slots, proc : Everybody, id : {"same", "other", "unknown"}]]
    <3>1. CASE core' = [pc |-> pc, for |-> for, launched |-> launched, at |-> 1, seen |-> {}, opened |-> {}]
      BY <1>3, <3>1
    <3>2. CASE core' = [core EXCEPT !.pc = pc]
      <4>1. core' = [pc |-> pc, for |-> core.for, launched |-> core.launched, at |-> core.at,
                     seen |-> core.seen, opened |-> core.opened]
        BY <3>2, CoreIs
      <4> QED BY <4>1, CoreIs
    <3> QED BY <3>1, <3>2
  <2>2. before' \subseteq Family BY DEF Signed
  <2>3. TypeOK' BY <1>1 DEF TreeInv
  <2> QED BY <1>1, <2>1, <2>2, <2>3 DEF FamilyTypeOK
<1>5. WatchInv' BY <1>1 DEF WatchInv, Excused
<1>6. LookInv'
  <2>1. \A i \in core'.seen : slots[i].pid # NoOne BY <1>2 DEF LookInv
  <2>2. core'.pc = "scan" => \A p \in before' : ~(slot[p] < core'.at)
    <3> SUFFICES ASSUME core'.pc = "scan", NEW p \in before' PROVE ~(slot[p] < core'.at) OBVIOUS
    <3>1. p \in Family /\ hook[p] = "signed" BY DEF Signed
    <3>2. slot[p] \in Slots BY <3>1, SignedHas
    <3> QED BY <1>2, <1>3, <3>2 DEF Slots
  <2>3. core'.pc # "open" /\ core'.pc # "wait" BY <1>2
  <2> QED BY <1>1, <1>2, <1>3, <2>1, <2>2, <2>3 DEF LookInv, InLook
<1> QED BY <1>1, <1>4, <1>5, <1>6

LEMMA FamilyStarts == FamilyInit => FamilyInv
<1> SUFFICES ASSUME FamilyInit PROVE FamilyInv OBVIOUS
<1> USE DEF FamilyInit
<1>1. TreeInv BY TreeStarts
<1>2. MaxSlots \in Nat /\ 1 \in 1..MaxSlots + 1 /\ held \subseteq Everybody
  BY <1>1, SlotsAre DEF TreeInv, TypeOK
<1>3. /\ core = [pc |-> "waiting", for |-> "poll", launched |-> TRUE, at |-> 1, seen |-> {}, opened |-> {}]
      /\ watch = [i \in Slots |-> "unseen"] /\ unwatchable = 0 /\ asked = {} /\ left = FALSE /\ before = {}
  BY DEF Waiting
<1>4. FamilyTypeOK
  <2>1. {i \in Slots : watch[i] = "denied"} = {} BY <1>3
  <2>2. unwatchable = Cardinality({i \in Slots : watch[i] = "denied"}) BY <1>3, <2>1, FS_EmptySet
  <2>3. core \in [pc : {"waiting", "scan", "open", "wait", "close", "last_look", "left", "left_pids", "over"},
                  for : {"poll", "beat", "close"}, launched : BOOLEAN, at : 1..MaxSlots + 1, seen : SUBSET Slots,
                  opened : SUBSET [slot : Slots, proc : Everybody, id : {"same", "other", "unknown"}]]
    BY <1>2, <1>3
  <2>4. watch \in [Slots -> {"unseen", "gone", "denied", "turned_away", "ended"} \cup Everybody]
    BY <1>3
  <2>5. asked \subseteq Pids /\ left \in BOOLEAN /\ before \subseteq Family BY <1>3
  <2> HIDE DEF FamilyInit
  <2> QED BY <1>1, <2>2, <2>3, <2>4, <2>5 DEF FamilyTypeOK, TreeInv
<1>5. WatchInv
  <2>1. \A c \in Family : c # Root => hook[c] # "signed" BY DEF Init
  <2> QED BY <1>3, <2>1 DEF WatchInv
<1>6. LookInv BY <1>3 DEF LookInv, InLook
<1>7. BeatInv /\ CloseInv BY <1>3 DEF BeatInv, CloseInv, InLook, FoundGone, Ending, Closing
<1> QED BY <1>1, <1>4, <1>5, <1>6, <1>7 DEF FamilyInv

\* A step of the family, the core between two of its own.
LEMMA FamilyMoves == FamilyInv /\ TreeStep /\ UNCHANGED session => FamilyInv'
<1> SUFFICES ASSUME FamilyInv, TreeStep, UNCHANGED session PROVE FamilyInv' OBVIOUS
<1> USE DEF FamilyInv
<1>1. TreeInv' /\ TreeMoves /\ held' = held BY TreeSteps
<1>2. core' = core /\ watch' = watch /\ unwatchable' = unwatchable /\ asked' = asked /\ left' = left /\ before' = before
  BY DEF session
<1>3. MaxSlots' = MaxSlots /\ Slots' = Slots BY <1>1 DEF TreeMoves, Slots
<1>4. MaxSlots \in Nat /\ Root \in Family /\ Root \in Everybody /\ (\A c \in Family : c \in Everybody) /\ NoOne \notin Pids
  BY SlotsAre, InheritanceAssumption DEF TreeInv
<1>5. RootSlot = 1 /\ RootSlot' = 1 /\ hook[Root] = "signed"
  BY <1>1 DEF TreeInv, ClaimsInv, RootSlot
<1>6. ASSUME NEW c \in Family, hook[c] = "signed"
      PROVE  /\ hook'[c] = "signed" /\ slot'[c] = slot[c] /\ parent'[c] = parent[c] /\ pid'[c] = pid[c]
             /\ Alive(c)' => Alive(c)
  <2>1. pid[c] # NoOne /\ life[c] # "unborn" /\ c \in Everybody BY <1>4, <1>6, SignedHas
  <2> QED BY <1>1, <1>6, <2>1 DEF TreeMoves
<1>7. \A i \in Slots : slots[i].pid # NoOne => slots'[i] = slots[i]
  BY <1>1 DEF TreeMoves, Slots, Empty
<1>8. FamilyTypeOK' BY <1>1, <1>2, <1>3 DEF FamilyTypeOK, TreeInv
<1>9. WatchInv'
  <2>1. \A i \in Slots : watch[i] # "unseen" => slots'[i].pid # NoOne BY <1>7 DEF WatchInv
  <2>2. ASSUME NEW c \in Family \ {Root}, hook'[c] = "signed", Alive(c)'
        PROVE  watch[slot'[c]] \in {"unseen", c} \/ Excused(c)'
    <3>1. CASE hook[c] = "signed" BY <1>2, <1>6, <2>2, <3>1 DEF WatchInv, Excused
    <3>2. CASE hook[c] # "signed"
      <4>1. slots[slot'[c]] = Empty BY <1>1, <2>2, <3>2 DEF TreeMoves
      <4>2. slot'[c] \in Slots
        <5>1. slot'[c] # NoOne /\ slot'[c] \in 0..MaxSlots
          BY <1>1, <1>3, <2>2 DEF TreeInv, ClaimsInv, TypeOK, Reserved
        <5> QED BY <1>4, <5>1 DEF NoOne, Slots
      <4> QED BY <4>1, <4>2 DEF WatchInv, Empty
    <3> QED BY <3>1, <3>2
  <2> QED BY <1>2, <1>3, <2>1, <2>2 DEF WatchInv
<1>10. core.seen \subseteq Slots /\ \A m \in core.opened : m.slot \in Slots /\ m.slot \in core.seen
  BY CoreIs DEF LookInv
<1>11. before \subseteq Family /\ \A p \in before : hook[p] = "signed" BY DEF LookInv, Signed
<1>12. LookInv'
  <2>1. \A i \in core.seen : slots[i].pid # NoOne /\ slots'[i] = slots[i] BY <1>7, <1>10 DEF LookInv
  <2>2. \A p \in before : slot'[p] = slot[p] /\ hook'[p] = "signed" BY <1>6, <1>11
  <2>3. before \subseteq Signed' BY <1>11, <2>2 DEF Signed
  <2>4. ASSUME NEW m \in core.opened
        PROVE  /\ m.slot \in core.seen \ {RootSlot'} /\ watch[m.slot] = "unseen" /\ m.id = Identity(m.slot, m.proc)'
               /\ \A c \in Family : Owns(c, m.slot)' /\ Alive(c)' => m.proc = c
    <3>1. m.slot \in core.seen \ {RootSlot} /\ watch[m.slot] = "unseen" /\ m.id = Identity(m.slot, m.proc)
      BY DEF LookInv
    <3>2. Identity(m.slot, m.proc)' = Identity(m.slot, m.proc) BY <2>1, <3>1 DEF Identity
    <3>3. ASSUME NEW c \in Family, Owns(c, m.slot)', Alive(c)' PROVE m.proc = c
      <4>1. hook'[c] = "signed" /\ slot'[c] = m.slot /\ slots[m.slot] # Empty
        BY <2>1, <3>1, <3>3 DEF Owns, Empty
      <4>2. hook[c] = "signed" BY <1>1, <4>1 DEF TreeMoves
      <4>3. Owns(c, m.slot) /\ Alive(c) BY <1>6, <3>3, <4>1, <4>2 DEF Owns
      <4> QED BY <4>3 DEF LookInv
    <3> QED BY <1>5, <3>1, <3>2, <3>3
  <2> QED BY <1>2, <1>3, <1>5, <2>1, <2>2, <2>3, <2>4 DEF LookInv, InLook
<1>13. BeatInv'
  <2>1. FoundGone' <=> FoundGone BY <1>2 DEF FoundGone, InLook
  <2>2. ~Alive(Root) => ~Alive(Root)' BY <1>4, <1>5, <1>6
  <2>3. ~Alive(Root) => \A p \in Family : parent'[p] = Root /\ Followed(p)' => parent[p] = Root /\ Followed(p)
    BY <1>1 DEF TreeMoves, Followed
  <2>4. Ending' <=> Ending BY <1>2 DEF Ending
  <2>5. \A p \in before : slot'[p] = slot[p] BY <1>6, <1>11
  <2> QED BY <1>2, <2>1, <2>2, <2>3, <2>4, <2>5 DEF BeatInv
<1>14. CloseInv'
  <2>1. Closing' <=> Closing BY <1>2 DEF Closing, InLook
  <2>2. \A p \in before \cup {Root} : pid'[p] = pid[p] /\ (Alive(p)' => Alive(p))
    BY <1>4, <1>5, <1>6, <1>11
  <2> QED BY <1>2, <2>1, <2>2 DEF CloseInv
<1> QED BY <1>1, <1>8, <1>9, <1>12, <1>13, <1>14

-----------------------------------------------------------------------------
(* The steps of a look.                                                    *)

LEMMA Asking ==
    ASSUME FamilyInv, NEW at \in {"waiting", "last_look"}, NEW for \in {"poll", "beat", "close"}, Ask(at, for),
           (for # "close" /\ before' = Signed) \/ (at = "last_look" /\ for = "close" /\ before' = before)
    PROVE  FamilyInv'
<1> USE DEF FamilyInv
<1>1. /\ UNCHANGED tree /\ core.pc = at /\ held' = held /\ watch' = watch /\ unwatchable' = unwatchable
      /\ asked' = asked /\ left' = left
      /\ core' = [pc |-> "scan", for |-> for, launched |-> Alive(Root), at |-> 1, seen |-> {}, opened |-> {}]
  BY DEF Ask, Do, Waiting
<1>2. core'.pc = "scan" /\ core'.for = for /\ core'.launched = Alive(Root) BY <1>1
<1>3. held' \subseteq Everybody BY <1>1 DEF FamilyTypeOK, TypeOK
<1>4. /\ Signed' = Signed /\ \A q : (Alive(q)' <=> Alive(q)) /\ (Followed(q)' <=> Followed(q))
      /\ parent' = parent /\ pid' = pid
  BY <1>1, <1>3, Standing
<1>5. BeatInv'
  <2>1. ~Ending' BY <1>2 DEF Ending
  <2>2. FoundGone' => for = "beat" /\ ~Alive(Root) BY <1>2 DEF FoundGone
  <2> QED BY <1>4, <2>1, <2>2 DEF BeatInv, Followed, Signed
<1>6. CloseInv'
  <2>1. Closing' => for = "close" BY <1>2 DEF Closing
  <2>2. for = "close" => Closing BY <1>1 DEF Closing
  <2> QED BY <1>1, <1>2, <1>4, <2>1, <2>2 DEF CloseInv
<1>7. asked' \subseteq Pids /\ left' \in BOOLEAN /\ before' \subseteq Signed /\ Alive(Root) \in BOOLEAN
  BY <1>1 DEF FamilyTypeOK, LookInv, Alive
<1> QED BY <1>1, <1>3, <1>5, <1>6, <1>7, Turning

LEMMA Scanning == FamilyInv /\ ScanSlot => FamilyInv'
<1> SUFFICES ASSUME FamilyInv, ScanSlot PROVE FamilyInv' OBVIOUS
<1> USE DEF FamilyInv
<1>1. /\ UNCHANGED tree /\ core.pc = "scan" /\ held' = held /\ watch' = watch /\ unwatchable' = unwatchable
      /\ asked' = asked /\ left' = left /\ before' = before
  BY DEF ScanSlot, Do
<1>2. /\ core' = [pc |-> IF core.at = MaxSlots THEN "open" ELSE "scan", for |-> core.for, launched |-> core.launched,
                  at |-> IF core.at = MaxSlots THEN 1 ELSE core.at + 1,
                  seen |-> IF slots[core.at].pid = NoOne THEN core.seen ELSE core.seen \cup {core.at},
                  opened |-> core.opened]
      /\ core.at \in Slots
  BY <1>1, CoreIs DEF ScanSlot, LookInv
<1>3. held' \subseteq Everybody /\ MaxSlots \in Nat \ {0}
  BY <1>1, SlotsAre DEF FamilyTypeOK, TypeOK, TreeInv
<1>4. /\ TreeInv' /\ MaxSlots' = MaxSlots /\ Slots' = Slots /\ RootSlot' = RootSlot /\ Signed' = Signed
      /\ \A q : (Alive(q)' <=> Alive(q)) /\ (Followed(q)' <=> Followed(q))
      /\ hook' = hook /\ slot' = slot /\ slots' = slots /\ parent' = parent /\ pid' = pid
  BY <1>1, <1>3, Standing
<1>5. /\ core'.pc = (IF core.at = MaxSlots THEN "open" ELSE "scan") /\ core'.for = core.for /\ core'.launched = core.launched
      /\ core'.at = (IF core.at = MaxSlots THEN 1 ELSE core.at + 1) /\ core'.opened = core.opened /\ core.opened = {}
      /\ core'.seen = (IF slots[core.at].pid = NoOne THEN core.seen ELSE core.seen \cup {core.at})
  BY <1>1, <1>2 DEF LookInv
<1>6. FamilyTypeOK'
  <2>1. /\ (IF core.at = MaxSlots THEN 1 ELSE core.at + 1) \in 1..MaxSlots + 1
        /\ core'.seen \subseteq Slots /\ core'.pc \in {"open", "scan"}
    BY <1>2, <1>3, <1>5, CoreIs DEF Slots
  <2>2. core' \in [pc : {"waiting", "scan", "open", "wait", "close", "last_look", "left", "left_pids", "over"},
                   for : {"poll", "beat", "close"}, launched : BOOLEAN, at : 1..MaxSlots + 1, seen : SUBSET Slots,
                   opened : SUBSET [slot : Slots, proc : Everybody, id : {"same", "other", "unknown"}]]
    BY <1>2, <1>5, <2>1, CoreIs
  <2> QED BY <1>1, <1>4, <2>2 DEF FamilyTypeOK, TreeInv
<1>7. WatchInv' BY <1>1, <1>4 DEF WatchInv, Excused
<1>8. LookInv'
  <2>1. core'.pc = "scan" => core'.at \in Slots BY <1>2, <1>3, <1>5 DEF Slots
  <2>2. \A i \in core'.seen : slots[i].pid # NoOne BY <1>5 DEF LookInv
  <2>3. ASSUME NEW p \in before, core'.pc = "scan" => slot[p] < core'.at PROVE slot[p] \in core'.seen
    <3>1. p \in Family /\ hook[p] = "signed" BY DEF LookInv, Signed
    <3>2. slot[p] \in Slots /\ slots[slot[p]].pid # NoOne BY <3>1, SignedHas
    <3>3. slot[p] < core.at \/ slot[p] = core.at BY <1>2, <1>3, <1>5, <2>3, <3>2 DEF Slots
    <3>4. slot[p] < core.at => slot[p] \in core.seen BY <1>1 DEF LookInv, InLook
    <3> QED BY <1>5, <3>2, <3>3, <3>4
  <2>4. core'.pc # "wait" /\ before' \subseteq Signed' BY <1>1, <1>4, <1>5 DEF LookInv
  <2> QED BY <1>1, <1>4, <1>5, <2>1, <2>2, <2>3, <2>4 DEF LookInv, InLook
<1>9. BeatInv'
  <2>1. (FoundGone' <=> FoundGone) /\ ~Ending' BY <1>1, <1>5 DEF FoundGone, InLook, Ending
  <2> QED BY <1>1, <1>4, <2>1 DEF BeatInv
<1>10. CloseInv'
  <2>1. Closing' <=> Closing BY <1>1, <1>5 DEF Closing, InLook
  <2> QED BY <1>1, <1>4, <1>5, <2>1 DEF CloseInv
<1> QED BY <1>4, <1>6, <1>7, <1>8, <1>9, <1>10

\* A slot of a member not seen yet, the first of them.
LEMMA FirstUnseen ==
    ASSUME FamilyInv, Unseen # {}
    PROVE  /\ Min(Unseen) \in core.seen \ {RootSlot} /\ Min(Unseen) \in Slots /\ watch[Min(Unseen)] = "unseen"
           /\ slots[Min(Unseen)].pid # NoOne
           /\ \A m \in core.opened : m.slot # Min(Unseen)
<1> USE DEF FamilyInv
<1>1. Unseen \subseteq Slots /\ Slots \subseteq Nat BY CoreIs DEF Unseen, Slots
<1>2. Min(Unseen) \in Unseen BY <1>1, LeastIs
<1> QED BY <1>1, <1>2 DEF Unseen, LookInv

\* A slot's number is had by its owner and by nobody else, while the owner lives.
LEMMA HolderIs ==
    ASSUME TreeInv, NEW c \in Family, NEW i \in Slots, Owns(c, i), Alive(c)
    PROVE  Holder(slots[i].pid) = {c}
<1> USE DEF TreeInv
<1>1. slots[i].pid = pid[c] /\ c \in Everybody BY SignedHas, SlotsAre DEF Owns
<1> QED BY <1>1 DEF Holder, LivesInv

\* The number of the members the core cannot watch is counted as it is.
LEMMA DeniedIs ==
    ASSUME FamilyTypeOK
    PROVE  /\ IsFiniteSet({i \in Slots : watch[i] = "denied"}) /\ unwatchable \in Nat
           /\ unwatchable = 0 => \A i \in Slots : watch[i] # "denied"
<1>0. MaxSlots \in Nat BY SlotsAre DEF FamilyTypeOK
<1>1. IsFiniteSet(Slots) BY <1>0, FS_Interval DEF Slots
<1>2. {i \in Slots : watch[i] = "denied"} \subseteq Slots OBVIOUS
<1>3. IsFiniteSet({i \in Slots : watch[i] = "denied"}) BY <1>1, <1>2, FS_Subset
<1>4. unwatchable = Cardinality({i \in Slots : watch[i] = "denied"}) BY DEF FamilyTypeOK
<1>5. unwatchable = 0 => {i \in Slots : watch[i] = "denied"} = {} BY <1>3, <1>4, FS_EmptySet
<1>6. unwatchable \in Nat BY <1>3, <1>4, FS_CardinalityType
<1> QED BY <1>3, <1>5, <1>6

LEMMA Opening == FamilyInv /\ OpenMember => FamilyInv'
<1> SUFFICES ASSUME FamilyInv, OpenMember PROVE FamilyInv' OBVIOUS
<1> USE DEF FamilyInv
<1> DEFINE i == Min(Unseen)
<1>1. /\ UNCHANGED tree /\ core.pc = "open" /\ Unseen # {} /\ asked' = asked /\ left' = left /\ before' = before
  BY DEF OpenMember, Do
<1>2. /\ i \in core.seen \ {RootSlot} /\ i \in Slots /\ watch[i] = "unseen" /\ slots[i].pid # NoOne
      /\ \A m \in core.opened : m.slot # i
  BY <1>1, FirstUnseen
<1>3. \/ /\ Holder(slots[i].pid) = {} /\ watch' = [watch EXCEPT ![i] = "gone"]
         /\ core' = core /\ held' = held /\ unwatchable' = unwatchable
      \/ /\ \E p \in Holder(slots[i].pid) : p \in Closed
         /\ watch' = [watch EXCEPT ![i] = "denied"] /\ unwatchable' = unwatchable + 1
         /\ core' = core /\ held' = held
      \/ \E p \in Holder(slots[i].pid) :
            /\ core' = [core EXCEPT !.opened = @ \cup {[slot |-> i, proc |-> p, id |-> Identity(i, p)]}]
            /\ held' = held \cup {p}
            /\ watch' = watch /\ unwatchable' = unwatchable
  BY DEF OpenMember
<1> HIDE DEF i
<1>4. held' \subseteq Everybody /\ held \subseteq Everybody BY <1>3 DEF FamilyTypeOK, TypeOK, Holder
<1>5. /\ TreeInv' /\ MaxSlots' = MaxSlots /\ Slots' = Slots /\ RootSlot' = RootSlot /\ Signed' = Signed
      /\ \A q : (Alive(q)' <=> Alive(q)) /\ (Followed(q)' <=> Followed(q))
      /\ \A q, j : (Owns(q, j)' <=> Owns(q, j)) /\ Identity(j, q)' = Identity(j, q)
      /\ hook' = hook /\ slot' = slot /\ slots' = slots /\ parent' = parent /\ pid' = pid
  BY <1>1, <1>4, Standing
<1>6. /\ core'.pc = "open" /\ core'.for = core.for /\ core'.launched = core.launched /\ core'.seen = core.seen
      /\ core'.at = core.at
  BY <1>1, <1>3, CoreIs
<1>7. BeatInv'
  <2>1. (FoundGone' <=> FoundGone) /\ ~Ending' BY <1>1, <1>6 DEF FoundGone, InLook, Ending
  <2> QED BY <1>1, <1>5, <2>1 DEF BeatInv
<1>8. CloseInv'
  <2>1. Closing' <=> Closing BY <1>1, <1>6 DEF Closing, InLook
  <2> QED BY <1>1, <1>5, <1>6, <2>1 DEF CloseInv
<1>9. watch \in [Slots -> {"unseen", "gone", "denied", "turned_away", "ended"} \cup Everybody]
  BY DEF FamilyTypeOK
<1>10. CASE \E p \in Holder(slots[i].pid) :
            /\ core' = [core EXCEPT !.opened = @ \cup {[slot |-> i, proc |-> p, id |-> Identity(i, p)]}]
            /\ held' = held \cup {p}
            /\ watch' = watch /\ unwatchable' = unwatchable
  <2>1. PICK p \in Holder(slots[i].pid) :
          /\ core' = [core EXCEPT !.opened = @ \cup {[slot |-> i, proc |-> p, id |-> Identity(i, p)]}]
          /\ held' = held \cup {p}
          /\ watch' = watch /\ unwatchable' = unwatchable
    BY <1>10
  <2> DEFINE new == [slot |-> i, proc |-> p, id |-> Identity(i, p)]
  <2>2. new \in [slot : Slots, proc : Everybody, id : {"same", "other", "unknown"}]
    BY <1>2 DEF Identity, Holder
  <2>3. new.slot = i /\ new.proc = p /\ new.id = Identity(i, p) OBVIOUS
  <2> HIDE DEF new
  <2>4. core' = [pc |-> core.pc, for |-> core.for, launched |-> core.launched, at |-> core.at,
                 seen |-> core.seen, opened |-> core.opened \cup {new}]
    BY <2>1, CoreIs DEF new
  <2>5. core'.opened = core.opened \cup {new} BY <2>4
  <2>6. FamilyTypeOK'
    <3>1. core' \in [pc : {"waiting", "scan", "open", "wait", "close", "last_look", "left", "left_pids", "over"},
                 for : {"poll", "beat", "close"}, launched : BOOLEAN, at : 1..MaxSlots + 1, seen : SUBSET Slots,
                 opened : SUBSET [slot : Slots, proc : Everybody, id : {"same", "other", "unknown"}]]
      BY <2>2, <2>4, CoreIs
    <3> QED BY <1>1, <1>5, <2>1, <3>1 DEF FamilyTypeOK, TreeInv
  <2>7. WatchInv' BY <1>5, <2>1 DEF WatchInv, Excused
  <2>8. LookInv'
    <3>1. ASSUME NEW m \in core'.opened
          PROVE  /\ m.slot \in core.seen \ {RootSlot} /\ watch[m.slot] = "unseen" /\ m.id = Identity(m.slot, m.proc)
                 /\ \A c \in Family : Owns(c, m.slot) /\ Alive(c) => m.proc = c
      <4>1. CASE m = new
        <5>1. ASSUME NEW c \in Family, Owns(c, i), Alive(c) PROVE p = c
          BY <1>2, <2>1, <5>1, HolderIs
        <5> QED BY <1>2, <2>3, <4>1, <5>1
      <4>2. CASE m \in core.opened BY <4>2 DEF LookInv
      <4> QED BY <2>5, <4>1, <4>2
    <3>2. \A l, m \in core'.opened : l.slot = m.slot => l = m BY <1>2, <2>3, <2>5 DEF LookInv
    <3> QED BY <1>1, <1>5, <1>6, <2>1, <3>1, <3>2 DEF LookInv, InLook
  <2> QED BY <1>5, <1>7, <1>8, <2>6, <2>7, <2>8
<1>11. CASE /\ core' = core /\ held' = held
            /\ \/ watch' = [watch EXCEPT ![i] = "gone"] /\ unwatchable' = unwatchable /\ Holder(slots[i].pid) = {}
               \/ watch' = [watch EXCEPT ![i] = "denied"] /\ unwatchable' = unwatchable + 1 /\ \E p \in Holder(slots[i].pid) : p \in Closed
  <2>1. /\ watch' \in [Slots -> {"unseen", "gone", "denied", "turned_away", "ended"} \cup Everybody]
        /\ \A j \in Slots : j # i => watch'[j] = watch[j]
        /\ \/ watch'[i] = "gone" /\ unwatchable' = unwatchable /\ Holder(slots[i].pid) = {}
           \/ watch'[i] = "denied" /\ unwatchable' = unwatchable + 1 /\ \E p \in Holder(slots[i].pid) : p \in Closed
    BY <1>2, <1>9, <1>11
  <2>2. unwatchable' = Cardinality({j \in Slots : watch'[j] = "denied"})
    <3>0. unwatchable = Cardinality({j \in Slots : watch[j] = "denied"}) /\ IsFiniteSet({j \in Slots : watch[j] = "denied"})
      BY DeniedIs DEF FamilyTypeOK
    <3>1. CASE watch'[i] = "gone" /\ unwatchable' = unwatchable
      <4>1. {j \in Slots : watch'[j] = "denied"} = {j \in Slots : watch[j] = "denied"}
        BY <1>2, <2>1, <3>1
      <4> QED BY <3>0, <3>1, <4>1
    <3>2. CASE watch'[i] = "denied" /\ unwatchable' = unwatchable + 1
      <4>1. {j \in Slots : watch'[j] = "denied"} = {j \in Slots : watch[j] = "denied"} \cup {i}
        BY <1>2, <2>1, <3>2
      <4>2. i \notin {j \in Slots : watch[j] = "denied"} BY <1>2
      <4> QED BY <3>0, <3>2, <4>1, <4>2, FS_AddElement
    <3> QED BY <2>1, <3>1, <3>2
  <2>3. FamilyTypeOK' BY <1>1, <1>5, <1>11, <2>1, <2>2 DEF FamilyTypeOK, TreeInv
  <2>4. WatchInv'
    <3>1. \A j \in Slots : watch'[j] # "unseen" => slots[j].pid # NoOne BY <1>2, <2>1 DEF WatchInv
    <3>2. ASSUME NEW c \in Family \ {Root}, hook[c] = "signed", Alive(c)
          PROVE  watch'[slot[c]] \in {"unseen", c} \/ Excused(c)'
      <4>1. slot[c] \in Slots BY <3>2, SignedHas
      <4>2. CASE slot[c] # i
        <5>1. watch'[slot[c]] = watch[slot[c]] BY <2>1, <4>1, <4>2
        <5>2. Excused(c)' <=> Excused(c) BY <1>5, <5>1 DEF Excused
        <5> QED BY <3>2, <5>1, <5>2 DEF WatchInv
      <4>3. CASE slot[c] = i
        <5>1. Holder(slots[i].pid) = {c} BY <1>2, <3>2, <4>3, HolderIs DEF Owns
        <5>2. watch'[i] = "denied" /\ c \in Closed BY <2>1, <5>1
        <5> QED BY <1>5, <4>3, <5>2 DEF Excused
      <4> QED BY <4>2, <4>3
    <3> QED BY <1>5, <3>1, <3>2 DEF WatchInv
  <2>5. LookInv'
    <3>1. \A m \in core.opened : watch'[m.slot] = watch[m.slot] BY <1>2, <2>1, CoreIs
    <3> QED BY <1>1, <1>5, <1>11, <3>1 DEF LookInv, InLook
  <2> QED BY <1>5, <1>7, <1>8, <2>3, <2>4, <2>5
<1> QED BY <1>3, <1>10, <1>11

LEMMA Taking == FamilyInv /\ TakeMembers => FamilyInv'
<1> SUFFICES ASSUME FamilyInv, TakeMembers PROVE FamilyInv' OBVIOUS
<1> USE DEF FamilyInv
<1>1. /\ UNCHANGED tree /\ core.pc = "open" /\ Unseen = {} /\ unwatchable' = unwatchable /\ asked' = asked /\ left' = left
      /\ before' = before /\ held' \subseteq held
      /\ core' = [core EXCEPT !.pc = "wait", !.opened = {}]
      /\ watch' = [j \in Slots |->
                    IF \E m \in core.opened : m.slot = j
                    THEN LET m == CHOOSE m \in core.opened : m.slot = j
                         IN  IF Member(m) THEN m.proc ELSE "turned_away"
                    ELSE watch[j]]
  BY DEF TakeMembers, Do
<1>2. held' \subseteq Everybody BY <1>1 DEF FamilyTypeOK, TypeOK
<1>3. /\ TreeInv' /\ MaxSlots' = MaxSlots /\ Slots' = Slots /\ RootSlot' = RootSlot /\ Signed' = Signed
      /\ \A q : (Alive(q)' <=> Alive(q)) /\ (Followed(q)' <=> Followed(q))
      /\ hook' = hook /\ slot' = slot /\ slots' = slots /\ parent' = parent /\ pid' = pid
  BY <1>1, <1>2, Standing
<1>4. core' = [pc |-> "wait", for |-> core.for, launched |-> core.launched, at |-> core.at, seen |-> core.seen, opened |-> {}]
  BY <1>1, CoreIs
<1>5. /\ core'.pc = "wait" /\ core'.for = core.for /\ core'.launched = core.launched /\ core'.seen = core.seen
      /\ core'.at = core.at /\ core'.opened = {}
  BY <1>4
<1>6. ASSUME NEW m \in core.opened
      PROVE  m.slot \in Slots /\ m.proc \in Everybody /\ watch'[m.slot] = (IF Member(m) THEN m.proc ELSE "turned_away")
  <2>1. m.slot \in Slots /\ m.proc \in Everybody BY CoreIs
  <2>2. (CHOOSE l \in core.opened : l.slot = m.slot) = m BY DEF LookInv
  <2> QED BY <1>1, <2>1, <2>2
<1>7. \A j \in Slots : (\A m \in core.opened : m.slot # j) => watch'[j] = watch[j] BY <1>1
<1>8. /\ watch \in [Slots -> {"unseen", "gone", "denied", "turned_away", "ended"} \cup Everybody]
      /\ "unseen" \notin Everybody /\ "denied" \notin Everybody
  BY FamilyWatchAssumption DEF FamilyTypeOK
<1>9. ASSUME NEW j \in Slots
      PROVE  /\ watch'[j] \in {"unseen", "gone", "denied", "turned_away", "ended"} \cup Everybody
             /\ watch'[j] = "denied" <=> watch[j] = "denied"
             /\ watch'[j] # "unseen" => slots[j].pid # NoOne
  <2>1. CASE \E m \in core.opened : m.slot = j
    <3>1. PICK m \in core.opened : m.slot = j BY <2>1
    <3>2. watch'[j] \in Everybody \cup {"turned_away"} /\ watch[j] = "unseen" /\ slots[j].pid # NoOne
      BY <1>6, <3>1 DEF LookInv
    <3> QED BY <1>8, <3>2
  <2>2. CASE \A m \in core.opened : m.slot # j BY <1>7, <1>8, <2>2 DEF WatchInv
  <2> QED BY <2>1, <2>2
<1>10. FamilyTypeOK'
  <2>1. watch' \in [Slots -> {"unseen", "gone", "denied", "turned_away", "ended"} \cup Everybody]
    <3>1. watch' = [j \in Slots |-> watch'[j]] BY <1>1
    <3> QED BY <1>9, <3>1
  <2>2. {j \in Slots : watch'[j] = "denied"} = {j \in Slots : watch[j] = "denied"} BY <1>9
  <2>3. core' \in [pc : {"waiting", "scan", "open", "wait", "close", "last_look", "left", "left_pids", "over"},
                   for : {"poll", "beat", "close"}, launched : BOOLEAN, at : 1..MaxSlots + 1, seen : SUBSET Slots,
                   opened : SUBSET [slot : Slots, proc : Everybody, id : {"same", "other", "unknown"}]]
    BY <1>4, CoreIs
  <2>4. unwatchable' = Cardinality({j \in Slots : watch'[j] = "denied"})
    BY <1>1, <2>2 DEF FamilyTypeOK
  <2> QED BY <1>1, <1>3, <2>1, <2>3, <2>4 DEF FamilyTypeOK, TreeInv
<1>11. WatchInv'
  <2>1. ASSUME NEW c \in Family \ {Root}, hook[c] = "signed", Alive(c)
        PROVE  watch'[slot[c]] \in {"unseen", c} \/ Excused(c)'
    <3>1. slot[c] \in Slots /\ slots[slot[c]] = Signature(c) /\ c \in Everybody
      BY <2>1, SignedHas, SlotsAre DEF TreeInv
    <3>2. CASE \A m \in core.opened : m.slot # slot[c]
      <4>1. watch'[slot[c]] = watch[slot[c]] BY <1>7, <3>1, <3>2
      <4>2. Excused(c)' <=> Excused(c) BY <1>3, <4>1 DEF Excused
      <4> QED BY <2>1, <4>1, <4>2 DEF WatchInv
    <3>3. CASE \E m \in core.opened : m.slot = slot[c]
      <4>1. PICK m \in core.opened : m.slot = slot[c] BY <3>3
      <4>2. m.proc = c /\ m.id = Identity(slot[c], c) BY <2>1, <4>1 DEF LookInv, Owns
      <4>3. watch'[slot[c]] = (IF Member(m) THEN c ELSE "turned_away") BY <1>6, <4>1, <4>2
      <4>4. c \notin Timeless \cup WaitOnly => m.id = "same"
        <5>1. slots[slot[c]].created = (IF c \in Timeless THEN "unknown" ELSE c) /\ c # "unknown"
          BY <3>1, InheritanceAssumption DEF Signature
        <5> QED BY <4>2, <5>1 DEF Identity
      <4>5. c \in Timeless \cup WaitOnly => m.id \in {"same", "unknown"}
        <5>1. slots[slot[c]].created \in {c, "unknown"} BY <3>1 DEF Signature
        <5> QED BY <4>2, <5>1 DEF Identity
      <4>6. c \notin Adopted /\ parent[c] = Root => ListedParent(c) \in Known
        <5>1. Root # "outside" BY SlotsAre, InheritanceAssumption DEF TreeInv
        <5> QED BY <5>1 DEF ListedParent, Known
      <4>7. ~Member(m) => Excused(c)'
        BY <1>3, <2>1, <4>2, <4>3, <4>4, <4>5, <4>6 DEF Member, Excused
      <4> QED BY <4>3, <4>7
    <3> QED BY <3>2, <3>3
  <2> QED BY <1>3, <1>9, <2>1 DEF WatchInv
<1>12. LookInv'
  <2>1. ASSUME NEW j \in core.seen \ {RootSlot} PROVE watch'[j] # "unseen"
    <3>1. j \in Slots BY CoreIs
    <3>2. CASE \E m \in core.opened : m.slot = j BY <1>6, <1>8, <3>2
    <3>3. CASE \A m \in core.opened : m.slot # j BY <1>1, <1>7, <3>1, <3>3 DEF Unseen
    <3> QED BY <3>2, <3>3
  <2> QED BY <1>1, <1>3, <1>5, <2>1 DEF LookInv, InLook
<1>13. BeatInv'
  <2>1. (FoundGone' <=> FoundGone) /\ ~Ending' BY <1>1, <1>5 DEF FoundGone, InLook, Ending
  <2> QED BY <1>1, <1>3, <2>1 DEF BeatInv
<1>14. CloseInv'
  <2>1. Closing' <=> Closing BY <1>1, <1>5 DEF Closing, InLook
  <2> QED BY <1>1, <1>3, <1>5, <2>1 DEF CloseInv
<1> QED BY <1>3, <1>10, <1>11, <1>12, <1>13, <1>14

LEMMA WaitingOn == FamilyInv /\ WaitMember => FamilyInv'
<1> SUFFICES ASSUME FamilyInv, WaitMember PROVE FamilyInv' OBVIOUS
<1> USE DEF FamilyInv
<1> DEFINE i == core.at
<1>1. /\ UNCHANGED tree /\ core.pc = "wait" /\ i <= MaxSlots /\ unwatchable' = unwatchable /\ asked' = asked /\ left' = left
      /\ before' = before /\ held' \subseteq held
      /\ core' = [core EXCEPT !.at = @ + 1]
      /\ \/ i \in Living /\ ~Alive(watch[i]) /\ watch' = [watch EXCEPT ![i] = "ended"]
         \/ watch' = watch
  BY DEF WaitMember, Do
<1>2. held' \subseteq Everybody /\ MaxSlots \in Nat
  BY <1>1, SlotsAre DEF FamilyTypeOK, TypeOK, TreeInv
<1>3. /\ TreeInv' /\ MaxSlots' = MaxSlots /\ Slots' = Slots /\ RootSlot' = RootSlot /\ Signed' = Signed
      /\ \A q : (Alive(q)' <=> Alive(q)) /\ (Followed(q)' <=> Followed(q))
      /\ hook' = hook /\ slot' = slot /\ slots' = slots /\ parent' = parent /\ pid' = pid
  BY <1>1, <1>2, Standing
<1>4. core' = [pc |-> "wait", for |-> core.for, launched |-> core.launched, at |-> core.at + 1, seen |-> core.seen,
               opened |-> core.opened]
  BY <1>1, CoreIs
<1>5. /\ core'.pc = "wait" /\ core'.for = core.for /\ core'.launched = core.launched /\ core'.seen = core.seen
      /\ core'.opened = core.opened /\ core.opened = {}
  BY <1>1, <1>4 DEF LookInv
<1> HIDE DEF i
<1>6. /\ watch \in [Slots -> {"unseen", "gone", "denied", "turned_away", "ended"} \cup Everybody]
      /\ {"unseen", "gone", "denied", "turned_away", "ended"} \cap Everybody = {}
  BY FamilyWatchAssumption DEF FamilyTypeOK
<1>7. /\ watch' \in [Slots -> {"unseen", "gone", "denied", "turned_away", "ended"} \cup Everybody]
      /\ \A j \in Slots : \/ watch'[j] = watch[j]
                          \/ watch'[j] = "ended" /\ watch[j] \in Everybody /\ ~Alive(watch[j])
  <2>1. i \in Living => i \in Slots /\ watch[i] \in Everybody BY DEF Living
  <2> QED BY <1>1, <1>6, <2>1
<1>8. FamilyTypeOK'
  <2>1. {j \in Slots : watch'[j] = "denied"} = {j \in Slots : watch[j] = "denied"} BY <1>6, <1>7
  <2>2. unwatchable' = Cardinality({j \in Slots : watch'[j] = "denied"})
    BY <1>1, <2>1 DEF FamilyTypeOK
  <2>3. core.at + 1 \in 1..MaxSlots + 1 BY <1>1, <1>2, CoreIs DEF i
  <2>4. core' \in [pc : {"waiting", "scan", "open", "wait", "close", "last_look", "left", "left_pids", "over"},
                   for : {"poll", "beat", "close"}, launched : BOOLEAN, at : 1..MaxSlots + 1, seen : SUBSET Slots,
                   opened : SUBSET [slot : Slots, proc : Everybody, id : {"same", "other", "unknown"}]]
    BY <1>4, <2>3, CoreIs
  <2> QED BY <1>1, <1>3, <1>7, <2>2, <2>4 DEF FamilyTypeOK, TreeInv
<1>9. WatchInv'
  <2>1. \A j \in Slots : watch'[j] # "unseen" => slots[j].pid # NoOne BY <1>6, <1>7 DEF WatchInv
  <2>2. ASSUME NEW c \in Family \ {Root}, hook[c] = "signed", Alive(c)
        PROVE  watch'[slot[c]] \in {"unseen", c} \/ Excused(c)'
    <3>1. slot[c] \in Slots BY <2>2, SignedHas
    <3>2. watch'[slot[c]] = watch[slot[c]] BY <1>6, <1>7, <2>2, <3>1 DEF WatchInv, Excused
    <3>3. Excused(c)' <=> Excused(c) BY <1>3, <3>2 DEF Excused
    <3> QED BY <2>2, <3>2, <3>3 DEF WatchInv
  <2> QED BY <1>3, <2>1, <2>2 DEF WatchInv
<1>10. LookInv'
  <2>1. \A j \in core.seen \ {RootSlot} : watch'[j] # "unseen"
    BY <1>1, <1>6, <1>7, CoreIs DEF LookInv
  <2> QED BY <1>1, <1>3, <1>5, <2>1 DEF LookInv, InLook
<1>11. BeatInv'
  <2>1. (FoundGone' <=> FoundGone) /\ ~Ending' BY <1>1, <1>5 DEF FoundGone, InLook, Ending
  <2> QED BY <1>1, <1>3, <2>1 DEF BeatInv
<1>12. CloseInv'
  <2>1. Closing' <=> Closing BY <1>1, <1>5 DEF Closing, InLook
  <2> QED BY <1>1, <1>3, <1>5, <2>1 DEF CloseInv
<1> QED BY <1>3, <1>8, <1>9, <1>10, <1>11, <1>12

\* The heartbeat's decision.
LEMMA BeatEnds == FamilyInv /\ EndBeat => FamilyInv'
<1> SUFFICES ASSUME FamilyInv, EndBeat PROVE FamilyInv' OBVIOUS
<1> USE DEF FamilyInv
<1>1. /\ UNCHANGED tree /\ core.pc = "wait" /\ core.for = "beat"
      /\ held' = held /\ watch' = watch /\ unwatchable' = unwatchable /\ asked' = asked /\ left' = left /\ before' = before
  BY DEF EndBeat, Looked, Do
<1>2. held' \subseteq Everybody BY <1>1 DEF FamilyTypeOK, TypeOK
<1>3. /\ Signed' = Signed /\ Slots' = Slots
      /\ \A q : (Alive(q)' <=> Alive(q)) /\ (Followed(q)' <=> Followed(q))
      /\ slot' = slot /\ parent' = parent
  BY <1>1, <1>2, Standing
<1>4. asked' \subseteq Pids /\ left' \in BOOLEAN /\ before' \subseteq Signed
  BY <1>1 DEF FamilyTypeOK, LookInv
<1>5. CASE core' = [pc |-> "waiting", for |-> "poll", launched |-> TRUE, at |-> 1, seen |-> {}, opened |-> {}]
  <2>1. core'.pc = "waiting" /\ core'.for = "poll" BY <1>5
  <2>2. BeatInv' /\ CloseInv' BY <2>1 DEF BeatInv, CloseInv, FoundGone, Ending, Closing, InLook
  <2> QED BY <1>1, <1>2, <1>4, <1>5, <2>2, Turning
<1>6. CASE /\ core' = [pc |-> "close", for |-> "beat", launched |-> TRUE, at |-> 1, seen |-> {}, opened |-> {}]
           /\ Living = {} /\ ~core.launched
  <2>1. core'.pc = "close" /\ core'.for = "beat" BY <1>6
  <2>2. FoundGone BY <1>1, <1>6 DEF FoundGone, InLook
  <2>3. ASSUME NEW p \in before \ {Root} PROVE watch[slot[p]] # "unseen" /\ watch[slot[p]] \notin Everybody
    <3>1. p \in Family /\ hook[p] = "signed" BY DEF LookInv, Signed
    <3>2. slot[p] \in Slots BY <3>1, SignedHas
    <3>3. slot[p] # RootSlot BY <3>1, SignedHas, SlotsAre DEF RootSlot, TreeInv
    <3>4. slot[p] \in core.seen BY <1>1 DEF LookInv, InLook
    <3> QED BY <1>1, <1>6, <3>2, <3>3, <3>4 DEF LookInv, Living
  <2>4. BeatInv'
    <3>1. ~Alive(Root)' /\ \A p \in Family : parent'[p] = Root /\ Followed(p)' => p \in before'
      BY <1>1, <1>3, <2>2 DEF BeatInv
    <3>2. \A p \in before' \ {Root} : watch'[slot'[p]] # "unseen" /\ watch'[slot'[p]] \notin Everybody
      BY <1>1, <1>3, <2>3
    <3> QED BY <3>1, <3>2 DEF BeatInv
  <2>5. CloseInv' BY <2>1 DEF CloseInv, Closing, InLook
  <2> QED BY <1>1, <1>2, <1>4, <1>6, <2>4, <2>5, Turning
<1>7. Living # {} \/ core.launched => core' = Waiting BY DEF EndBeat
<1>8. Living = {} /\ ~core.launched => core' = [Waiting EXCEPT !.pc = "close", !.for = "beat"]
  BY DEF EndBeat
<1>9. core.launched \in BOOLEAN BY CoreIs
<1> QED BY <1>5, <1>6, <1>7, <1>8, <1>9 DEF Waiting

\* The steps in which the core only goes on to its next one.
LEMMA Passing == FamilyInv /\ (EndPoll \/ Command \/ EndLastLook) => FamilyInv'
<1> SUFFICES ASSUME FamilyInv, EndPoll \/ Command \/ EndLastLook PROVE FamilyInv' OBVIOUS
<1> USE DEF FamilyInv
<1>1. /\ UNCHANGED tree /\ held' = held /\ watch' = watch /\ unwatchable' = unwatchable /\ asked' = asked /\ left' = left
      /\ before' = before
  BY DEF EndPoll, Command, EndLastLook, Looked, Do
<1>2. held' \subseteq Everybody BY <1>1 DEF FamilyTypeOK, TypeOK
<1>3. \A q : Alive(q)' <=> Alive(q) BY <1>1, <1>2, Standing
<1>4. asked' \subseteq Pids /\ left' \in BOOLEAN /\ before' \subseteq Signed /\ pid' = pid
  BY <1>1 DEF FamilyTypeOK, LookInv, tree
<1>5. CASE EndPoll \/ Command
  <2>1. PICK pc \in {"waiting", "close"}, for \in {"poll", "close"} :
          core' = [pc |-> pc, for |-> for, launched |-> TRUE, at |-> 1, seen |-> {}, opened |-> {}]
    <3>1. CASE EndPoll
      <4>1. core' = [pc |-> "waiting", for |-> "poll", launched |-> TRUE, at |-> 1, seen |-> {}, opened |-> {}]
        BY <3>1 DEF EndPoll, Waiting
      <4> QED BY <4>1
    <3>2. CASE Command
      <4>1. core' = [pc |-> "close", for |-> "close", launched |-> TRUE, at |-> 1, seen |-> {}, opened |-> {}]
        BY <3>2 DEF Command, Waiting
      <4> QED BY <4>1
    <3> QED BY <1>5, <3>1, <3>2
  <2>2. core'.pc \in {"waiting", "close"} /\ core'.for # "beat" BY <2>1
  <2>3. BeatInv' /\ CloseInv' BY <2>2 DEF BeatInv, CloseInv, FoundGone, Ending, Closing, InLook
  <2> QED BY <1>1, <1>2, <1>4, <2>1, <2>3, Turning
<1>6. CASE EndLastLook
  <2>1. /\ core' = [pc |-> "left", for |-> "poll", launched |-> TRUE, at |-> 1, seen |-> {}, opened |-> {}]
        /\ core.pc = "wait" /\ core.for = "close"
    BY <1>6 DEF EndLastLook, Waiting, Looked, Do
  <2>2. core'.pc = "left" /\ core'.for = "poll" /\ Closing BY <2>1 DEF Closing, InLook
  <2>3. BeatInv' BY <2>2 DEF BeatInv, FoundGone, Ending, InLook
  <2>4. CloseInv' BY <1>1, <1>3, <1>4, <2>2 DEF CloseInv
  <2> QED BY <1>1, <1>2, <1>4, <2>1, <2>3, <2>4, Turning
<1> QED BY <1>5, <1>6

\* The last fold: every number signed in so far.
LEMMA Folding == FamilyInv /\ Fold => FamilyInv'
<1> SUFFICES ASSUME FamilyInv, Fold PROVE FamilyInv' OBVIOUS
<1> USE DEF FamilyInv
<1>1. /\ UNCHANGED tree /\ held' = held /\ watch' = watch /\ unwatchable' = unwatchable /\ left' = left
      /\ asked' = {slots[i].pid : i \in Slots} \ {NoOne} /\ before' = Signed
      /\ core' = [pc |-> "last_look", for |-> "poll", launched |-> TRUE, at |-> 1, seen |-> {}, opened |-> {}]
  BY DEF Fold, Do, Waiting
<1>2. held' \subseteq Everybody BY <1>1 DEF FamilyTypeOK, TypeOK
<1>3. (\A q : Alive(q)' <=> Alive(q)) /\ pid' = pid BY <1>1, <1>2, Standing
<1>4. core'.pc = "last_look" /\ core'.for = "poll" BY <1>1
<1>5. BeatInv' BY <1>4 DEF BeatInv, FoundGone, Ending, InLook
<1>6. CloseInv'
  <2>1. ASSUME NEW p \in Signed PROVE pid[p] \in asked'
    <3>1. slot[p] \in Slots /\ slots[slot[p]].pid = pid[p] /\ pid[p] # NoOne BY SignedHas DEF Signed
    <3> QED BY <1>1, <3>1
  <2> QED BY <1>1, <1>3, <1>4, <2>1 DEF CloseInv
<1>7. asked' \subseteq Pids
  <2>1. \A i \in Slots : slots[i].pid \in Pids \cup {NoOne} BY DEF FamilyTypeOK, TypeOK, Slots
  <2> QED BY <1>1, <2>1
<1>8. left' \in BOOLEAN /\ before' \subseteq Signed BY <1>1 DEF FamilyTypeOK
<1> QED BY <1>1, <1>2, <1>5, <1>6, <1>7, <1>8, Turning

\* What still runs: the launched process, then every number known.
LEMMA Leaving == FamilyInv /\ (AskLeft \/ AskLeftPid) => FamilyInv'
<1> SUFFICES ASSUME FamilyInv, AskLeft \/ AskLeftPid PROVE FamilyInv' OBVIOUS
<1> USE DEF FamilyInv
<1>1. /\ UNCHANGED tree /\ watch' = watch /\ unwatchable' = unwatchable /\ before' = before
      /\ core.pc \in {"left", "left_pids"} /\ core.opened = {}
  BY DEF AskLeft, AskLeftPid, Do, LookInv
<1>2. /\ held' \subseteq Everybody /\ asked' \subseteq Pids /\ asked' \subseteq asked /\ left' \in BOOLEAN
  BY DEF AskLeft, AskLeftPid, Over, FamilyTypeOK, TypeOK
<1>3. (\A q : Alive(q)' <=> Alive(q)) /\ pid' = pid BY <1>1, <1>2, Standing
<1>4. before' \subseteq Signed /\ before \subseteq Everybody /\ Closing
  BY <1>1, SlotsAre DEF LookInv, Signed, Closing, TreeInv
<1>5. CASE AskLeft /\ Alive(Root)
  <2>1. core' = [core EXCEPT !.pc = "over"] /\ left' = TRUE BY <1>1, <1>5 DEF AskLeft, Over
  <2>2. core'.pc = "over" BY <2>1, CoreIs
  <2>3. BeatInv' /\ CloseInv'
    BY <2>1, <2>2 DEF BeatInv, CloseInv, FoundGone, Ending, Closing, InLook
  <2> QED BY <1>1, <1>2, <1>4, <2>1, <2>3, CoreIs, Turning
<1>6. CASE AskLeft /\ ~Alive(Root)
  <2>1. core' = [core EXCEPT !.pc = "left_pids"] /\ asked' = asked BY <1>6 DEF AskLeft
  <2>2. core'.pc = "left_pids" BY <2>1, CoreIs
  <2>3. BeatInv' /\ CloseInv'
    BY <1>1, <1>3, <1>4, <1>6, <2>1, <2>2 DEF BeatInv, CloseInv, FoundGone, Ending, Closing, InLook
  <2> QED BY <1>1, <1>2, <1>4, <2>1, <2>3, CoreIs, Turning
<1>7. CASE AskLeftPid /\ asked = {} /\ Over(FALSE)
  <2>1. core' = [core EXCEPT !.pc = "over"] /\ core.pc = "left_pids"
    BY <1>7 DEF AskLeftPid, Over, Do
  <2>2. core'.pc = "over" BY <2>1, CoreIs
  <2>3. \A p \in before \cup {Root} : ~Alive(p) BY <1>4, <1>7, <2>1 DEF CloseInv
  <2>4. BeatInv' /\ CloseInv'
    BY <1>1, <1>3, <2>2, <2>3 DEF BeatInv, CloseInv, FoundGone, Ending, Closing, InLook
  <2> QED BY <1>1, <1>2, <1>4, <2>1, <2>4, CoreIs, Turning
<1>8. CASE AskLeftPid /\ Over(TRUE)
  <2>1. core' = [core EXCEPT !.pc = "over"] /\ left' = TRUE BY <1>8 DEF Over
  <2>2. core'.pc = "over" BY <2>1, CoreIs
  <2>3. BeatInv' /\ CloseInv'
    BY <2>1, <2>2 DEF BeatInv, CloseInv, FoundGone, Ending, Closing, InLook
  <2> QED BY <1>1, <1>2, <1>4, <2>1, <2>3, CoreIs, Turning
<1>9. ASSUME NEW number \in asked, AskLeftPid, Holder(number) = {}, asked' = asked \ {number}, core' = core
      PROVE  FamilyInv'
  <2>1. core.pc = "left_pids" /\ core' = [core EXCEPT !.pc = "left_pids"]
    <3>1. core.pc = "left_pids" BY <1>9 DEF AskLeftPid, Do
    <3> QED BY <1>9, <3>1, CoreIs
  <2>2. \A p \in before : Alive(p) => pid[p] # number BY <1>4, <1>9 DEF Holder
  <2>3. CloseInv' BY <1>1, <1>3, <1>4, <1>9, <2>1, <2>2 DEF CloseInv, Closing, InLook
  <2>4. BeatInv' BY <1>9, <2>1 DEF BeatInv, FoundGone, Ending, InLook
  <2> QED BY <1>1, <1>2, <1>4, <2>1, <2>3, <2>4, CoreIs, Turning
<1> QED BY <1>5, <1>6, <1>7, <1>8, <1>9 DEF AskLeft, AskLeftPid

LEMMA FamilySteps == FamilyInv /\ FamilyNext => FamilyInv'
<1> SUFFICES ASSUME FamilyInv, FamilyNext PROVE FamilyInv' OBVIOUS
<1>1. CASE TreeStep /\ UNCHANGED session BY <1>1, FamilyMoves
<1>2. CASE Poll \/ Beat \/ LastLook
  <2>1. CASE Poll BY <2>1, Asking DEF Poll
  <2>2. CASE Beat BY <2>2, Asking DEF Beat
  <2>3. CASE LastLook BY <2>3, Asking DEF LastLook
  <2> QED BY <1>2, <2>1, <2>2, <2>3
<1>3. CASE ScanSlot \/ OpenMember \/ TakeMembers \/ WaitMember
  BY <1>3, Scanning, Opening, Taking, WaitingOn
<1>4. CASE EndPoll \/ EndBeat \/ Command \/ EndLastLook BY <1>4, Passing, BeatEnds
<1>5. CASE Fold \/ AskLeft \/ AskLeftPid BY <1>5, Folding, Leaving
<1> QED BY <1>1, <1>2, <1>3, <1>4, <1>5 DEF FamilyNext, Look

LEMMA FamilyStands == FamilyInv /\ UNCHANGED familyVars => FamilyInv'
<1> SUFFICES ASSUME FamilyInv, UNCHANGED familyVars PROVE FamilyInv' OBVIOUS
<1> USE DEF FamilyInv
<1>1. /\ UNCHANGED tree /\ held' = held /\ core' = core /\ watch' = watch /\ unwatchable' = unwatchable
      /\ asked' = asked /\ left' = left /\ before' = before
  BY DEF familyVars, session
<1>2. held' \subseteq Everybody BY <1>1 DEF FamilyTypeOK, TypeOK
<1>3. /\ TreeInv' /\ MaxSlots' = MaxSlots /\ Slots' = Slots /\ RootSlot' = RootSlot /\ Signed' = Signed
      /\ \A q : (Alive(q)' <=> Alive(q)) /\ (Followed(q)' <=> Followed(q))
      /\ \A q, i : (Owns(q, i)' <=> Owns(q, i)) /\ Identity(i, q)' = Identity(i, q)
      /\ hook' = hook /\ slot' = slot /\ slots' = slots /\ parent' = parent /\ pid' = pid
  BY <1>1, <1>2, Standing
<1>4. (InLook' <=> InLook) /\ (FoundGone' <=> FoundGone) /\ (Ending' <=> Ending) /\ (Closing' <=> Closing)
  BY <1>1 DEF InLook, FoundGone, Ending, Closing
<1>5. FamilyTypeOK' BY <1>1, <1>3 DEF FamilyTypeOK, TreeInv
<1>6. WatchInv' BY <1>1, <1>3 DEF WatchInv, Excused
<1>7. LookInv' BY <1>1, <1>3, <1>4 DEF LookInv
<1>8. BeatInv' BY <1>1, <1>3, <1>4 DEF BeatInv
<1>9. CloseInv' BY <1>1, <1>3, <1>4 DEF CloseInv
<1> QED BY <1>3, <1>5, <1>6, <1>7, <1>8, <1>9

\* The count of the children nobody followed is exact, whatever the order of the steps.
LEMMA CountsFollow == FamilyInv => CountsAreTrue
<1> SUFFICES ASSUME FamilyInv PROVE CountsAreTrue OBVIOUS
<1> USE DEF FamilyInv, TreeInv
<1>1. UncoveredIsCounted
  <2> SUFFICES ASSUME NEW c \in Family, life[c] = "running", hook[c] # "signed", c \notin counted
               PROVE  claims > MaxSlots \/ Mistakable(c)
    BY DEF UncoveredIsCounted
  <2>1. call[c] = "over" /\ Alive(c) BY DEF LivesInv, Alive
  <2> QED BY <2>1 DEF AccountsInv
<1>2. CountedRanUncovered BY DEF CountedRanUncovered, AccountsInv, TypeOK
<1> QED BY <1>1, <1>2 DEF CountsAreTrue

\* A member the heartbeat's look ended under was seen, and is not among the watched: it denied
\* the handle, or the process list spoke against it.
LEMMA NobodyFollows == FamilyInv => NobodyIsForgotten
<1> SUFFICES ASSUME FamilyInv PROVE NobodyIsForgotten OBVIOUS
<1> USE DEF FamilyInv
<1>1. EndsUnderNobody
  <2> SUFFICES ASSUME Ending
               PROVE  /\ ~Alive(Root)
                      /\ \A p \in Family \ {Root} :
                            Followed(p) /\ (p \in before \/ parent[p] = Root) => Said(p) \/ Unvouched(p)
    BY DEF EndsUnderNobody
  <2>1. ~Alive(Root) /\ \A p \in Family : parent[p] = Root /\ Followed(p) => p \in before
    BY DEF BeatInv, FoundGone, Ending
  <2>2. ASSUME NEW p \in Family \ {Root}, Followed(p), p \in before PROVE Said(p) \/ Unvouched(p)
    <3>1. hook[p] = "signed" /\ Alive(p) /\ p \in Everybody
      BY <2>2, SlotsAre DEF Followed, Alive, TreeInv
    <3>2. watch[slot[p]] # "unseen" /\ watch[slot[p]] \notin Everybody /\ slot[p] \in Slots
      BY <2>2, <3>1, SignedHas DEF BeatInv
    <3>3. Excused(p) BY <3>1, <3>2 DEF WatchInv
    <3>4. watch[slot[p]] = "denied" => unwatchable > 0 BY <3>2, DeniedIs
    <3> QED BY <3>3, <3>4 DEF Excused, Said, Unvouched
  <2> QED BY <2>1, <2>2
<1>2. QuietAboutNobody BY DEF QuietAboutNobody, CloseInv
<1> QED BY <1>1, <1>2 DEF NobodyIsForgotten

-----------------------------------------------------------------------------
(* Ending a family: the inductive invariant.                               *)

Persons == [kin : BOOLEAN, by : Nat, number : 1..MaxNumbers, parent : Nat, how : {"followed", "ring", "unseen"},
            right : {"end", "ask", "none"}, is : {"up", "ending", "gone"}]

SearchFields == {"at", "round", "said", "taken", "read", "list", "todo", "ghosts", "grew", "found", "entry", "settled"}
Started == {"time", "list", "slots", "walk", "holder", "ring", "wait"}
Rounds  == {"slots", "walk", "holder", "ring"}
Walking == {"walk", "holder", "ring"}

SearchTypes ==
    /\ DOMAIN search = SearchFields
    /\ search.at \in Started \cup {"session", "root", "over"}
    /\ search.round \in 0..ROUNDS /\ (search.at = "time" => search.round < ROUNDS)
    /\ search.said \in BOOLEAN /\ search.read \in BOOLEAN /\ search.grew \in BOOLEAN /\ search.settled \in BOOLEAN
    /\ search.taken \in 0..Len(people)
    /\ search.list \subseteq [number : 1..MaxNumbers, parent : Nat]
    /\ search.at = "slots" => search.todo \subseteq registry.slots
    /\ search.at \in {"walk", "holder"} => search.todo \subseteq search.list
    /\ search.at = "ring" => search.todo \subseteq registry.ring
    /\ search.ghosts \subseteq registry.slots /\ search.found \subseteq DOMAIN people

EndTypes ==
    /\ people \in Seq(Persons) /\ Len(people) <= MaxPeople
    /\ target \in 0..Len(people)
    /\ SearchTypes
    /\ kept \subseteq DOMAIN people /\ family \subseteq DOMAIN people
    /\ named \subseteq registry.ring
    /\ registry.slots \subseteq Kin /\ registry.ring \subseteq 1..MaxNumbers
    /\ answer.left \subseteq DOMAIN people /\ answer.incomplete \in BOOLEAN
    /\ onList \subseteq DOMAIN people

\* Who started whom: a process of somebody else was started by one, and its parent's number is that
\* one's; the launched process is the application's, and lets this core end it.
PeopleInv ==
    /\ \A i \in DOMAIN people :
        /\ people[i].by < i
        /\ ~people[i].kin => \/ people[i].by = Nothing /\ people[i].parent = NoNumber
                             \/ /\ people[i].by \in DOMAIN people \ Kin
                                /\ people[i].parent = people[people[i].by].number
    /\ target # Nothing => people[target].kin /\ people[target].right = "end"
    /\ search.at # "session" => target # Nothing

\* A number is had by one process at a time that exists.
NumbersInv ==
    \A i, j \in DOMAIN people : i < j /\ people[i].number = people[j].number => ~Exists(i)

\* What the core holds: its family, and what it found in this round.
HeldInv ==
    /\ search.at # "over" => family \subseteq kept \cup {target} /\ search.found \subseteq kept
    /\ search.at \in {"session", "root"} =>
          family = {} /\ named = {} /\ search.ghosts = {} /\ search.found = {} /\ search.round = 0

\* The list, of this round: a process from before it is on it while it runs, with its own parent.
ListInv ==
    search.at \in Rounds =>
        /\ \A i \in DOMAIN people : i <= search.taken /\ Exists(i) =>
              /\ \A e \in search.list : e.number = people[i].number => e.parent = people[i].parent
              /\ search.read /\ There(i) => \E e \in search.list : e.number = people[i].number
        /\ search.read => \A i \in onList : [number |-> people[i].number, parent |-> people[i].parent] \in search.list
        /\ ~search.read => search.list = {}

EntryInv ==
    search.at = "holder" =>
        /\ search.read /\ search.entry.born \in kept /\ search.entry.born <= search.taken
        /\ search.entry.parent = people[search.entry.born].parent

\* The registry: a slot that was asked about is a member or vouched for, and a member if it still answers.
SlotsInv ==
    /\ search.at \in Rounds =>
        \A sl \in registry.slots :
            (search.at = "slots" => sl \notin search.todo) =>
                /\ sl \in family \cup search.found \cup search.ghosts
                /\ There(sl) /\ people[sl].right # "none" => sl \in family \cup search.found
    /\ search.at = "list" => search.found = {}
    /\ search.at = "slots" => search.found \subseteq registry.slots
    /\ search.at \in Walking => search.found \subseteq family

\* A family member that is not of this round's finds was ended when it could be.
EndedInv ==
    search.at \in Started \cup {"over"} =>
        \A p \in family : There(p) /\ people[p].right = "end" /\ (search.at \in Rounds => p \notin search.found) =>
            people[p].is = "ending"

\* A pass over the list that brought nothing new leaves out nobody that could be confirmed.
Passed(p) ==
    \/ search.at \in {"ring", "wait", "over"}
    \/ /\ [number |-> people[p].number, parent |-> people[p].parent] \notin search.todo
       /\ search.at = "holder" => p # search.entry.born
PassInv ==
    /\ search.at \in Walking \cup {"wait", "over"} /\ search.read /\ search.said /\ ~search.grew =>
        \A p \in Listed : There(p) /\ Reachable(p) /\ Passed(p) => p \in family
    /\ search.at = "ring" => ~search.grew
    /\ search.settled => search.at \in {"wait", "over"} /\ search.read /\ ~search.grew
    /\ search.at = "over" => answer.left = {i \in family : There(i)} /\ answer.incomplete = (~search.said \/ ~search.settled)

EndInv ==
    /\ EndTypes /\ PeopleInv /\ NumbersInv /\ HeldInv /\ ListInv /\ EntryInv /\ SlotsInv /\ EndedInv /\ PassInv
    /\ OnlyOrphansAreTaken

-----------------------------------------------------------------------------
(* The least and the greatest of some numbers.                             *)

LEMMA GreatestIs ==
    ASSUME NEW m \in Nat, NEW S \in SUBSET (0..m), S # {}
    PROVE  Max(S) \in S /\ \A y \in S : y <= Max(S)
<1> DEFINE T == {m - x : x \in S}
<1>0. \A x \in S : x \in Nat /\ m - x \in Nat OBVIOUS
<1>1. T \in SUBSET Nat /\ T # {} BY <1>0
<1>2. Min(T) \in T /\ \A y \in T : Min(T) <= y
  <2> HIDE DEF T
  <2> QED BY <1>1, LeastIs
<1>3. PICK x \in S : Min(T) = m - x BY <1>2
<1>4. \A y \in S : m - x <= m - y BY <1>2, <1>3
<1>5. \E z \in S : \A y \in S : z >= y BY <1>4
<1> QED BY <1>5 DEF Max

-----------------------------------------------------------------------------
(* Who has a number.                                                       *)

LEMMA PeopleAre ==
    ASSUME EndTypes
    PROVE  /\ DOMAIN people = 1..Len(people) /\ Len(people) \in Nat /\ Len(people) <= MaxPeople
           /\ \A i \in DOMAIN people : people[i] \in Persons
BY DEF EndTypes, SearchTypes

LEMMA BornOfIs ==
    ASSUME EndTypes, NumbersInv, NEW n
    PROVE  /\ BornOf(n) # Nothing =>
                BornOf(n) \in DOMAIN people /\ people[BornOf(n)].number = n /\ Exists(BornOf(n))
           /\ \A i \in DOMAIN people :
                people[i].number = n /\ Exists(i) /\ (i \in kept \/ people[i].right # "none") => BornOf(n) = i
           /\ BornOf(n) \in 0..Len(people)
<1> DEFINE answering == {i \in DOMAIN people : people[i].number = n /\ Exists(i) /\ people[i].right # "none"}
           opened == {i \in kept : people[i].number = n}
           S == IF opened # {} THEN opened ELSE answering
           U == S \cup {Nothing}
<1>1. BornOf(n) = Max(U) BY DEF BornOf
<1>2. \A i \in S : i \in DOMAIN people /\ people[i].number = n /\ Exists(i)
  BY DEF EndTypes, SearchTypes, Exists
<1>3. \A i, j \in DOMAIN people :
        people[i].number = n /\ Exists(i) /\ people[j].number = n /\ Exists(j) => i = j
  BY PeopleAre DEF NumbersInv
<1>4. U \in SUBSET (0..Len(people)) /\ U # {} /\ Len(people) \in Nat BY <1>2, PeopleAre DEF Nothing
<1>5. Max(U) \in U /\ \A y \in U : y <= Max(U)
  <2> HIDE DEF U
  <2> QED BY <1>4, GreatestIs
<1>6. ASSUME NEW i \in DOMAIN people, people[i].number = n, Exists(i), i \in kept \/ people[i].right # "none"
      PROVE  i \in S
  <2>1. CASE opened = {} BY <1>6, <2>1
  <2>2. CASE opened # {} BY <1>2, <1>3, <1>6, <2>2
  <2> QED BY <2>1, <2>2
<1>7. ASSUME NEW i \in S PROVE Max(U) = i
  <2>1. i \in 1..Len(people) BY <1>2, PeopleAre
  <2>2. Max(U) # Nothing BY <1>5, <2>1 DEF Nothing
  <2>3. Max(U) \in S BY <1>5, <2>2
  <2> HIDE DEF S, U
  <2> QED BY <1>2, <1>3, <2>3
<1> HIDE DEF S
<1> QED BY <1>1, <1>2, <1>4, <1>5, <1>6, <1>7

-----------------------------------------------------------------------------
(* What the processes do.                                                  *)

SameAs(x, y) ==
    /\ x.kin = y.kin /\ x.by = y.by /\ x.number = y.number /\ x.parent = y.parent /\ x.how = y.how /\ x.right = y.right

\* Processes start and go: nothing the core holds or has listed is touched.
LEMMA WorldMoves ==
    ASSUME EndInv, search.at # "over",
           UNCHANGED <<registry, search, kept, family, named, answer, onList>>,
           people' \in Seq(Persons), Len(people) <= Len(people'), Len(people') <= MaxPeople,
           \A i \in DOMAIN people : SameAs(people'[i], people[i]) /\ people'[i].is \in {people[i].is, "gone"},
           \/ target' = target
           \/ /\ target = Nothing /\ target' \in DOMAIN people' \ DOMAIN people
              /\ people'[target'].kin /\ people'[target'].right = "end",
           \A i \in DOMAIN people' \ DOMAIN people :
              /\ people'[i].by < i
              /\ ~people'[i].kin => \/ people'[i].by = Nothing /\ people'[i].parent = NoNumber
                                    \/ /\ people'[i].by \in DOMAIN people \ Kin
                                       /\ people'[i].parent = people[people'[i].by].number,
           NumbersInv'
    PROVE  EndInv'
<1> USE DEF EndInv
<1>1. /\ DOMAIN people = 1..Len(people) /\ Len(people) \in Nat /\ DOMAIN people' = 1..Len(people') /\ Len(people') \in Nat
      /\ DOMAIN people \subseteq DOMAIN people'
      /\ \A i \in DOMAIN people : people[i] \in Persons
  BY PeopleAre
<1>2. \A i \in DOMAIN people : i \in DOMAIN people' /\ (i \in Kin <=> i \in Kin') /\ (There(i)' => There(i))
  BY <1>1 DEF Kin, There, SameAs
<1>3. \A i \in DOMAIN people : Exists(i)' => Exists(i) BY <1>2 DEF Exists
<1>4. EndTypes'
  <2>1. target' \in 0..Len(people') /\ search'.taken \in 0..Len(people')
    BY <1>1 DEF EndTypes, SearchTypes, Nothing
  <2>2. registry'.slots \subseteq Kin' BY <1>2 DEF EndTypes, SearchTypes, Kin
  <2>3. search.found \subseteq DOMAIN people' /\ kept \subseteq DOMAIN people' /\ family \subseteq DOMAIN people'
        /\ answer.left \subseteq DOMAIN people' /\ onList \subseteq DOMAIN people'
    BY <1>1 DEF EndTypes, SearchTypes
  <2> QED BY <2>1, <2>2, <2>3 DEF EndTypes, SearchTypes
<1>5. PeopleInv'
  <2>1. ASSUME NEW i \in DOMAIN people'
        PROVE  /\ people'[i].by < i
               /\ ~people'[i].kin => \/ people'[i].by = Nothing /\ people'[i].parent = NoNumber
                                     \/ /\ people'[i].by \in DOMAIN people' \ Kin'
                                        /\ people'[i].parent = people'[people'[i].by].number
    <3>1. CASE i \in DOMAIN people
      <4>1. /\ people[i].by < i
            /\ ~people[i].kin => \/ people[i].by = Nothing /\ people[i].parent = NoNumber
                                 \/ /\ people[i].by \in DOMAIN people \ Kin
                                    /\ people[i].parent = people[people[i].by].number
        BY <3>1 DEF PeopleInv
      <4>2. /\ people'[i].by = people[i].by /\ people'[i].kin = people[i].kin /\ people'[i].parent = people[i].parent
            /\ \A j \in DOMAIN people : people'[j].number = people[j].number
        BY <3>1 DEF SameAs
      <4> QED BY <1>2, <4>1, <4>2
    <3>2. CASE i \notin DOMAIN people
      <4>1. \A j \in DOMAIN people : people'[j].number = people[j].number BY DEF SameAs
      <4> QED BY <1>2, <3>2, <4>1
    <3> QED BY <3>1, <3>2
  <2>2. target' # Nothing => people'[target'].kin /\ people'[target'].right = "end"
    BY <1>1 DEF PeopleInv, SameAs, EndTypes, SearchTypes, Nothing
  <2>3. search'.at # "session" => target' # Nothing BY DEF PeopleInv
  <2> QED BY <2>1, <2>2, <2>3 DEF PeopleInv
<1>6. HeldInv'
  <2>1. family \subseteq kept \cup {target'} /\ search.found \subseteq kept
    BY <1>1 DEF HeldInv, EndTypes, SearchTypes, Nothing
  <2> QED BY <2>1 DEF HeldInv
<1>7. ListInv'
  <2> SUFFICES ASSUME search.at \in Rounds PROVE ListInv' BY DEF ListInv
  <2>1. ASSUME NEW i \in DOMAIN people', i <= search.taken, Exists(i)'
        PROVE  /\ \A e \in search.list : e.number = people'[i].number => e.parent = people'[i].parent
               /\ search.read /\ There(i)' => \E e \in search.list : e.number = people'[i].number
    <3>1. i \in DOMAIN people BY <1>1, <2>1 DEF EndTypes, SearchTypes
    <3>2. Exists(i) /\ (There(i)' => There(i)) /\ people'[i].number = people[i].number /\ people'[i].parent = people[i].parent
      BY <1>2, <1>3, <2>1, <3>1 DEF SameAs
    <3> QED BY <2>1, <3>1, <3>2 DEF ListInv
  <2>2. search.read => \A i \in onList : [number |-> people'[i].number, parent |-> people'[i].parent] \in search.list
    BY DEF ListInv, EndTypes, SearchTypes, SameAs
  <2> QED BY <2>1, <2>2 DEF ListInv
<1>8. EntryInv'
  <2>1. search.at = "holder" => search.entry.born \in DOMAIN people
    BY DEF EntryInv, EndTypes, SearchTypes
  <2> QED BY <2>1 DEF EntryInv, SameAs
<1>9. SlotsInv'
  <2>1. \A i \in registry.slots : i \in DOMAIN people BY DEF EndTypes, SearchTypes, Kin
  <2>2. \A i \in registry.slots : There(i)' /\ people'[i].right # "none" => There(i) /\ people[i].right # "none"
    BY <1>2, <2>1 DEF SameAs
  <2> QED BY <2>2 DEF SlotsInv
<1>10. EndedInv'
  <2>1. \A p \in family : There(p)' /\ people'[p].right = "end" =>
           There(p) /\ people[p].right = "end" /\ people'[p].is = people[p].is
    BY <1>2 DEF EndTypes, SearchTypes, SameAs, There
  <2> QED BY <2>1 DEF EndedInv
<1>11. PassInv'
  <2>1. \A p \in Listed' : p \in Listed BY <1>2 DEF Listed, EndTypes, SearchTypes
  <2>2. ASSUME NEW p \in DOMAIN people
        PROVE  /\ There(p)' => There(p)
               /\ Reachable(p)' => Reachable(p)
               /\ Passed(p)' => Passed(p)
    <3>1. There(p)' => There(p) BY <1>2
    <3>2. people[p].by \in DOMAIN people \cup {Nothing}
      <4>1. people[p].by \in Nat /\ people[p].by < p /\ p \in 1..Len(people)
        BY <1>1, <2>2 DEF PeopleInv, Persons
      <4> QED BY <1>1, <4>1 DEF Nothing
    <3>3. /\ people'[p].right = people[p].right /\ people'[p].by = people[p].by
          /\ people'[p].number = people[p].number /\ people'[p].parent = people[p].parent
          /\ people[p].by # Nothing => people'[people[p].by].number = people[people[p].by].number
      BY <2>2, <3>2 DEF SameAs
    <3>4. Reachable(p)' => Reachable(p) BY <3>3 DEF Reachable
    <3>5. Passed(p)' => Passed(p) BY <3>3 DEF Passed
    <3> QED BY <3>1, <3>4, <3>5
  <2>3. \A p \in Listed : p \in DOMAIN people BY DEF Listed, Kin
  <2>4. search.at # "over" OBVIOUS
  <2> QED BY <2>1, <2>2, <2>3, <2>4 DEF PassInv
<1>12. OnlyOrphansAreTaken'
  <2> SUFFICES ASSUME NEW i \in family \ Kin'
               PROVE  people'[i].by # Nothing /\ (people'[i].by \in family \/ people'[people'[i].by].is = "gone")
    BY DEF OnlyOrphansAreTaken, There
  <2>1. i \in DOMAIN people /\ i \in family \ Kin BY <1>2 DEF EndTypes, SearchTypes
  <2>2. people[i].by # Nothing /\ (people[i].by \in family \/ ~There(people[i].by))
    BY <2>1 DEF OnlyOrphansAreTaken
  <2>3. people[i].by \in DOMAIN people /\ people'[i].by = people[i].by
    BY <1>1, <2>1, <2>2 DEF PeopleInv, Persons, Nothing, SameAs, Kin
  <2> QED BY <1>2, <2>2, <2>3 DEF There
<1> QED BY <1>4, <1>5, <1>6, <1>7, <1>8, <1>9, <1>10, <1>11, <1>12

\* A process that starts takes a number nobody has that exists.
LEMMA FreeNumbersAre ==
    ASSUME EndTypes, NEW n \in FreeNumbers
    PROVE  n \in 1..MaxNumbers /\ \A i \in DOMAIN people : people[i].number = n => ~Exists(i)
<1> USE EndFamilyAssumption
<1>1. \A i \in DOMAIN people : people[i].number \in 1..MaxNumbers BY PeopleAre DEF Persons
<1> DEFINE fresh == (1..MaxNumbers) \ NumberOf(DOMAIN people)
<1>2. CASE n \in NumberOf(DOMAIN people) \ Taken BY <1>1, <1>2 DEF NumberOf, Taken
<1>3. CASE fresh # {} /\ n = Min(fresh)
  <2>1. fresh \in SUBSET Nat OBVIOUS
  <2>2. Min(fresh) \in fresh
    <3> HIDE DEF fresh
    <3> QED BY <1>3, <2>1, LeastIs
  <2> QED BY <1>3, <2>2 DEF NumberOf
<1> QED BY <1>2, <1>3 DEF FreeNumbers

LEMMA Arrives ==
    ASSUME EndInv, search.at # "over", NEW new \in Persons, new.number \in FreeNumbers, Len(people) < MaxPeople,
           people' = Append(people, new),
           UNCHANGED <<registry, search, kept, family, named, answer, onList>>,
           \/ target' = target
           \/ target = Nothing /\ target' = Len(people) + 1 /\ new.kin /\ new.right = "end",
           new.by < Len(people) + 1,
           ~new.kin => \/ new.by = Nothing /\ new.parent = NoNumber
                       \/ new.by \in DOMAIN people \ Kin /\ new.parent = people[new.by].number
    PROVE  EndInv'
<1> USE DEF EndInv
<1>1. people \in Seq(Persons) /\ DOMAIN people = 1..Len(people) /\ Len(people) \in Nat /\ MaxPeople \in Nat
      /\ \A i \in DOMAIN people : people[i] \in Persons
  BY PeopleAre, EndFamilyAssumption DEF EndTypes, SearchTypes
<1>2. /\ people' \in Seq(Persons) /\ Len(people') = Len(people) + 1 /\ DOMAIN people' = 1..(Len(people) + 1)
      /\ \A i \in DOMAIN people : people'[i] = people[i]
      /\ people'[Len(people) + 1] = new
  BY <1>1
<1>3. Len(people') <= MaxPeople BY <1>1, <1>2
<1>4. \A i \in DOMAIN people : SameAs(people'[i], people[i]) /\ people'[i].is \in {people[i].is, "gone"}
  BY <1>2 DEF SameAs
<1>5. DOMAIN people' \ DOMAIN people = {Len(people) + 1} BY <1>1, <1>2
<1>6. NumbersInv'
  <2> SUFFICES ASSUME NEW i \in DOMAIN people', NEW j \in DOMAIN people', i < j, people'[i].number = people'[j].number
               PROVE  ~Exists(i)'
    BY DEF NumbersInv
  <2>1. i \in DOMAIN people BY <1>1, <1>2
  <2>2. ~Exists(i)
    <3>1. CASE j \in DOMAIN people BY <1>2, <2>1, <3>1 DEF NumbersInv
    <3>2. CASE j = Len(people) + 1 BY <1>2, <2>1, <3>2, FreeNumbersAre
    <3> QED BY <1>5, <3>1, <3>2
  <2> QED BY <1>1, <1>2, <2>1, <2>2 DEF Exists, There
<1>7. Len(people) <= Len(people') BY <1>1, <1>2
<1>8. \/ target' = target
      \/ /\ target = Nothing /\ target' \in DOMAIN people' \ DOMAIN people
         /\ people'[target'].kin /\ people'[target'].right = "end"
  BY <1>2, <1>5
<1>9. \A i \in DOMAIN people' \ DOMAIN people :
              /\ people'[i].by < i
              /\ ~people'[i].kin => \/ people'[i].by = Nothing /\ people'[i].parent = NoNumber
                                    \/ /\ people'[i].by \in DOMAIN people \ Kin
                                       /\ people'[i].parent = people[people'[i].by].number
  BY <1>2, <1>5
<1> QED BY <1>2, <1>3, <1>4, <1>6, <1>7, <1>8, <1>9, WorldMoves

\* The steps of the system.
LEMMA WorldSteps ==
    ASSUME EndInv, search.at # "over",
           \/ \E i \in DOMAIN people : ProcessGoes(i)
           \/ /\ search.at # "wait"
              /\ AppLaunches \/ OtherStarts \/ \E i \in DOMAIN people : KinStarts(i)
    PROVE  EndInv'
<1> USE DEF EndInv
<1>0. /\ people \in Seq(Persons) /\ DOMAIN people = 1..Len(people) /\ Len(people) \in Nat
      /\ \A i \in DOMAIN people : people[i] \in Persons
  BY PeopleAre DEF EndTypes, SearchTypes
<1>1. ASSUME NEW i \in DOMAIN people, ProcessGoes(i) PROVE EndInv'
  <2>1. people' = [people EXCEPT ![i].is = "gone"] /\ target' = target
        /\ UNCHANGED <<registry, search, kept, family, named, answer, onList>>
    BY <1>1 DEF ProcessGoes
  <2>2. [people[i] EXCEPT !.is = "gone"] \in Persons /\ SameAs([people[i] EXCEPT !.is = "gone"], people[i])
        /\ [people[i] EXCEPT !.is = "gone"].is = "gone"
    BY <1>0 DEF Persons, SameAs
  <2>3. people' = [people EXCEPT ![i] = [people[i] EXCEPT !.is = "gone"]] BY <2>1
  <2>4. /\ people' \in Seq(Persons) /\ Len(people') = Len(people) /\ DOMAIN people' = DOMAIN people
        /\ \A j \in DOMAIN people : SameAs(people'[j], people[j]) /\ people'[j].is \in {people[j].is, "gone"}
    <3> HIDE <2>1
    <3>1. people' \in Seq(Persons) /\ Len(people') = Len(people) /\ DOMAIN people' = DOMAIN people
      BY <1>0, <2>2, <2>3
    <3>2. \A j \in DOMAIN people : people'[j] = IF j = i THEN [people[i] EXCEPT !.is = "gone"] ELSE people[j]
      BY <1>0, <2>3
    <3>3. \A j \in DOMAIN people : SameAs(people[j], people[j]) BY DEF SameAs
    <3> QED BY <2>2, <3>1, <3>2, <3>3
  <2>5. NumbersInv'
    <3>1. \A j \in DOMAIN people : people'[j].number = people[j].number /\ (Exists(j)' => Exists(j))
      BY <2>1, <2>4 DEF SameAs, Exists, There
    <3> QED BY <2>4, <3>1 DEF NumbersInv
  <2>6. Len(people') <= MaxPeople /\ Len(people) <= Len(people') BY <1>0, <2>4, PeopleAre
  <2> QED BY <2>1, <2>4, <2>5, <2>6, WorldMoves
<1>2. ASSUME AppLaunches PROVE EndInv'
  <2>1. /\ target = Nothing /\ target' = Len(people) + 1 /\ Len(people) < MaxPeople
        /\ UNCHANGED <<registry, search, kept, family, named, answer, onList>>
    BY <1>2 DEF AppLaunches, Starts
  <2>2. PICK n \in FreeNumbers :
          people' = Append(people, [kin |-> TRUE, by |-> Nothing, number |-> n, parent |-> NoNumber,
                                    how |-> "followed", right |-> "end", is |-> "up"])
    BY <1>2 DEF AppLaunches, Starts
  <2>3. PICK new : new = [kin |-> TRUE, by |-> Nothing, number |-> n, parent |-> NoNumber,
                                    how |-> "followed", right |-> "end", is |-> "up"]
    OBVIOUS
  <2>4. /\ new \in Persons /\ new.number = n /\ new.kin /\ new.right = "end" /\ new.by = 0
    BY <2>2, <2>3, FreeNumbersAre DEF Persons, Nothing, NoNumber
  <2> QED BY <1>0, <2>1, <2>2, <2>3, <2>4, Arrives
<1>3. ASSUME NEW i \in DOMAIN people, KinStarts(i) PROVE EndInv'
  <2>1. PICK right \in KinRights, how \in {"followed", "ring", "unseen"}, par \in DOMAIN people :
          Starts(TRUE, i, people[par].number, how, right)
    <3>1. PICK right \in KinRights :
            \/ \E how \in IF search.at = "session" THEN {"followed", "ring", "unseen"} ELSE {"unseen"} :
                  Starts(TRUE, i, people[i].number, how, right)
            \/ \E other \in DOMAIN people \ Kin :
                  There(other) /\ Starts(TRUE, i, people[other].number, "ring", right)
      BY <1>3 DEF KinStarts
    <3>2. CASE \E how \in IF search.at = "session" THEN {"followed", "ring", "unseen"} ELSE {"unseen"} :
                  Starts(TRUE, i, people[i].number, how, right)
      BY <3>2
    <3>3. CASE \E other \in DOMAIN people \ Kin :
                  There(other) /\ Starts(TRUE, i, people[other].number, "ring", right)
      BY <3>3
    <3> QED BY <3>1, <3>2, <3>3
  <2>2. PICK n \in FreeNumbers :
          people' = Append(people, [kin |-> TRUE, by |-> i, number |-> n, parent |-> people[par].number,
                                    how |-> how, right |-> right, is |-> "up"])
    BY <2>1 DEF Starts
  <2>3. /\ Len(people) < MaxPeople /\ target' = target /\ UNCHANGED <<registry, search, kept, family, named, answer, onList>>
    BY <1>3, <2>1 DEF KinStarts, Starts
  <2>4. PICK new : new = [kin |-> TRUE, by |-> i, number |-> n, parent |-> people[par].number,
                                    how |-> how, right |-> right, is |-> "up"]
    OBVIOUS
  <2>5. people[par].number \in Nat /\ i \in Nat /\ right \in {"end", "ask", "none"}
    <3>1. people[par] \in Persons /\ i \in 1..Len(people) /\ right \in KinRights BY <1>0, <2>1
    <3>2. right \in {"end", "ask", "none"} BY <3>1, EndFamilyAssumption
    <3>3. people[par].number \in Nat BY <3>1 DEF Persons
    <3> QED BY <1>0, <3>1, <3>2, <3>3
  <2>6. new \in Persons /\ new.number = n /\ new.kin /\ new.by = i
    BY <2>4, <2>5, FreeNumbersAre DEF Persons
  <2>7. new.by < Len(people) + 1 BY <1>0, <2>6
  <2> QED BY <2>2, <2>3, <2>4, <2>6, <2>7, Arrives
<1>4. ASSUME OtherStarts PROVE EndInv'
  <2>1. PICK right \in OtherRights, by \in DOMAIN people \cup {Nothing}, named_by \in Nat :
          /\ Starts(FALSE, by, named_by, "unseen", right)
          /\ \/ by = Nothing /\ named_by = NoNumber
             \/ by \in DOMAIN people \ Kin /\ named_by = people[by].number
    <3>1. PICK right \in OtherRights :
            \/ Starts(FALSE, Nothing, NoNumber, "unseen", right)
            \/ \E i \in DOMAIN people \ Kin : Starts(FALSE, i, people[i].number, "unseen", right)
      BY <1>4 DEF OtherStarts
    <3>2. CASE Starts(FALSE, Nothing, NoNumber, "unseen", right) BY <3>2 DEF NoNumber
    <3>3. CASE \E i \in DOMAIN people \ Kin : Starts(FALSE, i, people[i].number, "unseen", right)
      <4>1. PICK i \in DOMAIN people \ Kin : Starts(FALSE, i, people[i].number, "unseen", right)
        BY <3>3
      <4>2. people[i].number \in Nat BY <1>0 DEF Persons
      <4> QED BY <4>1, <4>2
    <3> QED BY <3>1, <3>2, <3>3
  <2>2. PICK n \in FreeNumbers :
          people' = Append(people, [kin |-> FALSE, by |-> by, number |-> n, parent |-> named_by,
                                    how |-> "unseen", right |-> right, is |-> "up"])
    BY <2>1 DEF Starts
  <2>3. /\ Len(people) < MaxPeople /\ target' = target /\ UNCHANGED <<registry, search, kept, family, named, answer, onList>>
    BY <1>4, <2>1 DEF OtherStarts, Starts
  <2>4. PICK new : new = [kin |-> FALSE, by |-> by, number |-> n, parent |-> named_by,
                                    how |-> "unseen", right |-> right, is |-> "up"]
    OBVIOUS
  <2>5. by \in Nat /\ by < Len(people) + 1 /\ right \in {"end", "ask", "none"}
    BY <1>0, EndFamilyAssumption DEF Nothing
  <2>6. new \in Persons /\ new.number = n /\ ~new.kin /\ new.by = by /\ new.parent = named_by
    BY <2>4, <2>5, FreeNumbersAre DEF Persons
  <2> QED BY <2>1, <2>2, <2>3, <2>4, <2>5, <2>6, Arrives
<1> QED BY <1>1, <1>2, <1>3, <1>4

-----------------------------------------------------------------------------
(* What the core does.                                                     *)

\* Asking who has a number keeps nothing that does not exist already.
LEMMA AskingIs ==
    ASSUME EndTypes, NumbersInv, UNCHANGED <<people, target>>, NEW n, kept' = kept \/ AskedOf(n)
    PROVE  /\ kept \subseteq kept' /\ kept' \subseteq DOMAIN people
           /\ \A i \in DOMAIN people : Exists(i)' <=> Exists(i)
           /\ AskedOf(n) /\ BornOf(n) # Nothing => BornOf(n) \in kept'
<1>1. BornOf(n) # Nothing => BornOf(n) \in DOMAIN people /\ Exists(BornOf(n)) BY BornOfIs
<1>2. kept \subseteq kept' /\ \A i \in kept' : i \in kept \/ (i = BornOf(n) /\ i # Nothing)
  BY DEF AskedOf
<1>3. kept' \subseteq DOMAIN people BY <1>1, <1>2 DEF EndTypes, SearchTypes
<1>4. \A i \in DOMAIN people : There(i)' <=> There(i) BY DEF There
<1>5. \A i \in DOMAIN people : Exists(i)' <=> Exists(i) BY <1>1, <1>2, <1>4 DEF Exists
<1> QED BY <1>2, <1>3, <1>5 DEF AskedOf

\* Two that exist and have the same number are one; a family member exists until the answer.
LEMMA OneHasIt ==
    ASSUME EndTypes, NumbersInv, HeldInv
    PROVE  /\ \A i, j \in DOMAIN people :
                 Exists(i) /\ Exists(j) /\ people[i].number = people[j].number => i = j
           /\ search.at # "over" => \A k \in family : k \in DOMAIN people /\ Exists(k)
<1>1. \A i, j \in DOMAIN people : i < j \/ j < i \/ i = j BY PeopleAre
<1> QED BY <1>1 DEF NumbersInv, HeldInv, EndTypes, SearchTypes, Exists

\* A step that leaves the processes alone.
LEMMA StillPeople ==
    ASSUME PeopleInv, NumbersInv, UNCHANGED <<people, target>>, target # Nothing,
           \A i \in DOMAIN people : Exists(i)' => Exists(i)
    PROVE  PeopleInv' /\ NumbersInv'
<1>1. PeopleInv' BY DEF PeopleInv, Kin
<1>2. NumbersInv' BY DEF NumbersInv
<1> QED BY <1>1, <1>2

\* Ending some of them changes whether they are up, and nothing else.
LEMMA EndingIs ==
    ASSUME EndTypes, NEW S, people' = Ended(S)
    PROVE  /\ people' \in Seq(Persons) /\ Len(people') = Len(people) /\ DOMAIN people' = DOMAIN people
           /\ \A i \in DOMAIN people :
                /\ SameAs(people'[i], people[i]) /\ (There(i)' <=> There(i))
                /\ people[i].is = "ending" => people'[i].is = "ending"
                /\ i \in S /\ people[i].right = "end" /\ There(i) => people'[i].is = "ending"
<1>1. people \in Seq(Persons) /\ DOMAIN people = 1..Len(people) /\ Len(people) \in Nat
      /\ \A i \in DOMAIN people : people[i] \in Persons
  BY PeopleAre DEF EndTypes, SearchTypes
<1>2. \A i \in DOMAIN people :
        people'[i] = IF i \in S /\ people[i].right = "end" /\ people[i].is = "up"
                     THEN [people[i] EXCEPT !.is = "ending"] ELSE people[i]
  BY DEF Ended
<1>3. ASSUME NEW x \in Persons
      PROVE  [x EXCEPT !.is = "ending"] \in Persons /\ SameAs([x EXCEPT !.is = "ending"], x)
             /\ [x EXCEPT !.is = "ending"].is = "ending" /\ SameAs(x, x)
  BY DEF Persons, SameAs
<1>4. \A i \in DOMAIN people : people'[i] \in Persons /\ SameAs(people'[i], people[i])
  BY <1>1, <1>2, <1>3
<1>5. DOMAIN people' = DOMAIN people BY DEF Ended
<1>6. people' \in [1..Len(people) -> Persons] BY <1>1, <1>4 DEF Ended
<1>7. people' \in Seq(Persons) /\ Len(people') = Len(people) BY <1>1, <1>6
<1>8. ASSUME NEW i \in DOMAIN people
      PROVE  /\ (There(i)' <=> There(i))
             /\ people[i].is = "ending" => people'[i].is = "ending"
             /\ i \in S /\ people[i].right = "end" /\ There(i) => people'[i].is = "ending"
  <2>1. people[i].is \in {"up", "ending", "gone"} BY <1>1 DEF Persons
  <2>2. CASE i \in S /\ people[i].right = "end" /\ people[i].is = "up"
    <3>1. people[i] \in Persons /\ people'[i] = [people[i] EXCEPT !.is = "ending"]
      BY <1>1, <1>2, <2>2
    <3>2. people'[i].is = "ending" BY <1>3, <3>1
    <3> QED BY <2>2, <3>2 DEF There
  <2>3. CASE ~(i \in S /\ people[i].right = "end" /\ people[i].is = "up")
    BY <1>2, <2>1, <2>3 DEF There
  <2> QED BY <2>2, <2>3
<1> QED BY <1>4, <1>5, <1>7, <1>8

\* So does what they are to each other.
LEMMA EndingPeople ==
    ASSUME EndTypes, PeopleInv, NumbersInv, NEW S, people' = Ended(S), target' = target, target # Nothing, kept' = kept
    PROVE  PeopleInv' /\ NumbersInv' /\ Kin' = Kin
<1>1. /\ Len(people') = Len(people) /\ DOMAIN people' = DOMAIN people
      /\ \A i \in DOMAIN people : SameAs(people'[i], people[i]) /\ (There(i)' <=> There(i))
  BY EndingIs
<1>2. Kin' = Kin BY <1>1 DEF Kin, SameAs
<1>3. NumbersInv' BY <1>1 DEF NumbersInv, Exists, SameAs
<1>4. ASSUME NEW i \in DOMAIN people
      PROVE  /\ people'[i].by < i
             /\ ~people'[i].kin => \/ people'[i].by = Nothing /\ people'[i].parent = NoNumber
                                   \/ /\ people'[i].by \in DOMAIN people \ Kin
                                      /\ people'[i].parent = people'[people'[i].by].number
  <2>1. /\ people[i].by < i
        /\ ~people[i].kin => \/ people[i].by = Nothing /\ people[i].parent = NoNumber
                             \/ /\ people[i].by \in DOMAIN people \ Kin
                                /\ people[i].parent = people[people[i].by].number
    BY DEF PeopleInv
  <2>2. /\ people'[i].by = people[i].by /\ people'[i].kin = people[i].kin /\ people'[i].parent = people[i].parent
        /\ \A j \in DOMAIN people : people'[j].number = people[j].number
    BY <1>1 DEF SameAs
  <2> QED BY <2>1, <2>2
<1>5. people'[target].kin /\ people'[target].right = "end"
  BY <1>1, PeopleAre DEF PeopleInv, SameAs, EndTypes, SearchTypes, Nothing
<1>6. PeopleInv' BY <1>1, <1>2, <1>4, <1>5 DEF PeopleInv
<1> QED BY <1>2, <1>3, <1>6

LEMMA EndStarts == EndInit => EndInv
<1> SUFFICES ASSUME EndInit PROVE EndInv OBVIOUS
<1> USE EndFamilyAssumption
<1>1. DOMAIN people = {} /\ Len(people) = 0 /\ people \in Seq(Persons) BY DEF EndInit
<1>2. /\ search.at = "session" /\ search.round = 0 /\ search.said = TRUE /\ search.taken = 0 /\ search.read = FALSE
      /\ search.list = {} /\ search.todo = {} /\ search.ghosts = {} /\ search.grew = FALSE /\ search.found = {}
      /\ search.settled = FALSE /\ DOMAIN search = SearchFields
  BY DEF EndInit, SearchFields
<1>3. target = 0 /\ registry.slots = {} /\ registry.ring = {} /\ kept = {} /\ family = {} /\ named = {} /\ onList = {}
      /\ answer.left = {} /\ answer.incomplete = FALSE
  BY DEF EndInit, Nothing
<1>4. EndTypes
  <2>1. MaxPeople \in Nat /\ ROUNDS \in Nat OBVIOUS
  <2>2. people \in Seq(Persons) /\ Len(people) <= MaxPeople /\ target \in 0..Len(people)
    BY <1>1, <1>3, <2>1
  <2>3. /\ search.at \in Started \cup {"session", "root", "over"} /\ search.round \in 0..ROUNDS
        /\ (search.at = "time" => search.round < ROUNDS) /\ search.taken \in 0..Len(people)
    BY <1>1, <1>2, <2>1
  <2> QED BY <1>1, <1>2, <1>3, <2>2, <2>3 DEF EndTypes, SearchTypes
<1>5. PeopleInv /\ NumbersInv /\ HeldInv /\ OnlyOrphansAreTaken
  BY <1>1, <1>2, <1>3 DEF PeopleInv, NumbersInv, HeldInv, OnlyOrphansAreTaken, Nothing
<1>6. ListInv /\ EntryInv /\ SlotsInv /\ EndedInv /\ PassInv
  BY <1>2 DEF ListInv, EntryInv, SlotsInv, EndedInv, PassInv, Rounds, Walking, Started
<1> QED BY <1>4, <1>5, <1>6 DEF EndInv

LEMMA Refusing == EndInv /\ Refuses => EndInv'
<1> SUFFICES ASSUME EndInv, Refuses PROVE EndInv' OBVIOUS
<1> USE DEF EndInv
<1>0. DOMAIN people = 1..Len(people) /\ Len(people) \in Nat /\ \A i \in DOMAIN people : people[i] \in Persons
  BY PeopleAre
<1>1. /\ people' = people /\ target' = target /\ kept' = kept /\ family' = family /\ named' = named
      /\ answer' = answer /\ onList' = onList /\ search.at = "session" /\ target # Nothing
  BY DEF Refuses, World
<1>2. /\ search' = [search EXCEPT !.at = "root"] /\ DOMAIN search' = SearchFields /\ search'.at = "root"
      /\ \A f \in SearchFields \ {"at"} : search'[f] = search[f]
  BY DEF Refuses, EndTypes, SearchTypes
<1>3. /\ search'.round = search.round /\ search'.said = search.said /\ search'.taken = search.taken /\ search'.read = search.read
      /\ search'.list = search.list /\ search'.ghosts = search.ghosts /\ search'.grew = search.grew
      /\ search'.found = search.found /\ search'.settled = search.settled
  BY <1>2 DEF SearchFields
<1>4. registry'.slots \subseteq Kin /\ registry'.ring \subseteq 1..MaxNumbers
  <2>1. /\ registry'.slots = {i \in Kin : people[i].how = "followed"}
        /\ registry'.ring = NumberOf({i \in Kin : people[i].how = "ring"})
    BY DEF Refuses
  <2> QED BY <1>0, <2>1 DEF NumberOf, Kin, Persons
<1>5. search.ghosts = {} /\ named = {} /\ search.found = {} /\ family = {} /\ search.round = 0
  BY <1>1 DEF HeldInv
<1>6. EndTypes' BY <1>1, <1>2, <1>3, <1>4, <1>5 DEF EndTypes, SearchTypes, Kin
<1>7. PeopleInv' /\ NumbersInv' BY <1>1, StillPeople DEF Exists, There
<1>8. HeldInv' /\ ListInv' /\ EntryInv' /\ SlotsInv' /\ EndedInv' /\ OnlyOrphansAreTaken'
  BY <1>1, <1>2, <1>3, <1>5 DEF HeldInv, ListInv, EntryInv, SlotsInv, EndedInv, OnlyOrphansAreTaken, Rounds, Walking, Started
<1>9. PassInv' BY <1>1, <1>2, <1>3 DEF PassInv, Walking
<1> QED BY <1>6, <1>7, <1>8, <1>9

LEMMA RootEnds == EndInv /\ EndsRoot => EndInv'
<1> SUFFICES ASSUME EndInv, EndsRoot PROVE EndInv' OBVIOUS
<1> USE DEF EndInv
<1>0. DOMAIN people = 1..Len(people) /\ Len(people) \in Nat /\ Len(people) <= MaxPeople BY PeopleAre
<1>1. /\ target' = target /\ kept' = kept /\ family' = {target} /\ named' = named /\ registry' = registry
      /\ answer' = answer /\ onList' = onList /\ search.at = "root" /\ people' = Ended({target})
  BY DEF EndsRoot
<1>2. PICK said \in BOOLEAN : search' = [search EXCEPT !.at = "time", !.said = said] BY DEF EndsRoot
<1>3. /\ DOMAIN search' = SearchFields /\ search'.at = "time" /\ search'.said = said
      /\ search'.round = search.round /\ search'.taken = search.taken /\ search'.read = search.read
      /\ search'.list = search.list /\ search'.ghosts = search.ghosts /\ search'.grew = search.grew
      /\ search'.found = search.found /\ search'.settled = search.settled
  BY <1>2 DEF EndTypes, SearchTypes, SearchFields
<1>4. target \in DOMAIN people /\ people[target].kin /\ target # Nothing
  BY <1>0, <1>1 DEF PeopleInv, EndTypes, SearchTypes, Nothing
<1>5. named = {} /\ search.ghosts = {} /\ search.found = {} /\ search.round = 0 BY <1>1 DEF HeldInv
<1>6. PeopleInv' /\ NumbersInv' /\ Kin' = Kin
  <2>1. target' = target /\ kept' = kept /\ people' = Ended({target}) BY <1>1
  <2> QED BY <1>4, <2>1, EndingPeople
<1>7. EndTypes'
  <2>1. 0 < ROUNDS /\ ROUNDS \in Nat BY EndFamilyAssumption
  <2>2. people' \in Seq(Persons) /\ Len(people') = Len(people) /\ DOMAIN people' = DOMAIN people
    BY <1>1, EndingIs
  <2> QED
    <3>1. SearchTypes' BY <1>0, <1>1, <1>3, <1>5, <2>1, <2>2 DEF SearchTypes, EndTypes, Started
    <3>2. target' \in 0..Len(people') /\ kept' \subseteq DOMAIN people' /\ family' \subseteq DOMAIN people'
          /\ onList' \subseteq DOMAIN people' /\ answer'.left \subseteq DOMAIN people'
      BY <1>1, <1>4, <2>2 DEF EndTypes
    <3> QED BY <1>0, <1>1, <1>5, <1>6, <2>2, <3>1, <3>2 DEF EndTypes
<1>8. HeldInv' /\ ListInv' /\ EntryInv' /\ SlotsInv'
  BY <1>1, <1>3, <1>5 DEF HeldInv, ListInv, EntryInv, SlotsInv, Rounds, Walking
<1>9. EndedInv'
  <2>1. There(target)' /\ people'[target].right = "end" => people'[target].is = "ending"
    <3>1. SameAs(people'[target], people[target]) /\ (There(target)' <=> There(target))
          /\ (people[target].right = "end" /\ There(target) => people'[target].is = "ending")
      BY <1>1, <1>4, EndingIs
    <3> QED BY <3>1 DEF SameAs
  <2> QED BY <1>1, <2>1 DEF EndedInv
<1>10. PassInv' BY <1>1, <1>3 DEF PassInv, Walking
<1>11. OnlyOrphansAreTaken' BY <1>1, <1>4, <1>6 DEF OnlyOrphansAreTaken, Kin
<1> QED BY <1>6, <1>7, <1>8, <1>9, <1>10, <1>11

LEMMA TimeTaken == EndInv /\ TakesTime => EndInv'
<1> SUFFICES ASSUME EndInv, TakesTime PROVE EndInv' OBVIOUS
<1> USE DEF EndInv
<1>0. DOMAIN people = 1..Len(people) /\ Len(people) \in Nat BY PeopleAre
<1>1. /\ target' = target /\ kept' = kept /\ family' = family /\ named' = named /\ registry' = registry
      /\ answer' = answer /\ onList' = onList /\ search.at = "time" /\ people' = people
      /\ search' = [search EXCEPT !.at = "list", !.round = @ + 1, !.taken = Len(people), !.ghosts = {}, !.found = {}]
  BY DEF TakesTime, World, Done
<1>2. /\ DOMAIN search' = SearchFields /\ search'.at = "list" /\ search'.said = search.said
      /\ search'.round = search.round + 1 /\ search'.taken = Len(people) /\ search'.read = search.read
      /\ search'.list = search.list /\ search'.ghosts = {} /\ search'.grew = search.grew
      /\ search'.found = {} /\ search'.settled = search.settled
  BY <1>1 DEF EndTypes, SearchTypes, SearchFields
<1>3. EndTypes'
  <2>1. search'.round \in 0..ROUNDS BY <1>1, <1>2, EndFamilyAssumption DEF EndTypes, SearchTypes
  <2> QED
    <3>1. SearchTypes' BY <1>0, <1>1, <1>2, <2>1 DEF SearchTypes, EndTypes, Started
    <3> QED BY <1>1, <3>1 DEF EndTypes, Kin
<1>4. PeopleInv' /\ NumbersInv' BY <1>1, StillPeople DEF Exists, There, PeopleInv
<1>5. HeldInv' /\ ListInv' /\ EntryInv' /\ SlotsInv' /\ OnlyOrphansAreTaken'
  BY <1>1, <1>2 DEF HeldInv, ListInv, EntryInv, SlotsInv, OnlyOrphansAreTaken, Rounds, Walking, Kin, There
<1>6. EndedInv' BY <1>1, <1>2 DEF EndedInv, Started, Rounds, There
<1>7. PassInv' BY <1>1, <1>2 DEF PassInv, Walking
<1> QED BY <1>3, <1>4, <1>5, <1>6, <1>7

LEMMA ListTaken == EndInv /\ TakesList => EndInv'
<1> SUFFICES ASSUME EndInv, TakesList PROVE EndInv' OBVIOUS
<1> USE DEF EndInv
<1>0. DOMAIN people = 1..Len(people) /\ Len(people) \in Nat /\ \A i \in DOMAIN people : people[i] \in Persons
  BY PeopleAre
<1> DEFINE now == {i \in DOMAIN people : There(i)}
           listed == {[number |-> people[i].number, parent |-> people[i].parent] : i \in now}
<1>1. /\ target' = target /\ kept' = kept /\ family' = family /\ named' = named /\ registry' = registry
      /\ answer' = answer /\ search.at = "list" /\ people' = people
  BY DEF TakesList, World, Done
<1>2. PICK read \in BOOLEAN :
        /\ search' = [search EXCEPT !.at = "slots", !.read = read, !.todo = registry.slots,
                          !.list = IF read THEN listed ELSE {}]
        /\ onList' = IF read THEN now ELSE onList
  BY DEF TakesList
<1>3. /\ DOMAIN search' = SearchFields /\ search'.at = "slots" /\ search'.said = search.said
      /\ search'.round = search.round /\ search'.taken = search.taken /\ search'.read = read
      /\ search'.list = (IF read THEN listed ELSE {}) /\ search'.todo = registry.slots
      /\ search'.ghosts = search.ghosts /\ search'.grew = search.grew
      /\ search'.found = search.found /\ search'.settled = search.settled
  <2> HIDE DEF listed
  <2> QED BY <1>2 DEF EndTypes, SearchTypes, SearchFields
<1>4. search.found = {} BY <1>1 DEF SlotsInv
<1>5. listed \subseteq [number : 1..MaxNumbers, parent : Nat] BY <1>0 DEF Persons
<1>6. EndTypes'
  <2>1. search'.list \subseteq [number : 1..MaxNumbers, parent : Nat] BY <1>3, <1>5
  <2>2. onList' \subseteq DOMAIN people BY <1>2 DEF EndTypes, SearchTypes
  <2> HIDE DEF listed
  <2> QED
    <3>1. SearchTypes' BY <1>0, <1>1, <1>3, <2>1 DEF SearchTypes, EndTypes, Started
    <3> QED BY <1>1, <2>2, <3>1 DEF EndTypes, Kin
<1>7. PeopleInv' /\ NumbersInv' BY <1>1, StillPeople DEF Exists, There, PeopleInv
<1>8. HeldInv' /\ EntryInv' /\ OnlyOrphansAreTaken'
  <2> HIDE DEF listed
  <2> QED BY <1>1, <1>3 DEF HeldInv, EntryInv, OnlyOrphansAreTaken, Kin, There
<1>9. ListInv'
  <2>1. \A i, j \in DOMAIN people :
          Exists(i) /\ Exists(j) /\ people[i].number = people[j].number => i = j
    BY OneHasIt
  <2>2. ASSUME NEW i \in DOMAIN people, Exists(i)
        PROVE  /\ \A e \in search'.list : e.number = people[i].number => e.parent = people[i].parent
               /\ read /\ There(i) => \E e \in search'.list : e.number = people[i].number
    <3>1. ASSUME NEW e \in search'.list, e.number = people[i].number PROVE e.parent = people[i].parent
      <4>1. PICK j \in now : e = [number |-> people[j].number, parent |-> people[j].parent]
        BY <1>3, <3>1
      <4>2. j = i BY <2>1, <2>2, <3>1, <4>1 DEF Exists
      <4> QED BY <4>1, <4>2
    <3>2. ASSUME read, There(i) PROVE \E e \in search'.list : e.number = people[i].number
      <4>1. [number |-> people[i].number, parent |-> people[i].parent] \in listed BY <3>2
      <4> QED BY <1>3, <3>2, <4>1
    <3> QED BY <3>1, <3>2
  <2>3. read => \A i \in onList' : [number |-> people[i].number, parent |-> people[i].parent] \in search'.list
    BY <1>2, <1>3
  <2>4. ~read => search'.list = {} BY <1>3
  <2>5. \A i \in DOMAIN people : (Exists(i)' <=> Exists(i)) /\ (There(i)' <=> There(i))
    BY <1>1 DEF Exists, There
  <2> HIDE DEF listed, now
  <2> QED BY <1>1, <1>3, <2>2, <2>3, <2>4, <2>5 DEF ListInv
<1>10. SlotsInv' /\ EndedInv' /\ PassInv'
  <2> HIDE DEF listed, now
  <2>1. SlotsInv' BY <1>1, <1>3, <1>4 DEF SlotsInv, Walking
  <2>2. EndedInv' BY <1>1, <1>3 DEF EndedInv, Started, Rounds, There
  <2>3. PassInv' BY <1>1, <1>3 DEF PassInv, Walking
  <2> QED BY <2>1, <2>2, <2>3
<1> QED BY <1>6, <1>7, <1>8, <1>9, <1>10

LEMMA SlotAsked == EndInv /\ AsksSlot => EndInv'
<1> SUFFICES ASSUME EndInv, AsksSlot PROVE EndInv' OBVIOUS
<1> USE DEF EndInv
<1> DEFINE i == Min(search.todo)
           n == people[i].number
           born == BornOf(n)
           new == IF n \in NumberOf(family) THEN {} ELSE {born}
<1>0. DOMAIN people = 1..Len(people) /\ Len(people) \in Nat BY PeopleAre
<1>1. /\ target' = target /\ family' = family /\ named' = named /\ registry' = registry /\ onList' = onList
      /\ answer' = answer /\ search.at = "slots" /\ search.todo # {} /\ people' = people /\ AskedOf(n)
      /\ IF born = i THEN search' = [search EXCEPT !.todo = @ \ {i}, !.found = @ \cup new]
                     ELSE search' = [search EXCEPT !.todo = @ \ {i}, !.ghosts = @ \cup {i}]
  BY DEF AsksSlot, World, Done, IsMember
<1>2. i \in search.todo /\ i \in registry.slots /\ i \in DOMAIN people
  <2>1. search.todo \subseteq registry.slots /\ registry.slots \subseteq DOMAIN people
    BY <1>1 DEF EndTypes, SearchTypes, Kin
  <2>2. search.todo \in SUBSET Nat BY <1>0, <2>1
  <2> QED BY <1>1, <2>1, <2>2, LeastIs
<1>3. /\ kept \subseteq kept' /\ kept' \subseteq DOMAIN people
      /\ \A j \in DOMAIN people : Exists(j)' <=> Exists(j)
      /\ born # Nothing => born \in kept'
  <2> HIDE DEF n
  <2> QED BY <1>1, AskingIs
<1>4. /\ \A j \in DOMAIN people : people[j].number = n /\ Exists(j) /\ people[j].right # "none" => born = j
      /\ born # Nothing => born \in DOMAIN people /\ people[born].number = n /\ Exists(born)
  <2> HIDE DEF n
  <2> QED BY BornOfIs
<1>5. i # Nothing BY <1>0, <1>2 DEF Nothing
<1> HIDE DEF i, born
<1>6. /\ DOMAIN search' = SearchFields /\ search'.at = "slots" /\ search'.said = search.said
      /\ search'.round = search.round /\ search'.taken = search.taken /\ search'.read = search.read
      /\ search'.list = search.list /\ search'.todo = search.todo \ {i}
      /\ search'.grew = search.grew /\ search'.settled = search.settled
      /\ search'.found = (IF born = i THEN search.found \cup new ELSE search.found)
      /\ search'.ghosts = (IF born = i THEN search.ghosts ELSE search.ghosts \cup {i})
  <2> HIDE DEF new
  <2>1. DOMAIN search = SearchFields BY DEF EndTypes, SearchTypes
  <2>2. CASE born = i BY <1>1, <2>1, <2>2 DEF SearchFields
  <2>3. CASE born # i BY <1>1, <2>1, <2>3 DEF SearchFields
  <2> QED BY <2>2, <2>3
<1>7. born = i => new \subseteq {i} /\ (i \in family \/ i \in new)
  <2> SUFFICES ASSUME born = i, n \in NumberOf(family) PROVE i \in family OBVIOUS
  <2>1. PICK k \in family : people[k].number = n BY DEF NumberOf
  <2>2. k \in DOMAIN people /\ Exists(k) BY <1>1, OneHasIt
  <2>3. k = i BY <1>2, <1>4, <1>5, <2>1, <2>2, OneHasIt
  <2> QED BY <2>3
<1>8. /\ search'.found \subseteq registry.slots /\ search.found \subseteq search'.found
      /\ search'.ghosts \subseteq registry.slots /\ search.ghosts \subseteq search'.ghosts
      /\ search'.found \subseteq search.found \cup {i} /\ (search'.found # search.found => i = born)
  BY <1>1, <1>2, <1>6, <1>7 DEF SlotsInv, EndTypes, SearchTypes
<1>9. EndTypes'
  <2>1. SearchTypes' BY <1>1, <1>2, <1>6, <1>8 DEF SearchTypes, EndTypes
  <2> QED BY <1>1, <1>3, <2>1 DEF EndTypes, Kin
<1>10. PeopleInv' /\ NumbersInv' BY <1>1, <1>3, StillPeople DEF PeopleInv
<1>11. HeldInv'
  <2>1. search.found \cup {} \subseteq kept' /\ (i = born => i \in kept')
    BY <1>1, <1>3, <1>5 DEF HeldInv
  <2> QED BY <1>1, <1>3, <1>6, <1>8, <2>1 DEF HeldInv
<1>12. ListInv'
  <2>1. \A j \in DOMAIN people : There(j)' <=> There(j) BY <1>1 DEF There
  <2> QED BY <1>1, <1>3, <1>6, <2>1 DEF ListInv, Rounds
<1>13. SlotsInv'
  <2>1. ASSUME NEW sl \in registry.slots, sl \notin search'.todo
        PROVE  /\ sl \in family \cup search'.found \cup search'.ghosts
               /\ There(sl)' /\ people[sl].right # "none" => sl \in family \cup search'.found
    <3>1. CASE sl # i
      <4>1. sl \notin search.todo BY <1>6, <2>1, <3>1
      <4>2. There(sl)' <=> There(sl) BY <1>1 DEF There
      <4> QED BY <1>1, <1>8, <4>1, <4>2 DEF SlotsInv, Rounds
    <3>2. CASE sl = i /\ born = i BY <1>6, <1>7, <3>2
    <3>3. CASE sl = i /\ born # i
      <4>1. There(sl)' <=> There(sl) BY <1>1 DEF There
      <4> QED BY <1>2, <1>4, <1>6, <3>3, <4>1 DEF Exists
    <3> QED BY <3>1, <3>2, <3>3
  <2> QED BY <1>1, <1>6, <1>8, <2>1 DEF SlotsInv, Rounds, Walking
<1>14. EntryInv' /\ PassInv' BY <1>1, <1>6 DEF EntryInv, PassInv, Walking
<1>15. EndedInv' /\ OnlyOrphansAreTaken'
  BY <1>1, <1>6, <1>8 DEF EndedInv, Started, Rounds, There, OnlyOrphansAreTaken, Kin
<1> QED BY <1>9, <1>10, <1>11, <1>12, <1>13, <1>14, <1>15

LEMMA WalkBegins == EndInv /\ Walks => EndInv'
<1> SUFFICES ASSUME EndInv, Walks PROVE EndInv' OBVIOUS
<1> USE DEF EndInv
<1>1. /\ target' = target /\ family' = family \cup search.found /\ named' = named /\ registry' = registry /\ onList' = onList
      /\ answer' = answer /\ search.at = "slots" /\ search.todo = {} /\ people' = people /\ kept' = kept
      /\ search' = [search EXCEPT !.at = "walk", !.todo = search.list, !.grew = FALSE]
  BY DEF Walks, World
<1>2. /\ DOMAIN search' = SearchFields /\ search'.at = "walk" /\ search'.said = search.said
      /\ search'.round = search.round /\ search'.taken = search.taken /\ search'.read = search.read
      /\ search'.list = search.list /\ search'.todo = search.list /\ search'.ghosts = search.ghosts
      /\ search'.grew = FALSE /\ search'.settled = search.settled /\ search'.found = search.found
  BY <1>1 DEF EndTypes, SearchTypes, SearchFields
<1>3. \A j \in DOMAIN people : (There(j)' <=> There(j)) /\ (Exists(j)' <=> Exists(j))
  BY <1>1 DEF Exists, There
<1>4. EndTypes'
  <2>1. SearchTypes' BY <1>1, <1>2 DEF SearchTypes, EndTypes, Started
  <2>2. family' \subseteq DOMAIN people BY <1>1 DEF EndTypes, SearchTypes
  <2> QED BY <1>1, <2>1, <2>2 DEF EndTypes, Kin
<1>5. PeopleInv' /\ NumbersInv' BY <1>1, <1>3, StillPeople DEF PeopleInv
<1>6. HeldInv' /\ EntryInv' BY <1>1, <1>2 DEF HeldInv, EntryInv
<1>7. ListInv' BY <1>1, <1>2, <1>3 DEF ListInv, Rounds
<1>8. SlotsInv'
  <2>1. \A j \in registry.slots : There(j)' => There(j) BY <1>1 DEF There
  <2> QED BY <1>1, <1>2, <2>1 DEF SlotsInv, Rounds, Walking
<1>9. EndedInv' BY <1>1, <1>2 DEF EndedInv, Started, Rounds, There
<1>10. PassInv'
  <2>1. \A p \in onList : search.read => [number |-> people[p].number, parent |-> people[p].parent] \in search.list
    BY <1>1 DEF ListInv, Rounds
  <2>2. ~search.settled BY <1>1 DEF PassInv
  <2> QED BY <1>1, <1>2, <2>1, <2>2 DEF PassInv, Walking, Listed, Passed
<1>11. OnlyOrphansAreTaken'
  <2>1. search.found \subseteq Kin BY <1>1 DEF SlotsInv, EndTypes
  <2> QED BY <1>1, <2>1 DEF OnlyOrphansAreTaken, Kin, There
<1> QED BY <1>4, <1>5, <1>6, <1>7, <1>8, <1>9, <1>10, <1>11

\* Who can be confirmed is in the family, or the number it names for its parent's is vouched for.
LEMMA ReachableIs ==
    ASSUME EndInv, search.at \in Walking, NEW p \in DOMAIN people, There(p), Reachable(p)
    PROVE  p \in family \/ people[p].parent \in NumberOf(Vouched)
<1> USE DEF EndInv
<1>1. \A sl \in registry.slots :
        sl \in Vouched /\ (There(sl) /\ people[sl].right # "none" => sl \in family)
  BY DEF SlotsInv, Rounds, Walking, Vouched
<1>2. CASE p \in registry.slots BY <1>1, <1>2 DEF Reachable
<1>3. CASE p \notin registry.slots
  <2>1. people[p].parent = people[people[p].by].number /\ people[p].by \in family \cup registry.slots
    BY <1>3 DEF Reachable
  <2>2. people[p].by \in Vouched BY <1>1, <2>1 DEF Vouched
  <2> QED BY <2>1, <2>2 DEF NumberOf
<1> QED BY <1>2, <1>3

LEMMA EntryAsked == EndInv /\ AsksEntry => EndInv'
<1> SUFFICES ASSUME EndInv, AsksEntry PROVE EndInv' OBVIOUS
<1> USE DEF EndInv
<1> DEFINE e == CHOOSE x \in search.todo : \A y \in search.todo : x.number <= y.number
           born == BornOf(e.number)
           skips == search' = [search EXCEPT !.todo = @ \ {e}]
           passes == e.number \in NumberOf(family) \/ e.parent \notin NumberOf(Vouched)
<1>0. DOMAIN people = 1..Len(people) /\ Len(people) \in Nat BY PeopleAre
<1>1. /\ target' = target /\ family' = family /\ named' = named /\ registry' = registry /\ onList' = onList
      /\ answer' = answer /\ search.at = "walk" /\ search.todo # {} /\ people' = people
      /\ kept' = kept \/ AskedOf(e.number)
  BY DEF AsksEntry, World, Done
<1>2. /\ passes => skips
      /\ ~passes => /\ AskedOf(e.number)
                    /\ IF born = Nothing \/ born > search.taken THEN skips
                       ELSE search' = [search EXCEPT !.todo = @ \ {e}, !.at = "holder",
                                                     !.entry = [parent |-> e.parent, born |-> born]]
  BY DEF AsksEntry, TakenAt
<1>3. e \in search.todo /\ e \in search.list /\ e.number \in Nat
  <2>1. search.todo \subseteq search.list /\ \A x \in search.list : x.number \in Nat
    <3>1. search.todo \subseteq search.list /\ search.list \subseteq [number : 1..MaxNumbers, parent : Nat]
      BY <1>1 DEF EndTypes, SearchTypes
    <3>2. 1..MaxNumbers \subseteq Nat OBVIOUS
    <3> QED BY <3>1, <3>2
  <2>2. PICK x \in search.todo : \A y \in search.todo : x.number <= y.number
    <3> DEFINE S == {x.number : x \in search.todo}
    <3>1. S \in SUBSET Nat /\ S # {} BY <1>1, <2>1
    <3>2. Min(S) \in S /\ \A y \in S : Min(S) <= y
      <4> HIDE DEF S
      <4> QED BY <3>1, LeastIs
    <3> QED BY <3>2
  <2>3. e \in search.todo BY <2>2
  <2> HIDE DEF e
  <2> QED BY <2>1, <2>3
<1>4. /\ kept \subseteq kept' /\ kept' \subseteq DOMAIN people
      /\ \A j \in DOMAIN people : Exists(j)' <=> Exists(j)
      /\ AskedOf(e.number) /\ born # Nothing => born \in kept'
  <2> HIDE DEF e
  <2> QED BY <1>1, AskingIs
<1>5. /\ \A j \in DOMAIN people : people[j].number = e.number /\ Exists(j) /\ people[j].right # "none" => born = j
      /\ born # Nothing => born \in DOMAIN people /\ people[born].number = e.number /\ Exists(born)
  <2> HIDE DEF e
  <2> QED BY BornOfIs
<1> HIDE DEF e, born
<1>6. search.read BY <1>1, <1>3 DEF ListInv, Rounds
<1>7. \A j \in DOMAIN people : There(j)' <=> There(j) BY <1>1 DEF There
<1>8. /\ DOMAIN search' = SearchFields /\ search'.said = search.said
      /\ search'.round = search.round /\ search'.taken = search.taken /\ search'.read = search.read
      /\ search'.list = search.list /\ search'.todo = search.todo \ {e} /\ search'.ghosts = search.ghosts
      /\ search'.grew = search.grew /\ search'.settled = search.settled /\ search'.found = search.found
      /\ \/ search'.at = "walk" /\ (passes \/ born = Nothing \/ born > search.taken)
         \/ /\ search'.at = "holder" /\ ~passes /\ AskedOf(e.number) /\ born # Nothing /\ ~(born > search.taken)
            /\ search'.entry = [parent |-> e.parent, born |-> born]
  <2> HIDE DEF passes
  <2>1. DOMAIN search = SearchFields BY DEF EndTypes, SearchTypes
  <2>2. CASE skips BY <1>1, <1>2, <2>1, <2>2 DEF SearchFields
  <2>3. CASE ~skips BY <1>1, <1>2, <2>1, <2>3 DEF SearchFields
  <2> QED BY <2>2, <2>3
<1>9. EndTypes'
  <2>1. SearchTypes' BY <1>1, <1>3, <1>8 DEF SearchTypes, EndTypes, Started
  <2> QED BY <1>1, <1>4, <2>1 DEF EndTypes, Kin
<1>10. PeopleInv' /\ NumbersInv' BY <1>1, <1>4, StillPeople DEF PeopleInv
<1>11. HeldInv' BY <1>1, <1>4, <1>8 DEF HeldInv
<1>12. ListInv' BY <1>1, <1>4, <1>7, <1>8 DEF ListInv, Rounds
<1>13. SlotsInv'
  <2>1. \A j \in registry.slots : There(j)' => There(j) BY <1>1 DEF There
  <2> QED BY <1>1, <1>8, <2>1 DEF SlotsInv, Rounds, Walking
<1>14. EntryInv'
  <2> SUFFICES ASSUME search'.at = "holder" PROVE EntryInv' BY DEF EntryInv
  <2>1. search'.entry.parent = e.parent /\ search'.entry.born = born /\ born \in kept' /\ born \in DOMAIN people
    BY <1>4, <1>5, <1>8
  <2>2. born <= search.taken BY <1>0, <1>8, <2>1 DEF EndTypes, SearchTypes
  <2>3. e.parent = people[born].parent BY <1>1, <1>3, <1>5, <2>1, <2>2, <1>8 DEF ListInv, Rounds
  <2> QED BY <1>1, <1>6, <1>8, <2>1, <2>2, <2>3 DEF EntryInv
<1>15. EndedInv' /\ OnlyOrphansAreTaken'
  BY <1>1, <1>8 DEF EndedInv, Started, Rounds, There, OnlyOrphansAreTaken, Kin
<1>16. PassInv'
  <2>1. ASSUME search.said, ~search.grew, NEW p \in Listed, There(p), Reachable(p), Passed(p)' PROVE p \in family
    <3> DEFINE mine == [number |-> people[p].number, parent |-> people[p].parent]
    <3>1. p \in DOMAIN people /\ p <= search.taken BY <2>1 DEF Listed, Kin
    <3>2. mine \notin search.todo \ {e} BY <1>1, <1>8, <2>1 DEF Passed
    <3>3. CASE mine \notin search.todo
      <4>1. Passed(p) BY <1>1, <3>3 DEF Passed
      <4> QED BY <1>1, <1>6, <2>1, <4>1 DEF PassInv, Walking
    <3>4. CASE mine = e
      <4>1. e.number = people[p].number /\ e.parent = people[p].parent BY <3>4
      <4>2. Exists(p) /\ people[p].right # "none" BY <2>1 DEF Exists, Reachable
      <4>3. born = p BY <1>5, <3>1, <4>1, <4>2
      <4>4. search'.at = "walk" BY <1>8, <2>1, <4>3 DEF Passed
      <4>5. passes BY <1>0, <1>8, <3>1, <4>3, <4>4 DEF Nothing, EndTypes, SearchTypes
      <4>6. CASE e.number \in NumberOf(family)
        <5>1. PICK k \in family : people[k].number = people[p].number BY <4>1, <4>6 DEF NumberOf
        <5>2. k \in DOMAIN people /\ Exists(k) BY <1>1, OneHasIt
        <5>3. k = p BY <3>1, <4>2, <5>1, <5>2, OneHasIt
        <5> QED BY <5>3
      <4>7. CASE e.parent \notin NumberOf(Vouched)
        BY <1>1, <2>1, <3>1, <4>1, <4>7, ReachableIs DEF Walking
      <4> QED BY <4>5, <4>6, <4>7
    <3> QED BY <3>2, <3>3, <3>4
  <2>2. \A p \in Listed' : /\ p \in Listed /\ (There(p)' => There(p)) /\ (Reachable(p)' => Reachable(p))
    BY <1>1, <1>8 DEF Listed, Kin, There, Reachable
  <2>3. ~search.settled BY <1>1 DEF PassInv
  <2> QED BY <1>1, <1>8, <2>1, <2>2, <2>3 DEF PassInv
<1> QED BY <1>9, <1>10, <1>11, <1>12, <1>13, <1>14, <1>15, <1>16

\* Whose number a vouched-for process has, once it had it in time, it is that process.
Since(n, child) == {Born(k) : k \in {v \in Vouched : people[v].number = n /\ Born(v) <= child}}

LEMMA SinceIs ==
    ASSUME EndInv, NEW child \in DOMAIN people, NEW n
    PROVE  /\ Since(n, child) \in SUBSET (0..child)
           /\ \A x \in Since(n, child) : x \in Vouched /\ people[x].number = n
<1> USE DEF EndInv, Since
<1>0. DOMAIN people = 1..Len(people) /\ Len(people) \in Nat /\ Len(people) <= MaxPeople /\ MaxPeople \in Nat
  BY PeopleAre, EndFamilyAssumption
<1>1. ASSUME NEW v \in Vouched, people[v].number = n, Born(v) <= child
      PROVE  Born(v) = v /\ v \in 0..child
  <2>1. v \in DOMAIN people BY DEF Vouched, EndTypes, SearchTypes, Kin
  <2>2. child < MaxPeople + 1 BY <1>0
  <2>3. Born(v) = v BY <1>0, <1>1, <2>2 DEF Born, Never
  <2> QED BY <1>0, <1>1, <2>1, <2>3
<1> QED BY <1>1

\* Why a process is taken into the family: it is the application's, or the family started it, or
\* who did has gone.
LEMMA TakenIsOurs ==
    ASSUME EndInv, search.at = "holder",
           StartedByFamily(search.entry.parent, search.entry.born, Since(search.entry.parent, search.entry.born),
                           BornOf(search.entry.parent)),
           search.entry.born \notin Kin
    PROVE  LET by == people[search.entry.born].by IN by # Nothing /\ (by \in family \/ ~There(by))
<1> USE DEF EndInv
<1> DEFINE child == search.entry.born
           n == search.entry.parent
           by == people[child].by
           since == Since(n, child)
           holder == BornOf(n)
<1>0. DOMAIN people = 1..Len(people) /\ Len(people) \in Nat /\ \A i \in DOMAIN people : people[i] \in Persons
  BY PeopleAre
<1>1. child \in DOMAIN people /\ child <= search.taken /\ n = people[child].parent /\ search.read
  BY DEF EntryInv, EndTypes
<1>2. since \in SUBSET (0..child) /\ (\A x \in since : x \in Vouched /\ people[x].number = n) /\ since # {}
  <2>1. since # {} BY DEF StartedByFamily
  <2> HIDE DEF child, n
  <2> QED BY <1>1, <2>1, SinceIs
<1>3. by \in DOMAIN people \ Kin /\ n = people[by].number /\ by < child
  <2>1. PICK x \in Vouched : people[x].number = n BY <1>2
  <2>2. n \in 1..MaxNumbers BY <1>0, <2>1 DEF Vouched, EndTypes, SearchTypes, Kin, Persons
  <2>3. n # NoNumber BY <2>2 DEF NoNumber
  <2> QED BY <1>1, <2>3 DEF PeopleInv, Kin
<1>4. by # Nothing /\ by \in Nat /\ child \in Nat
  <2> HIDE DEF by, child, n
  <2> QED BY <1>0, <1>1, <1>3 DEF Nothing
<1>5. SUFFICES ASSUME There(by) PROVE by \in family BY <1>4
<1>6. Exists(by) BY <1>5 DEF Exists
<1>7. \E e \in search.list : e.number = n
  <2> HIDE DEF by, child, n
  <2>1. by <= search.taken
    <3>1. search.taken \in Nat BY <1>0 DEF EndTypes, SearchTypes
    <3> QED BY <1>1, <1>4, <1>3, <3>1
  <2> QED BY <1>1, <1>3, <1>5, <1>6, <2>1 DEF ListInv, Rounds
<1>8. /\ holder # Nothing
      /\ \/ \E k \in family : people[k].number = n /\ Born(k) = holder
         \/ holder <= Max(since)
         \/ holder > child
  BY <1>7 DEF StartedByFamily
<1>9. holder = by
  <2>1. holder \in DOMAIN people /\ people[holder].number = n /\ Exists(holder)
    <3> HIDE DEF n
    <3> QED BY <1>8, BornOfIs
  <2> QED BY <1>3, <1>6, <2>1, OneHasIt
<1> HIDE DEF by, child, n, holder, since
<1>10. ~(holder > child) BY <1>3, <1>4, <1>9
<1>11. CASE \E k \in family : people[k].number = n /\ Born(k) = holder
  <2>1. PICK k \in family : people[k].number = n BY <1>11
  <2>2. k \in DOMAIN people /\ Exists(k) BY OneHasIt
  <2> QED BY <1>3, <1>6, <2>1, <2>2, OneHasIt
<1>12. CASE holder <= Max(since)
  <2>1. Max(since) \in since BY <1>2, <1>4, GreatestIs
  <2>2. PICK v \in Vouched : v = Max(since) /\ people[v].number = n BY <1>2, <2>1
  <2>3. v \in DOMAIN people /\ by <= v BY <1>9, <1>12, <2>2 DEF Vouched, EndTypes, SearchTypes, Kin
  <2>4. v = by
    <3>1. v \in Nat /\ (by < v \/ by = v) BY <1>0, <1>4, <2>3
    <3> QED BY <1>3, <1>6, <2>2, <2>3, <3>1 DEF NumbersInv
  <2> QED BY <1>3, <2>2, <2>4 DEF Vouched, EndTypes, SearchTypes
<1> QED BY <1>8, <1>10, <1>11, <1>12

\* Why a process that can be confirmed is.
LEMMA ReachableIsOurs ==
    ASSUME EndInv, search.at = "holder", search.said,
           There(search.entry.born), Reachable(search.entry.born), search.entry.born \notin family
    PROVE  StartedByFamily(search.entry.parent, search.entry.born, Since(search.entry.parent, search.entry.born),
                           BornOf(search.entry.parent))
<1> USE DEF EndInv
<1> DEFINE child == search.entry.born
           n == search.entry.parent
           by == people[child].by
           since == Since(n, child)
<1>0. DOMAIN people = 1..Len(people) /\ Len(people) \in Nat BY PeopleAre
<1>1. child \in DOMAIN people /\ n = people[child].parent BY DEF EntryInv, EndTypes
<1>2. \A sl \in registry.slots :
        sl \in Vouched /\ (There(sl) /\ people[sl].right # "none" => sl \in family)
  BY DEF SlotsInv, Rounds, Walking, Vouched
<1>3. /\ by # Nothing /\ n = people[by].number
      /\ by \in family \/ (by \in registry.slots /\ \A e \in search.list : e.number # n)
  BY <1>1, <1>2 DEF Reachable
<1>4. by \in Vouched /\ by \in DOMAIN people
  <2> HIDE DEF by
  <2>1. by \in family \cup registry.slots BY <1>3
  <2> QED BY <1>2, <2>1 DEF Vouched, EndTypes, Kin
<1>5. Born(by) = by /\ by <= child
  <2>1. by < child BY <1>1 DEF PeopleInv
  <2> QED BY <1>0, <1>1, <1>4, <2>1 DEF Born
<1>6. by \in since BY <1>3, <1>4, <1>5 DEF Since
<1>7. CASE \A e \in search.list : e.number # n BY <1>6, <1>7 DEF StartedByFamily
<1>8. CASE by \in family
  <2>1. Exists(by) /\ (by \in kept \/ by = target) BY <1>8, OneHasIt DEF HeldInv
  <2>2. by \in kept \/ people[by].right # "none" BY <1>3, <2>1 DEF PeopleInv
  <2>3. BornOf(n) = by
    <3> HIDE DEF n, by
    <3> QED BY <1>3, <1>4, <2>1, <2>2, BornOfIs
  <2> QED BY <1>3, <1>5, <1>6, <1>8, <2>3 DEF StartedByFamily
<1> QED BY <1>3, <1>7, <1>8

LEMMA HolderAsked == EndInv /\ AsksHolder => EndInv'
<1> SUFFICES ASSUME EndInv, AsksHolder PROVE EndInv' OBVIOUS
<1> USE DEF EndInv
<1> DEFINE n == search.entry.parent
           born == search.entry.born
           ours == StartedByFamily(n, born, Since(n, born), BornOf(n))
           new == IF ours THEN {born} ELSE {}
<1>1. /\ target' = target /\ family' = family \cup new /\ named' = named /\ registry' = registry /\ onList' = onList
      /\ answer' = answer /\ search.at = "holder" /\ people' = people
      /\ kept' = kept \/ AskedOf(n)
      /\ search' = [search EXCEPT !.at = "walk", !.entry = Nothing, !.grew = @ \/ ours, !.found = @ \cup new]
  BY DEF AsksHolder, World, Since
<1>2. born \in DOMAIN people /\ born \in kept /\ search.read BY <1>1 DEF EntryInv, EndTypes
<1>3. /\ kept \subseteq kept' /\ kept' \subseteq DOMAIN people
      /\ \A j \in DOMAIN people : Exists(j)' <=> Exists(j)
  <2> HIDE DEF n
  <2> QED BY <1>1, AskingIs
<1>4. ours /\ born \notin Kin => people[born].by # Nothing /\ (people[born].by \in family \/ ~There(people[born].by))
  BY <1>1, TakenIsOurs
<1>5. search.said /\ There(born) /\ Reachable(born) /\ born \notin family => ours
  BY <1>1, ReachableIsOurs
<1> HIDE DEF ours, born
<1>6. /\ DOMAIN search' = SearchFields /\ search'.at = "walk" /\ search'.said = search.said
      /\ search'.round = search.round /\ search'.taken = search.taken /\ search'.read = search.read
      /\ search'.list = search.list /\ search'.todo = search.todo /\ search'.ghosts = search.ghosts
      /\ search'.grew = (search.grew \/ ours) /\ search'.settled = search.settled
      /\ search'.found = search.found \cup new
  <2> HIDE DEF new
  <2> QED BY <1>1 DEF EndTypes, SearchTypes, SearchFields
<1>7. \A j \in DOMAIN people : There(j)' <=> There(j) BY <1>1 DEF There
<1>8. EndTypes'
  <2>1. SearchTypes'
    <3>1. search'.grew \in BOOLEAN /\ search'.found \subseteq DOMAIN people
      BY <1>2, <1>6 DEF SearchTypes, EndTypes, ours, StartedByFamily
    <3> QED BY <1>1, <1>6, <3>1 DEF SearchTypes, EndTypes, Started
  <2>2. family' \subseteq DOMAIN people BY <1>1, <1>2 DEF EndTypes
  <2> QED BY <1>1, <1>3, <2>1, <2>2 DEF EndTypes, Kin
<1>9. PeopleInv' /\ NumbersInv' BY <1>1, <1>3, StillPeople DEF PeopleInv
<1>10. HeldInv' /\ EntryInv' BY <1>1, <1>2, <1>3, <1>6 DEF HeldInv, EntryInv
<1>11. ListInv' BY <1>1, <1>3, <1>6, <1>7 DEF ListInv, Rounds
<1>12. SlotsInv'
  <2>1. \A j \in registry.slots : There(j)' => There(j) BY <1>1 DEF There
  <2> QED BY <1>1, <1>6, <2>1 DEF SlotsInv, Rounds, Walking
<1>13. EndedInv' BY <1>1, <1>6 DEF EndedInv, Started, Rounds, There
<1>14. PassInv'
  <2>1. ASSUME search.said, ~search'.grew, NEW p \in Listed, There(p), Reachable(p), Passed(p)' PROVE p \in family
    <3>1. [number |-> people[p].number, parent |-> people[p].parent] \notin search.todo
      BY <1>1, <1>6, <2>1 DEF Passed
    <3>2. CASE p = born BY <1>5, <1>6, <2>1, <3>2
    <3>3. CASE p # born
      <4>1. Passed(p) BY <3>1, <3>3 DEF Passed, born
      <4> QED BY <1>1, <1>2, <1>6, <2>1, <4>1 DEF PassInv, Walking
    <3> QED BY <3>2, <3>3
  <2>2. \A p \in Listed' : p \in Listed /\ (There(p)' => There(p))
    BY <1>1, <1>6 DEF Listed, Kin, There
  <2>3. ~search'.grew => family' = family BY <1>1, <1>6
  <2>4. ~search'.grew => \A p \in Listed' : Reachable(p)' => Reachable(p)
    BY <1>1, <1>6, <2>3 DEF Reachable
  <2>5. ~search.settled BY <1>1 DEF PassInv
  <2> QED BY <1>1, <1>6, <2>1, <2>2, <2>3, <2>4, <2>5 DEF PassInv
<1>15. OnlyOrphansAreTaken'
  <2> SUFFICES ASSUME NEW i \in family' \ Kin
               PROVE  people[i].by # Nothing /\ (people[i].by \in family' \/ people[people[i].by].is = "gone")
    BY <1>1 DEF OnlyOrphansAreTaken, There, Kin
  <2>1. CASE i \in family BY <1>1, <2>1 DEF OnlyOrphansAreTaken, There
  <2>2. CASE i \notin family
    <3>1. ours /\ i = born BY <1>1, <2>2
    <3> QED BY <1>1, <1>4, <3>1 DEF There
  <2> QED BY <2>1, <2>2
<1> QED BY <1>8, <1>9, <1>10, <1>11, <1>12, <1>13, <1>14, <1>15

LEMMA WalkEnds == EndInv /\ EndsWalk => EndInv'
<1> SUFFICES ASSUME EndInv, EndsWalk PROVE EndInv' OBVIOUS
<1> USE DEF EndInv
<1>1. /\ target' = target /\ family' = family /\ registry' = registry /\ onList' = onList
      /\ answer' = answer /\ search.at = "walk" /\ search.todo = {} /\ people' = people /\ kept' = kept
      /\ named' \in {named, {}}
      /\ search' = IF search.grew THEN [search EXCEPT !.todo = search.list, !.grew = FALSE]
                   ELSE [search EXCEPT !.at = "ring", !.todo = IF search.read THEN registry.ring ELSE {}]
  BY DEF EndsWalk, World
<1>2. /\ DOMAIN search' = SearchFields /\ search'.said = search.said
      /\ search'.round = search.round /\ search'.taken = search.taken /\ search'.read = search.read
      /\ search'.list = search.list /\ search'.ghosts = search.ghosts
      /\ search'.grew = FALSE /\ search'.settled = search.settled /\ search'.found = search.found
      /\ \/ search.grew /\ search'.at = "walk" /\ search'.todo = search.list
         \/ ~search.grew /\ search'.at = "ring" /\ search'.todo \subseteq registry.ring
  <2>1. DOMAIN search = SearchFields /\ search.grew \in BOOLEAN BY DEF EndTypes, SearchTypes
  <2>2. CASE search.grew BY <1>1, <2>1, <2>2 DEF SearchFields
  <2>3. CASE ~search.grew BY <1>1, <2>1, <2>3 DEF SearchFields
  <2> QED BY <2>2, <2>3
<1>3. \A j \in DOMAIN people : (There(j)' <=> There(j)) /\ (Exists(j)' <=> Exists(j))
  BY <1>1 DEF Exists, There
<1>4. EndTypes'
  <2>1. SearchTypes' BY <1>1, <1>2 DEF SearchTypes, EndTypes, Started
  <2> QED BY <1>1, <2>1 DEF EndTypes, Kin
<1>5. PeopleInv' /\ NumbersInv' BY <1>1, <1>3, StillPeople DEF PeopleInv
<1>6. HeldInv' /\ EntryInv' BY <1>1, <1>2 DEF HeldInv, EntryInv
<1>7. ListInv' BY <1>1, <1>2, <1>3 DEF ListInv, Rounds
<1>8. SlotsInv'
  <2>1. \A j \in registry.slots : There(j)' => There(j) BY <1>1 DEF There
  <2> QED BY <1>1, <1>2, <2>1 DEF SlotsInv, Rounds, Walking
<1>9. EndedInv' /\ OnlyOrphansAreTaken'
  BY <1>1, <1>2 DEF EndedInv, Started, Rounds, There, OnlyOrphansAreTaken, Kin
<1>10. PassInv'
  <2>1. \A p \in onList : search.read => [number |-> people[p].number, parent |-> people[p].parent] \in search.list
    BY <1>1 DEF ListInv, Rounds
  <2>2. ~search.settled BY <1>1 DEF PassInv
  <2>3. ASSUME ~search.grew, search.said, search.read, NEW p \in Listed, There(p), Reachable(p) PROVE p \in family
    <3>1. Passed(p) BY <1>1 DEF Passed
    <3> QED BY <1>1, <2>3, <3>1 DEF PassInv, Walking
  <2>4. \A p \in Listed' : p \in Listed /\ (There(p)' => There(p)) /\ (Reachable(p)' => Reachable(p))
    BY <1>1, <1>2 DEF Listed, Kin, There, Reachable
  <2>5. CASE search.grew
    <3>1. \A p \in Listed' : search.read => ~Passed(p)' BY <1>1, <1>2, <2>1, <2>5 DEF Listed, Passed
    <3> QED BY <1>2, <2>2, <2>5, <3>1 DEF PassInv
  <2>6. CASE ~search.grew BY <1>1, <1>2, <2>2, <2>3, <2>4, <2>6 DEF PassInv
  <2> QED BY <2>5, <2>6
<1> QED BY <1>4, <1>5, <1>6, <1>7, <1>8, <1>9, <1>10

LEMMA RingAsked == EndInv /\ AsksRing => EndInv'
<1> SUFFICES ASSUME EndInv, AsksRing PROVE EndInv' OBVIOUS
<1> USE DEF EndInv
<1> DEFINE n == Min(search.todo)
<1>1. /\ target' = target /\ family' = family /\ registry' = registry /\ onList' = onList
      /\ answer' = answer /\ search.at = "ring" /\ search.todo # {} /\ people' = people
      /\ kept' = kept \/ AskedOf(n)
      /\ named' \in {named, named \cup {n}}
      /\ search' = [search EXCEPT !.todo = @ \ {n}]
  BY DEF AsksRing, World
<1>2. n \in registry.ring
  <2>1. search.todo \subseteq registry.ring /\ registry.ring \subseteq 1..MaxNumbers
    BY <1>1 DEF EndTypes, SearchTypes
  <2>2. search.todo \in SUBSET Nat BY <2>1
  <2> QED BY <1>1, <2>1, <2>2, LeastIs
<1>3. /\ kept \subseteq kept' /\ kept' \subseteq DOMAIN people
      /\ \A j \in DOMAIN people : Exists(j)' <=> Exists(j)
  <2> HIDE DEF n
  <2> QED BY <1>1, AskingIs
<1> HIDE DEF n
<1>4. /\ DOMAIN search' = SearchFields /\ search'.said = search.said /\ search'.at = "ring"
      /\ search'.round = search.round /\ search'.taken = search.taken /\ search'.read = search.read
      /\ search'.list = search.list /\ search'.ghosts = search.ghosts /\ search'.todo = search.todo \ {n}
      /\ search'.grew = search.grew /\ search'.settled = search.settled /\ search'.found = search.found
  BY <1>1 DEF EndTypes, SearchTypes, SearchFields
<1>5. \A j \in DOMAIN people : There(j)' <=> There(j) BY <1>1 DEF There
<1>6. EndTypes'
  <2>1. SearchTypes' BY <1>1, <1>4 DEF SearchTypes, EndTypes, Started
  <2> QED BY <1>1, <1>2, <1>3, <2>1 DEF EndTypes, Kin
<1>7. PeopleInv' /\ NumbersInv' BY <1>1, <1>3, StillPeople DEF PeopleInv
<1>8. HeldInv' /\ EntryInv' BY <1>1, <1>3, <1>4 DEF HeldInv, EntryInv
<1>9. ListInv' BY <1>1, <1>3, <1>4, <1>5 DEF ListInv, Rounds
<1>10. SlotsInv'
  <2>1. \A j \in registry.slots : There(j)' => There(j) BY <1>1 DEF There
  <2> QED BY <1>1, <1>4, <2>1 DEF SlotsInv, Rounds, Walking
<1>11. EndedInv' /\ OnlyOrphansAreTaken'
  BY <1>1, <1>4 DEF EndedInv, Started, Rounds, There, OnlyOrphansAreTaken, Kin
<1>12. PassInv'
  <2>1. \A p \in Listed' : p \in Listed /\ (There(p)' => There(p)) /\ (Reachable(p)' => Reachable(p)) /\ Passed(p)
    BY <1>1, <1>4 DEF Listed, Kin, There, Reachable, Passed
  <2>2. ~search.settled BY <1>1 DEF PassInv
  <2> QED BY <1>1, <1>4, <2>1, <2>2 DEF PassInv
<1> QED BY <1>6, <1>7, <1>8, <1>9, <1>10, <1>11, <1>12

LEMMA FoundEnd == EndInv /\ EndsFound => EndInv'
<1> SUFFICES ASSUME EndInv, EndsFound PROVE EndInv' OBVIOUS
<1> USE DEF EndInv
<1>0. DOMAIN people = 1..Len(people) /\ Len(people) \in Nat BY PeopleAre
<1>1. /\ target' = target /\ family' = family /\ registry' = registry /\ onList' = onList /\ named' = named
      /\ answer' = answer /\ search.at = "ring" /\ search.todo = {} /\ people' = Ended(search.found) /\ kept' = kept
      /\ search' = [search EXCEPT !.settled = Settled, !.at = IF Settled \/ LastRound THEN "wait" ELSE "time"]
      /\ target # Nothing
  BY DEF EndsFound, Done, PeopleInv
<1>2. /\ DOMAIN search' = SearchFields /\ search'.said = search.said
      /\ search'.round = search.round /\ search'.taken = search.taken /\ search'.read = search.read
      /\ search'.list = search.list /\ search'.ghosts = search.ghosts
      /\ search'.grew = search.grew /\ search'.settled = Settled /\ search'.found = search.found
      /\ search'.at = (IF Settled \/ LastRound THEN "wait" ELSE "time")
  <2> HIDE DEF Settled, LastRound
  <2> QED BY <1>1 DEF EndTypes, SearchTypes, SearchFields
<1>3. /\ people' \in Seq(Persons) /\ Len(people') = Len(people) /\ DOMAIN people' = DOMAIN people
      /\ \A i \in DOMAIN people :
          /\ SameAs(people'[i], people[i]) /\ (There(i)' <=> There(i))
          /\ people[i].is = "ending" => people'[i].is = "ending"
          /\ i \in search.found /\ people[i].right = "end" /\ There(i) => people'[i].is = "ending"
  BY <1>1, EndingIs
<1>4. PeopleInv' /\ NumbersInv' /\ Kin' = Kin BY <1>1, EndingPeople
<1>5. EndTypes'
  <2>1. SearchTypes'
    <3>1. search'.at = "time" => search.round < ROUNDS
      BY <1>2, EndFamilyAssumption DEF EndTypes, SearchTypes, LastRound
    <3>2. search'.settled \in BOOLEAN BY <1>2 DEF Settled, EndTypes, SearchTypes
    <3> QED BY <1>1, <1>2, <1>3, <3>1, <3>2 DEF SearchTypes, EndTypes, Started
  <2> QED BY <1>1, <1>3, <1>4, <2>1 DEF EndTypes
<1>6. HeldInv' /\ EntryInv' /\ ListInv' /\ SlotsInv'
  BY <1>1, <1>2 DEF HeldInv, EntryInv, ListInv, SlotsInv, Rounds, Walking
<1>7. EndedInv'
  <2>1. ASSUME NEW p \in family, There(p)', people'[p].right = "end" PROVE people'[p].is = "ending"
    <3>1. p \in DOMAIN people BY DEF EndTypes
    <3>2. There(p) /\ people[p].right = "end" BY <1>3, <2>1, <3>1 DEF SameAs
    <3> QED BY <1>1, <1>3, <3>1, <3>2 DEF EndedInv, Started, Rounds
  <2> QED BY <1>1, <2>1 DEF EndedInv
<1>8. PassInv'
  <2>1. ASSUME NEW p \in Listed', search.read, search.said, ~search.grew, There(p)', Reachable(p)' PROVE p \in family
    <3>1. p \in Listed /\ p \in DOMAIN people BY <1>1, <1>2, <1>4, <2>1 DEF Listed, Kin
    <3>2. There(p) BY <1>3, <2>1, <3>1
    <3>3. people[p].by \in Nat /\ people[p].by < p
      <4>1. people[p] \in Persons BY <3>1, PeopleAre
      <4> QED BY <3>1, <4>1 DEF PeopleInv, Persons
    <3>4. people[p].by # Nothing => people[p].by \in DOMAIN people
      <4>1. p \in 1..Len(people) BY <1>0, <3>1
      <4> QED BY <1>0, <3>3, <4>1 DEF Nothing
    <3>5. /\ people'[p].right = people[p].right /\ people'[p].by = people[p].by
          /\ people'[p].parent = people[p].parent
          /\ people[p].by # Nothing => people'[people[p].by].number = people[people[p].by].number
      BY <1>3, <3>1, <3>4 DEF SameAs
    <3>6. Reachable(p) BY <1>1, <1>2, <2>1, <3>5 DEF Reachable
    <3>7. Passed(p) BY <1>1 DEF Passed
    <3> QED BY <1>1, <2>1, <3>1, <3>2, <3>6, <3>7 DEF PassInv, Walking
  <2>2. ~search.grew BY <1>1 DEF PassInv
  <2> QED
    <3>1. search'.settled => search'.at = "wait" /\ search.read BY <1>2 DEF Settled
    <3>2. search'.at \in {"wait", "time"} BY <1>2
    <3>3. search'.read = search.read /\ search'.said = search.said /\ search'.grew = search.grew
      BY <1>2
    <3> QED BY <1>1, <2>1, <2>2, <3>1, <3>2, <3>3 DEF PassInv, Walking
<1>9. OnlyOrphansAreTaken'
  <2> SUFFICES ASSUME NEW i \in family \ Kin
               PROVE  people'[i].by # Nothing /\ (people'[i].by \in family \/ people'[people'[i].by].is = "gone")
    BY <1>1, <1>4 DEF OnlyOrphansAreTaken, There
  <2>1. people[i].by # Nothing /\ (people[i].by \in family \/ ~There(people[i].by)) /\ i \in DOMAIN people
    BY DEF OnlyOrphansAreTaken, EndTypes
  <2>2. people'[i].by = people[i].by /\ people[i].by \in DOMAIN people
    BY <1>3, <2>1 DEF SameAs, PeopleInv, Kin
  <2> QED BY <1>3, <2>1, <2>2 DEF There
<1> QED BY <1>4, <1>5, <1>6, <1>7, <1>8, <1>9

LEMMA AnswerComes == EndInv /\ Answers => EndInv'
<1> SUFFICES ASSUME EndInv, Answers PROVE EndInv' OBVIOUS
<1> USE DEF EndInv
<1>1. /\ target' = target /\ family' = family /\ registry' = registry /\ onList' = onList /\ named' = named
      /\ answer' = [left |-> {i \in family : There(i)}, incomplete |-> ~search.said \/ ~search.settled]
      /\ search.at = "wait" /\ people' = people /\ kept' = {}
      /\ search' = [search EXCEPT !.at = "over"] /\ target # Nothing
  BY DEF Answers, World, PeopleInv
<1>2. /\ DOMAIN search' = SearchFields /\ search'.said = search.said /\ search'.at = "over"
      /\ search'.round = search.round /\ search'.taken = search.taken /\ search'.read = search.read
      /\ search'.list = search.list /\ search'.ghosts = search.ghosts
      /\ search'.grew = search.grew /\ search'.settled = search.settled /\ search'.found = search.found
  BY <1>1 DEF EndTypes, SearchTypes, SearchFields
<1>3. \A j \in DOMAIN people : (There(j)' <=> There(j)) /\ (Exists(j)' => Exists(j))
  BY <1>1 DEF Exists, There
<1>4. EndTypes'
  <2>1. SearchTypes' BY <1>1, <1>2 DEF SearchTypes, EndTypes, Started
  <2>2. answer'.left \subseteq DOMAIN people /\ answer'.incomplete \in BOOLEAN
    BY <1>1 DEF EndTypes, SearchTypes
  <2> QED BY <1>1, <2>1, <2>2 DEF EndTypes, Kin
<1>5. PeopleInv' /\ NumbersInv' BY <1>1, <1>3, StillPeople
<1>6. HeldInv' /\ EntryInv' /\ ListInv' /\ SlotsInv'
  BY <1>1, <1>2 DEF HeldInv, EntryInv, ListInv, SlotsInv, Rounds, Walking
<1>7. EndedInv' /\ OnlyOrphansAreTaken'
  BY <1>1, <1>2 DEF EndedInv, Started, Rounds, There, OnlyOrphansAreTaken, Kin
<1>8. PassInv'
  <2>1. \A p \in Listed' : p \in Listed /\ (There(p)' => There(p)) /\ (Reachable(p)' => Reachable(p)) /\ Passed(p)
    BY <1>1, <1>2 DEF Listed, Kin, There, Reachable, Passed
  <2>2. answer'.left = {i \in family' : There(i)'} /\ answer'.incomplete = (~search.said \/ ~search.settled)
    BY <1>1 DEF There
  <2>3. answer'.left = {i \in family : There(i)}' BY <2>2
  <2>4. \A p \in Listed' : search.read /\ search.said /\ ~search.grew /\ There(p)' /\ Reachable(p)' => p \in family
    BY <1>1, <2>1 DEF PassInv
  <2>5. search.settled => search.read /\ ~search.grew BY DEF PassInv
  <2> QED BY <1>1, <1>2, <2>2, <2>4, <2>5 DEF PassInv
<1> QED BY <1>4, <1>5, <1>6, <1>7, <1>8

-----------------------------------------------------------------------------
(* The invariant holds, and what the search answers for follows from it.   *)

LEMMA EndSteps == EndInv /\ EndNext => EndInv'
<1> SUFFICES ASSUME EndInv, EndNext PROVE EndInv' OBVIOUS
<1>1. CASE search.at # "over" /\ \E i \in DOMAIN people : ProcessGoes(i) BY <1>1, WorldSteps
<1>2. CASE search.at \notin {"wait", "over"} /\ (AppLaunches \/ OtherStarts \/ \E i \in DOMAIN people : KinStarts(i))
  BY <1>2, WorldSteps
<1>3. CASE Refuses BY <1>3, Refusing
<1>4. CASE EndsRoot BY <1>4, RootEnds
<1>5. CASE TakesTime BY <1>5, TimeTaken
<1>6. CASE TakesList BY <1>6, ListTaken
<1>7. CASE Walks BY <1>7, WalkBegins
<1>8. CASE AsksHolder BY <1>8, HolderAsked
<1>9. CASE EndsWalk BY <1>9, WalkEnds
<1>10. CASE EndsFound BY <1>10, FoundEnd
<1>11. CASE Answers BY <1>11, AnswerComes
<1>12. CASE AsksSlot BY <1>12, SlotAsked
<1>13. CASE AsksEntry BY <1>13, EntryAsked
<1>14. CASE AsksRing BY <1>14, RingAsked
<1> QED
  BY <1>1, <1>2, <1>3, <1>4, <1>5, <1>6, <1>7, <1>8, <1>9, <1>10, <1>11, <1>12, <1>13, <1>14 DEF EndNext, Searches

LEMMA EndStands == EndInv /\ UNCHANGED endVars => EndInv'
<1> SUFFICES ASSUME EndInv, UNCHANGED endVars PROVE EndInv' OBVIOUS
<1> USE DEF EndInv, endVars
<1>1. \A i : (Exists(i)' <=> Exists(i)) /\ (There(i)' <=> There(i)) BY DEF Exists, There
<1>2. EndTypes' BY DEF EndTypes, SearchTypes, Kin
<1>3. PeopleInv' /\ NumbersInv' /\ HeldInv' BY <1>1 DEF PeopleInv, NumbersInv, HeldInv, Kin
<1>4. ListInv' /\ EntryInv' /\ SlotsInv' /\ EndedInv'
  BY <1>1 DEF ListInv, EntryInv, SlotsInv, EndedInv
<1>5. PassInv' BY DEF PassInv, Listed, Passed, Reachable, There, Kin
<1>6. OnlyOrphansAreTaken' BY DEF OnlyOrphansAreTaken, Kin, There
<1> QED BY <1>2, <1>3, <1>4, <1>5, <1>6

\* A search that calls itself complete is: the last list brought nothing new, so who could be
\* confirmed is of the family, and who is of the family was ended in an earlier round.
LEMMA SearchIs == EndInv => SearchIsSound
<1> SUFFICES ASSUME EndInv PROVE SearchIsSound OBVIOUS
<1> USE DEF EndInv
<1>1. EndTypeOK BY PeopleAre DEF EndTypes, SearchTypes, EndTypeOK
<1>2. ASSUME search.at = "over", ~answer.incomplete, NEW p \in Listed, There(p), Reachable(p)
      PROVE  p \in answer.left /\ (people[p].right = "end" => people[p].is = "ending")
  <2>1. search.said /\ search.settled BY <1>2 DEF PassInv
  <2>2. p \in family BY <1>2, <2>1 DEF PassInv, Passed
  <2> QED BY <1>2, <2>2 DEF PassInv, EndedInv, Rounds
<1> QED BY <1>1, <1>2 DEF SearchIsSound, CompleteIsWhole

-----------------------------------------------------------------------------
(* The two in one behaviour.                                               *)

LEMMA RunStarts == EndsInit => FamilyInv /\ EndInv
BY FamilyStarts, EndStarts DEF EndsInit

LEMMA RunSteps == FamilyInv /\ EndInv /\ [EndsNext]_runVars => FamilyInv' /\ EndInv'
<1> SUFFICES ASSUME FamilyInv, EndInv, [EndsNext]_runVars PROVE FamilyInv' /\ EndInv' OBVIOUS
<1>1. \/ FamilyNext /\ UNCHANGED endVars
      \/ EndNext /\ UNCHANGED familyVars
      \/ UNCHANGED familyVars /\ UNCHANGED endVars
  BY DEF EndsNext, runVars
<1>2. FamilyInv' BY <1>1, FamilySteps, FamilyStands
<1>3. EndInv' BY <1>1, EndSteps, EndStands
<1> QED BY <1>2, <1>3

\* A child that runs on the real clock is in its parent's count, or the registry is full and says
\* so, and none is counted that signed in while its parent waited: for every number of processes,
\* slots and numbers the system hands on, whoever ends when (`account_child`, `reserve_cov_slot`).
THEOREM CountsHold == EndsSpec => []CountsAreTrue
<1>1. EndsInit => FamilyInv /\ EndInv BY RunStarts
<1>2. (FamilyInv /\ EndInv) /\ [EndsNext]_runVars => (FamilyInv /\ EndInv)' BY RunSteps
<1>3. FamilyInv /\ EndInv => CountsAreTrue BY CountsFollow
<1> QED BY <1>1, <1>2, <1>3, PTL DEF EndsSpec

\* The session is not ended by its heartbeat under a member the core could know of, and does not close
\* in silence over one, however the family's steps fall between those of a look (`Family::refresh`,
\* `alive_in_order`, `family_left_running`).
THEOREM NobodyHolds == EndsSpec => []NobodyIsForgotten
<1>1. EndsInit => FamilyInv /\ EndInv BY RunStarts
<1>2. (FamilyInv /\ EndInv) /\ [EndsNext]_runVars => (FamilyInv /\ EndInv)' BY RunSteps
<1>3. FamilyInv /\ EndInv => NobodyIsForgotten BY NobodyFollows
<1> QED BY <1>1, <1>2, <1>3, PTL DEF EndsSpec

\* The ending of a refused family takes a process of somebody else only where who started it has gone
\* or was taken so before it, and where it calls itself complete it has ended, or names, everything of
\* the family that ran when its last list was taken (`end_family`).
THEOREM SearchHolds == EndsSpec => []SearchIsSound
<1>1. EndsInit => FamilyInv /\ EndInv BY RunStarts
<1>2. (FamilyInv /\ EndInv) /\ [EndsNext]_runVars => (FamilyInv /\ EndInv)' BY RunSteps
<1>3. FamilyInv /\ EndInv => SearchIsSound BY SearchIs
<1> QED BY <1>1, <1>2, <1>3, PTL DEF EndsSpec
=============================================================================
