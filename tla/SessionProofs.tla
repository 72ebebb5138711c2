---------------------------- MODULE SessionProofs ----------------------------
(***************************************************************************)
(* Proofs about a running session: the loop, SessionLoop, for any          *)
(* heartbeat and child poll, any threshold and any number of lines; the    *)
(* registry value that it sets and takes away, PolicyValue; and the bridge *)
(* to the engines inside an application, EngineBridge, for any processes,  *)
(* ports, sockets and pages and any order of its threads.                  *)
(*                                                                         *)
(* What carries the cadence is that the time since a beat and the time     *)
(* left until the next make up the heartbeat, and at most one tick more;   *)
(* what carries the answers is a count of the questions on their way.      *)
(*                                                                         *)
(* What carries the registry is that a value's last marker tells its       *)
(* writer, who has it to take away or has said that it stays; that what a  *)
(* core saw holds until somebody else changes the value; and that a core   *)
(* by itself has made exactly the keys above those there were.             *)
(***************************************************************************)
EXTENDS MCSession, SequenceTheorems, FiniteSetTheorems, WellFoundedInduction, TLAPS

\* The lines of s that want an answer.
Wanting(s) == {i \in 1..Len(s) : s[i] \in Answered}
Count(s) == Cardinality(Wanting(s))

-----------------------------------------------------------------------------
(* The loop: the inductive invariant.                                      *)

LoopPcs == {"waiting", "apply", "turn", "beat", "family", "close", "final", "judge", "ended", "gone"}
Loops   == [pc : LoopPcs, hand : Commands, at : 1..3, age : 0..1]
Dues    == [beat : 0..Heartbeat, poll : 0..ChildPoll]
Sinces  == [beat : Nat, poll : Nat]
Hosts   == [alive : BOOLEAN, dues : BOOLEAN, slept : 0..MaxSlept]
Ledgers == [moved : BOOLEAN, announced : 0..MaxSlept]
Finals  == [slept : 0..MaxSlept, moved : BOOLEAN]

\* The time since, and the time left: one tick more only where the loop is behind it.
Late(left) == IF left = 0 THEN lag ELSE 0
CadenceInv ==
    loop.pc \notin Closing =>
        /\ since.beat + due.beat <= Heartbeat + Late(due.beat)
        /\ since.poll + due.poll <= ChildPoll + Late(due.poll)
        /\ loop.age <= lag
        /\ loop.pc \in {"beat", "family"} =>
               /\ due.beat = 0 /\ since.poll + due.poll <= ChildPoll
               /\ due.poll = 0 => lag = 1
        /\ loop.pc = "family" => since.beat <= loop.age

\* What is owed is on its way to the loop, or in its hand.
InHand == IF loop.pc = "apply" /\ (loop.hand # "move" \/ loop.at <= 2) THEN 1 ELSE 0
AnswerInv ==
    /\ owed = Count(inbox) + Count(queue) + InHand
    /\ loop.pc = "apply" => loop.hand # "end"

\* A move over a due time is in the ledger, or about to be.
Over == {"judge", "ended", "gone"}
DueInv ==
    /\ movedDue => ledger.moved \/ (loop.pc = "apply" /\ loop.hand = "move" /\ loop.at >= 2 /\ host.dues)
    /\ loop.pc \in Over /\ movedDue => final.moved

\* What was told is what the ledger has, and what it has the machine slept.
SleepInv ==
    /\ told = ledger.announced /\ told <= host.slept
    /\ loop.pc \in Over => told <= final.slept /\ final.slept - told < Reported

\* The two last lines wait for nothing but their turn.
Spoken == {"state", "ack", "error", "host_slept", "coverage"}
OutInv ==
    /\ loop.pc = "ended" => out \in {LastLines, <<"ended">>, <<>>}
    /\ loop.pc = "gone" => out = <<>>
    /\ loop.pc \notin {"ended", "gone"} => out \in Seq(Spoken)

LoopInv == TypeOK /\ CadenceInv /\ AnswerInv /\ DueInv /\ SleepInv /\ OutInv
-----------------------------------------------------------------------------
(* Numbers and sequences.                                                  *)

LEMMA Limits == /\ Heartbeat \in Nat /\ ChildPoll \in Nat /\ ChildPoll > 0 /\ Heartbeat >= ChildPoll
                /\ Reported \in Nat /\ Reported > 0 /\ MaxSlept \in Nat /\ MaxUnread \in Nat
  BY SessionLoopAssumption

LEMMA WantingIsFinite ==
    ASSUME NEW S, NEW s \in Seq(S)
    PROVE  IsFiniteSet(Wanting(s)) /\ Count(s) \in Nat
<1>1. Len(s) \in Nat BY LenProperties
<1>2. IsFiniteSet(1..Len(s)) BY <1>1, FS_Interval
<1>3. IsFiniteSet(Wanting(s)) BY <1>2, FS_Subset DEF Wanting
<1> QED BY <1>3, FS_CardinalityType DEF Count

LEMMA CountEmpty == Count(<<>>) = 0
<1>1. Wanting(<<>>) = {} BY DEF Wanting
<1> QED BY <1>1, FS_EmptySet DEF Count

LEMMA CountAppend ==
    ASSUME NEW S, NEW s \in Seq(S), NEW e \in S
    PROVE  Count(Append(s, e)) = Count(s) + (IF e \in Answered THEN 1 ELSE 0)
<1>1. /\ Len(s) \in Nat /\ Len(Append(s, e)) = Len(s) + 1 /\ Append(s, e)[Len(s) + 1] = e
      /\ \A i \in 1..Len(s) : Append(s, e)[i] = s[i]
  BY LenProperties, AppendProperties
<1>2. Wanting(Append(s, e)) = IF e \in Answered THEN Wanting(s) \cup {Len(s) + 1} ELSE Wanting(s)
  BY <1>1 DEF Wanting
<1>3. Len(s) + 1 \notin Wanting(s) /\ IsFiniteSet(Wanting(s)) /\ Count(s) \in Nat
  BY <1>1, WantingIsFinite DEF Wanting
<1>4. Cardinality(Wanting(s) \cup {Len(s) + 1}) = Cardinality(Wanting(s)) + 1 BY <1>3, FS_AddElement
<1> QED BY <1>2, <1>3, <1>4 DEF Count

LEMMA CountTail ==
    ASSUME NEW S, NEW s \in Seq(S), s # <<>>
    PROVE  Count(s) = Count(Tail(s)) + (IF Head(s) \in Answered THEN 1 ELSE 0)
<1>1. /\ Len(s) \in Nat /\ Len(s) > 0 /\ Tail(s) \in Seq(S) /\ Len(Tail(s)) = Len(s) - 1
      /\ \A i \in 1..(Len(s) - 1) : Tail(s)[i] = s[i + 1]
  BY LenProperties, EmptySeq, HeadTailProperties
<1>2. Head(s) = s[1] BY <1>1
<1> DEFINE T == Wanting(Tail(s))
           R == Wanting(s) \ {1}
           f == [i \in T |-> i + 1]
<1>3. /\ IsFiniteSet(T) /\ IsFiniteSet(Wanting(s)) /\ Count(s) \in Nat /\ Count(Tail(s)) \in Nat
  BY <1>1, WantingIsFinite
<1>4. \A i \in T : i \in 1..(Len(s) - 1) /\ i + 1 \in R BY <1>1 DEF Wanting
<1>5. \A j \in R : j - 1 \in T /\ (j - 1) + 1 = j BY <1>1 DEF Wanting
<1>6. f \in Bijection(T, R)
  <2>1. f \in [T -> R] BY <1>4
  <2>2. \A i, j \in T : f[i] = f[j] => i = j BY <1>1, <1>4
  <2>3. \A j \in R : \E i \in T : f[i] = j BY <1>5
  <2> QED BY <2>1, <2>2, <2>3 DEF Bijection, Injection, Surjection, IsInjective
<1>7. Cardinality(R) = Cardinality(T) BY <1>3, <1>6, FS_Bijection DEF ExistsBijection
<1>8. Cardinality(R) = IF 1 \in Wanting(s) THEN Cardinality(Wanting(s)) - 1 ELSE Cardinality(Wanting(s))
  BY <1>3, FS_RemoveElement
<1>9. 1 \in Wanting(s) <=> Head(s) \in Answered BY <1>1, <1>2 DEF Wanting
<1> QED BY <1>3, <1>7, <1>8, <1>9 DEF Count

-----------------------------------------------------------------------------
(* The loop's invariant holds at the start.                                *)

LEMMA LoopTypes ==
    TypeOK <=> /\ inbox \in Seq(LineKinds) /\ stdin \in {"open", "closed"} /\ reader \in {"reading", "gone"}
               /\ queue \in Seq(Commands) /\ owed \in Nat /\ loop \in Loops /\ lag \in 0..1
               /\ due \in Dues /\ since \in Sinces /\ host \in Hosts /\ ledger \in Ledgers
               /\ told \in Nat /\ movedDue \in BOOLEAN /\ final \in Finals
  BY DEF TypeOK, Loops, LoopPcs, Closing, Dues, Sinces, Hosts, Ledgers, Finals

LEMMA LoopTypesNext ==
    TypeOK' <=> /\ inbox' \in Seq(LineKinds) /\ stdin' \in {"open", "closed"} /\ reader' \in {"reading", "gone"}
                /\ queue' \in Seq(Commands) /\ owed' \in Nat /\ loop' \in Loops /\ lag' \in 0..1
                /\ due' \in Dues /\ since' \in Sinces /\ host' \in Hosts /\ ledger' \in Ledgers
                /\ told' \in Nat /\ movedDue' \in BOOLEAN /\ final' \in Finals
  BY DEF TypeOK, Loops, LoopPcs, Closing, Dues, Sinces, Hosts, Ledgers, Finals

LEMMA IdleType == \A pc \in LoopPcs : Idle(pc) \in Loops /\ Idle(pc).pc = pc /\ Idle(pc).age = 0
  BY DEF Idle, Loops, Commands

LEMMA LoopInvInit == Init => LoopInv
<1> SUFFICES ASSUME Init PROVE LoopInv OBVIOUS
<1>1. /\ inbox = <<>> /\ stdin = "open" /\ owed = 0 /\ reader = "reading" /\ queue = <<>>
      /\ loop = Idle("waiting") /\ lag = 0 /\ since = [beat |-> 0, poll |-> 0]
      /\ due = [beat |-> Heartbeat, poll |-> ChildPoll]
      /\ host = [alive |-> TRUE, dues |-> FALSE, slept |-> 0]
      /\ ledger = [moved |-> FALSE, announced |-> 0] /\ out = <<>>
      /\ told = 0 /\ movedDue = FALSE /\ final = [slept |-> 0, moved |-> FALSE]
  BY DEF Init
<1>2. loop \in Loops /\ loop.pc = "waiting" /\ loop.age = 0 BY <1>1, IdleType DEF LoopPcs
<1>3. TypeOK
  <2>1. due \in Dues /\ since \in Sinces /\ host \in Hosts /\ ledger \in Ledgers /\ final \in Finals
    BY <1>1, Limits DEF Dues, Sinces, Hosts, Ledgers, Finals
  <2>2. inbox \in Seq(LineKinds) /\ queue \in Seq(Commands) BY <1>1, EmptySeq
  <2>3. stdin \in {"open", "closed"} /\ reader \in {"reading", "gone"} /\ loop \in Loops /\ movedDue \in BOOLEAN
    BY <1>1, <1>2, Zenon
  <2>4. owed \in Nat /\ lag \in 0..1 /\ told \in Nat BY <1>1
  <2> QED BY <2>1, <2>2, <2>3, <2>4, LoopTypes
<1>4. CadenceInv BY <1>1, <1>2, Limits DEF CadenceInv, Late
<1>5. AnswerInv BY <1>1, <1>2, CountEmpty DEF AnswerInv, InHand
<1>6. DueInv /\ SleepInv BY <1>1, <1>2 DEF DueInv, SleepInv, Over
<1>7. OutInv BY <1>1, <1>2 DEF OutInv
<1> QED BY <1>3, <1>4, <1>5, <1>6, <1>7 DEF LoopInv

-----------------------------------------------------------------------------
(* Each step keeps it.  First the types, and the lines still to be written. *)

LEMMA SpokenLines ==
    /\ <<>> \in Seq(Spoken) /\ <<"state">> \in Seq(Spoken) /\ <<"coverage">> \in Seq(Spoken)
    /\ \A kind \in Answered : AnswerTo(kind) \in Seq(Spoken) /\ AnswerTo(kind) # <<>>
    /\ \A slept : News(slept) \o <<"state">> \in Seq(Spoken) /\ News(slept) \o <<"coverage">> \in Seq(Spoken)
<1>1. /\ <<>> \in Seq(Spoken) /\ <<"state">> \in Seq(Spoken) /\ <<"coverage">> \in Seq(Spoken)
      /\ <<"host_slept">> \in Seq(Spoken)
  BY DEF Spoken
<1>2. ASSUME NEW kind \in Answered PROVE AnswerTo(kind) \in Seq(Spoken) /\ AnswerTo(kind) # <<>>
  <2>1. CASE kind = "query" BY <2>1 DEF AnswerTo, Spoken
  <2>2. CASE kind = "move" BY <2>2 DEF AnswerTo, Spoken
  <2>3. CASE kind = "refused" BY <2>3 DEF AnswerTo, Spoken
  <2> QED BY <2>1, <2>2, <2>3 DEF Answered
<1>3. ASSUME NEW slept PROVE News(slept) \in Seq(Spoken) BY <1>1 DEF News
<1> QED BY <1>1, <1>2, <1>3, ConcatProperties

LEMMA LoopTypeStep ==
    ASSUME LoopInv, [Next]_vars
    PROVE  TypeOK'
<1>a. /\ inbox \in Seq(LineKinds) /\ stdin \in {"open", "closed"} /\ reader \in {"reading", "gone"}
      /\ queue \in Seq(Commands) /\ owed \in Nat /\ loop \in Loops /\ lag \in 0..1
      /\ due \in Dues /\ since \in Sinces /\ host \in Hosts /\ ledger \in Ledgers
      /\ told \in Nat /\ movedDue \in BOOLEAN /\ final \in Finals
  BY LoopTypes DEF LoopInv
<1>b. \A pc \in LoopPcs : Idle(pc) \in Loops BY IdleType
<1>c. \A s \in Seq(LineKinds) : s # <<>> => Head(s) \in LineKinds /\ Tail(s) \in Seq(LineKinds)
  BY HeadTailProperties
<1>d. \A s \in Seq(Commands) : s # <<>> => Head(s) \in Commands /\ Tail(s) \in Seq(Commands)
  BY HeadTailProperties
<1>1. CASE UNCHANGED vars BY <1>1, <1>a, LoopTypesNext DEF vars, client
<1>2. ASSUME NEW line \in LineKinds, Send(line) PROVE TypeOK'
  <2>1. inbox' \in Seq(LineKinds) BY <1>2, <1>a, AppendProperties DEF Send
  <2>2. owed' \in Nat BY <1>2, <1>a DEF Send
  <2> QED BY <1>2, <1>a, <2>1, <2>2, LoopTypesNext DEF Send
<1>3. CASE CloseStdin BY <1>3, <1>a, LoopTypesNext DEF CloseStdin
<1>4. CASE ReadCommand
  <2>1. inbox' \in Seq(LineKinds) /\ queue' \in Seq(Commands)
    BY <1>4, <1>a, <1>c, AppendProperties DEF ReadCommand, Read
  <2> QED BY <1>4, <1>a, <2>1, LoopTypesNext DEF ReadCommand, Read
<1>5. CASE ReadJunk BY <1>5, <1>a, <1>c, LoopTypesNext DEF ReadJunk, Read
<1>6. CASE ReadBroken BY <1>6, <1>a, <1>c, LoopTypesNext DEF ReadBroken, Read
<1>7. CASE ReadEnd BY <1>7, <1>a, LoopTypesNext DEF ReadEnd, client
<1>8. CASE WriteLine BY <1>8, <1>a, LoopTypesNext DEF WriteLine, client
<1>9. CASE Receive
  <2>1. queue' \in Seq(Commands) /\ Head(queue) \in Commands BY <1>9, <1>a, <1>d DEF Receive
  <2>2. loop' \in Loops BY <1>9, <2>1, IdleType DEF Receive, LoopPcs, Loops
  <2> QED BY <1>9, <1>a, <2>1, <2>2, LoopTypesNext DEF Receive, Loop
<1>10. CASE Disconnected BY <1>10, <1>a, <1>b, LoopTypesNext DEF Disconnected, Loop, LoopPcs
<1>11. CASE Timeout BY <1>11, <1>a, <1>b, LoopTypesNext DEF Timeout, Loop, LoopPcs
<1>12. CASE Apply
  <2>1. loop' \in Loops
    <3>1. loop' = Idle("turn") \/ (loop.at # 3 /\ loop' = [loop EXCEPT !.at = loop.at + 1])
      BY <1>12 DEF Apply, AfterCommand, Applied
    <3>2. Idle("turn") \in Loops BY <1>b DEF LoopPcs
    <3> QED BY <3>1, <3>2, <1>a DEF Loops
  <2>2. ledger' \in Ledgers /\ movedDue' \in BOOLEAN
    <3>1. host.dues \in BOOLEAN /\ ledger.moved \in BOOLEAN BY <1>a DEF Hosts, Ledgers
    <3> QED BY <1>12, <1>a, <3>1 DEF Apply, Ledgers
  <2>3. owed' \in Nat
    <3>1. owed' = owed \/ (owed' = owed - 1 /\ (loop.hand # "move" \/ Doing = "answer"))
      BY <1>12 DEF Apply
    <3>2. Doing = "answer" => loop.at = 2 BY <1>a DEF Doing, Applied, Loops
    <3>3. ASSUME loop.hand # "move" \/ Doing = "answer" PROVE InHand = 1
      BY <1>12, <3>2, <3>3 DEF Apply, Loop, InHand
    <3>4. Count(inbox) \in Nat /\ Count(queue) \in Nat BY <1>a, WantingIsFinite
    <3>5. InHand = 1 => owed - 1 \in Nat BY <1>a, <3>4 DEF LoopInv, AnswerInv
    <3> QED BY <1>a, <3>1, <3>3, <3>5
  <2>4. lag' \in 0..1 BY <1>12, <1>a DEF Apply
  <2> QED BY <1>12, <1>a, <2>1, <2>2, <2>3, <2>4, LoopTypesNext DEF Apply, Loop
<1>13. CASE Turn
  <2>1. due' \in Dues /\ since' \in Sinces /\ loop' \in Loops /\ lag' \in 0..1
    BY <1>13, <1>a, <1>b, Limits DEF Turn, Dues, Sinces, LoopPcs
  <2> QED BY <1>13, <1>a, <2>1, LoopTypesNext DEF Turn, Loop
<1>e. ASSUME Announce(host.slept) PROVE told' \in Nat /\ ledger' \in Ledgers
  <2>1. host.slept \in 0..MaxSlept /\ ledger.announced \in 0..MaxSlept /\ told = ledger.announced
    BY <1>a DEF Hosts, Ledgers, LoopInv, SleepInv
  <2>2. told' = told \/ told' = told + host.slept - ledger.announced BY <1>e DEF Announce
  <2>3. told' \in Nat BY <2>1, <2>2, <1>a, Limits
  <2> QED BY <1>e, <2>1, <2>3, <1>a DEF Announce, Ledgers
<1>14. CASE Beat
  <2>1. told' \in Nat /\ ledger' \in Ledgers BY <1>14, <1>e DEF Beat
  <2>2. loop' \in Loops /\ since' \in Sinces BY <1>14, <1>a DEF Beat, Loops, LoopPcs, Sinces
  <2> QED BY <1>14, <1>a, <2>1, <2>2, LoopTypesNext DEF Beat, Loop
<1>15. CASE LookAtFamily
  <2>1. loop.age \in 0..1 /\ Heartbeat - loop.age \in 0..Heartbeat BY <1>a, Limits DEF Loops
  <2>2. due' \in Dues BY <1>15, <1>a, <2>1 DEF LookAtFamily, Dues
  <2>3. loop' \in Loops /\ lag' \in 0..1 BY <1>15, <1>a, <1>b DEF LookAtFamily, LoopPcs
  <2> QED BY <1>15, <1>a, <2>2, <2>3, LoopTypesNext DEF LookAtFamily, Loop
<1>16. CASE Close BY <1>16, <1>a, <1>b, LoopTypesNext DEF Close, Loop, LoopPcs
<1>17. CASE Final
  <2>1. told' \in Nat /\ ledger' \in Ledgers BY <1>17, <1>e DEF Final, FinalNews
  <2>2. final' \in Finals /\ loop' \in Loops
    BY <1>17, <1>a, <1>b DEF Final, Finals, Hosts, Ledgers, LoopPcs
  <2> QED BY <1>17, <1>a, <2>1, <2>2, LoopTypesNext DEF Final, Loop
<1>18. CASE JudgeSession BY <1>18, <1>a, <1>b, LoopTypesNext DEF JudgeSession, Loop, LoopPcs
<1>19. CASE ExitCore BY <1>19, <1>a, <1>b, LoopTypesNext DEF ExitCore, Loop, LoopPcs
<1>f. ASSUME World, host' \in Hosts PROVE TypeOK' BY <1>f, <1>a, LoopTypesNext DEF World, client
<1>20. CASE FamilyEnds BY <1>20, <1>f, <1>a DEF FamilyEnds, Hosts
<1>21. CASE DueConverted BY <1>21, <1>f, <1>a DEF DueConverted, Hosts
<1>22. CASE Sleeps
  <2>1. host.slept \in 0..MaxSlept /\ host.slept < MaxSlept BY <1>22, <1>a DEF Sleeps, Hosts
  <2>2. host.slept + 1 \in 0..MaxSlept BY <2>1, Limits
  <2>3. host' \in Hosts BY <1>22, <2>2, <1>a DEF Sleeps, Hosts
  <2> QED BY <1>22, <1>f, <2>3 DEF Sleeps
<1>23. CASE Tick
  <2>1. loop' \in Loops
    <3>1. loop.pc # "waiting" => lag = 0 BY <1>23 DEF Tick, CanGoOn
    <3>2. loop.pc # "waiting" => loop.age = 0
      BY <1>23, <1>a, <3>1 DEF Tick, LoopInv, CadenceInv, Loops
    <3> QED BY <1>23, <1>a, <3>2 DEF Tick, Loops
  <2>2. due' \in Dues /\ since' \in Sinces /\ lag' \in 0..1
    <3>1. DOMAIN due = {"beat", "poll"} /\ due.beat \in 0..Heartbeat /\ due.poll \in 0..ChildPoll
      BY <1>a DEF Dues
    <3>2. due' = [beat |-> IF due.beat = 0 THEN 0 ELSE due.beat - 1, poll |-> IF due.poll = 0 THEN 0 ELSE due.poll - 1]
      BY <1>23, <3>1 DEF Tick
    <3>3. due' \in Dues BY <3>1, <3>2, Limits DEF Dues
    <3>4. since' \in Sinces
      <4>1. since.beat \in Nat /\ since.poll \in Nat BY <1>a DEF Sinces
      <4>2. UpTo(since.beat + 1, Heartbeat + 2) \in Nat /\ UpTo(since.poll + 1, ChildPoll + 2) \in Nat
        BY <4>1, Limits DEF UpTo
      <4>3. since' = [beat |-> UpTo(since.beat + 1, Heartbeat + 2), poll |-> UpTo(since.poll + 1, ChildPoll + 2)]
        BY <1>23 DEF Tick
      <4> QED BY <4>2, <4>3 DEF Sinces
    <3> QED BY <1>23, <3>3, <3>4 DEF Tick
  <2> QED BY <1>23, <1>a, <2>1, <2>2, LoopTypesNext DEF Tick, client
<1> QED
  BY <1>1, <1>2, <1>3, <1>4, <1>5, <1>6, <1>7, <1>8, <1>9, <1>10, <1>11, <1>12, <1>13, <1>14, <1>15, <1>16, <1>17,
     <1>18, <1>19, <1>20, <1>21, <1>22, <1>23 DEF Next, ReaderStep, LoopStep

-----------------------------------------------------------------------------
(* The cadence.                                                            *)

LEMMA CadenceStep ==
    ASSUME LoopInv, [Next]_vars
    PROVE  CadenceInv'
<1>a. /\ loop \in Loops /\ lag \in 0..1 /\ due \in Dues /\ since \in Sinces /\ CadenceInv
  BY LoopTypes DEF LoopInv
<1>b. /\ due.beat \in Nat /\ due.poll \in Nat /\ since.beat \in Nat /\ since.poll \in Nat /\ loop.age \in 0..1
  BY <1>a, Limits DEF Loops, Dues, Sinces
<1>c. \A pc \in LoopPcs : Idle(pc).pc = pc /\ Idle(pc).age = 0 BY IdleType
<1>1. CASE UNCHANGED <<loop, lag, due, since>> BY <1>1, <1>a DEF CadenceInv, Late
<1>2. CASE loop'.pc \in Closing BY <1>2 DEF CadenceInv
\* The step of a pass that touches no time: what is due and what has passed are as they were.
<1>3. ASSUME UNCHANGED <<lag, due, since>>, loop.pc \notin Closing,
             loop'.pc \in {"apply", "turn"}, loop'.age = 0 \/ loop'.age = loop.age
      PROVE  CadenceInv'
  BY <1>3, <1>a, <1>b DEF CadenceInv, Late
<1>4. CASE Receive
  <2>1. loop.pc = "waiting" /\ UNCHANGED <<lag, due, since>> BY <1>4 DEF Receive, Loop
  <2>2. loop'.pc = "close" \/ (loop'.pc = "apply" /\ loop'.age = 0)
    BY <1>4, <1>c DEF Receive, LoopPcs, Idle
  <2> QED BY <2>1, <2>2, <1>2, <1>3 DEF Closing
<1>5. CASE Disconnected \/ Close \/ Final \/ JudgeSession \/ ExitCore
  <2>1. loop'.pc \in Closing
    BY <1>5, <1>c DEF Disconnected, Close, Final, JudgeSession, ExitCore, LoopPcs, Closing
  <2> QED BY <2>1, <1>2
<1>6. CASE Timeout
  <2>1. loop.pc = "waiting" /\ UNCHANGED <<lag, due, since>> /\ loop'.pc = "turn" /\ loop'.age = 0
    BY <1>6, <1>c DEF Timeout, Loop, LoopPcs
  <2> QED BY <2>1, <1>3 DEF Closing
<1>7. CASE Apply
  <2>1. loop.pc = "apply" /\ UNCHANGED <<lag, due, since>> BY <1>7 DEF Apply, Loop, AfterCommand
  <2>2. loop' = Idle("turn") \/ loop' = [loop EXCEPT !.at = loop.at + 1]
    BY <1>7 DEF Apply, AfterCommand
  <2>3. loop'.pc \in {"apply", "turn"} /\ (loop'.age = 0 \/ loop'.age = loop.age)
    BY <2>1, <2>2, <1>a, <1>c DEF Loops, LoopPcs
  <2> QED BY <2>1, <2>3, <1>3 DEF Closing
<1>8. CASE Turn
  <2>1. /\ loop.pc = "turn"
        /\ due' = IF due.poll = 0 THEN [due EXCEPT !.poll = ChildPoll] ELSE due
        /\ since' = IF due.poll = 0 THEN [since EXCEPT !.poll = 0] ELSE since
        /\ loop' = Idle(IF due.beat = 0 THEN "beat" ELSE "waiting")
        /\ lag' = IF due.beat = 0 THEN lag ELSE 0
    BY <1>8 DEF Turn, Loop
  <2>2. loop'.pc = (IF due.beat = 0 THEN "beat" ELSE "waiting") /\ loop'.age = 0
    BY <2>1, <1>c DEF LoopPcs
  <2>3. /\ due'.beat = due.beat /\ due'.poll = IF due.poll = 0 THEN ChildPoll ELSE due.poll
        /\ since'.beat = since.beat /\ since'.poll = IF due.poll = 0 THEN 0 ELSE since.poll
    BY <2>1, <1>a DEF Dues, Sinces
  <2>4. since.beat + due.beat <= Heartbeat + Late(due.beat) /\ since.poll + due.poll <= ChildPoll + Late(due.poll)
    BY <2>1, <1>a DEF CadenceInv, Closing
  <2>5. since'.poll + due'.poll <= ChildPoll /\ due'.poll # 0 BY <2>3, <2>4, <1>b, Limits DEF Late
  <2>6. since'.beat + due'.beat <= Heartbeat + IF due'.beat = 0 THEN lag' ELSE 0
    BY <2>1, <2>3, <2>4, <1>b, Limits DEF Late
  <2>7. lag' \in 0..1 BY <2>1, <1>a
  <2> QED BY <2>2, <2>3, <2>5, <2>6, <2>7, <1>b, Limits DEF CadenceInv, Late
<1>9. CASE Beat
  <2>1. /\ loop.pc = "beat" /\ UNCHANGED <<lag, due>>
        /\ since' = [since EXCEPT !.beat = 0] /\ loop' = [loop EXCEPT !.pc = "family"]
    BY <1>9 DEF Beat, Loop
  <2>2. /\ loop'.pc = "family" /\ loop'.age = loop.age /\ since'.beat = 0 /\ since'.poll = since.poll
    BY <2>1, <1>a DEF Loops, Sinces
  <2>3. /\ since.poll + due.poll <= ChildPoll + Late(due.poll) /\ loop.age <= lag
        /\ due.beat = 0 /\ since.poll + due.poll <= ChildPoll
        /\ due.poll = 0 => lag = 1
    BY <2>1, <1>a DEF CadenceInv, Closing
  <2> QED BY <2>1, <2>2, <2>3, <1>a, <1>b, Limits DEF CadenceInv, Late
<1>10. CASE LookAtFamily
  <2>1. CASE loop' = Idle("close") BY <2>1, <1>2, <1>c DEF LoopPcs, Closing
  <2>2. CASE due' = [due EXCEPT !.beat = Heartbeat - loop.age] /\ loop' = Idle("waiting") /\ lag' = 0
    <3>1. loop.pc = "family" /\ UNCHANGED since BY <1>10 DEF LookAtFamily, Loop
    <3>2. loop'.pc = "waiting" /\ loop'.age = 0 BY <2>2, <1>c DEF LoopPcs
    <3>3. due'.beat = Heartbeat - loop.age /\ due'.poll = due.poll BY <2>2, <1>a DEF Dues
    <3>4. since.beat <= loop.age /\ since.poll + due.poll <= ChildPoll
      BY <3>1, <1>a DEF CadenceInv, Closing
    <3>5. since'.beat + due'.beat <= Heartbeat /\ since'.poll + due'.poll <= ChildPoll
      BY <3>1, <3>3, <3>4, <1>b, Limits
    <3> QED BY <3>2, <3>5, <2>2, Limits DEF CadenceInv, Late
  <2> QED BY <1>10, <2>1, <2>2 DEF LookAtFamily
<1>11. CASE Tick
  <2>1. /\ loop.pc \notin Closing /\ (CanGoOn => lag = 0) /\ lag' = IF CanGoOn THEN 1 ELSE 0
        /\ due' = [d \in DOMAIN due |-> IF due[d] = 0 THEN 0 ELSE due[d] - 1]
        /\ since' = [beat |-> UpTo(since.beat + 1, Heartbeat + 2), poll |-> UpTo(since.poll + 1, ChildPoll + 2)]
        /\ loop' = [loop EXCEPT !.age = IF loop.pc = "waiting" THEN 0 ELSE loop.age + 1]
    BY <1>11 DEF Tick
  <2>2. /\ due'.beat = (IF due.beat = 0 THEN 0 ELSE due.beat - 1)
        /\ due'.poll = (IF due.poll = 0 THEN 0 ELSE due.poll - 1)
    BY <2>1, <1>a DEF Dues
  <2>3. since'.beat \in Nat /\ since'.poll \in Nat /\ since'.beat <= since.beat + 1 /\ since'.poll <= since.poll + 1
    BY <2>1, <1>b, Limits DEF UpTo
  <2>4. loop'.pc = loop.pc /\ loop'.age = IF loop.pc = "waiting" THEN 0 ELSE loop.age + 1
    BY <2>1, <1>a DEF Loops
  <2>5. since.beat + due.beat <= Heartbeat /\ since.poll + due.poll <= ChildPoll
    <3>1. CanGoOn => lag = 0 BY <2>1
    <3>2. ~CanGoOn => due.beat # 0 /\ due.poll # 0 BY DEF CanGoOn
    <3>3. since.beat + due.beat <= Heartbeat + Late(due.beat) /\ since.poll + due.poll <= ChildPoll + Late(due.poll)
      BY <2>1, <1>a DEF CadenceInv
    <3> QED BY <3>1, <3>2, <3>3, <1>b, Limits DEF Late
  <2>6. CASE CanGoOn
    <3>1. lag = 0 /\ lag' = 1 BY <2>1, <2>6
    <3>2. loop.age = 0 BY <3>1, <2>1, <1>a, <1>b DEF CadenceInv
    <3>3. /\ since'.beat + due'.beat <= Heartbeat + 1 /\ (due'.beat # 0 => since'.beat + due'.beat <= Heartbeat)
          /\ since'.poll + due'.poll <= ChildPoll + 1 /\ (due.poll # 0 => since'.poll + due'.poll <= ChildPoll)
          /\ due'.poll # 0 => since'.poll + due'.poll <= ChildPoll
      BY <2>2, <2>3, <2>5, <1>b, Limits
    <3>4. loop'.age <= 1 BY <2>4, <3>2
    <3>5. ASSUME loop.pc \in {"beat", "family"}
          PROVE  due'.beat = 0 /\ since'.poll + due'.poll <= ChildPoll
      <4>1. due.beat = 0 /\ due.poll # 0 BY <3>5, <3>1, <2>1, <1>a DEF CadenceInv
      <4> QED BY <4>1, <2>2, <3>3
    <3>6. ASSUME loop.pc = "family"
          PROVE  since'.beat <= loop'.age
      <4>1. since.beat <= loop.age BY <3>6, <2>1, <1>a DEF CadenceInv
      <4> QED BY <4>1, <3>2, <3>6, <2>3, <2>4, <1>b
    <3>7. /\ since'.beat + due'.beat <= Heartbeat + IF due'.beat = 0 THEN lag' ELSE 0
          /\ since'.poll + due'.poll <= ChildPoll + IF due'.poll = 0 THEN lag' ELSE 0
      BY <3>1, <3>3, Limits
    <3> QED BY <3>1, <3>4, <3>5, <3>6, <3>7, <2>4 DEF CadenceInv, Late
  <2>7. CASE ~CanGoOn
    <3>1. loop.pc = "waiting" /\ due.beat # 0 /\ due.poll # 0 BY <2>7 DEF CanGoOn
    <3>2. since'.beat + due'.beat <= Heartbeat /\ since'.poll + due'.poll <= ChildPoll
      BY <3>1, <2>2, <2>3, <2>5, <1>b, Limits
    <3>3. lag' = 0 /\ loop'.pc = "waiting" /\ loop'.age = 0 BY <2>1, <2>4, <2>7, <3>1
    <3> QED BY <3>2, <3>3, Limits DEF CadenceInv, Late
  <2> QED BY <2>6, <2>7
<1>12. CASE ~(UNCHANGED <<loop, lag, due, since>>)
  <2>1. ~UNCHANGED vars BY <1>12 DEF vars
  <2>2. \A line \in LineKinds : ~Send(line) BY <1>12 DEF Send
  <2>3. ~CloseStdin /\ ~ReaderStep
    BY <1>12 DEF CloseStdin, ReaderStep, ReadCommand, ReadJunk, ReadBroken, ReadEnd, Read
  <2>4. ~WriteLine /\ ~FamilyEnds /\ ~DueConverted /\ ~Sleeps
    BY <1>12 DEF WriteLine, FamilyEnds, DueConverted, Sleeps, World
  <2>5. LoopStep \/ Tick BY <2>1, <2>2, <2>3, <2>4 DEF Next
  <2> QED BY <2>4, <2>5, <1>4, <1>5, <1>6, <1>7, <1>8, <1>9, <1>10, <1>11 DEF LoopStep
<1> QED BY <1>1, <1>12

-----------------------------------------------------------------------------
(* The answers.                                                            *)

LEMMA AnswerStep ==
    ASSUME LoopInv, [Next]_vars
    PROVE  AnswerInv'
<1>a. /\ inbox \in Seq(LineKinds) /\ queue \in Seq(Commands) /\ owed \in Nat /\ loop \in Loops
      /\ AnswerInv
  BY LoopTypes DEF LoopInv
<1>b. /\ Count(inbox) \in Nat /\ Count(queue) \in Nat /\ InHand \in Nat
      /\ owed = Count(inbox) + Count(queue) + InHand
  BY <1>a, WantingIsFinite DEF InHand, AnswerInv
<1>c. \A pc \in LoopPcs : Idle(pc).pc = pc BY IdleType
<1>d. loop.pc = "apply" => loop.hand # "end" BY <1>a DEF AnswerInv
\* A step of no command: nothing is sent, taken or answered, and nothing is in the hand.
<1>1. ASSUME UNCHANGED <<inbox, queue, owed>>, loop.pc # "apply", loop'.pc # "apply"
      PROVE  AnswerInv'
  BY <1>1, <1>a DEF AnswerInv, InHand
<1>2. CASE UNCHANGED <<inbox, queue, owed, loop>> BY <1>2, <1>a DEF AnswerInv, InHand
<1>3. ASSUME NEW line \in LineKinds, Send(line) PROVE AnswerInv'
  <2>1. inbox' = Append(inbox, line) /\ owed' = (IF line \in Answered THEN owed + 1 ELSE owed) /\ UNCHANGED <<queue, loop>>
    BY <1>3 DEF Send
  <2>2. Count(inbox') = Count(inbox) + IF line \in Answered THEN 1 ELSE 0
    BY <2>1, <1>3, <1>a, CountAppend
  <2>3. owed' = Count(inbox') + Count(queue) + InHand BY <2>1, <2>2, <1>b
  <2>4. InHand' = InHand /\ Count(queue)' = Count(queue) BY <2>1 DEF InHand
  <2> QED BY <2>1, <2>3, <2>4, <1>d DEF AnswerInv
<1>e. ASSUME inbox # <<>>, inbox' = Tail(inbox)
      PROVE  Count(inbox) = Count(inbox') + IF Head(inbox) \in Answered THEN 1 ELSE 0
  BY <1>e, <1>a, CountTail
<1>f. ASSUME inbox' = Tail(inbox), inbox # <<>> PROVE Count(inbox') \in Nat
  <2>1. inbox' \in Seq(LineKinds) BY <1>f, <1>a, HeadTailProperties
  <2> QED BY <2>1, WantingIsFinite
<1>4. CASE ReadCommand
  <2>1. inbox # <<>> /\ Head(inbox) \in Commands /\ inbox' = Tail(inbox) /\ queue' = Append(queue, Head(inbox)) /\ UNCHANGED <<owed, loop>>
    BY <1>4 DEF ReadCommand, Read
  <2>2. Count(queue') = Count(queue) + IF Head(inbox) \in Answered THEN 1 ELSE 0
    BY <2>1, <1>a, CountAppend
  <2>3. owed' = Count(inbox') + Count(queue') + InHand BY <2>1, <2>2, <1>b, <1>e, <1>f
  <2>4. InHand' = InHand BY <2>1 DEF InHand
  <2> QED BY <2>1, <2>3, <2>4, <1>d DEF AnswerInv
<1>5. CASE ReadJunk \/ ReadBroken
  <2>1. inbox # <<>> /\ Head(inbox) \in {"junk", "broken"} /\ inbox' = Tail(inbox) /\ UNCHANGED <<queue, owed, loop>>
    BY <1>5 DEF ReadJunk, ReadBroken, Read
  <2>2. Head(inbox) \notin Answered BY <2>1 DEF Answered
  <2>3. owed' = Count(inbox') + Count(queue) + InHand BY <2>1, <2>2, <1>b, <1>e, <1>f
  <2>4. InHand' = InHand /\ Count(queue)' = Count(queue) BY <2>1 DEF InHand
  <2> QED BY <2>1, <2>3, <2>4, <1>d DEF AnswerInv
<1>6. CASE Receive
  <2>1. /\ loop.pc = "waiting" /\ queue # <<>> /\ queue' = Tail(queue) /\ UNCHANGED <<inbox, owed>>
        /\ loop' = IF Head(queue) = "end" THEN Idle("close") ELSE [Idle("apply") EXCEPT !.hand = Head(queue)]
    BY <1>6 DEF Receive, Loop
  <2>2. Head(queue) \in Commands /\ queue' \in Seq(Commands) BY <2>1, <1>a, HeadTailProperties
  <2>3. Count(queue) = Count(queue') + (IF Head(queue) \in Answered THEN 1 ELSE 0) /\ Count(queue') \in Nat
    BY <2>1, <2>2, <1>a, CountTail, WantingIsFinite
  <2>4. InHand = 0 BY <2>1 DEF InHand
  <2>5. Head(queue) \in Answered <=> Head(queue) # "end" BY <2>2 DEF Answered, Commands
  <2>6. InHand' = (IF Head(queue) = "end" THEN 0 ELSE 1) /\ (loop'.pc = "apply" => loop'.hand # "end")
    BY <2>1, <2>2 DEF InHand, Idle
  <2>7. owed' = Count(inbox) + Count(queue') + InHand' BY <2>1, <2>3, <2>4, <2>5, <2>6, <1>b
  <2> QED BY <2>1, <2>6, <2>7 DEF AnswerInv
<1>7. CASE Apply
  <2>1. /\ loop.pc = "apply" /\ UNCHANGED <<inbox, queue>> /\ loop.at \in 1..3 /\ loop.hand \in {"query", "move", "refused"}
    BY <1>7, <1>a, <1>d DEF Apply, Loop, Loops, Commands
  <2>2. AnswerTo(loop.hand) # <<>> BY <2>1, SpokenLines DEF Answered
  <2>3. /\ owed' = IF loop.hand # "move" \/ Doing = "answer" THEN owed - 1 ELSE owed
        /\ loop' = IF loop.hand # "move" \/ loop.at = 3 THEN Idle("turn") ELSE [loop EXCEPT !.at = loop.at + 1]
    BY <1>7, <2>2 DEF Apply, Applied, AfterCommand
  <2>4. Doing = "answer" <=> loop.at = 2 BY <2>1 DEF Doing, Applied
  <2>5. Idle("turn").pc = "turn" BY <1>c DEF LoopPcs
  <2>6. CASE loop.hand # "move" \/ loop.at = 3
    <3>1. InHand' = 0 /\ loop'.pc # "apply" BY <2>3, <2>5, <2>6 DEF InHand
    <3>2. owed' = owed - InHand BY <2>1, <2>3, <2>4, <2>6, <1>b DEF InHand
    <3> QED BY <2>1, <3>1, <3>2, <1>b DEF AnswerInv
  <2>7. CASE loop.hand = "move" /\ loop.at # 3
    <3>1. loop'.pc = "apply" /\ loop'.hand = "move" /\ loop'.at = loop.at + 1
      BY <2>1, <2>3, <2>7, <1>a DEF Loops
    <3>2. InHand = 1 /\ InHand' = IF loop.at = 1 THEN 1 ELSE 0 BY <2>1, <2>7, <3>1 DEF InHand
    <3>3. owed' = IF loop.at = 2 THEN owed - 1 ELSE owed BY <2>3, <2>4, <2>7
    <3> QED BY <2>1, <2>7, <3>1, <3>2, <3>3, <1>b DEF AnswerInv
  <2> QED BY <2>6, <2>7
<1>8. CASE Disconnected \/ Timeout \/ Turn \/ Beat \/ LookAtFamily \/ Close \/ Final \/ JudgeSession \/ ExitCore
  <2>1. UNCHANGED <<inbox, queue, owed>> /\ loop.pc # "apply"
    BY <1>8 DEF Disconnected, Timeout, Turn, Beat, LookAtFamily, Close, Final, JudgeSession, ExitCore, Loop
  <2>2. CASE Beat BY <2>1, <2>2, <1>1, <1>a DEF Beat, Loops
  <2>3. CASE ~Beat
    <3>1. \E pc \in LoopPcs \ {"apply"} : loop' = Idle(pc)
      BY <1>8, <2>3 DEF Disconnected, Timeout, Turn, LookAtFamily, Close, Final, JudgeSession, ExitCore, LoopPcs
    <3> QED BY <3>1, <2>1, <1>1, <1>c
  <2> QED BY <2>2, <2>3
<1>9. CASE Tick
  <2>1. loop'.pc = loop.pc /\ loop'.hand = loop.hand /\ loop'.at = loop.at /\ UNCHANGED <<inbox, queue, owed>>
    BY <1>9, <1>a DEF Tick, client, Loops
  <2> QED BY <2>1, <1>a DEF AnswerInv, InHand
<1>10. CASE UNCHANGED vars \/ CloseStdin \/ ReadEnd \/ WriteLine \/ FamilyEnds \/ DueConverted \/ Sleeps
  BY <1>10, <1>2 DEF vars, client, CloseStdin, ReadEnd, WriteLine, FamilyEnds, DueConverted, Sleeps, World
<1> QED BY <1>3, <1>4, <1>5, <1>6, <1>7, <1>8, <1>9, <1>10 DEF Next, ReaderStep, LoopStep

-----------------------------------------------------------------------------
(* The ends: what was due, what was slept, and the lines.                  *)

\* Where a step of the loop leads, and which of them lead on from a command or into the end.
LEMMA LoopMoves ==
    ASSUME TypeOK
    PROVE  /\ Disconnected \/ Timeout \/ Turn \/ LookAtFamily \/ Close =>
                  /\ loop.pc \in {"waiting", "turn", "family", "close"} /\ out = <<>>
                  /\ loop'.pc \in {"waiting", "turn", "beat", "close", "final"}
                  /\ UNCHANGED <<host, ledger, out, told, movedDue, final>>
           /\ Receive => /\ loop.pc = "waiting" /\ out = <<>> /\ loop'.pc \in {"apply", "close"}
                         /\ UNCHANGED <<host, ledger, out, told, movedDue, final>>
           /\ Beat => loop.pc = "beat" /\ loop'.pc = "family" /\ UNCHANGED <<host, movedDue, final>>
           /\ Final => loop.pc = "final" /\ loop'.pc = "judge" /\ UNCHANGED <<host, movedDue>>
           /\ JudgeSession => /\ loop.pc = "judge" /\ loop'.pc = "ended" /\ out' = LastLines
                              /\ UNCHANGED <<host, ledger, told, movedDue, final>>
           /\ ExitCore => /\ loop.pc = "ended" /\ loop'.pc = "gone" /\ out = <<>>
                          /\ UNCHANGED <<host, ledger, out, told, movedDue, final>>
           /\ Tick => /\ loop'.pc = loop.pc /\ loop'.hand = loop.hand /\ loop'.at = loop.at
                      /\ loop.pc \notin Closing
                      /\ UNCHANGED <<host, ledger, out, told, movedDue, final>>
           /\ Apply => loop.pc = "apply" /\ loop'.pc \in {"apply", "turn"} /\ UNCHANGED <<host, told, final>>
<1>a. loop \in Loops BY LoopTypes
<1>b. \A pc \in LoopPcs : Idle(pc).pc = pc BY IdleType
<1>1. Disconnected \/ Timeout \/ Turn \/ LookAtFamily \/ Close =>
          /\ loop.pc \in {"waiting", "turn", "family", "close"} /\ out = <<>>
          /\ UNCHANGED <<host, ledger, out, told, movedDue, final>>
          /\ \E pc \in {"waiting", "turn", "beat", "close", "final"} : loop' = Idle(pc)
  BY DEF Disconnected, Timeout, Turn, LookAtFamily, Close, Loop
<1>2. Receive => /\ loop.pc = "waiting" /\ out = <<>> /\ loop'.pc \in {"apply", "close"}
                 /\ UNCHANGED <<host, ledger, out, told, movedDue, final>>
  BY DEF Receive, Loop, Idle
<1>3. Beat => loop.pc = "beat" /\ loop'.pc = "family" /\ UNCHANGED <<host, movedDue, final>>
  BY <1>a DEF Beat, Loop, Loops
<1>4. Final => loop.pc = "final" /\ loop'.pc = "judge" /\ UNCHANGED <<host, movedDue>>
  BY <1>b DEF Final, Loop, LoopPcs
<1>5. JudgeSession => /\ loop.pc = "judge" /\ loop'.pc = "ended" /\ out' = LastLines
                      /\ UNCHANGED <<host, ledger, told, movedDue, final>>
  BY <1>b DEF JudgeSession, Loop, LoopPcs
<1>6. ExitCore => /\ loop.pc = "ended" /\ loop'.pc = "gone" /\ out = <<>>
                  /\ UNCHANGED <<host, ledger, out, told, movedDue, final>>
  BY <1>b DEF ExitCore, Loop, LoopPcs
<1>7. Tick => /\ loop'.pc = loop.pc /\ loop'.hand = loop.hand /\ loop'.at = loop.at
              /\ loop.pc \notin Closing
              /\ UNCHANGED <<host, ledger, out, told, movedDue, final>>
  BY <1>a DEF Tick, Loops
<1>8. Apply => loop.pc = "apply" /\ loop'.pc \in {"apply", "turn"} /\ UNCHANGED <<host, told, final>>
  <2> SUFFICES ASSUME Apply PROVE loop.pc = "apply" /\ loop'.pc \in {"apply", "turn"} /\ UNCHANGED <<host, told, final>>
    OBVIOUS
  <2>1. loop.pc = "apply" /\ UNCHANGED <<host, told, final>> /\ (loop' = Idle("turn") \/ loop' = [loop EXCEPT !.at = loop.at + 1])
    BY DEF Apply, Loop, AfterCommand
  <2> QED BY <2>1, <1>a, <1>b DEF Loops, LoopPcs
<1>9. \A pc \in {"waiting", "turn", "beat", "close", "final"} : Idle(pc).pc = pc BY <1>b DEF LoopPcs
<1> QED BY <1>1, <1>2, <1>3, <1>4, <1>5, <1>6, <1>7, <1>8, <1>9

\* The steps that are not the loop's own: nothing the end speaks of changes but the machine.
LEMMA OtherMoves ==
    /\ UNCHANGED vars \/ (\E line \in LineKinds : Send(line)) \/ CloseStdin \/ ReaderStep =>
           UNCHANGED <<loop, host, ledger, out, told, movedDue, final>>
    /\ WriteLine => out # <<>> /\ out' = Tail(out) /\ UNCHANGED <<loop, host, ledger, told, movedDue, final>>
    /\ FamilyEnds \/ DueConverted \/ Sleeps =>
           loop.pc \notin Over /\ UNCHANGED <<loop, ledger, out, told, movedDue, final>>
<1>1. UNCHANGED vars => UNCHANGED <<loop, host, ledger, out, told, movedDue, final>> BY DEF vars
<1>2. (\E line \in LineKinds : Send(line)) \/ CloseStdin => UNCHANGED <<loop, host, ledger, out, told, movedDue, final>>
  BY DEF Send, CloseStdin
<1>3. ReaderStep => UNCHANGED <<loop, host, ledger, out, told, movedDue, final>>
  BY DEF ReaderStep, ReadCommand, ReadJunk, ReadBroken, ReadEnd, Read
<1>4. WriteLine => out # <<>> /\ out' = Tail(out) /\ UNCHANGED <<loop, host, ledger, told, movedDue, final>>
  BY DEF WriteLine
<1>5. FamilyEnds \/ DueConverted \/ Sleeps =>
          loop.pc \notin Over /\ UNCHANGED <<loop, ledger, out, told, movedDue, final>>
  BY DEF FamilyEnds, DueConverted, Sleeps, World, Outside, Over
<1> QED BY <1>1, <1>2, <1>3, <1>4, <1>5

LEMMA AnnounceKeeps ==
    ASSUME LoopInv, Announce(host.slept)
    PROVE  /\ ledger'.moved = ledger.moved /\ told' = ledger'.announced
           /\ told' <= host.slept /\ host.slept - told' < Reported
<1>1. /\ host.slept \in Nat /\ ledger \in Ledgers /\ ledger.announced \in Nat
      /\ told = ledger.announced /\ told <= host.slept
  BY LoopTypes, Limits DEF LoopInv, SleepInv, Hosts, Ledgers
<1>2. CASE host.slept - ledger.announced >= Reported
  <2>1. told' = told + host.slept - ledger.announced /\ ledger' = [ledger EXCEPT !.announced = host.slept]
    BY <1>2 DEF Announce
  <2>2. ledger'.moved = ledger.moved /\ ledger'.announced = host.slept BY <2>1, <1>1 DEF Ledgers
  <2>3. told' = host.slept BY <2>1, <1>1
  <2> QED BY <2>2, <2>3, <1>1, Limits
<1>3. CASE ~(host.slept - ledger.announced >= Reported)
  <2>1. UNCHANGED <<told, ledger>> BY <1>3 DEF Announce
  <2> QED BY <2>1, <1>1, <1>3, Limits
<1> QED BY <1>2, <1>3

LEMMA DueStep ==
    ASSUME LoopInv, [Next]_vars
    PROVE  DueInv'
<1>a. TypeOK /\ DueInv /\ loop \in Loops /\ ledger \in Ledgers /\ host \in Hosts
  BY LoopTypes DEF LoopInv
<1>1. ASSUME UNCHANGED <<host, movedDue, final>>, ledger'.moved = ledger.moved,
             loop.pc # "apply", loop'.pc \in Over => loop.pc \in Over
      PROVE  DueInv'
  BY <1>1, <1>a DEF DueInv
<1>2. CASE UNCHANGED vars \/ (\E line \in LineKinds : Send(line)) \/ CloseStdin \/ ReaderStep \/ WriteLine
  BY <1>2, <1>a, OtherMoves DEF DueInv
<1>3. CASE FamilyEnds \/ DueConverted \/ Sleeps
  <2>1. host.dues => host'.dues BY <1>3, <1>a DEF FamilyEnds, DueConverted, Sleeps, Hosts
  <2> QED BY <1>3, <2>1, <1>a, OtherMoves DEF DueInv
<1>4. CASE Receive \/ Disconnected \/ Timeout \/ Turn \/ LookAtFamily \/ Close \/ JudgeSession \/ ExitCore
  BY <1>4, <1>1, <1>a, LoopMoves DEF Over
<1>5. CASE Beat
  <2>1. ledger'.moved = ledger.moved BY <1>5, AnnounceKeeps DEF Beat
  <2> QED BY <1>5, <2>1, <1>1, <1>a, LoopMoves DEF Over
<1>6. CASE Final
  <2>1. ledger'.moved = ledger.moved BY <1>6, AnnounceKeeps DEF Final, FinalNews
  <2>2. final'.moved = ledger.moved /\ loop.pc = "final" /\ movedDue' = movedDue
    BY <1>6 DEF Final, Loop
  <2> QED BY <2>1, <2>2, <1>a DEF DueInv
<1>7. CASE Tick BY <1>7, <1>a, LoopMoves DEF DueInv, Closing, Over
<1>8. CASE Apply
  <2>1. /\ loop.pc = "apply" /\ loop'.pc \notin Over /\ host' = host
        /\ loop.at \in 1..3 /\ host.dues \in BOOLEAN /\ ledger.moved \in BOOLEAN
    BY <1>8, <1>a, LoopMoves DEF Over, Loops, Hosts, Ledgers
  <2>2. /\ Doing = "move" <=> loop.at = 1
        /\ Doing = "note" <=> loop.at = 3
    BY <2>1 DEF Doing, Applied
  <2>3. /\ movedDue' <=> movedDue \/ (loop.hand = "move" /\ loop.at = 1 /\ host.dues)
        /\ ledger' = IF loop.hand = "move" /\ loop.at = 3 THEN [ledger EXCEPT !.moved = ledger.moved \/ host.dues] ELSE ledger
        /\ loop.hand = "move" /\ loop.at # 3 => loop' = [loop EXCEPT !.at = loop.at + 1]
    BY <1>8, <2>2 DEF Apply, Applied
  <2>4. ledger'.moved <=> ledger.moved \/ (loop.hand = "move" /\ loop.at = 3 /\ host.dues)
    BY <2>3, <1>a DEF Ledgers
  <2>5. loop.hand = "move" /\ loop.at # 3 => loop'.pc = "apply" /\ loop'.hand = "move" /\ loop'.at = loop.at + 1
    BY <2>1, <2>3, <1>a DEF Loops
  <2>6. movedDue => ledger.moved \/ (loop.hand = "move" /\ loop.at >= 2 /\ host.dues)
    BY <2>1, <1>a DEF DueInv
  <2>7. CASE loop.hand = "move" /\ loop.at # 3 BY <2>1, <2>3, <2>4, <2>5, <2>6, <2>7 DEF DueInv
  <2>8. CASE ~(loop.hand = "move" /\ loop.at # 3) BY <2>1, <2>3, <2>4, <2>6, <2>8 DEF DueInv
  <2> QED BY <2>7, <2>8
<1> QED BY <1>2, <1>3, <1>4, <1>5, <1>6, <1>7, <1>8 DEF Next, LoopStep

LEMMA SleepStep ==
    ASSUME LoopInv, [Next]_vars
    PROVE  SleepInv'
<1>a. TypeOK /\ SleepInv /\ ledger \in Ledgers /\ host \in Hosts /\ host.slept \in Nat /\ told \in Nat
  BY LoopTypes, Limits DEF LoopInv, Hosts
<1>1. ASSUME UNCHANGED <<told, final>>, ledger'.announced = ledger.announced, host'.slept = host.slept,
             loop'.pc \in Over => loop.pc \in Over
      PROVE  SleepInv'
  BY <1>1, <1>a DEF SleepInv
<1>2. CASE UNCHANGED vars \/ (\E line \in LineKinds : Send(line)) \/ CloseStdin \/ ReaderStep \/ WriteLine
  BY <1>2, <1>1, OtherMoves
<1>3. CASE FamilyEnds \/ DueConverted \/ Sleeps
  <2>1. host'.slept = host.slept \/ host'.slept = host.slept + 1
    BY <1>3, <1>a DEF FamilyEnds, DueConverted, Sleeps, Hosts
  <2>2. loop'.pc \notin Over /\ UNCHANGED <<told, ledger>> BY <1>3, OtherMoves
  <2> QED BY <2>1, <2>2, <1>a DEF SleepInv
<1>4. CASE Receive \/ Disconnected \/ Timeout \/ Turn \/ LookAtFamily \/ Close \/ JudgeSession \/ ExitCore \/ Tick
  BY <1>4, <1>1, <1>a, LoopMoves DEF Over, Closing
<1>5. CASE Beat
  <2>1. told' = ledger'.announced /\ told' <= host.slept BY <1>5, AnnounceKeeps DEF Beat
  <2> QED BY <1>5, <2>1, <1>a, LoopMoves DEF SleepInv, Over
<1>6. CASE Final
  <2>1. told' = ledger'.announced /\ told' <= host.slept /\ host.slept - told' < Reported
    BY <1>6, AnnounceKeeps DEF Final, FinalNews
  <2>2. final'.slept = host.slept /\ host' = host BY <1>6 DEF Final
  <2> QED BY <2>1, <2>2 DEF SleepInv
<1>7. CASE Apply
  <2>1. ledger'.announced = ledger.announced BY <1>7, <1>a DEF Apply, Ledgers
  <2> QED BY <1>7, <2>1, <1>1, <1>a, LoopMoves DEF Over
<1> QED BY <1>2, <1>3, <1>4, <1>5, <1>6, <1>7 DEF Next, LoopStep

LEMMA OutStep ==
    ASSUME LoopInv, [Next]_vars
    PROVE  OutInv'
<1>a. TypeOK /\ OutInv /\ AnswerInv /\ loop \in Loops BY LoopTypes DEF LoopInv
<1>1. ASSUME loop'.pc = loop.pc, out' = out PROVE OutInv' BY <1>1, <1>a DEF OutInv
<1>2. ASSUME loop'.pc \notin {"ended", "gone"}, out' \in Seq(Spoken) PROVE OutInv'
  BY <1>2 DEF OutInv
<1>3. CASE UNCHANGED vars \/ (\E line \in LineKinds : Send(line)) \/ CloseStdin \/ ReaderStep \/ FamilyEnds \/ DueConverted \/ Sleeps
  BY <1>3, <1>1, OtherMoves
<1>4. CASE WriteLine
  <2>1. out # <<>> /\ out' = Tail(out) /\ loop' = loop BY <1>4, OtherMoves
  <2>2. CASE loop.pc = "ended"
    <3>1. Tail(LastLines) = <<"ended">> /\ Tail(<<"ended">>) = <<>> BY DEF LastLines
    <3> QED BY <2>1, <2>2, <3>1, <1>a DEF OutInv
  <2>3. CASE loop.pc \notin {"ended", "gone"}
    <3>1. out' \in Seq(Spoken) BY <2>1, <2>3, <1>a, HeadTailProperties DEF OutInv
    <3> QED BY <2>1, <2>3, <3>1, <1>2
  <2> QED BY <2>1, <2>2, <2>3, <1>a DEF OutInv
<1>5. CASE Receive \/ Disconnected \/ Timeout \/ Turn \/ LookAtFamily \/ Close
  <2>1. out' = <<>> /\ loop'.pc \notin {"ended", "gone"} BY <1>5, <1>a, LoopMoves
  <2> QED BY <2>1, <1>2, SpokenLines
<1>6. CASE Tick BY <1>6, <1>1, <1>a, LoopMoves
<1>7. CASE Beat
  <2>1. out' = News(host.slept) \o <<"state">> /\ loop'.pc = "family"
    BY <1>7, <1>a, LoopMoves DEF Beat
  <2> QED BY <2>1, <1>2, SpokenLines
<1>8. CASE Final
  <2>1. out' = News(host.slept) \o <<"coverage">> /\ loop'.pc = "judge"
    BY <1>8, <1>a, LoopMoves DEF Final, FinalNews
  <2> QED BY <2>1, <1>2, SpokenLines
<1>9. CASE JudgeSession \/ ExitCore BY <1>9, <1>a, LoopMoves DEF OutInv
<1>10. CASE Apply
  <2>1. loop.pc = "apply" /\ loop'.pc \in {"apply", "turn"} /\ loop.hand \in Answered
    BY <1>10, <1>a, LoopMoves DEF AnswerInv, Loops, Commands, Answered
  <2>2. out' = AnswerTo(loop.hand) \/ out' = <<>> BY <1>10 DEF Apply
  <2> QED BY <2>1, <2>2, <1>2, SpokenLines
<1> QED BY <1>3, <1>4, <1>5, <1>6, <1>7, <1>8, <1>9, <1>10 DEF Next, LoopStep

LEMMA LoopInvStep == LoopInv /\ [Next]_vars => LoopInv'
  BY LoopTypeStep, CadenceStep, AnswerStep, DueStep, SleepStep, OutStep DEF LoopInv

-----------------------------------------------------------------------------
(* What a core promises on its stdout: every step of the session is a step *)
(* of CoreOutput, or none.                                                 *)

LEMMA StageIs ==
    /\ loop.pc = "gone" => Stage = "left"
    /\ loop.pc \notin {"ended", "gone"} => Stage = "running"
    /\ loop.pc = "ended" => /\ out = <<>> => Stage = "ended"
                            /\ out = <<"ended">> => Stage = "judged"
                            /\ out = LastLines => Stage = "running"
  BY DEF Stage, LastLines

LEMMA StageIsNext ==
    /\ loop'.pc = "gone" => Stage' = "left"
    /\ loop'.pc \notin {"ended", "gone"} => Stage' = "running"
    /\ loop'.pc = "ended" => /\ out' = <<>> => Stage' = "ended"
                             /\ out' = <<"ended">> => Stage' = "judged"
                             /\ out' = LastLines => Stage' = "running"
  BY DEF Stage, LastLines

LEMMA PromiseStep ==
    ASSUME LoopInv, [Next]_vars
    PROVE  [Output!OutputNext]_<<Stage, wrote>>
<1>a. TypeOK /\ OutInv BY DEF LoopInv
<1>b. loop.pc = "gone" \/ Stage \in {"running", "judged", "ended"} BY StageIs, <1>a DEF OutInv
<1>1. CASE UNCHANGED <<loop, out, wrote>> BY <1>1 DEF Stage
<1>2. CASE ReadJunk \/ ReadBroken
  <2>1. loop.pc # "gone" /\ UNCHANGED <<loop, out>> /\ wrote' = "said"
    BY <1>2 DEF ReadJunk, ReadBroken, Read, Reading
  <2>2. Stage' = Stage BY <2>1 DEF Stage
  <2> QED BY <2>1, <2>2, <1>b DEF Output!OutputNext, Output!ReaderSays
<1>3. CASE WriteLine
  <2>1. /\ out # <<>> /\ out' = Tail(out) /\ loop' = loop
        /\ wrote' = IF Head(out) \in {"session_verdict", "ended"} THEN Head(out) ELSE "said"
    BY <1>3 DEF WriteLine
  <2>2. CASE loop.pc = "ended" /\ out = LastLines
    <3>1. Head(LastLines) = "session_verdict" /\ Tail(LastLines) = <<"ended">> BY DEF LastLines
    <3>2. Stage = "running" /\ Stage' = "judged" /\ wrote' = "session_verdict"
      BY <2>1, <2>2, <3>1, StageIs, StageIsNext
    <3> QED BY <3>2 DEF Output!OutputNext, Output!Judge, Output!Write
  <2>3. CASE loop.pc = "ended" /\ out = <<"ended">>
    <3>1. Head(<<"ended">>) = "ended" /\ Tail(<<"ended">>) = <<>> OBVIOUS
    <3>2. Stage = "judged" /\ Stage' = "ended" /\ wrote' = "ended"
      BY <2>1, <2>3, <3>1, StageIs, StageIsNext
    <3> QED BY <3>2 DEF Output!OutputNext, Output!End, Output!Write
  <2>4. CASE loop.pc \notin {"ended", "gone"}
    <3>1. Head(out) \in Spoken BY <2>1, <2>4, <1>a, HeadTailProperties DEF OutInv
    <3>2. wrote' = "said" BY <2>1, <3>1 DEF Spoken
    <3>3. Stage = "running" /\ Stage' = "running" BY <2>1, <2>4, StageIs, StageIsNext
    <3> QED BY <3>2, <3>3 DEF Output!OutputNext, Output!Say, Output!Write
  <2> QED BY <2>1, <2>2, <2>3, <2>4, <1>a DEF OutInv
<1>4. CASE ExitCore
  <2>1. loop.pc = "ended" /\ out = <<>> /\ loop'.pc = "gone" BY <1>4, <1>a, LoopMoves
  <2>2. wrote' = wrote BY <1>4 DEF ExitCore, Quiet
  <2>3. Stage = "ended" /\ Stage' = "left" BY <2>1, StageIs, StageIsNext
  <2> QED BY <2>2, <2>3 DEF Output!OutputNext, Output!Leave
\* The other steps write nothing, and get no further.
<1>5. CASE Receive \/ Disconnected \/ Timeout \/ Apply \/ Turn \/ Beat \/ LookAtFamily \/ Close \/ Final \/ Tick
  <2>1. wrote' = wrote
    BY <1>5 DEF Receive, Disconnected, Timeout, Apply, Turn, Beat, LookAtFamily, Close, Final, Tick, Quiet
  <2>2. loop.pc \notin {"ended", "gone"} /\ loop'.pc \notin {"ended", "gone"}
    BY <1>5, <1>a, LoopMoves DEF Closing
  <2>3. Stage = "running" /\ Stage' = "running" BY <2>2, StageIs, StageIsNext
  <2> QED BY <2>1, <2>3
<1>6. CASE JudgeSession
  <2>1. wrote' = wrote BY <1>6 DEF JudgeSession, Quiet
  <2>2. loop.pc = "judge" /\ loop'.pc = "ended" /\ out' = LastLines BY <1>6, <1>a, LoopMoves
  <2>3. Stage = "running" /\ Stage' = "running" BY <2>2, StageIs, StageIsNext
  <2> QED BY <2>1, <2>3
<1>7. CASE UNCHANGED vars \/ (\E line \in LineKinds : Send(line)) \/ CloseStdin \/ ReadCommand \/ ReadEnd
             \/ FamilyEnds \/ DueConverted \/ Sleeps
  BY <1>7, <1>1 DEF vars, Send, CloseStdin, ReadCommand, ReadEnd, Read, FamilyEnds, DueConverted, Sleeps, World
<1> QED BY <1>2, <1>3, <1>4, <1>5, <1>6, <1>7 DEF Next, LoopStep, ReaderStep

-----------------------------------------------------------------------------
(* The theorems.                                                           *)

LEMMA LoopInvSays == LoopInv => LoopIsPrompt /\ EndSaysItAll
<1> SUFFICES ASSUME LoopInv PROVE LoopIsPrompt /\ EndSaysItAll OBVIOUS
<1>a. /\ TypeOK /\ lag \in 0..1 /\ due.beat \in Nat /\ due.poll \in Nat /\ since.beat \in Nat /\ since.poll \in Nat
  BY LoopTypes, Limits DEF LoopInv, Dues, Sinces
<1>1. CadenceKept
  <2> SUFFICES ASSUME loop.pc \notin Closing
               PROVE  since.beat <= Heartbeat + 1 /\ since.poll <= ChildPoll + 1
    BY DEF CadenceKept
  <2>1. since.beat + due.beat <= Heartbeat + Late(due.beat) /\ since.poll + due.poll <= ChildPoll + Late(due.poll)
    BY DEF LoopInv, CadenceInv
  <2>2. Late(due.beat) \in 0..1 /\ Late(due.poll) \in 0..1 BY <1>a DEF Late
  <2> QED BY <2>1, <2>2, <1>a, Limits
<1>2. EveryCommandIsAnswered
  <2> SUFFICES ASSUME loop.pc = "waiting", inbox = <<>>, queue = <<>>
               PROVE  owed = 0
    BY DEF EveryCommandIsAnswered
  <2>1. InHand = 0 BY DEF InHand
  <2> QED BY <2>1, CountEmpty DEF LoopInv, AnswerInv
<1>3. MovedDueIsSaid /\ SleepIsToldOnce
  BY DEF LoopInv, DueInv, SleepInv, MovedDueIsSaid, SleepIsToldOnce, Over
<1> QED BY <1>a, <1>1, <1>2, <1>3 DEF LoopIsPrompt, EndSaysItAll

SessionInv == subject = "loop" => LoopInv

LEMMA SessionStep == SessionInv /\ [SessionNext]_sessionVars => SessionInv'
<1> SUFFICES ASSUME SessionInv, [SessionNext]_sessionVars, subject' = "loop" PROVE LoopInv'
  BY DEF SessionInv
<1>1. subject = "loop" BY DEF SessionNext, sessionVars
<1>2. [Next]_vars BY <1>1 DEF SessionNext, Moves, sessionVars
<1> QED BY <1>1, <1>2, LoopInvStep DEF SessionInv

LEMMA SessionKeeps == SessionSpec => []SessionInv
<1>1. SessionInit => SessionInv BY LoopInvInit DEF SessionInit, SessionInv
<1> QED BY <1>1, SessionStep, PTL DEF SessionSpec

\* However closely the client's lines come, good and bad, the heartbeat and the child poll are never
\* more than a tick behind their time, and a loop with nothing left to take owes no answer
\* (core.rs `run_session`, `apply_command`; wire.rs `spawn_command_reader_with`).
THEOREM LoopKeepsTime == SessionSpec => []PromptLoop
<1>1. SessionInv => PromptLoop BY LoopInvSays DEF SessionInv, PromptLoop
<1> QED BY <1>1, SessionKeeps, PTL

\* The end of a session tells a due time that was moved over, and the machine's sleep, told once
\* and short of less than the threshold (core.rs `apply_command`, `sleep_to_announce`, `close_session`).
THEOREM EndIsToldInFull == SessionSpec => []EndToldInFull
<1>1. SessionInv => EndToldInFull BY LoopInvSays DEF SessionInv, EndToldInFull
<1> QED BY <1>1, SessionKeeps, PTL

\* A running session implements what a core promises on its stdout: its lines, one session verdict,
\* then one `ended`, and nothing of the session after it (core.rs `run_session`, `close_session`).
THEOREM PromiseIsKept == SessionSpec => PromiseKept
<1>1. SessionInv /\ [SessionNext]_sessionVars => [subject = "loop" => Output!OutputNext]_<<Stage, wrote>>
  <2> SUFFICES ASSUME SessionInv, [SessionNext]_sessionVars, subject = "loop"
               PROVE  [Output!OutputNext]_<<Stage, wrote>>
    OBVIOUS
  <2>1. [Next]_vars BY DEF SessionNext, Moves, sessionVars
  <2> QED BY <2>1, PromiseStep DEF SessionInv
<1> QED BY <1>1, SessionKeeps, PTL DEF SessionSpec, PromiseKept

-----------------------------------------------------------------------------
(* The registry value, for any number of cores, kills, refused calls and   *)
(* changes by others, any depth of the path and any value for every host.  *)

Marked == {LongAgo} \cup Cores
Kinds     == {"absent", "other", "text"}
StarType  == [is : Kinds, port : BOOLEAN, marks : Seq({LongAgo})]
ValueType == [is : Kinds, port : BOOLEAN, marks : Seq(Marked)]
CoreSteps == {"unborn", "scan", "recover", "read", "keys", "set", "run", "readback", "delete", "undo", "unmake", "over", "dead"}
Sayings   == {"stale", "recovered", "foreign", "not_written", "removed", "left"}
CoreType  == [at : CoreSteps, asks : BOOLEAN, may : BOOLEAN, wrote : BOOLEAN, level : 0..Levels,
              created : SUBSET (1..Levels), open : BOOLEAN, said : SUBSET Sayings]

PolicyTypes ==
    /\ star \in StarType /\ value \in ValueType /\ keys \in 0..Levels
    /\ cores \in [Cores -> CoreType]
    /\ outdated \subseteq Cores /\ met \subseteq Cores \X Marked
    /\ first \in 0..Levels /\ alone \in BOOLEAN

\* What a core is, whatever the others do.
Stands(core) ==
    /\ core.at = "unborn" => core = Fresh
    /\ core.at \in {"recover", "read", "keys", "set"} \/ core.wrote => core.asks /\ core.may
    /\ core.at \in {"scan", "recover", "read", "keys", "set"} => ~core.wrote
    /\ core.at \in {"scan", "recover", "read", "keys"} => core.open
    /\ core.at \in {"keys", "unmake"} => core.level > 0
    /\ core.at = "set" /\ core.open => keys = Levels

\* What a core saw holds until somebody else changes the value.
Looked(c, core) ==
    /\ core.at = "recover" => \E d \in Marked : WrittenBy(d) /\ Gone(d)
    /\ core.at \in {"keys", "set"} => value = Absent
    /\ core.at = "delete" => WrittenBy(c)
    /\ core.at = "unmake" /\ core.level = Levels => value = Absent

\* Whose value it is has written it, and not come to its end without a word.
Owned(core) ==
    /\ core.wrote /\ core.at \in {"run", "readback", "delete", "over", "dead"}
    /\ core.at = "over" => "left" \in core.said

Seen(m) ==
    /\ Gone(m[2]) /\ cores[m[1]].at \notin {"unborn", "scan"}
    /\ cores[m[1]].at \notin {"recover", "dead"} /\ WrittenBy(m[2]) => "stale" \in cores[m[1]].said

\* A core by itself: the keys are those there were, and those it has made.
KeysOf(c, core) ==
    /\ first <= keys /\ core.created = (first + 1)..keys
    /\ core.at \in {"scan", "recover", "read"} => keys = first
    /\ core.at = "keys" => keys = IF core.level - 1 > first THEN core.level - 1 ELSE first
    /\ core.at = "set" => core.open
    /\ core.at = "run" => IF core.wrote THEN WrittenBy(c) ELSE keys = first
    /\ core.at \in {"readback", "delete"} => core.wrote /\ WrittenBy(c)
    /\ core.at \in {"undo", "unmake"} => core.wrote /\ value = Absent
    /\ core.at = "unmake" => core.level = keys /\ keys > first

AloneInv ==
    /\ star # Absent => first = Levels
    /\ alone => /\ \A c, d \in Cores : Lives(c) /\ Lives(d) => c = d
                /\ (\A c \in Cores : ~Lives(c)) => keys = first
                /\ \A c \in Cores : Lives(c) => KeysOf(c, cores[c])

PolicyInv ==
    /\ PolicyTypes /\ (value # Absent => keys = Levels)
    /\ \A c \in Cores : /\ Stands(cores[c]) /\ (c \notin outdated => Looked(c, cores[c]))
                        /\ WrittenBy(c) => Owned(cores[c])
    /\ \A m \in met : Seen(m)
    /\ AloneInv

-----------------------------------------------------------------------------
(* Facts about the values.                                                 *)

LEMMA Greatest ==
    ASSUME NEW n \in Nat, NEW S \in SUBSET (0..n), S # {}
    PROVE  \E x \in S : \A y \in S : y <= x
<1> DEFINE T == {n - x : x \in S}
<1>a. \A x \in S : n - x \in Nat OBVIOUS
<1>1. T \subseteq Nat /\ T # {} BY <1>a, Zenon
<1>2. \E t \in T : \A u \in T : ~(u < t)
  <2> DEFINE R == OpToRel(<, Nat)
  <2>1. IsWellFoundedOn(R, Nat) BY NatLessThanWellFounded
  <2>2. \E t \in T : \A u \in T : ~(<<u, t>> \in R)
    <3> HIDE DEF R, T
    <3> QED BY <1>1, <2>1, WFMin
  <2>3. \A u, t \in Nat : u < t => <<u, t>> \in R
    <3> HIDE DEF T
    <3> QED BY DEF OpToRel
  <2> HIDE DEF R, T
  <2> QED BY <1>1, <2>2, <2>3
<1>3. PICK x \in S : \A y \in S : ~(n - y < n - x) BY <1>2
<1> QED BY <1>3

LEMMA Sizes == /\ Levels \in Nat /\ Levels > 0 /\ LongAgo \notin Cores /\ Stars \subseteq StarType
  BY PolicyAssumption DEF LongAgo, Cores, StarType, Kinds

LEMMA Values ==
    /\ Absent \in ValueType /\ Other \in ValueType /\ Text(FALSE, <<>>) \in ValueType /\ Text(TRUE, <<LongAgo>>) \in ValueType
    /\ Absent.marks = <<>> /\ Other.marks = <<>> /\ Text(FALSE, <<>>).marks = <<>>
    /\ Text(TRUE, <<LongAgo>>).marks = <<LongAgo>> /\ Text(TRUE, <<LongAgo>>) # Absent
<1>1. <<>> \in Seq(Marked) /\ <<LongAgo>> \in Seq(Marked) BY DEF Marked
<1>2. /\ Absent \in ValueType /\ Other \in ValueType /\ Absent.marks = <<>> /\ Other.marks = <<>>
  BY <1>1 DEF ValueType, Kinds, Absent, Other
<1>3. ASSUME NEW port \in BOOLEAN, NEW m \in Seq(Marked)
      PROVE  Text(port, m) \in ValueType /\ Text(port, m).marks = m /\ Text(port, m).is = "text"
  BY DEF ValueType, Kinds, Text
<1>4. Absent.is = "absent" BY DEF Absent
<1> QED BY <1>1, <1>2, <1>3, <1>4

LEMMA OwnMark ==
    ASSUME NEW c \in Cores, star \in StarType
    PROVE  LET v == Text(TRUE, star.marks \o <<c>>)
           IN  v \in ValueType /\ v.marks # <<>> /\ v.marks[Len(v.marks)] = c
<1>1. star.marks \in Seq(Marked) /\ <<c>> \in Seq(Marked)
  <2>1. star.marks \in Seq({LongAgo}) BY DEF StarType
  <2>2. Seq({LongAgo}) \subseteq Seq(Marked) BY DEF Marked
  <2> QED BY <2>1, <2>2 DEF Marked
<1> DEFINE s == star.marks \o <<c>>
<1>2. s \in Seq(Marked) /\ Len(s) = Len(star.marks) + 1 /\ s[Len(s)] = c
  BY <1>1, ConcatProperties, LenProperties
<1>3. s # <<>> BY <1>1, <1>2, LenProperties, EmptySeq
<1>4. ASSUME NEW m \in Seq(Marked) PROVE Text(TRUE, m) \in ValueType /\ Text(TRUE, m).marks = m
  BY DEF Text, ValueType, Kinds
<1> QED BY <1>2, <1>3, <1>4

LEMMA OneWriter == \A d, e : WrittenBy(d) /\ WrittenBy(e) => d = e
  BY DEF WrittenBy

LEMMA OwnerIs == \A d : d \in Owner(value) <=> WrittenBy(d)
  BY DEF Owner, WrittenBy

LEMMA StaleIs ==
    ASSUME value \in ValueType
    PROVE  IsStale(value) <=> \E d \in Marked : WrittenBy(d) /\ Gone(d)
<1>1. ASSUME NEW d \in Owner(value) PROVE d \in Marked
  <2>1. value.marks \in Seq(Marked) /\ value.marks # <<>> /\ d = value.marks[Len(value.marks)]
    BY <1>1 DEF Owner, ValueType
  <2> QED BY <2>1, LenProperties, EmptySeq, ElementOfSeq
<1> QED BY <1>1, OwnerIs DEF IsStale

\* The key an undoing core comes to next is the deepest it has made.
LEMMA DeepestKey ==
    ASSUME NEW core \in CoreType, core.created # {}
    PROVE  LET l == CHOOSE x \in KeyOrder(core) : TRUE
           IN  l \in core.created /\ l \in 1..Levels /\ \A k \in core.created : k <= l
<1>1. core.created \in SUBSET (1..Levels) /\ core.created \in SUBSET (0..Levels)
  BY Sizes DEF CoreType
<1>2. \E x \in core.created : \A y \in core.created : y <= x BY <1>1, Sizes, Greatest
<1>3. KeyOrder(core) # {} BY <1>2 DEF KeyOrder
<1>4. (CHOOSE x \in KeyOrder(core) : TRUE) \in KeyOrder(core) BY <1>3
<1> QED BY <1>1, <1>4 DEF KeyOrder

-----------------------------------------------------------------------------
(* A step of one core.  The others stand: what is theirs changes only as   *)
(* far as somebody else's value and keys are theirs to look at.            *)

\* Another core's key may have gone from under it, just before it sets its value.
SetOrSame(d) ==
    IF cores[d].at = "set"
    THEN /\ cores'[d].at = "set" /\ cores'[d].wrote = cores[d].wrote
         /\ cores'[d].asks = cores[d].asks /\ cores'[d].may = cores[d].may
         /\ cores'[d].level = cores[d].level /\ cores'[d].said = cores[d].said
         /\ cores'[d].open => keys' = Levels
    ELSE cores'[d] = cores[d]

LEMMA OthersAreKept ==
    ASSUME PolicyInv, NEW c \in Cores, ~Gone(c),
           \A d \in Cores \ {c} : SetOrSame(d),
           PolicyTypes', UNCHANGED <<star, first>>,
           value' # Absent => keys' = Levels,
           \A d \in Cores \ {c} : d \notin outdated' => d \notin outdated /\ value' = value,
           \A d : WrittenBy(d)' => WrittenBy(d) \/ d = c,
           Stands(cores[c])', c \notin outdated' => Looked(c, cores[c])', WrittenBy(c)' => Owned(cores[c])',
           \A m \in met' : (m \in met /\ m[1] # c) \/ Seen(m)',
           alone' => /\ alone /\ (Lives(c) \/ \A d \in Cores : ~Lives(d))
                     /\ IF Lives(c)' THEN KeysOf(c, cores[c])' ELSE keys' = first
    PROVE  PolicyInv'
<1>a. ASSUME NEW d \in Cores \ {c}
      PROVE  /\ cores'[d].at = cores[d].at /\ cores'[d].wrote = cores[d].wrote
             /\ cores'[d].asks = cores[d].asks /\ cores'[d].may = cores[d].may
             /\ cores'[d].level = cores[d].level /\ cores'[d].said = cores[d].said
             /\ cores[d].at = "set" /\ cores'[d].open => keys' = Levels
             /\ cores[d].at # "set" => cores'[d] = cores[d]
  BY DEF SetOrSame
<1>1. \A d : d \in Marked /\ Gone(d) => Gone(d)'
  <2> SUFFICES ASSUME NEW d \in Marked, Gone(d) PROVE Gone(d)' OBVIOUS
  <2>1. CASE d = LongAgo BY <2>1 DEF Gone
  <2>2. CASE d # LongAgo
    <3>1. d \in Cores \ {c} /\ cores[d].at \in {"over", "dead"} BY <2>2 DEF Gone, Marked
    <3>2. cores'[d].at = cores[d].at BY <3>1, <1>a
    <3> QED BY <3>1, <3>2 DEF Gone
  <2> QED BY <2>1, <2>2
<1>2. \A d \in Cores : Stands(cores[d])' BY <1>a DEF PolicyInv, Stands
<1>3. ASSUME NEW d \in Cores \ {c}, d \notin outdated' PROVE Looked(d, cores[d])'
  <2>1. Looked(d, cores[d]) /\ value' = value /\ cores'[d].at = cores[d].at /\ cores'[d].level = cores[d].level
    BY <1>3, <1>a DEF PolicyInv
  <2>2. \A e : WrittenBy(e)' <=> WrittenBy(e) BY <2>1 DEF WrittenBy
  <2> QED BY <2>1, <2>2, <1>1 DEF Looked
<1>4. ASSUME NEW d \in Cores \ {c}, WrittenBy(d)' PROVE Owned(cores[d])'
  BY <1>4, <1>a DEF PolicyInv, Owned
<1>5. ASSUME NEW m \in met' PROVE Seen(m)'
  <2>1. SUFFICES ASSUME m \in met, m[1] # c PROVE Seen(m)' BY <1>5
  <2>2. Seen(m) /\ m[1] \in Cores \ {c} /\ m[2] \in Marked BY <2>1 DEF PolicyInv, PolicyTypes
  <2>3. m[2] # c BY <2>2 DEF Seen
  <2>4. WrittenBy(m[2])' => WrittenBy(m[2]) BY <2>3
  <2> QED BY <2>2, <2>4, <1>1, <1>a DEF Seen
<1>6. AloneInv'
  <2>1. (star # Absent => first = Levels)' BY DEF PolicyInv, AloneInv
  <2>2. ASSUME alone'
        PROVE  /\ \A d \in Cores : Lives(d)' => d = c
               /\ IF Lives(c)' THEN KeysOf(c, cores[c])' ELSE keys' = first
    <3>1. \A d \in Cores \ {c} : Lives(d)' <=> Lives(d) BY <1>a DEF Lives
    <3>2. alone /\ (Lives(c) \/ \A d \in Cores : ~Lives(d)) BY <2>2
    <3>3. \A d \in Cores \ {c} : ~Lives(d) BY <3>2 DEF PolicyInv, AloneInv
    <3> QED BY <2>2, <3>1, <3>3
  <2> QED BY <2>1, <2>2 DEF AloneInv
<1> QED BY <1>2, <1>3, <1>4, <1>5, <1>6 DEF PolicyInv

LEMMA CoreStep ==
    ASSUME PolicyInv, NEW c \in Cores, ~Gone(c),
           \A d \in Cores \ {c} : cores'[d] = cores[d],
           PolicyTypes', UNCHANGED <<star, first>>,
           value' # Absent => keys' = Levels, keys = Levels => keys' = Levels,
           \A d \in Cores \ {c} : d \notin outdated' => d \notin outdated /\ value' = value,
           \A d : WrittenBy(d)' => WrittenBy(d) \/ d = c,
           Stands(cores[c])', c \notin outdated' => Looked(c, cores[c])', WrittenBy(c)' => Owned(cores[c])',
           \A m \in met' : (m \in met /\ m[1] # c) \/ Seen(m)',
           alone' => /\ alone /\ (Lives(c) \/ \A d \in Cores : ~Lives(d))
                     /\ IF Lives(c)' THEN KeysOf(c, cores[c])' ELSE keys' = first
    PROVE  PolicyInv'
<1>1. ASSUME NEW d \in Cores \ {c} PROVE SetOrSame(d) BY <1>1 DEF PolicyInv, Stands, SetOrSame
<1> QED BY <1>1, OthersAreKept

LEMMA GoesTo ==
    ASSUME PolicyTypes, NEW c \in Cores, NEW next \in CoreType, Goes(c, next)
    PROVE  /\ cores'[c] = next /\ \A d \in Cores \ {c} : cores'[d] = cores[d]
           /\ cores' \in [Cores -> CoreType]
  BY DEF Goes, PolicyTypes

Like(next, core) ==
    /\ next.asks = core.asks /\ next.may = core.may /\ next.wrote = core.wrote /\ next.open = core.open
    /\ next.level = core.level /\ next.created = core.created /\ core.said \subseteq next.said

LEMMA SaysIs ==
    ASSUME NEW core \in CoreType, NEW key \in Sayings
    PROVE  Says(core, key) \in CoreType /\ Says(core, key).at = core.at /\ Like(Says(core, key), core)
           /\ key \in Says(core, key).said
  BY DEF Says, CoreType, Like

LEMMA AtIs ==
    ASSUME NEW core \in CoreType, NEW at \in CoreSteps
    PROVE  /\ [core EXCEPT !.at = at] \in CoreType
           /\ [core EXCEPT !.at = at].at = at /\ Like([core EXCEPT !.at = at], core)
           /\ [core EXCEPT !.at = at].said = core.said
  BY DEF CoreType, Like

\* At a step, and at a key.
AtLevel(core, at, level) == [core EXCEPT !.at = at, !.level = level]

LEMMA AtLevelIs ==
    ASSUME NEW core \in CoreType, NEW at \in CoreSteps, NEW level \in 0..Levels
    PROVE  LET next == AtLevel(core, at, level)
           IN  /\ next \in CoreType /\ next.at = at /\ next.level = level
               /\ next.asks = core.asks /\ next.may = core.may /\ next.wrote = core.wrote
               /\ next.created = core.created /\ next.open = core.open /\ next.said = core.said
  BY DEF CoreType, AtLevel

LEMMA AfterLeftoversIs ==
    ASSUME NEW core \in CoreType
    PROVE  /\ AfterLeftovers(core) \in CoreType /\ AfterLeftovers(core).at \in {"run", "read"}
           /\ Like(AfterLeftovers(core), core)
           /\ AfterLeftovers(core).at = "read" => core.asks /\ core.may
<1>1. "run" \in CoreSteps /\ "read" \in CoreSteps /\ "not_written" \in Sayings
  BY DEF CoreSteps, Sayings
<1>2. Says(core, "not_written") \in CoreType /\ Like(Says(core, "not_written"), core)
  BY <1>1, SaysIs
<1>3. \A x, y, z : Like(x, y) /\ Like(y, z) => Like(x, z) BY DEF Like
<1>4. CASE ~core.asks BY <1>4, <1>1, AtIs DEF AfterLeftovers
<1>5. CASE core.asks /\ ~core.may
  <2>1. AfterLeftovers(core) = [Says(core, "not_written") EXCEPT !.at = "run"]
    BY <1>5 DEF AfterLeftovers
  <2> QED BY <2>1, <1>1, <1>2, <1>3, AtIs
<1>6. CASE core.asks /\ core.may BY <1>6, <1>1, AtIs DEF AfterLeftovers
<1> QED BY <1>4, <1>5, <1>6

-----------------------------------------------------------------------------
(* The steps.                                                              *)

LEMMA CoreFacts ==
    ASSUME PolicyInv, NEW c \in Cores
    PROVE  /\ cores[c] \in CoreType /\ Stands(cores[c]) /\ (c \notin outdated => Looked(c, cores[c]))
           /\ WrittenBy(c) => Owned(cores[c])
           /\ PolicyTypes /\ c \in Marked
           /\ \A m \in met : m \in Cores \X Marked /\ Seen(m)
           /\ alone /\ Lives(c) => KeysOf(c, cores[c])
  BY DEF PolicyInv, PolicyTypes, AloneInv, Marked

\* A step that leaves the value and the keys.
LEMMA QuietStep ==
    ASSUME PolicyInv, NEW c \in Cores, ~Gone(c), NEW next \in CoreType, Goes(c, next),
           UNCHANGED <<star, value, keys, first>>, outdated' \in {outdated, outdated \ {c}},
           next.at # "unborn",
           Stands(next), c \notin outdated' => Looked(c, next), WrittenBy(c) => Owned(next),
           met' \subseteq Cores \X Marked,
           \A m \in met' : (m \in met /\ m[1] # c) \/
                           /\ m[1] = c /\ m[2] # c /\ Gone(m[2]) /\ next.at \notin {"unborn", "scan"}
                           /\ next.at \notin {"recover", "dead"} /\ WrittenBy(m[2]) => "stale" \in next.said,
           alone' \in BOOLEAN,
           alone' => /\ alone /\ (Lives(c) \/ \A d \in Cores : ~Lives(d))
                     /\ IF next.at \in {"over", "dead"} THEN keys = first ELSE KeysOf(c, next)
    PROVE  PolicyInv'
<1>1. /\ cores'[c] = next /\ \A d \in Cores \ {c} : cores'[d] = cores[d]
      /\ cores' \in [Cores -> CoreType]
  BY GoesTo DEF PolicyInv
<1>2. PolicyTypes' BY <1>1 DEF PolicyInv, PolicyTypes
<1>3. \A d : WrittenBy(d)' <=> WrittenBy(d) BY DEF WrittenBy
<1>4. \A d \in Marked : Gone(d) => Gone(d)' BY <1>1 DEF Gone, Marked
<1>5. Stands(cores[c])' BY <1>1 DEF Stands
<1>6. c \notin outdated' => Looked(c, cores[c])' BY <1>1, <1>3, <1>4 DEF Looked
<1>7. WrittenBy(c)' => Owned(cores[c])' BY <1>1, <1>3 DEF Owned
<1>8. ASSUME NEW m \in met', ~(m \in met /\ m[1] # c) PROVE Seen(m)'
  <2>1. m[2] \in Marked BY <1>8
  <2> QED BY <2>1, <1>1, <1>3, <1>4, <1>8 DEF Seen
<1>9. ASSUME alone' PROVE IF Lives(c)' THEN KeysOf(c, cores[c])' ELSE keys' = first
  <2>1. Lives(c)' <=> next.at \notin {"over", "dead"} BY <1>1 DEF Lives
  <2>2. KeysOf(c, next) => KeysOf(c, cores[c])' BY <1>1, <1>3 DEF KeysOf
  <2> QED BY <2>1, <2>2, <1>9
<1>10. /\ value' # Absent => keys' = Levels
       /\ keys = Levels => keys' = Levels
       /\ \A d \in Cores \ {c} : d \notin outdated' => d \notin outdated /\ value' = value
  BY DEF PolicyInv
<1> QED BY <1>1, <1>2, <1>3, <1>5, <1>6, <1>7, <1>8, <1>9, <1>10, CoreStep

\* What a pair in `met` asks of a core that goes on, for most of its steps.
LEMMA MetGoesOn ==
    ASSUME PolicyInv, NEW c \in Cores, NEW next \in CoreType, UNCHANGED met,
           cores[c].said \subseteq next.said, cores[c].at = "recover" => next.at = "dead",
           next.at = "scan" => cores[c].at = "unborn", next.at # "unborn", ~Gone(c)
    PROVE  /\ met' \subseteq Cores \X Marked
           /\ \A m \in met' : (m \in met /\ m[1] # c) \/
                              /\ m[1] = c /\ m[2] # c /\ Gone(m[2]) /\ next.at \notin {"unborn", "scan"}
                              /\ next.at \notin {"recover", "dead"} /\ WrittenBy(m[2]) => "stale" \in next.said
<1>1. ASSUME NEW m \in met, m[1] = c
      PROVE  /\ m[2] # c /\ Gone(m[2]) /\ next.at \notin {"unborn", "scan"}
             /\ next.at \notin {"recover", "dead"} /\ WrittenBy(m[2]) => "stale" \in next.said
  <2>1. Seen(m) /\ cores[c].at # "dead" BY <1>1 DEF PolicyInv, Gone
  <2> QED BY <2>1, <1>1 DEF Seen
<1> QED BY <1>1 DEF PolicyInv, PolicyTypes

LEMMA StartsCoreKeeps ==
    ASSUME PolicyInv, NEW c \in Cores, StartsCore(c)
    PROVE  PolicyInv'
<1>1. PICK asks, may \in BOOLEAN : Goes(c, [cores[c] EXCEPT !.at = "scan", !.asks = asks, !.may = may])
  BY DEF StartsCore
<1> DEFINE next == [cores[c] EXCEPT !.at = "scan", !.asks = asks, !.may = may]
<1>2. /\ cores[c] = Fresh /\ cores[c].at = "unborn" /\ UNCHANGED <<star, value, keys, first, outdated, met>>
      /\ (alone' <=> alone /\ \A d \in Cores : ~Lives(d)) /\ alone' \in BOOLEAN
  BY CoreFacts DEF StartsCore, Stands
<1>3. next \in CoreType /\ next.at = "scan" /\ next.wrote = FALSE /\ next.created = {} /\ next.open /\ cores[c].said \subseteq next.said
  <2>1. "scan" \in CoreSteps /\ Fresh.wrote = FALSE /\ Fresh.created = {} /\ Fresh.open
    BY DEF CoreSteps, Fresh
  <2> QED BY <1>2, <2>1, CoreFacts DEF CoreType
<1> HIDE DEF next
<1>4. ~Gone(c) /\ ~WrittenBy(c) BY <1>2, Sizes, CoreFacts DEF Gone, Owned
<1>5. Stands(next) /\ Looked(c, next) BY <1>3 DEF Stands, Looked
<1>6. ASSUME alone' PROVE alone /\ (\A d \in Cores : ~Lives(d)) /\ KeysOf(c, next)
  <2>1. keys = first /\ first \in Nat BY <1>6, <1>2, Sizes DEF PolicyInv, AloneInv, PolicyTypes
  <2>2. (first + 1)..keys = {} BY <2>1
  <2> QED BY <1>6, <1>2, <1>3, <2>1, <2>2 DEF KeysOf
<1>7. /\ met' \subseteq Cores \X Marked
      /\ \A m \in met' : (m \in met /\ m[1] # c) \/
                         /\ m[1] = c /\ m[2] # c /\ Gone(m[2]) /\ next.at \notin {"unborn", "scan"}
                         /\ next.at \notin {"recover", "dead"} /\ WrittenBy(m[2]) => "stale" \in next.said
  <2>1. \A m \in met : m[1] # c BY <1>2 DEF PolicyInv, Seen
  <2> QED BY <1>2, <2>1 DEF PolicyInv, PolicyTypes
<1>8. Goes(c, next) BY <1>1 DEF next
<1> QED BY <1>2, <1>3, <1>4, <1>5, <1>6, <1>7, <1>8, QuietStep

LEMMA LiveIs == \A c \in Cores : cores[c].at \notin {"unborn", "over", "dead"} <=> ~Gone(c) /\ Lives(c)
  BY Sizes DEF Gone, Lives

LEMMA LikeTwice == \A x, y, z : Like(x, y) /\ Like(y, z) => Like(x, z)
  BY DEF Like

LEMMA SteppedTo ==
    ASSUME NEW core \in CoreType, NEW at \in CoreSteps, NEW key \in Sayings
    PROVE  /\ [Says(core, key) EXCEPT !.at = at] \in CoreType
           /\ [Says(core, key) EXCEPT !.at = at].at = at
           /\ Like([Says(core, key) EXCEPT !.at = at], core)
           /\ key \in [Says(core, key) EXCEPT !.at = at].said
  BY SaysIs, AtIs, LikeTwice

\* Before it writes, a core by itself has made no key; so it stays if it goes on to run.
LEMMA NoKeysYet ==
    ASSUME NEW c, NEW core, NEW next, KeysOf(c, core), ~core.wrote, Like(next, core), keys = first,
           next.at \in {"recover", "read", "run"}
    PROVE  KeysOf(c, next)
  BY DEF KeysOf, Like

LEMMA ScansLeftoversKeeps ==
    ASSUME PolicyInv, NEW c \in Cores, ScansLeftovers(c)
    PROVE  PolicyInv'
<1> DEFINE core == cores[c]
           said == IF IsStale(value) THEN SaysStale(core) ELSE core
           next == IF IsStale(value) /\ core.asks /\ core.may THEN [core EXCEPT !.at = "recover"] ELSE AfterLeftovers(said)
<1>1. /\ core.at = "scan" /\ Goes(c, next) /\ outdated' = outdated \ {c}
      /\ met' = met \cup {<<c, d>> : d \in {x \in Marked : WrittenBy(x) /\ Gone(x)}}
      /\ UNCHANGED <<star, value, keys, first, alone>>
  BY DEF ScansLeftovers, Looks, Marked
<1>2. /\ core \in CoreType /\ Stands(core) /\ ~Gone(c) /\ Lives(c) /\ value \in ValueType /\ ~WrittenBy(c) /\ ~core.wrote /\ core.open
      /\ alone \in BOOLEAN
  BY <1>1, CoreFacts, LiveIs DEF PolicyTypes, Owned, Stands
<1>3. /\ said \in CoreType /\ Like(said, core) /\ (IsStale(value) => "stale" \in said.said)
  <2>1. "stale" \in Sayings /\ Like(core, core) BY DEF Sayings, Like
  <2> QED BY <1>2, <2>1, SaysIs DEF SaysStale
<1>4. /\ next \in CoreType /\ next.at \in {"recover", "read", "run"} /\ Like(next, core)
      /\ next.at = "recover" => IsStale(value) /\ core.asks /\ core.may
      /\ next.at = "read" => core.asks /\ core.may
      /\ IsStale(value) /\ next.at # "recover" => "stale" \in next.said
  <2>1. CASE IsStale(value) /\ core.asks /\ core.may
    <3>1. "recover" \in CoreSteps BY DEF CoreSteps
    <3> QED BY <2>1, <3>1, <1>2, AtIs
  <2>2. CASE ~(IsStale(value) /\ core.asks /\ core.may)
    <3>1. next = AfterLeftovers(said) BY <2>2
    <3>2. /\ next \in CoreType /\ next.at \in {"run", "read"} /\ Like(next, said)
          /\ next.at = "read" => said.asks /\ said.may
      BY <3>1, <1>3, AfterLeftoversIs
    <3> QED BY <3>2, <1>3, LikeTwice DEF Like
  <2> QED BY <2>1, <2>2
<1>5. IsStale(value) <=> \E d \in Marked : WrittenBy(d) /\ Gone(d) BY <1>2, StaleIs DEF Marked
<1> HIDE DEF said, next
<1>6. Stands(next) /\ Looked(c, next) BY <1>2, <1>4, <1>5 DEF Stands, Looked, Like
<1>7. ASSUME alone PROVE KeysOf(c, next)
  <2>1. KeysOf(c, core) /\ keys = first BY <1>7, <1>1, <1>2, CoreFacts DEF KeysOf
  <2> QED BY <2>1, <1>2, <1>4, NoKeysYet
<1>8. ASSUME NEW m \in met'
      PROVE  m \in Cores \X Marked /\
             \/ m \in met /\ m[1] # c
             \/ /\ m[1] = c /\ m[2] # c /\ Gone(m[2]) /\ next.at \notin {"unborn", "scan"}
                /\ next.at \notin {"recover", "dead"} /\ WrittenBy(m[2]) => "stale" \in next.said
  <2>1. CASE m \in met BY <2>1, <1>1, CoreFacts DEF Seen
  <2>2. CASE m \notin met
    <3>1. PICK d \in Marked : m = <<c, d>> /\ WrittenBy(d) /\ Gone(d) BY <2>2, <1>1
    <3> QED BY <3>1, <1>2, <1>4, <1>5
  <2> QED BY <2>1, <2>2
<1>9. next.at \notin {"unborn", "over", "dead"} BY <1>4
<1> QED BY <1>1, <1>2, <1>4, <1>6, <1>7, <1>8, <1>9, QuietStep

\* Whoever puts a value makes every other core's look outdated, unless it is the one that stands.
LEMMA PutsIs ==
    ASSUME PolicyTypes, NEW c, NEW v, Puts(c, v)
    PROVE  /\ value' = v /\ outdated' \subseteq Cores /\ outdated \subseteq outdated' /\ (c \in outdated' => c \in outdated)
           /\ \A d \in Cores \ {c} : d \notin outdated' => d \notin outdated /\ value' = value
  BY DEF Puts, PolicyTypes

LEMMA RecoversKeeps ==
    ASSUME PolicyInv, NEW c \in Cores, Recovers(c)
    PROVE  PolicyInv'
<1> DEFINE core == cores[c]
<1>1. core.at = "recover" /\ UNCHANGED <<star, keys, met, first>> BY DEF Recovers
<1>2. /\ core \in CoreType /\ core.asks /\ core.may /\ ~core.wrote /\ core.open /\ ~Gone(c) /\ Lives(c) /\ ~WrittenBy(c)
      /\ PolicyTypes /\ alone \in BOOLEAN /\ "recovered" \in Sayings /\ "stale" \in Sayings
  BY <1>1, CoreFacts, LiveIs DEF PolicyTypes, Owned, Stands, Sayings
\* Either way it goes on as from a scan that found nothing, with one more thing said.
<1>3. ASSUME NEW key \in Sayings
      PROVE  LET next == AfterLeftovers(Says(core, key))
             IN  /\ next \in CoreType /\ next.at \in {"run", "read"} /\ Like(next, core) /\ key \in next.said
                 /\ Stands(next)
                 /\ alone => KeysOf(c, next)
  <2> DEFINE next == AfterLeftovers(Says(core, key))
  <2>1. Says(core, key) \in CoreType /\ Like(Says(core, key), core) /\ key \in Says(core, key).said
    BY <1>2, <1>3, SaysIs
  <2>2. next \in CoreType /\ next.at \in {"run", "read"} /\ Like(next, Says(core, key))
    BY <2>1, AfterLeftoversIs
  <2> HIDE DEF next
  <2>3. Like(next, core) /\ key \in next.said BY <2>1, <2>2, LikeTwice DEF Like
  <2>4. Stands(next) BY <1>2, <2>2, <2>3 DEF Stands, Like
  <2>5. ASSUME alone PROVE KeysOf(c, next)
    <3>1. KeysOf(c, core) /\ keys = first BY <2>5, <1>1, <1>2, CoreFacts DEF KeysOf
    <3> QED BY <3>1, <1>2, <2>2, <2>3, NoKeysYet
  <2> QED BY <2>2, <2>3, <2>4, <2>5 DEF next
<1>4. CASE Granted /\ Puts(c, Absent) /\ Goes(c, AfterLeftovers(Says(core, "recovered")))
  <2>1. /\ cores'[c] = AfterLeftovers(Says(core, "recovered"))
        /\ \A d \in Cores \ {c} : cores'[d] = cores[d]
        /\ cores' \in [Cores -> CoreType] /\ alone' = alone
    BY <1>2, <1>3, <1>4, GoesTo DEF Granted
  <2>2. /\ cores'[c].at \in {"run", "read"} /\ Like(cores'[c], core)
        /\ Stands(AfterLeftovers(Says(core, "recovered")))
        /\ alone => KeysOf(c, AfterLeftovers(Says(core, "recovered")))
    BY <2>1, <1>2, <1>3
  <2>3. /\ value' = Absent /\ outdated' \subseteq Cores
        /\ \A d \in Cores \ {c} : d \notin outdated' => d \notin outdated /\ value' = value
    BY <1>2, <1>4, PutsIs
  <2>4. \A d : ~WrittenBy(d)' BY <2>3, Values DEF WrittenBy
  <2>5. PolicyTypes' BY <1>1, <1>2, <2>1, <2>3, Values DEF PolicyTypes
  <2>6. Stands(cores[c])' /\ (alone => KeysOf(c, cores[c])') /\ Looked(c, cores[c])'
    <3>1. Stands(cores[c])' /\ Looked(c, cores[c])' BY <2>1, <2>2, <1>1 DEF Stands, Looked
    <3>2. ~cores'[c].wrote BY <2>2, <1>2 DEF Like
    <3>3. ASSUME alone PROVE KeysOf(c, cores[c])' BY <3>2, <3>3, <2>1, <2>2, <1>1 DEF KeysOf
    <3> QED BY <3>1, <3>3
  <2>7. ASSUME NEW m \in met', ~(m \in met /\ m[1] # c) PROVE Seen(m)'
    <3>1. Seen(m) /\ m[1] = c /\ m[2] \in Marked BY <1>1, <2>7, CoreFacts
    <3>2. Gone(m[2])'
      <4>1. m[2] # c BY <3>1, <1>2 DEF Seen
      <4> QED BY <4>1, <3>1, <2>1 DEF Seen, Gone, Marked
    <3> QED BY <3>1, <3>2, <2>2, <2>4 DEF Seen
  <2>8. Lives(c)' BY <2>2 DEF Lives
  <2> QED BY <1>1, <1>2, <2>1, <2>3, <2>4, <2>5, <2>6, <2>7, <2>8, Values, CoreStep DEF PolicyInv
<1>5. CASE Refusal /\ Goes(c, AfterLeftovers(SaysStale(core))) /\ UNCHANGED <<value, outdated>>
  <2> DEFINE next == AfterLeftovers(SaysStale(core))
  <2>1. next \in CoreType /\ next.at \in {"run", "read"} /\ Like(next, core) /\ "stale" \in next.said /\ Stands(next)
    BY <1>2, <1>3 DEF SaysStale
  <2>2. Goes(c, next) /\ alone' = FALSE BY <1>5 DEF Refusal
  <2> HIDE DEF next
  <2>3. ASSUME NEW m \in met'
        PROVE  m \in Cores \X Marked /\
               \/ m \in met /\ m[1] # c
               \/ /\ m[1] = c /\ m[2] # c /\ Gone(m[2]) /\ next.at \notin {"unborn", "scan"}
                  /\ next.at \notin {"recover", "dead"} /\ WrittenBy(m[2]) => "stale" \in next.said
    BY <1>1, <1>2, <2>1, CoreFacts DEF Seen
  <2>4. Looked(c, next) BY <2>1 DEF Looked
  <2> QED BY <1>1, <1>2, <1>5, <2>1, <2>2, <2>3, <2>4, QuietStep
<1> QED BY <1>4, <1>5 DEF Recovers

\* A step with a call that was refused, or that leaves a core that is not by itself.
LEMMA QuietStepOn ==
    ASSUME PolicyInv, NEW c \in Cores, ~Gone(c), Lives(c), NEW next \in CoreType, Goes(c, next),
           UNCHANGED <<star, value, keys, first, met>>, outdated' \in {outdated, outdated \ {c}},
           next.at \notin {"unborn", "scan"}, cores[c].said \subseteq next.said,
           cores[c].at = "recover" => next.at = "dead",
           Stands(next), c \notin outdated' => Looked(c, next), WrittenBy(c) => Owned(next),
           alone' \in BOOLEAN,
           alone' => alone /\ (IF next.at \in {"over", "dead"} THEN keys = first ELSE KeysOf(c, next))
    PROVE  PolicyInv'
  BY MetGoesOn, QuietStep

LEMMA ReadsBothKeeps ==
    ASSUME PolicyInv, NEW c \in Cores, ReadsBoth(c)
    PROVE  PolicyInv'
<1> DEFINE core == cores[c]
<1>1. core.at = "read" /\ outdated' = outdated \ {c} /\ UNCHANGED <<star, value, keys, met, first>>
  BY DEF ReadsBoth, Looks
<1>2. /\ core \in CoreType /\ core.asks /\ core.may /\ ~core.wrote /\ core.open /\ ~Gone(c) /\ Lives(c) /\ ~WrittenBy(c)
      /\ PolicyTypes /\ alone \in BOOLEAN /\ (alone => KeysOf(c, core) /\ keys = first)
  BY <1>1, CoreFacts, LiveIs DEF PolicyTypes, Owned, Stands, KeysOf
<1>3. /\ {"run", "keys"} \subseteq CoreSteps /\ {"foreign", "not_written"} \subseteq Sayings
  BY DEF CoreSteps, Sayings
<1>4. ASSUME NEW next \in CoreType, next.at = "run", Like(next, core), Goes(c, next), alone' => alone, alone' \in BOOLEAN
      PROVE  PolicyInv'
  <2>1. Stands(next) /\ Looked(c, next) BY <1>2, <1>4 DEF Stands, Looked, Like
  <2>2. alone => KeysOf(c, next) BY <1>2, <1>4, NoKeysYet
  <2> QED BY <1>1, <1>2, <1>4, <2>1, <2>2, QuietStepOn DEF Like
<1>5. ASSUME Granted PROVE (alone' => alone) /\ alone' \in BOOLEAN BY <1>2, <1>5 DEF Granted
<1>6. CASE Granted /\ Decide(c) = "foreign" /\ Goes(c, [Says(core, "foreign") EXCEPT !.at = "run"])
  BY <1>2, <1>3, <1>4, <1>5, <1>6, SteppedTo
<1>7. CASE Granted /\ Decide(c) = "leave" /\ Goes(c, [(IF star.port THEN core ELSE Says(core, "not_written")) EXCEPT !.at = "run"])
  <2>1. CASE star.port
    <3> DEFINE next == [core EXCEPT !.at = "run"]
    <3>1. next \in CoreType /\ next.at = "run" /\ Like(next, core) BY <1>2, <1>3, AtIs
    <3>2. Goes(c, next) BY <1>7, <2>1
    <3> HIDE DEF next
    <3> QED BY <1>4, <1>5, <1>7, <3>1, <3>2
  <2>2. CASE ~star.port
    <3> DEFINE next == [Says(core, "not_written") EXCEPT !.at = "run"]
    <3>1. next \in CoreType /\ next.at = "run" /\ Like(next, core) BY <1>2, <1>3, SteppedTo
    <3>2. Goes(c, next) BY <1>7, <2>2
    <3> HIDE DEF next
    <3> QED BY <1>4, <1>5, <1>7, <3>1, <3>2
  <2> QED BY <2>1, <2>2
<1>8. CASE Granted /\ Decide(c) = "write" /\ Goes(c, [core EXCEPT !.at = "keys", !.level = 1])
  <2> DEFINE next == AtLevel(core, "keys", 1)
  <2>1. /\ next \in CoreType /\ next.at = "keys" /\ next.level = 1 /\ next.created = core.created
        /\ next.asks = core.asks /\ next.may = core.may /\ next.wrote = core.wrote /\ next.said = core.said /\ next.open = core.open
    <3>1. "keys" \in CoreSteps /\ 1 \in 0..Levels BY <1>3, Sizes
    <3>2. core \in CoreType BY <1>2
    <3> QED BY <3>1, <3>2, AtLevelIs
  <2>2. value = Absent BY <1>8 DEF Decide
  <2>3. Goes(c, next) BY <1>8 DEF AtLevel
  <2> HIDE DEF next
  <2>4. Stands(next) /\ Looked(c, next) BY <1>2, <2>1, <2>2 DEF Stands, Looked
  <2>5. ASSUME alone PROVE KeysOf(c, next)
    <3>1. first \in Nat BY <1>2, Sizes DEF PolicyTypes
    <3> QED BY <1>2, <2>1, <2>5, <3>1 DEF KeysOf
  <2> QED BY <1>1, <1>2, <1>5, <1>8, <2>1, <2>3, <2>4, <2>5, QuietStepOn
<1>9. CASE Refusal /\ Goes(c, [Says(core, "not_written") EXCEPT !.at = "run"])
  <2>1. alone' = FALSE BY <1>9 DEF Refusal
  <2> QED BY <1>2, <1>3, <1>4, <1>9, <2>1, SteppedTo
<1>10. Decide(c) \in {"foreign", "leave", "write"} BY DEF Decide
<1> QED BY <1>6, <1>7, <1>8, <1>9, <1>10 DEF ReadsBoth

\* What is undone: the value is not there, or said to be.
Undone(next, core) ==
    /\ next \in CoreType /\ next.at = "undo" /\ next.wrote = core.wrote /\ next.created = core.created
    /\ next.asks = core.asks /\ next.may = core.may /\ core.said \subseteq next.said

LEMMA UndoneIs ==
    ASSUME NEW core \in CoreType
    PROVE  Undone(Undoes(core), core) /\ Undone(Removed(core), core)
<1>1. ASSUME NEW key \in Sayings
      PROVE  Undone([Says(core, key) EXCEPT !.at = "undo", !.level = Levels], core)
  <2>1. Says(core, key) \in CoreType /\ Like(Says(core, key), core) BY <1>1, SaysIs
  <2>2. ASSUME NEW x \in CoreType, Like(x, core)
        PROVE  Undone([x EXCEPT !.at = "undo", !.level = Levels], core)
    <3>1. "undo" \in CoreSteps /\ Levels \in 0..Levels BY Sizes DEF CoreSteps
    <3> DEFINE next == AtLevel(x, "undo", Levels)
    <3>2. /\ next \in CoreType /\ next.at = "undo" /\ next.wrote = x.wrote /\ next.created = x.created
          /\ next.asks = x.asks /\ next.may = x.may /\ next.said = x.said
      BY <2>2, <3>1, AtLevelIs
    <3> HIDE DEF next
    <3> QED BY <2>2, <3>2 DEF Undone, Like, next, AtLevel
  <2> QED BY <2>1, <2>2
<1> QED BY <1>1 DEF Undoes, Removed, Sayings

LEMMA UndoesKeeps ==
    ASSUME PolicyInv, NEW c \in Cores, ~Gone(c), Lives(c), NEW next, Undone(next, cores[c]), Goes(c, next),
           cores[c].at # "recover", ~WrittenBy(c),
           UNCHANGED <<star, value, keys, first, met>>, outdated' \in {outdated, outdated \ {c}}, ~alone', alone' \in BOOLEAN
    PROVE  PolicyInv'
<1>1. Stands(cores[c]) /\ cores[c] \in CoreType BY CoreFacts
<1>2. /\ next \in CoreType /\ next.at = "undo" /\ next.wrote = cores[c].wrote
      /\ next.asks = cores[c].asks /\ next.may = cores[c].may /\ cores[c].said \subseteq next.said
  BY DEF Undone
<1>3. Stands(next) /\ Looked(c, next) BY <1>1, <1>2 DEF Stands, Looked
<1> QED BY <1>2, <1>3, QuietStepOn

\* A key that is there by then: the core comes to the next one, or to the value.
LEMMA KeyIsMade ==
    ASSUME PolicyInv, NEW c \in Cores, cores[c].at = "keys", Granted,
           keys' = IF keys < cores[c].level THEN cores[c].level ELSE keys,
           NEW next \in CoreType, Goes(c, next), next.said = cores[c].said,
           next.at = (IF cores[c].level = Levels THEN "set" ELSE "keys"),
           next.level = (IF cores[c].level = Levels THEN Levels ELSE cores[c].level + 1),
           next.created = (IF keys < cores[c].level THEN cores[c].created \cup {cores[c].level} ELSE cores[c].created),
           next.asks = cores[c].asks, next.may = cores[c].may, next.wrote = cores[c].wrote, next.open = cores[c].open,
           UNCHANGED <<star, value, meddled, outdated, met, first>>
    PROVE  PolicyInv'
<1> DEFINE core == cores[c]
           l    == cores[c].level
<1>1. /\ core \in CoreType /\ Stands(core) /\ core.asks /\ core.may /\ ~core.wrote /\ core.open /\ ~Gone(c) /\ Lives(c) /\ ~WrittenBy(c)
      /\ PolicyTypes /\ (c \notin outdated => value = Absent) /\ core.at = "keys" /\ l > 0
  BY CoreFacts, LiveIs DEF Owned, Stands, Looked
<1>2. /\ l \in 1..Levels /\ keys \in 0..Levels /\ first \in 0..Levels /\ Levels \in Nat /\ alone' = alone /\ alone \in BOOLEAN
  BY <1>1, Sizes DEF CoreType, PolicyTypes, Granted
<1>3. keys' \in 0..Levels /\ keys' >= keys /\ keys' >= l /\ (l = Levels => keys' = Levels) /\ (keys = Levels => keys' = Levels)
  BY <1>2
<1>4. /\ cores'[c] = next /\ \A d \in Cores \ {c} : cores'[d] = cores[d]
      /\ cores' \in [Cores -> CoreType]
  BY <1>1, GoesTo
<1>5. PolicyTypes' /\ (value' # Absent => keys' = Levels)
  <2>1. value # Absent => keys = Levels BY DEF PolicyInv
  <2>2. alone' \in BOOLEAN BY <1>2
  <2> QED BY <1>1, <1>3, <1>4, <2>1, <2>2 DEF PolicyTypes
<1>6. \A d : WrittenBy(d)' <=> WrittenBy(d) BY DEF WrittenBy
<1>7. Stands(cores[c])'
  <2>1. next.at \in {"set", "keys"} /\ (next.at = "set" => keys' = Levels) /\ next.level > 0
    BY <1>2, <1>3
  <2> QED BY <1>1, <1>4, <2>1 DEF Stands
<1>8. c \notin outdated' => Looked(c, cores[c])' BY <1>1, <1>4 DEF Looked
<1>9. ASSUME NEW m \in met', ~(m \in met /\ m[1] # c) PROVE Seen(m)'
  <2>1. Seen(m) /\ m[1] = c /\ m[2] \in Marked BY <1>9, CoreFacts
  <2>2. Gone(m[2])'
    <3>1. m[2] # c BY <2>1, <1>1 DEF Seen
    <3> QED BY <3>1, <2>1, <1>4 DEF Seen, Gone, Marked
  <2> QED BY <2>1, <2>2, <1>1, <1>4, <1>6 DEF Seen
<1>10. ASSUME alone' PROVE KeysOf(c, cores[c])'
  <2>1. /\ first <= keys /\ core.created = (first + 1)..keys /\ keys = IF l - 1 > first THEN l - 1 ELSE first
    BY <1>1, <1>2, <1>10, CoreFacts DEF KeysOf
  <2>2. CASE keys < l
    <3>1. keys' = l /\ keys = l - 1 BY <1>2, <2>1, <2>2
    <3>2. (first + 1)..l = ((first + 1)..keys) \cup {l} BY <1>2, <2>1, <3>1
    <3>3. next.created = (first + 1)..keys' BY <2>1, <2>2, <3>1, <3>2
    <3>4. first <= keys' BY <1>2, <2>1, <3>1
    <3>5. next.at = "keys" => keys' = IF next.level - 1 > first THEN next.level - 1 ELSE first
      BY <1>2, <2>1, <3>1
    <3>6. next.at = "set" => next.open BY <1>1
    <3> QED BY <1>4, <3>3, <3>4, <3>5, <3>6 DEF KeysOf
  <2>3. CASE ~(keys < l)
    <3>1. keys' = keys /\ keys = first /\ l <= first BY <1>2, <2>1, <2>3
    <3>2. next.created = (first + 1)..keys' /\ first <= keys' /\ next.at \in {"keys", "set"} /\ next.open
      BY <1>1, <2>1, <2>3, <3>1
    <3>3. next.at = "keys" => keys' = IF next.level - 1 > first THEN next.level - 1 ELSE first
      BY <1>2, <2>3, <3>1
    <3> QED BY <1>4, <3>2, <3>3 DEF KeysOf
  <2> QED BY <2>2, <2>3
<1>11. Lives(c)' BY <1>4 DEF Lives
<1> QED BY <1>1, <1>2, <1>3, <1>4, <1>5, <1>6, <1>7, <1>8, <1>9, <1>10, <1>11, CoreStep

LEMMA MakesKeyKeeps ==
    ASSUME PolicyInv, NEW c \in Cores, MakesKey(c)
    PROVE  PolicyInv'
<1> DEFINE core == cores[c]
           l    == cores[c].level
           base == IF l = Levels THEN [core EXCEPT !.at = "set"] ELSE [core EXCEPT !.level = l + 1]
           next == IF keys < l THEN [base EXCEPT !.created = core.created \cup {l}] ELSE base
<1>1. core.at = "keys" /\ UNCHANGED <<star, value, meddled, outdated, met, first>> BY DEF MakesKey
<1>2. core \in CoreType /\ Stands(core) /\ ~Gone(c) /\ Lives(c) /\ ~WrittenBy(c) /\ l \in 1..Levels /\ alone \in BOOLEAN
  <2>1. core \in CoreType /\ Stands(core) /\ ~Gone(c) /\ Lives(c) /\ ~WrittenBy(c) /\ alone \in BOOLEAN
    BY <1>1, CoreFacts, LiveIs DEF Owned, PolicyTypes
  <2>2. l \in 0..Levels /\ l > 0 BY <2>1, <1>1 DEF CoreType, Stands
  <2> QED BY <2>1, <2>2, Sizes
<1>3. CASE Granted /\ keys' = (IF keys < l THEN l ELSE keys) /\ Goes(c, next)
  <2>1. /\ base \in CoreType /\ base.at = (IF l = Levels THEN "set" ELSE "keys") /\ base.said = core.said
        /\ base.level = (IF l = Levels THEN Levels ELSE l + 1) /\ base.created = core.created
        /\ base.asks = core.asks /\ base.may = core.may /\ base.wrote = core.wrote /\ base.open = core.open
    <3>1. CASE l = Levels
      <4>1. "set" \in CoreSteps BY DEF CoreSteps
      <4> QED BY <3>1, <4>1, <1>1, <1>2 DEF CoreType
    <3>2. CASE l # Levels
      <4>1. l + 1 \in 0..Levels BY <1>2, <3>2, Sizes
      <4> QED BY <3>2, <4>1, <1>1, <1>2 DEF CoreType
    <3> QED BY <3>1, <3>2
  <2> HIDE DEF base
  <2>2. /\ next \in CoreType /\ next.at = base.at /\ next.said = base.said /\ next.level = base.level
        /\ next.created = (IF keys < l THEN core.created \cup {l} ELSE core.created)
        /\ next.asks = base.asks /\ next.may = base.may /\ next.wrote = base.wrote /\ next.open = base.open
    <3>1. core.created \cup {l} \in SUBSET (1..Levels) BY <1>2 DEF CoreType
    <3> QED BY <2>1, <3>1 DEF CoreType
  <2> HIDE DEF next
  <2> QED BY <1>1, <1>3, <2>1, <2>2, KeyIsMade
<1>4. CASE Refusal /\ Goes(c, Undoes(core)) /\ UNCHANGED keys
  <2>1. ~alone' /\ alone' \in BOOLEAN BY <1>4 DEF Refusal
  <2>2. Undone(Undoes(core), core) BY <1>2, UndoneIs
  <2> QED BY <1>1, <1>2, <1>4, <2>1, <2>2, UndoesKeeps
<1>5. \/ Granted /\ keys' = (IF keys < l THEN l ELSE keys) /\ Goes(c, next)
      \/ Refusal /\ Goes(c, Undoes(core)) /\ UNCHANGED keys
  BY DEF MakesKey
<1> QED BY <1>3, <1>4, <1>5

LEMMA SetsValueKeeps ==
    ASSUME PolicyInv, NEW c \in Cores, SetsValue(c)
    PROVE  PolicyInv'
<1> DEFINE core == cores[c]
           own  == Text(TRUE, star.marks \o <<c>>)
           next == [core EXCEPT !.at = "run", !.wrote = TRUE]
<1>1. core.at = "set" /\ UNCHANGED <<star, keys, meddled, met, first>> BY DEF SetsValue
<1>2. /\ core \in CoreType /\ Stands(core) /\ core.asks /\ core.may /\ ~Gone(c) /\ Lives(c) /\ ~WrittenBy(c)
      /\ PolicyTypes /\ alone \in BOOLEAN /\ (alone => KeysOf(c, core))
  BY <1>1, CoreFacts, LiveIs DEF Owned, PolicyTypes, Stands
<1>3. CASE core.open /\ Granted /\ Puts(c, own) /\ Goes(c, next)
  <2>1. own \in ValueType /\ own.marks # <<>> /\ own.marks[Len(own.marks)] = c
    BY <1>2, OwnMark DEF PolicyTypes
  <2> HIDE DEF own
  <2>2. /\ next \in CoreType /\ next.at = "run" /\ next.wrote /\ next.asks = core.asks /\ next.may = core.may
        /\ next.created = core.created /\ next.said = core.said
    <3>1. "run" \in CoreSteps BY DEF CoreSteps
    <3> QED BY <3>1, <1>2 DEF CoreType
  <2> HIDE DEF next
  <2>3. /\ cores'[c] = next /\ \A d \in Cores \ {c} : cores'[d] = cores[d]
        /\ cores' \in [Cores -> CoreType]
    BY <1>2, <1>3, <2>2, GoesTo
  <2>4. /\ value' = own /\ outdated' \subseteq Cores
        /\ \A d \in Cores \ {c} : d \notin outdated' => d \notin outdated /\ value' = value
    BY <1>2, <1>3, PutsIs
  <2>5. \A d : WrittenBy(d)' <=> d = c BY <2>1, <2>4 DEF WrittenBy
  <2>6. PolicyTypes' /\ keys' = Levels /\ alone' = alone
    <3>1. keys = Levels BY <1>1, <1>2, <1>3 DEF Stands
    <3>2. alone' = alone BY <1>3 DEF Granted
    <3> QED BY <3>1, <3>2, <1>1, <1>2, <2>1, <2>3, <2>4 DEF PolicyTypes
  <2>7. Stands(cores[c])' /\ Looked(c, cores[c])' /\ Owned(cores[c])'
    BY <1>2, <2>2, <2>3 DEF Stands, Looked, Owned
  <2>8. ASSUME alone PROVE KeysOf(c, cores[c])'
    <3>1. first <= keys /\ core.created = (first + 1)..keys BY <1>2, <2>8 DEF KeysOf
    <3>2. WrittenBy(c)' BY <2>5
    <3> QED BY <3>1, <3>2, <1>1, <2>2, <2>3 DEF KeysOf
  <2>9. ASSUME NEW m \in met', ~(m \in met /\ m[1] # c) PROVE Seen(m)'
    <3>1. Seen(m) /\ m[1] = c /\ m[2] \in Marked BY <1>1, <2>9, CoreFacts
    <3>2. m[2] # c BY <3>1, <1>2 DEF Seen
    <3>3. Gone(m[2])' BY <3>1, <3>2, <2>3 DEF Seen, Gone, Marked
    <3> QED BY <3>1, <3>2, <3>3, <2>2, <2>3, <2>5 DEF Seen
  <2>10. Lives(c)' BY <2>2, <2>3 DEF Lives
  <2> QED BY <1>1, <1>2, <2>3, <2>4, <2>5, <2>6, <2>7, <2>8, <2>9, <2>10, CoreStep
<1>4. CASE ((~core.open /\ Granted) \/ Refusal) /\ Goes(c, Undoes(core)) /\ UNCHANGED <<value, outdated>>
  <2>1. ~alone' /\ alone' \in BOOLEAN
    <3>1. CASE Refusal BY <3>1 DEF Refusal
    <3>2. CASE ~core.open /\ Granted BY <3>2, <1>1, <1>2 DEF Granted, KeysOf
    <3> QED BY <3>1, <3>2, <1>4
  <2>2. Undone(Undoes(core), core) BY <1>2, UndoneIs
  <2> QED BY <1>1, <1>2, <1>4, <2>1, <2>2, UndoesKeeps
<1> QED BY <1>3, <1>4 DEF SetsValue

LEMMA FinishesKeeps ==
    ASSUME PolicyInv, NEW c \in Cores, Finishes(c)
    PROVE  PolicyInv'
<1> DEFINE core == cores[c]
           at   == IF core.wrote THEN "readback" ELSE "over"
           next == [core EXCEPT !.at = at]
<1>1. core.at = "run" /\ Goes(c, next) /\ UNCHANGED <<star, value, keys, meddled, refused, outdated, met, first, alone>>
  BY DEF Finishes
<1>2. /\ core \in CoreType /\ Stands(core) /\ ~Gone(c) /\ Lives(c) /\ (WrittenBy(c) => core.wrote)
      /\ alone \in BOOLEAN /\ (alone => KeysOf(c, core))
  BY <1>1, CoreFacts, LiveIs DEF Owned, PolicyTypes
<1>3. at \in CoreSteps BY DEF CoreSteps
<1>4. next \in CoreType /\ next.at = (IF core.wrote THEN "readback" ELSE "over") /\ Like(next, core)
  BY <1>2, <1>3, AtIs
<1> HIDE DEF next
<1>5. Stands(next) /\ Looked(c, next) /\ (WrittenBy(c) => Owned(next))
  BY <1>2, <1>4 DEF Stands, Looked, Owned, Like
<1>6. ASSUME alone PROVE IF next.at \in {"over", "dead"} THEN keys = first ELSE KeysOf(c, next)
  BY <1>1, <1>2, <1>4, <1>6 DEF KeysOf, Like
<1>7. next.at \notin {"unborn", "scan"} /\ core.said \subseteq next.said BY <1>4 DEF Like
<1> QED BY <1>1, <1>2, <1>4, <1>5, <1>6, <1>7, QuietStepOn

\* A refusal that is told, on the way back: the core ends with the value left.
LEMMA LeftIsSaid ==
    ASSUME PolicyInv, NEW c \in Cores, cores[c].at \in {"readback", "delete"},
           Goes(c, [Says(cores[c], "left") EXCEPT !.at = "over"]),
           UNCHANGED <<star, value, keys, first, met>>, outdated' \in {outdated, outdated \ {c}}, Refusal
    PROVE  PolicyInv'
<1> DEFINE next == [Says(cores[c], "left") EXCEPT !.at = "over"]
<1>1. cores[c] \in CoreType /\ Stands(cores[c]) /\ (WrittenBy(c) => Owned(cores[c])) /\ ~Gone(c) /\ Lives(c)
  BY CoreFacts, LiveIs
<1>2. next \in CoreType /\ next.at = "over" /\ Like(next, cores[c]) /\ "left" \in next.said
  <2>1. "over" \in CoreSteps /\ "left" \in Sayings BY DEF CoreSteps, Sayings
  <2> QED BY <1>1, <2>1, SteppedTo
<1>3. Goes(c, next) OBVIOUS
<1> HIDE DEF next
<1>4. Stands(next) /\ Looked(c, next) /\ (WrittenBy(c) => Owned(next))
  BY <1>1, <1>2 DEF Stands, Looked, Owned, Like
<1>5. alone' = FALSE BY DEF Refusal
<1> QED BY <1>1, <1>2, <1>3, <1>4, <1>5, QuietStepOn DEF Like

LEMMA ReadsBackKeeps ==
    ASSUME PolicyInv, NEW c \in Cores, ReadsBack(c)
    PROVE  PolicyInv'
<1> DEFINE core == cores[c]
<1>1. core.at = "readback" /\ outdated' = outdated \ {c} /\ UNCHANGED <<star, value, keys, meddled, met, first>>
  BY DEF ReadsBack, Looks
<1>2. /\ core \in CoreType /\ Stands(core) /\ (WrittenBy(c) => Owned(core)) /\ ~Gone(c) /\ Lives(c)
      /\ alone \in BOOLEAN /\ (alone => KeysOf(c, core))
  BY <1>1, CoreFacts, LiveIs DEF PolicyTypes
<1>3. CASE Granted /\ IsOwn(c) /\ Goes(c, [core EXCEPT !.at = "delete"])
  <2> DEFINE next == [core EXCEPT !.at = "delete"]
  <2>1. next \in CoreType /\ next.at = "delete" /\ Like(next, core) BY <1>2, AtIs DEF CoreSteps
  <2>2. WrittenBy(c) BY <1>3, OwnerIs DEF IsOwn
  <2>3. Goes(c, next) /\ alone' = alone BY <1>3 DEF Granted
  <2> HIDE DEF next
  <2>4. Stands(next) /\ Looked(c, next) /\ Owned(next)
    BY <1>2, <2>1, <2>2 DEF Stands, Looked, Owned, Like
  <2>5. ASSUME alone PROVE KeysOf(c, next) BY <1>1, <1>2, <2>1, <2>2, <2>5 DEF KeysOf, Like
  <2> QED BY <1>1, <1>2, <2>1, <2>3, <2>4, <2>5, QuietStepOn DEF Like
<1>4. CASE Granted /\ ~IsOwn(c) /\ Goes(c, Removed(core))
  <2>1. ~WrittenBy(c) BY <1>4, OwnerIs DEF IsOwn
  <2>2. ~alone' /\ alone' \in BOOLEAN BY <1>1, <1>2, <1>4, <2>1 DEF KeysOf, Granted
  <2>3. Undone(Removed(core), core) BY <1>2, UndoneIs
  <2> QED BY <1>1, <1>2, <1>4, <2>1, <2>2, <2>3, UndoesKeeps
<1>5. CASE Refusal /\ Goes(c, [Says(core, "left") EXCEPT !.at = "over"]) BY <1>1, <1>5, LeftIsSaid
<1> QED BY <1>3, <1>4, <1>5 DEF ReadsBack

LEMMA DeletesValueKeeps ==
    ASSUME PolicyInv, NEW c \in Cores, DeletesValue(c)
    PROVE  PolicyInv'
<1> DEFINE core == cores[c]
           next == Removed(cores[c])
<1>1. core.at = "delete" /\ UNCHANGED <<star, keys, meddled, met, first>> BY DEF DeletesValue
<1>2. /\ core \in CoreType /\ Stands(core) /\ ~Gone(c) /\ Lives(c) /\ PolicyTypes
      /\ alone \in BOOLEAN /\ (alone => KeysOf(c, core))
  BY <1>1, CoreFacts, LiveIs DEF PolicyTypes
<1>3. CASE Granted /\ Puts(c, Absent) /\ Goes(c, next)
  <2>1. Undone(next, core) BY <1>2, UndoneIs
  <2> HIDE DEF next
  <2>2. /\ next \in CoreType /\ next.at = "undo" /\ next.wrote = core.wrote /\ next.created = core.created
        /\ next.asks = core.asks /\ next.may = core.may /\ core.said \subseteq next.said
    BY <2>1 DEF Undone
  <2>3. /\ cores'[c] = next /\ \A d \in Cores \ {c} : cores'[d] = cores[d]
        /\ cores' \in [Cores -> CoreType] /\ alone' = alone
    BY <1>2, <1>3, <2>2, GoesTo DEF Granted
  <2>4. /\ value' = Absent /\ outdated' \subseteq Cores
        /\ \A d \in Cores \ {c} : d \notin outdated' => d \notin outdated /\ value' = value
    BY <1>2, <1>3, PutsIs
  <2>5. \A d : ~WrittenBy(d)' BY <2>4, Values DEF WrittenBy
  <2>6. PolicyTypes' BY <1>1, <1>2, <2>3, <2>4, Values DEF PolicyTypes
  <2>7. Stands(cores[c])' /\ Looked(c, cores[c])' /\ Lives(c)'
    BY <1>2, <2>2, <2>3 DEF Stands, Looked, Lives
  <2>8. ASSUME alone PROVE KeysOf(c, cores[c])' BY <1>1, <1>2, <2>2, <2>3, <2>4, <2>8 DEF KeysOf
  <2>9. ASSUME NEW m \in met', ~(m \in met /\ m[1] # c) PROVE Seen(m)'
    <3>1. Seen(m) /\ m[1] = c /\ m[2] \in Marked BY <1>1, <2>9, CoreFacts
    <3>2. Gone(m[2])'
      <4>1. m[2] # c BY <3>1, <1>2 DEF Seen
      <4> QED BY <4>1, <3>1, <2>3 DEF Seen, Gone, Marked
    <3> QED BY <3>1, <3>2, <2>2, <2>3, <2>5 DEF Seen
  <2> QED BY <1>1, <1>2, <2>3, <2>4, <2>5, <2>6, <2>7, <2>8, <2>9, CoreStep
<1>4. CASE Refusal /\ Goes(c, NotDeleted(core)) /\ UNCHANGED <<value, outdated>>
  BY <1>1, <1>4, LeftIsSaid DEF NotDeleted
<1> QED BY <1>3, <1>4 DEF DeletesValue

LEMMA LooksAtKeyKeeps ==
    ASSUME PolicyInv, NEW c \in Cores, LooksAtKey(c)
    PROVE  PolicyInv'
<1> DEFINE core == cores[c]
           l    == CHOOSE x \in KeyOrder(core) : TRUE
           end  == IF core.wrote \/ "not_written" \notin core.said THEN "over" ELSE "run"
<1>1. core.at = "undo" /\ outdated' = outdated \ {c} /\ UNCHANGED <<star, value, keys, met, first, alone>>
  BY DEF LooksAtKey, Looks
<1>2. /\ core \in CoreType /\ Stands(core) /\ ~Gone(c) /\ Lives(c) /\ ~WrittenBy(c)
      /\ alone \in BOOLEAN /\ first \in 0..Levels /\ keys \in 0..Levels
  BY <1>1, CoreFacts, LiveIs DEF PolicyTypes, Owned
<1>3. ASSUME alone
      PROVE  /\ first <= keys /\ core.created = (first + 1)..keys /\ core.wrote /\ value = Absent
             /\ star # Absent => first = Levels
  <2>1. KeysOf(c, core) /\ (star # Absent => first = Levels)
    BY <1>2, <1>3, CoreFacts DEF PolicyInv, AloneInv
  <2> QED BY <1>1, <2>1 DEF KeysOf
<1>4. CASE core.created = {} /\ Goes(c, [core EXCEPT !.at = end])
  <2> DEFINE next == [core EXCEPT !.at = end]
  <2>1. next \in CoreType /\ next.at \in {"over", "run"} /\ Like(next, core) /\ (core.wrote => next.at = "over")
    <3>1. end \in CoreSteps BY DEF CoreSteps
    <3> QED BY <3>1, <1>2, AtIs
  <2>2. Goes(c, next) BY <1>4
  <2> HIDE DEF next
  <2>3. Stands(next) /\ Looked(c, next) BY <1>2, <2>1 DEF Stands, Looked, Like
  <2>4. ASSUME alone PROVE next.at = "over" /\ keys = first
    <3>1. ~(first + 1 <= keys) BY <1>2, <1>3, <1>4, <2>4, Sizes
    <3> QED BY <1>2, <1>3, <2>1, <2>4, <3>1, Sizes
  <2> QED BY <1>1, <1>2, <2>1, <2>2, <2>3, <2>4, QuietStepOn DEF Like
<1>5. ASSUME core.created # {} PROVE l \in core.created /\ l \in 1..Levels /\ \A k \in core.created : k <= l
  BY <1>2, <1>5, DeepestKey
<1>6. ASSUME core.created # {}, alone PROVE l = keys /\ keys > first
  <2>1. l \in (first + 1)..keys /\ \A k \in (first + 1)..keys : k <= l BY <1>3, <1>5, <1>6
  <2> HIDE DEF l
  <2>2. keys \in (first + 1)..keys BY <1>2, <2>1, Sizes
  <2> QED BY <1>2, <2>1, <2>2, Sizes
<1> HIDE DEF l
<1>7. CASE core.created # {} /\ Bare(l) /\ Goes(c, [core EXCEPT !.at = "unmake", !.level = l])
  <2> DEFINE next == AtLevel(core, "unmake", l)
  <2>1. /\ next \in CoreType /\ next.at = "unmake" /\ next.level = l
        /\ next.asks = core.asks /\ next.may = core.may /\ next.wrote = core.wrote
        /\ next.created = core.created /\ next.said = core.said
    <3>1. "unmake" \in CoreSteps /\ l \in 0..Levels BY <1>5, <1>7, Sizes DEF CoreSteps
    <3> QED BY <1>2, <3>1, AtLevelIs
  <2>2. Goes(c, next) BY <1>7 DEF AtLevel
  <2> HIDE DEF next
  <2>3. l > 0 /\ (l = Levels => value = Absent) BY <1>5, <1>7, Sizes DEF Bare
  <2>4. Stands(next) /\ Looked(c, next) BY <1>2, <2>1, <2>3 DEF Stands, Looked
  <2>5. ASSUME alone PROVE KeysOf(c, next) BY <1>3, <1>6, <1>7, <2>1, <2>5 DEF KeysOf
  <2> QED BY <1>1, <1>2, <2>1, <2>2, <2>4, <2>5, QuietStepOn
<1>8. CASE core.created # {} /\ ~Bare(l) /\ Goes(c, [core EXCEPT !.created = core.created \ {l}])
  <2> DEFINE next == [core EXCEPT !.created = core.created \ {l}]
  <2>1. /\ next \in CoreType /\ next.at = "undo" /\ next.wrote = core.wrote
        /\ next.asks = core.asks /\ next.may = core.may /\ next.said = core.said
    <3>1. core.created \ {l} \in SUBSET (1..Levels) BY <1>2 DEF CoreType
    <3> QED BY <1>1, <1>2, <3>1 DEF CoreType
  <2>2. Goes(c, next) BY <1>8
  <2> HIDE DEF next
  <2>3. Stands(next) /\ Looked(c, next) BY <1>2, <2>1 DEF Stands, Looked
  <2>4. ~alone
    <3>1. SUFFICES ASSUME alone PROVE FALSE OBVIOUS
    <3>2. keys = l /\ value = Absent /\ keys > first /\ (star # Absent => first = Levels)
      BY <1>3, <1>6, <1>8, <3>1
    <3>3. star = Absent BY <1>2, <3>2, Sizes
    <3> QED BY <1>8, <3>2, <3>3 DEF Bare
  <2> QED BY <1>1, <1>2, <2>1, <2>2, <2>3, <2>4, QuietStepOn
<1>9. Goes(c, IF core.created = {} THEN [core EXCEPT !.at = end]
              ELSE IF Bare(l) THEN [core EXCEPT !.at = "unmake", !.level = l]
                              ELSE [core EXCEPT !.created = core.created \ {l}])
  BY DEF LooksAtKey, l
<1> QED BY <1>4, <1>7, <1>8, <1>9

LEMMA DeletesKeyKeeps ==
    ASSUME PolicyInv, NEW c \in Cores, DeletesKey(c)
    PROVE  PolicyInv'
<1> DEFINE core == cores[c]
           l    == cores[c].level
           shut(k) == [k EXCEPT !.open = @ /\ l # Levels]
           next == [cores[c] EXCEPT !.at = "undo", !.created = @ \ {cores[c].level}]
<1>1. core.at = "unmake" /\ UNCHANGED <<star, meddled, met, first>> BY DEF DeletesKey
<1>2. /\ core \in CoreType /\ Stands(core) /\ ~Gone(c) /\ Lives(c) /\ ~WrittenBy(c) /\ PolicyTypes
      /\ alone \in BOOLEAN /\ (alone => KeysOf(c, core)) /\ first \in 0..Levels /\ keys \in 0..Levels
  BY <1>1, CoreFacts, LiveIs DEF PolicyTypes, Owned
<1>3. /\ next \in CoreType /\ next.at = "undo" /\ next.created = core.created \ {l}
      /\ next.wrote = core.wrote /\ next.asks = core.asks /\ next.may = core.may /\ next.said = core.said
  <2>1. core.created \ {l} \in SUBSET (1..Levels) /\ "undo" \in CoreSteps
    BY <1>2 DEF CoreType, CoreSteps
  <2> QED BY <1>2, <2>1 DEF CoreType
<1>4. l \in 1..Levels BY <1>1, <1>2, Sizes DEF CoreType, Stands
<1> HIDE DEF next
<1>5. Stands(next) /\ Looked(c, next) BY <1>2, <1>3 DEF Stands, Looked
<1>6. ASSUME alone PROVE /\ l = keys /\ keys > first /\ core.wrote /\ value = Absent
                         /\ core.created = (first + 1)..keys
  BY <1>1, <1>2, <1>6 DEF KeysOf
<1>7. CASE /\ Granted /\ keys = l /\ keys' = l - 1
           /\ IF l = Levels THEN Puts(c, Absent) ELSE UNCHANGED <<value, outdated>>
           /\ cores' = [d \in Cores |-> IF d = c THEN next
                                        ELSE IF cores[d].at = "set" THEN shut(cores[d]) ELSE cores[d]]
  <2>1. keys' \in 0..Levels BY <1>4, <1>7, Sizes
  <2>2. /\ value' = Absent /\ outdated' \subseteq Cores
        /\ \A d \in Cores \ {c} : d \notin outdated' => d \notin outdated /\ value' = value
    <3>1. CASE l = Levels BY <1>2, <1>7, <3>1, PutsIs
    <3>2. CASE l # Levels BY <1>2, <1>7, <3>2 DEF PolicyInv, PolicyTypes
    <3> QED BY <3>1, <3>2
  <2>3. \A d : ~WrittenBy(d)' BY <2>2, Values DEF WrittenBy
  <2>4. ASSUME NEW d \in Cores, cores[d].at = "set"
        PROVE  /\ shut(cores[d]) \in CoreType
               /\ shut(cores[d]).at = "set" /\ shut(cores[d]).wrote = cores[d].wrote
               /\ shut(cores[d]).asks = cores[d].asks /\ shut(cores[d]).may = cores[d].may
               /\ shut(cores[d]).level = cores[d].level /\ shut(cores[d]).said = cores[d].said
               /\ shut(cores[d]).open => cores[d].open /\ l # Levels
    <3>1. cores[d] \in CoreType BY <1>2 DEF PolicyTypes
    <3> QED BY <3>1, <2>4 DEF CoreType
  <2> HIDE DEF shut
  <2>5. cores'[c] = next /\ cores' \in [Cores -> CoreType] BY <1>2, <1>3, <1>7, <2>4 DEF PolicyTypes
  <2>6. ASSUME NEW d \in Cores \ {c} PROVE SetOrSame(d) /\ cores'[d].at = cores[d].at
    <3>1. CASE cores[d].at = "set"
      <4>1. cores'[d] = shut(cores[d]) BY <1>7, <3>1
      <4>2. Stands(cores[d]) BY <2>6, CoreFacts
      <4>3. cores[d].open => keys = Levels BY <3>1, <4>2 DEF Stands
      <4>4. ~shut(cores[d]).open BY <1>7, <2>4, <3>1, <4>3
      <4> QED BY <2>4, <3>1, <4>1, <4>4 DEF SetOrSame
    <3>2. CASE cores[d].at # "set" BY <1>7, <3>2 DEF SetOrSame
    <3> QED BY <3>1, <3>2
  <2>7. PolicyTypes'
    <3>1. alone' = alone BY <1>7 DEF Granted
    <3> QED BY <1>1, <1>2, <2>1, <2>2, <2>5, <3>1, Values DEF PolicyTypes
  <2>8. Stands(cores[c])' /\ Looked(c, cores[c])' /\ Lives(c)'
    BY <1>2, <1>3, <2>5 DEF Stands, Looked, Lives
  <2>9. ASSUME alone' PROVE alone /\ KeysOf(c, cores[c])'
    <3>1. alone BY <1>7, <2>9 DEF Granted
    <3>2. ((first + 1)..keys) \ {keys} = (first + 1)..(keys - 1) /\ first <= keys - 1
      BY <1>2, <1>6, <3>1, Sizes
    <3>3. next.created = (first + 1)..keys' /\ first <= keys' BY <1>3, <1>6, <1>7, <3>1, <3>2
    <3> QED BY <1>1, <1>3, <1>6, <2>2, <2>5, <3>1, <3>3 DEF KeysOf
  <2>10. ASSUME NEW m \in met', ~(m \in met /\ m[1] # c) PROVE Seen(m)'
    <3>1. Seen(m) /\ m[1] = c /\ m[2] \in Marked BY <1>1, <2>10, CoreFacts
    <3>2. Gone(m[2])'
      <4>1. m[2] # c BY <3>1, <1>2 DEF Seen
      <4> QED BY <4>1, <3>1, <2>6 DEF Seen, Gone, Marked
    <3> QED BY <3>1, <3>2, <1>3, <2>3, <2>5 DEF Seen
  <2> QED BY <1>1, <1>2, <2>2, <2>3, <2>5, <2>6, <2>7, <2>8, <2>9, <2>10, OthersAreKept
<1>8. CASE ((Granted /\ keys # l) \/ Refusal) /\ Goes(c, next) /\ UNCHANGED <<keys, value, outdated>>
  <2>1. ~alone' /\ alone' \in BOOLEAN
    <3>1. CASE Refusal BY <3>1 DEF Refusal
    <3>2. CASE Granted /\ keys # l BY <3>2, <1>2, <1>6 DEF Granted
    <3> QED BY <3>1, <3>2, <1>8
  <2> QED BY <1>1, <1>2, <1>3, <1>5, <1>8, <2>1, QuietStepOn
<1> QED BY <1>7, <1>8 DEF DeletesKey, next

LEMMA IsKilledKeeps ==
    ASSUME PolicyInv, NEW c \in Cores, IsKilled(c)
    PROVE  PolicyInv'
<1> DEFINE next == [cores[c] EXCEPT !.at = "dead"]
<1>1. /\ Lives(c) /\ Goes(c, next) /\ alone' = FALSE
      /\ UNCHANGED <<star, value, keys, meddled, refused, outdated, met, first>>
  BY DEF IsKilled
<1>2. cores[c] \in CoreType /\ Stands(cores[c]) /\ (WrittenBy(c) => Owned(cores[c])) /\ ~Gone(c)
  BY <1>1, CoreFacts, LiveIs DEF Lives
<1>3. next \in CoreType /\ next.at = "dead" /\ Like(next, cores[c]) /\ next.said = cores[c].said
  BY <1>2, AtIs DEF CoreSteps
<1> HIDE DEF next
<1>4. Stands(next) /\ Looked(c, next) /\ (WrittenBy(c) => Owned(next))
  BY <1>2, <1>3 DEF Stands, Looked, Owned, Like
<1> QED BY <1>1, <1>2, <1>3, <1>4, QuietStepOn

\* What the tester puts there has no marker, and no core's look at the value holds any more.
LEMMA MeddlesKeeps ==
    ASSUME PolicyInv, Meddles
    PROVE  PolicyInv'
<1>1. PICK v \in {Absent, Other, Text(FALSE, <<>>)} : v # value /\ Puts(LongAgo, v) BY DEF Meddles
<1>2. keys = Levels /\ alone' = FALSE /\ UNCHANGED <<star, keys, cores, met, first>> BY DEF Meddles
<1>3. v \in ValueType /\ v.marks = <<>> BY Values
<1>4. value' = v /\ outdated' = Cores
  <2>1. outdated \subseteq Cores /\ Cores \ {LongAgo} = Cores BY Sizes DEF PolicyInv, PolicyTypes
  <2> QED BY <1>1, <2>1 DEF Puts
<1>5. \A d : ~WrittenBy(d)' /\ (Gone(d)' <=> Gone(d)) BY <1>2, <1>3, <1>4 DEF WrittenBy, Gone
<1>6. PolicyTypes' /\ (value' # Absent => keys' = Levels)
  BY <1>2, <1>3, <1>4 DEF PolicyInv, PolicyTypes
<1>7. ASSUME NEW c \in Cores
      PROVE  Stands(cores[c])' /\ (c \notin outdated' => Looked(c, cores[c])') /\ (WrittenBy(c)' => Owned(cores[c])')
  <2>1. Stands(cores[c]) BY <1>7, CoreFacts
  <2>2. Stands(cores[c])' BY <1>2, <2>1 DEF Stands
  <2> QED BY <1>4, <1>5, <2>2
<1>8. ASSUME NEW m \in met' PROVE Seen(m)'
  <2>1. Seen(m) BY <1>2, <1>8 DEF PolicyInv
  <2> QED BY <1>2, <1>5, <2>1 DEF Seen
<1>9. AloneInv' BY <1>2 DEF PolicyInv, AloneInv
<1> QED BY <1>6, <1>7, <1>8, <1>9 DEF PolicyInv

-----------------------------------------------------------------------------
(* The whole.                                                              *)

LEMMA PolicyInvInit == PolicyInit => PolicyInv
<1> SUFFICES ASSUME PolicyInit PROVE PolicyInv OBVIOUS
<1>1. /\ star \in StarType /\ keys \in 0..Levels /\ value \in ValueType /\ (value # Absent => keys = Levels)
      /\ (star # Absent => keys = Levels) /\ cores = [c \in Cores |-> Fresh]
      /\ outdated = {} /\ met = {} /\ first = keys /\ alone = TRUE
  BY Sizes, Values DEF PolicyInit
<1>2. Fresh \in CoreType /\ Fresh.at = "unborn" /\ ~Fresh.wrote
  <2>1. "unborn" \in CoreSteps /\ 0 \in 0..Levels BY Sizes DEF CoreSteps
  <2> QED BY <2>1 DEF Fresh, CoreType
<1>3. ASSUME NEW c \in Cores PROVE ~WrittenBy(c)
  <2>1. value.marks \in {<<>>, <<LongAgo>>} BY Values DEF PolicyInit
  <2>2. value.marks # <<>> => value.marks[Len(value.marks)] = LongAgo BY <2>1
  <2> QED BY <2>2, <1>3, Sizes DEF WrittenBy
<1>4. PolicyTypes BY <1>1, <1>2 DEF PolicyTypes
<1>5. \A c \in Cores : cores[c] = Fresh /\ ~Lives(c) /\ Stands(cores[c]) /\ Looked(c, cores[c])
  BY <1>1, <1>2 DEF Lives, Stands, Looked
<1>6. AloneInv BY <1>1, <1>5 DEF AloneInv
<1> QED BY <1>1, <1>3, <1>4, <1>5, <1>6 DEF PolicyInv

LEMMA PolicyInvStep == PolicyInv /\ [PolicyNext]_policyVars => PolicyInv'
<1> SUFFICES ASSUME PolicyInv, [PolicyNext]_policyVars PROVE PolicyInv' OBVIOUS
<1>1. CASE Meddles BY <1>1, MeddlesKeeps
<1>2. ASSUME NEW c \in Cores, CoreDoes(c) PROVE PolicyInv'
  BY <1>2, StartsCoreKeeps, ScansLeftoversKeeps, RecoversKeeps, ReadsBothKeeps, MakesKeyKeeps, SetsValueKeeps,
     FinishesKeeps, ReadsBackKeeps, DeletesValueKeeps, LooksAtKeyKeeps, DeletesKeyKeeps, IsKilledKeeps DEF CoreDoes
<1>3. CASE UNCHANGED policyVars
  BY <1>3 DEF policyVars, PolicyInv, PolicyTypes, Stands, Looked, Owned, Seen, AloneInv, KeysOf, WrittenBy, Gone, Lives
<1> QED BY <1>1, <1>2, <1>3 DEF PolicyNext

LEMMA PolicyInvSays == PolicyInv => LeavesNothingUnsaid
<1> SUFFICES ASSUME PolicyInv PROVE LeavesNothingUnsaid OBVIOUS
<1>1. PolicyTypeOK
  <2>1. ASSUME NEW c \in Cores
        PROVE  /\ cores[c].created \subseteq 1..Levels /\ cores[c].level \in 0..Levels
               /\ cores[c].wrote => cores[c].asks /\ cores[c].may
    BY <2>1, CoreFacts DEF CoreType, Stands
  <2> QED BY <2>1 DEF PolicyTypeOK, PolicyInv, PolicyTypes
<1>2. NothingLeftUnsaid BY DEF PolicyInv, Owned, NothingLeftUnsaid
<1>3. LeftoverGoesOrIsSaid BY DEF PolicyInv, Seen, LeftoverGoesOrIsSaid
<1>4. KeysAreRestored BY DEF PolicyInv, AloneInv, KeysAreRestored
<1> QED BY <1>1, <1>2, <1>3, <1>4 DEF LeavesNothingUnsaid

LEMMA PolicyInvLeaves == PolicyInv => LeavesOthersAlone
<1> SUFFICES ASSUME PolicyInv, NEW c \in Cores, CoreDoes(c), value' # value, c \notin outdated PROVE MayChange(c)
  BY DEF LeavesOthersAlone
<1>1. Looked(c, cores[c]) /\ c \in Marked BY CoreFacts
<1>2. CASE Recovers(c) BY <1>1, <1>2 DEF Recovers, Looked, MayChange, Marked
<1>3. CASE SetsValue(c) BY <1>1, <1>3 DEF SetsValue, Looked, MayChange
<1>4. CASE DeletesValue(c) BY <1>1, <1>4 DEF DeletesValue, Looked, MayChange, Marked
<1>5. CASE DeletesKey(c) BY <1>1, <1>5 DEF DeletesKey, Looked, MayChange
<1>6. Recovers(c) \/ SetsValue(c) \/ DeletesValue(c) \/ DeletesKey(c)
  BY DEF CoreDoes, StartsCore, ScansLeftovers, ReadsBoth, MakesKey, Finishes, ReadsBack, LooksAtKey, IsKilled
<1> QED BY <1>2, <1>3, <1>4, <1>5, <1>6

-----------------------------------------------------------------------------
(* The theorems.                                                           *)

RegistryInv == subject = "policy" => PolicyInv

LEMMA RegistryKeeps == SessionSpec => []RegistryInv
<1>1. SessionInit => RegistryInv BY PolicyInvInit DEF SessionInit, RegistryInv
<1>2. RegistryInv /\ [SessionNext]_sessionVars => RegistryInv'
  <2> SUFFICES ASSUME RegistryInv, [SessionNext]_sessionVars, subject' = "policy" PROVE PolicyInv'
    BY DEF RegistryInv
  <2>1. subject = "policy" /\ [PolicyNext]_policyVars BY DEF SessionNext, Moves, sessionVars
  <2> QED BY <2>1, PolicyInvStep DEF RegistryInv
<1> QED BY <1>1, <1>2, PTL DEF SessionSpec

\* Over kills at any step, refusals of any call, two cores at once and changes by others, a core
\* that ends leaves no value of its own without a word, a leftover goes or is told, and a core by
\* itself gives back the keys as they were (policy_session.rs `look_for_leftovers`, `finish`;
\* policy_value.rs `recover_in`, `write_value`, `remove_value`, `undo_created`).
THEOREM RegistryHonest == SessionSpec => []NothingUnsaid
<1>1. RegistryInv => NothingUnsaid BY PolicyInvSays DEF RegistryInv, NothingUnsaid
<1> QED BY <1>1, RegistryKeeps, PTL

\* No core writes over or removes a value of the tester's, or of a core that lives, unless that
\* value came after its last look (policy_value.rs `decide`, `recover_in`, `remove_value`).
THEOREM OthersAreLeftAlone == SessionSpec => OthersLeftAlone
<1>1. RegistryInv => (subject = "policy" => LeavesOthersAlone) BY PolicyInvLeaves DEF RegistryInv
<1>2. RegistryInv /\ [SessionNext]_sessionVars => [subject = "policy" => LeavesOthersAlone]_policyVars
  BY <1>1
<1> QED BY <1>2, RegistryKeeps, PTL DEF SessionSpec, OthersLeftAlone

-----------------------------------------------------------------------------
(***************************************************************************)
(* The bridge.  What carries SoundBridge is that a port has one holder at  *)
(* a time on its way from a find to an attacher; that the entry of a port  *)
(* is the engine behind its attacher, and a page is with one attacher or   *)
(* one closed account; and that a listener's requests are no more than the *)
(* memory of its key has counted, while the thread asks only what is not   *)
(* spent.                                                                  *)
(***************************************************************************)
(* The inductive invariant.                                                *)

Sockets  == [pid : Pids \cup {0}, life : 0..MaxLives, asked : Nat, kind : {"none", "server", "bound", "engine"}]
Scans    == [at : {"sleeping", "asking", "over"}, ask : SUBSET Keys, unread : 0..UNREADABLE_SWEEPS, taken : BOOLEAN]
Refusals == [n : 0..(RETRIES + 1), ago : 0..RETRY_GAP]
Memories == [found : SUBSET Keys, since : [QtHosts -> NotRunning..QT_ENGINE_GRACE], refused : [Keys -> Refusals]]
Pages    == SUBSET (1..MaxPages)
Notices  == [kind : {"unavailable", "taken"}] \cup [kind : {"found"}, key : Keys]
Results  == [key : Keys, life : 0..MaxLives]
Mails    == [notices : Seq(Notices), results : Seq(Results)]
Engines  == [port : Ports, life : 1..MaxLives]
Attached == [port : Ports, life : 1..MaxLives, pages : Pages, lost : BOOLEAN]
Parts    == [entry : Nat, life : 1..MaxLives, pages : Pages]
Said     == [warned : SUBSET {"taken", "unavailable", "unreachable"}, lives : 0..MaxLives,
             pages : 0..MaxPages, aside : SUBSET Nat, swept : SUBSET Keys]

BridgeTypes ==
    /\ BridgeTypeOK
    /\ joined \subseteq Pids
    /\ mail \in Mails
    /\ accounts \in [engines : Seq(Engines), entry : [Ports -> Nat], closed : SUBSET Parts, counts : Seq(SUBSET Parts)]
    /\ spoken \in Said
    /\ \A port \in Ports : /\ sockets[port].life <= spoken.lives
                           /\ sockets[port].kind # "none" => sockets[port].pid \in Pids /\ sockets[port].life > 0

\* What is still to ask may be asked, and what has been asked was.
AskInv ==
    /\ \A k \in scan.ask : /\ memory.refused[k].n <= RETRIES /\ k.pid \in joined
                           /\ k.pid \in QtHosts /\ k.port # QtPort => k.pid \in runs
    /\ \A p \in QtHosts : memory.since[p] # NotRunning => p \in runs
    /\ \A port \in Ports :
         LET s == sockets[port]
         IN  /\ s.asked > 0 => s.pid \in joined
             /\ s.kind \in {"server", "bound"} => s.asked <= memory.refused[Key(s.pid, port)].n
             /\ s.asked > 0 /\ s.pid \in QtHosts /\ port # QtPort => s.pid \in runs

Here(port)    == {a \in attachers : a.port = port}
Threads(port) == {k \in connecting.threads : k.port = port}
Came(port)    == {i \in DOMAIN mail.results : mail.results[i].key.port = port}
AtMostOne(S)  == \A x, y \in S : x = y

OneInv ==
    \A port \in Ports :
       /\ AtMostOne(Here(port)) /\ AtMostOne(Threads(port)) /\ AtMostOne(Came(port))
       /\ Here(port) # {} => Threads(port) = {} /\ Came(port) = {}
       /\ Threads(port) # {} => Came(port) = {}
       /\ port \in connecting.ports <=> Threads(port) # {} \/ Came(port) # {}

\* The engine a part's entry names is the one the part came through.
Enters(entry, life) == entry \in 1..Len(accounts.engines) /\ accounts.engines[entry].life = life

EntryInv ==
    /\ \A port \in Ports : Here(port) = {} => accounts.entry[port] = 0
    /\ \A a \in attachers : Enters(accounts.entry[a.port], a.life)
    /\ \A x \in accounts.closed : Enters(x.entry, x.life)

\* Every page so far is with one attacher or one closed part.
PagesAre(standing, closed, pages) ==
    /\ \A a \in standing : a.pages \subseteq 1..pages
    /\ \A x \in closed : x.pages \subseteq 1..pages
    /\ \A n \in 1..pages : (\E a \in standing : n \in a.pages) \/ (\E x \in closed : n \in x.pages)
    /\ \A a, b \in standing : \A n \in a.pages : n \in b.pages => a = b
    /\ \A x, y \in closed : \A n \in x.pages : n \in y.pages => x = y
    /\ \A a \in standing, x \in closed : \A n \in a.pages : n \notin x.pages

PageInv == PagesAre(attachers, accounts.closed, spoken.pages)

FinishInv ==
    turn = "over" =>
      accounts.counts = [i \in DOMAIN accounts.engines |->
                           {x \in accounts.closed \cup HandedOver(attachers) : x.entry = i}]

BridgeInv == BridgeTypes /\ AskInv /\ OneInv /\ EntryInv /\ PageInv /\ FinishInv

-----------------------------------------------------------------------------
(* Facts about sizes and sets.                                             *)

LEMMA BridgeSizes ==
    /\ QtHosts \subseteq Pids /\ Ports \subseteq Nat /\ Pids \subseteq Nat /\ 0 \notin Pids /\ QtPort \in Ports
    /\ RETRIES \in Nat /\ QT_ENGINE_GRACE \in Nat /\ MaxLives \in Nat /\ MaxPages \in Nat
    /\ RETRY_GAP \in Nat /\ RETRY_GAP > 0 /\ UNREADABLE_SWEEPS \in Nat /\ UNREADABLE_SWEEPS > 0
  BY EngineBridgeAssumption

LEMMA FirstIs == First \in Pids
<1>1. Pids \subseteq Nat /\ Pids # {} BY EngineBridgeAssumption
<1>2. \E p \in Pids : \A q \in Pids : ~(q < p)
  <2> DEFINE R == OpToRel(<, Nat)
  <2>1. IsWellFoundedOn(R, Nat) BY NatLessThanWellFounded
  <2>2. \E p \in Pids : \A q \in Pids : ~(<<q, p>> \in R)
    <3> HIDE DEF R
    <3> QED BY <1>1, <2>1, WFMin
  <2>3. \A u, t \in Nat : u < t => <<u, t>> \in R BY DEF OpToRel
  <2> HIDE DEF R
  <2> QED BY <1>1, <2>2, <2>3
<1>3. \E p \in Pids : \A q \in Pids : p <= q BY <1>1, <1>2
<1> QED BY <1>3 DEF First

LEMMA FewAreCounted ==
    ASSUME NEW S, AtMostOne(S)
    PROVE  Cardinality(S) = IF S = {} THEN 0 ELSE 1
<1>1. CASE S = {} BY <1>1, FS_EmptySet
<1>2. CASE S # {}
  <2>1. PICK x : x \in S BY <1>2
  <2>2. S = {x} BY <2>1 DEF AtMostOne
  <2> QED BY <2>2, FS_Singleton
<1> QED BY <1>1, <1>2

\* What is taken from the front of a line, and put at its end.
LEMMA TailIs ==
    ASSUME NEW S, NEW s \in Seq(S), s # <<>>
    PROVE  /\ Tail(s) \in Seq(S) /\ Len(Tail(s)) = Len(s) - 1 /\ Len(s) \in Nat /\ Len(s) >= 1 /\ Head(s) = s[1] /\ s[1] \in S
           /\ \A i \in 1..(Len(s) - 1) : Tail(s)[i] = s[i + 1]
  BY HeadTailProperties, LenProperties, EmptySeq, ElementOfSeq

LEMMA AppendIs ==
    ASSUME NEW S, NEW s \in Seq(S), NEW x \in S
    PROVE  /\ Append(s, x) \in Seq(S) /\ Len(Append(s, x)) = Len(s) + 1 /\ Len(s) \in Nat
           /\ \A i \in 1..Len(s) : Append(s, x)[i] = s[i]
           /\ Append(s, x)[Len(s) + 1] = x
  BY AppendProperties, LenProperties

-----------------------------------------------------------------------------
(* What it says.                                                           *)

LEMMA HoldersAreFew ==
    ASSUME BridgeTypes, OneInv, EntryInv
    PROVE  OneEach
<1> SUFFICES ASSUME NEW port \in Ports
             PROVE  /\ Cardinality(Here(port)) + Cardinality(Threads(port)) + Cardinality(Came(port)) <= 1
                    /\ port \in connecting.ports <=> Threads(port) # {} \/ Came(port) # {}
                    /\ IF Here(port) = {} THEN accounts.entry[port] = 0
                       ELSE \A a \in Here(port) : accounts.engines[accounts.entry[port]].life = a.life
  BY DEF OneEach, Here, Threads, Came
<1>1. /\ AtMostOne(Here(port)) /\ AtMostOne(Threads(port)) /\ AtMostOne(Came(port))
      /\ Here(port) # {} => Threads(port) = {} /\ Came(port) = {}
      /\ Threads(port) # {} => Came(port) = {}
      /\ port \in connecting.ports <=> Threads(port) # {} \/ Came(port) # {}
  BY DEF OneInv
<1>2. /\ Cardinality(Here(port)) = IF Here(port) = {} THEN 0 ELSE 1
      /\ Cardinality(Threads(port)) = IF Threads(port) = {} THEN 0 ELSE 1
      /\ Cardinality(Came(port)) = IF Came(port) = {} THEN 0 ELSE 1
  BY <1>1, FewAreCounted
<1>3. \A a \in Here(port) : accounts.engines[accounts.entry[port]].life = a.life
  BY DEF EntryInv, Enters, Here
<1>4. Here(port) = {} => accounts.entry[port] = 0 BY DEF EntryInv
<1> QED BY <1>1, <1>2, <1>3, <1>4

LEMMA PagesAreCounted ==
    ASSUME BridgeTypes, EntryInv, PageInv, FinishInv
    PROVE  PagesAreTheirEngines
<1>1. \A x \in accounts.closed : x.entry # 0 /\ accounts.engines[x.entry].life = x.life
  BY DEF EntryInv, Enters
<1>2. ASSUME turn = "over", NEW page \in 1..spoken.pages
      PROVE  \E i \in DOMAIN accounts.counts : \E part \in accounts.counts[i] :
                /\ page \in part.pages /\ accounts.engines[i].life = part.life
                /\ \A j \in DOMAIN accounts.counts : \A other \in accounts.counts[j] :
                      page \in other.pages => j = i /\ other = part
  <2> DEFINE all == accounts.closed \cup HandedOver(attachers)
  <2>1. accounts.counts = [i \in DOMAIN accounts.engines |-> {x \in all : x.entry = i}]
    BY <1>2 DEF FinishInv
  <2>2. DOMAIN accounts.engines = 1..Len(accounts.engines) BY DEF BridgeTypes
  <2>3. \A x \in all : Enters(x.entry, x.life) BY DEF EntryInv, HandedOver
  <2>4. \E x \in all : page \in x.pages
    <3>1. ASSUME NEW a \in attachers, page \in a.pages PROVE \E x \in HandedOver(attachers) : page \in x.pages
      <4>1. [entry |-> accounts.entry[a.port], life |-> a.life, pages |-> a.pages] \in HandedOver(attachers)
        BY <3>1 DEF HandedOver
      <4> QED BY <3>1, <4>1
    <3> QED BY <1>2, <3>1 DEF PageInv, PagesAre
  <2>5. \A x, y \in all : page \in x.pages /\ page \in y.pages => x = y
    BY DEF PageInv, PagesAre, HandedOver
  <2> HIDE DEF all
  <2>6. PICK part \in all : page \in part.pages BY <2>4
  <2>7. part.entry \in DOMAIN accounts.counts /\ part \in accounts.counts[part.entry] /\ accounts.engines[part.entry].life = part.life
    BY <2>1, <2>2, <2>3 DEF Enters
  <2>8. ASSUME NEW j \in DOMAIN accounts.counts, NEW other \in accounts.counts[j], page \in other.pages
        PROVE  j = part.entry /\ other = part
    BY <2>1, <2>5, <2>6, <2>8
  <2> QED BY <2>6, <2>7, <2>8
<1> QED BY <1>1, <1>2 DEF PagesAreTheirEngines

LEMMA BridgeInvSays == BridgeInv => BridgeIsSound
<1> SUFFICES ASSUME BridgeInv PROVE BridgeIsSound OBVIOUS
<1>1. BridgeTypeOK /\ OneEach /\ PagesAreTheirEngines
  BY HoldersAreFew, PagesAreCounted DEF BridgeInv, BridgeTypes
<1>2. ASSUME NEW port \in Ports
      PROVE  /\ sockets[port].kind \in {"server", "bound"} => sockets[port].asked <= 1 + RETRIES
             /\ sockets[port].asked > 0 /\ sockets[port].pid \in QtHosts /\ port # QtPort => sockets[port].pid \in runs
  <2>1. /\ sockets[port].kind \in {"server", "bound"} => sockets[port].asked <= memory.refused[Key(sockets[port].pid, port)].n
        /\ sockets[port].asked > 0 /\ sockets[port].pid \in QtHosts /\ port # QtPort => sockets[port].pid \in runs
    BY DEF BridgeInv, AskInv
  <2>2. ASSUME sockets[port].kind \in {"server", "bound"}
        PROVE  memory.refused[Key(sockets[port].pid, port)].n \in 0..(RETRIES + 1) /\ sockets[port].asked \in Nat
    <3>1. Key(sockets[port].pid, port) \in Keys BY <2>2 DEF BridgeInv, BridgeTypes, Key, Keys
    <3> QED BY <3>1, <1>1 DEF BridgeTypeOK
  <2> QED BY <2>1, <2>2, BridgeSizes
<1> QED BY <1>1, <1>2 DEF BridgeIsSound, OwnServersAreLeftAlone

-----------------------------------------------------------------------------
(* The steps.                                                              *)

LEMMA HoldersStand ==
    ASSUME OneInv, UNCHANGED <<attachers, connecting>>, mail'.results = mail.results
    PROVE  OneInv'
  BY DEF OneInv, Here, Threads, Came, AtMostOne

LEMMA AccountsStand ==
    ASSUME EntryInv, PageInv, UNCHANGED <<attachers, accounts>>, spoken'.pages = spoken.pages, turn' # "over"
    PROVE  EntryInv' /\ PageInv' /\ FinishInv'
  BY DEF EntryInv, PageInv, PagesAre, FinishInv, Enters, Here

LEMMA QuestionsStand ==
    ASSUME AskInv, UNCHANGED <<sockets, runs, joined, scan, memory>>
    PROVE  AskInv'
  BY DEF AskInv

\* The sockets come and go under the session: one is another now, that nobody has asked, or the
\* one it was, and serves.
Another(port, socket) ==
    /\ sockets' = [sockets EXCEPT ![port] = socket]
    /\ socket \in Sockets /\ socket.life <= spoken'.lives
    /\ socket.kind # "none" => socket.pid \in Pids /\ socket.life > 0
    /\ socket.asked > 0 => socket.asked = sockets[port].asked /\ socket.pid = sockets[port].pid
    /\ socket.kind \in {"server", "bound"} => socket.asked = 0
    /\ spoken' \in Said /\ spoken'.pages = spoken.pages /\ spoken'.lives >= spoken.lives
    /\ UNCHANGED <<runs, joined, attachers>> /\ SessionStands

LEMMA SocketMoves ==
    ASSUME BridgeInv, NEW port \in Ports, NEW socket, Another(port, socket)
    PROVE  BridgeInv'
<1>0. /\ sockets' = [sockets EXCEPT ![port] = socket]
      /\ socket \in Sockets /\ socket.life <= spoken'.lives
      /\ socket.kind # "none" => socket.pid \in Pids /\ socket.life > 0
      /\ socket.asked > 0 => socket.asked = sockets[port].asked /\ socket.pid = sockets[port].pid
      /\ socket.kind \in {"server", "bound"} => socket.asked = 0
      /\ spoken' \in Said /\ spoken'.pages = spoken.pages /\ spoken'.lives >= spoken.lives
      /\ UNCHANGED <<runs, joined, attachers>>
  BY DEF Another
<1>1. turn # "over" /\ UNCHANGED <<scan, memory, mail, connecting, accounts, turn>>
  BY DEF Another, SessionStands
<1>2. /\ sockets'[port] = socket /\ \A p \in Ports \ {port} : sockets'[p] = sockets[p]
      /\ sockets' \in [Ports -> Sockets]
  BY <1>0 DEF BridgeInv, BridgeTypes, BridgeTypeOK, Sockets
<1>3. BridgeTypes'
  <2>1. BridgeTypeOK' BY <1>0, <1>1, <1>2 DEF BridgeInv, BridgeTypes, BridgeTypeOK, Sockets
  <2>2. \A p \in Ports : /\ sockets'[p].life <= spoken'.lives
                         /\ sockets'[p].kind # "none" => sockets'[p].pid \in Pids /\ sockets'[p].life > 0
    <3>1. spoken.lives \in Nat /\ spoken'.lives \in Nat
      BY <1>0, BridgeSizes DEF BridgeInv, BridgeTypes, Said
    <3>2. ASSUME NEW p \in Ports \ {port}
          PROVE  /\ sockets[p].life \in Nat /\ sockets[p].life <= spoken.lives
                 /\ sockets[p].kind # "none" => sockets[p].pid \in Pids /\ sockets[p].life > 0
      BY <3>2, BridgeSizes DEF BridgeInv, BridgeTypes, BridgeTypeOK
    <3>3. \A p \in Ports \ {port} : sockets'[p].life <= spoken'.lives BY <1>0, <1>2, <3>1, <3>2
    <3> QED BY <1>0, <1>2, <3>2, <3>3
  <2> QED BY <1>0, <1>1, <2>1, <2>2 DEF BridgeInv, BridgeTypes
<1>4. AskInv'
  <2>1. ASSUME NEW p \in Ports
        PROVE  LET s == sockets'[p]
               IN  /\ s.asked > 0 => s.pid \in joined
                   /\ s.kind \in {"server", "bound"} => s.asked <= memory.refused[Key(s.pid, p)].n
                   /\ s.asked > 0 /\ s.pid \in QtHosts /\ p # QtPort => s.pid \in runs
    <3>1. CASE p # port BY <1>0, <1>2, <3>1 DEF BridgeInv, AskInv
    <3>2. CASE p = port
      <4>1. ASSUME socket.kind \in {"server", "bound"} PROVE memory.refused[Key(socket.pid, p)].n \in Nat
        <5>1. Key(socket.pid, p) \in Keys BY <1>0, <4>1 DEF Key, Keys
        <5> QED BY <5>1 DEF BridgeInv, BridgeTypes, BridgeTypeOK
      <4>2. socket.kind \in {"server", "bound"} => socket.asked <= memory.refused[Key(socket.pid, p)].n
        BY <1>0, <4>1
      <4> QED BY <1>0, <1>2, <3>2, <4>2 DEF BridgeInv, AskInv
    <3> QED BY <3>1, <3>2
  <2> QED BY <1>0, <1>1, <2>1 DEF BridgeInv, AskInv
<1> QED BY <1>0, <1>1, <1>3, <1>4, HoldersStand, AccountsStand DEF BridgeInv

LEMMA OpensKeeps ==
    ASSUME BridgeInv, Opens
    PROVE  BridgeInv'
<1>1. PICK key \in Opened, kind \in {"server", "bound"} :
        /\ sockets' = [sockets EXCEPT ![key.port] =
                         [pid |-> key.pid, life |-> spoken.lives + 1, kind |-> kind, asked |-> 0]]
        /\ spoken' = [spoken EXCEPT !.lives = @ + 1,
                         !.aside = IF key \in memory.found \cap spoken.swept THEN @ \cup {spoken.lives + 1} ELSE @]
  BY DEF Opens
<1> DEFINE socket == [pid |-> key.pid, life |-> spoken.lives + 1, kind |-> kind, asked |-> 0]
<1>2. key.pid \in Pids /\ key.port \in Ports BY EngineBridgeAssumption
<1>3. spoken \in Said /\ spoken.lives \in Nat /\ spoken.lives + 1 \in 0..MaxLives
  BY BridgeSizes DEF Opens, BridgeInv, BridgeTypes, Said
<1>4. spoken' \in Said /\ spoken'.pages = spoken.pages /\ spoken'.lives = spoken.lives + 1
  <2> DEFINE beside == IF key \in memory.found \cap spoken.swept THEN spoken.aside \cup {spoken.lives + 1} ELSE spoken.aside
  <2>1. beside \in SUBSET Nat BY <1>3 DEF Said
  <2>2. spoken' = [spoken EXCEPT !.lives = spoken.lives + 1, !.aside = beside] BY <1>1
  <2> HIDE DEF beside
  <2> QED BY <1>3, <2>1, <2>2 DEF Said
<1>5. socket \in Sockets /\ socket.life = spoken.lives + 1 /\ socket.kind = kind /\ socket.pid = key.pid /\ socket.asked = 0
  BY <1>2, <1>3 DEF Sockets
<1>6. sockets' = [sockets EXCEPT ![key.port] = socket] BY <1>1
<1>7. UNCHANGED <<runs, joined, attachers>> /\ SessionStands BY DEF Opens
<1> HIDE DEF socket
<1>8. socket.life <= spoken'.lives /\ socket.life > 0 /\ ~(socket.asked > 0) /\ spoken'.lives >= spoken.lives
  BY <1>3, <1>4, <1>5
<1>9. Another(key.port, socket) BY <1>2, <1>4, <1>5, <1>6, <1>7, <1>8 DEF Another
<1> QED BY <1>2, <1>9, SocketMoves

LEMMA ServesKeeps ==
    ASSUME BridgeInv, Serves
    PROVE  BridgeInv'
<1>1. PICK port \in Ports : sockets[port].kind = "bound" /\ sockets' = [sockets EXCEPT ![port].kind = "engine"]
  BY DEF Serves
<1> DEFINE socket == [sockets[port] EXCEPT !.kind = "engine"]
<1>2. sockets[port] \in Sockets /\ sockets[port].life <= spoken.lives /\ sockets[port].pid \in Pids /\ sockets[port].life > 0
  BY <1>1 DEF BridgeInv, BridgeTypes, BridgeTypeOK, Sockets
<1>3. /\ socket \in Sockets /\ socket.life = sockets[port].life /\ socket.kind = "engine"
      /\ socket.pid = sockets[port].pid /\ socket.asked = sockets[port].asked
  BY <1>2 DEF Sockets
<1>4. sockets' = [sockets EXCEPT ![port] = socket] BY <1>1
<1>5. UNCHANGED <<runs, joined, attachers, spoken>> /\ SessionStands /\ spoken \in Said /\ spoken.lives \in Nat
  <2>1. UNCHANGED <<runs, joined, attachers, spoken>> /\ SessionStands BY DEF Serves
  <2>2. spoken \in Said BY DEF BridgeInv, BridgeTypes
  <2>3. spoken.lives \in Nat BY <2>2, BridgeSizes DEF Said
  <2> QED BY <2>1, <2>2, <2>3
<1> HIDE DEF socket
<1>6. socket.life <= spoken'.lives /\ spoken'.lives >= spoken.lives /\ spoken' \in Said /\ spoken'.pages = spoken.pages
  <2>1. spoken' = spoken BY <1>5
  <2>2. socket.life <= spoken.lives /\ spoken.lives >= spoken.lives BY <1>2, <1>3, <1>5
  <2> QED BY <1>5, <2>1, <2>2
<1>7. /\ socket.pid \in Pids /\ socket.life > 0 /\ socket.kind \notin {"server", "bound"}
      /\ socket.asked = sockets[port].asked /\ socket.pid = sockets[port].pid
  BY <1>2, <1>3
<1>8. Another(port, socket) BY <1>3, <1>4, <1>5, <1>6, <1>7 DEF Another
<1> QED BY <1>8, SocketMoves

LEMMA ClosesKeeps ==
    ASSUME BridgeInv, Closes
    PROVE  BridgeInv'
<1>1. PICK port \in Ports : sockets' = [sockets EXCEPT ![port] = Free] BY DEF Closes
<1>2. Free \in Sockets /\ Free.life = 0 /\ Free.kind = "none" /\ Free.asked = 0
  BY BridgeSizes DEF Free, Sockets
<1>3. UNCHANGED <<runs, joined, attachers, spoken>> /\ SessionStands /\ spoken \in Said /\ spoken.lives \in Nat
  <2>1. UNCHANGED <<runs, joined, attachers, spoken>> /\ SessionStands BY DEF Closes
  <2>2. spoken \in Said BY DEF BridgeInv, BridgeTypes
  <2>3. spoken.lives \in Nat BY <2>2, BridgeSizes DEF Said
  <2> QED BY <2>1, <2>2, <2>3
<1>4. Another(port, Free) BY <1>1, <1>2, <1>3 DEF Another
<1> QED BY <1>4, SocketMoves

\* Attachers that are the same but for what they know of their connection.
LEMMA AttachersAlike ==
    ASSUME BridgeInv, attachers' \in SUBSET Attached,
           \A a \in attachers' : \E b \in attachers : a.port = b.port /\ a.life = b.life /\ a.pages = b.pages,
           \A b \in attachers : \E a \in attachers' : a.port = b.port /\ a.life = b.life /\ a.pages = b.pages,
           \A a, b \in attachers' : a.port = b.port => a = b,
           UNCHANGED <<connecting, mail, accounts, spoken>>, turn' # "over"
    PROVE  OneInv' /\ EntryInv' /\ PageInv' /\ FinishInv'
<1>1. \A port \in Ports : /\ Threads(port)' = Threads(port) /\ Came(port)' = Came(port)
                          /\ Here(port)' = {} <=> Here(port) = {}
                          /\ AtMostOne(Here(port)')
  <2> TAKE port \in Ports
  <2>1. Threads(port)' = Threads(port) /\ Came(port)' = Came(port) BY DEF Threads, Came
  <2>2. Here(port)' = {} <=> Here(port) = {} BY DEF Here
  <2>3. AtMostOne(Here(port)') BY DEF Here, AtMostOne
  <2> QED BY <2>1, <2>2, <2>3
<1>2. OneInv' BY <1>1 DEF BridgeInv, OneInv, AtMostOne
<1>3. EntryInv' BY <1>1 DEF BridgeInv, EntryInv, Enters
<1>4. PageInv'
  <2>1. ASSUME NEW a \in attachers', NEW b \in attachers', NEW n \in a.pages, n \in b.pages PROVE a = b
    <3>1. PICK c \in attachers : a.port = c.port /\ a.pages = c.pages OBVIOUS
    <3>2. PICK d \in attachers : b.port = d.port /\ b.pages = d.pages OBVIOUS
    <3>3. c = d BY <2>1, <3>1, <3>2 DEF BridgeInv, PageInv, PagesAre
    <3> QED BY <3>1, <3>2, <3>3
  <2> QED BY <2>1 DEF BridgeInv, PageInv, PagesAre
<1> QED BY <1>2, <1>3, <1>4 DEF FinishInv

LEMMA GrowsKeeps ==
    ASSUME BridgeInv, Grows
    PROVE  BridgeInv'
<1>1. turn # "over" /\ UNCHANGED <<scan, memory, mail, connecting, accounts, turn, sockets, spoken>>
  BY DEF Grows, SessionStands
<1>2. ASSUME runs \subseteq runs', joined \subseteq joined', joined' \subseteq Pids, UNCHANGED attachers
      PROVE  BridgeInv'
  <2>1. AskInv' BY <1>1, <1>2 DEF BridgeInv, AskInv
  <2>2. BridgeTypes' BY <1>1, <1>2 DEF BridgeInv, BridgeTypes, BridgeTypeOK
  <2> QED BY <1>1, <1>2, <2>1, <2>2, HoldersStand, AccountsStand DEF BridgeInv
<1>3. CASE \E pid \in QtHosts \ runs : runs' = runs \cup {pid} /\ UNCHANGED <<joined, attachers>>
  BY <1>2, <1>3 DEF BridgeInv, BridgeTypes
<1>4. CASE joined # Pids /\ joined' = Pids /\ UNCHANGED <<runs, attachers>>
  BY <1>2, <1>4 DEF BridgeInv, BridgeTypes
<1>5. ASSUME NEW a \in attachers, attachers' = (attachers \ {a}) \cup {[a EXCEPT !.lost = TRUE]}, UNCHANGED <<runs, joined>>
      PROVE  BridgeInv'
  <2> DEFINE b == [a EXCEPT !.lost = TRUE]
  <2>1. attachers \subseteq Attached BY DEF BridgeInv, BridgeTypes, BridgeTypeOK, Attached, Pages
  <2>2. b \in Attached /\ b.port = a.port /\ b.life = a.life /\ b.pages = a.pages
    BY <1>5, <2>1 DEF Attached
  <2>3. attachers' = (attachers \ {a}) \cup {b} BY <1>5
  <2> HIDE DEF b
  <2>4. \A c, d \in attachers : c.port = d.port => c = d
    BY <2>1 DEF BridgeInv, OneInv, Here, AtMostOne, Attached
  <2>5. \A c, d \in attachers' : c.port = d.port => c = d BY <1>5, <2>2, <2>3, <2>4
  <2>6. attachers' \in SUBSET Attached BY <2>1, <2>2, <2>3
  <2>7. OneInv' /\ EntryInv' /\ PageInv' /\ FinishInv'
    BY <1>1, <1>5, <2>2, <2>3, <2>5, <2>6, AttachersAlike
  <2>8. BridgeTypes' BY <1>1, <1>5, <2>6 DEF BridgeInv, BridgeTypes, BridgeTypeOK, Attached, Pages
  <2> QED BY <1>1, <1>5, <2>7, <2>8, QuestionsStand DEF BridgeInv
<1> QED BY <1>3, <1>4, <1>5 DEF Grows

-----------------------------------------------------------------------------
(* The discovery thread.                                                   *)

LEMMA AskingIs ==
    ASSUME NEW next \in Scans, NEW them \in SUBSET Keys
    PROVE  Asking(them, next) \in Scans /\ Asking(them, next).ask = them
  BY DEF Asking, Scans

LEMMA IsNoted ==
    ASSUME mail \in Mails, NEW notice \in Notices, mail' = [mail EXCEPT !.notices = Append(@, notice)]
    PROVE  mail' \in Mails /\ mail'.results = mail.results
<1>1. Append(mail.notices, notice) \in Seq(Notices) BY AppendIs DEF Mails
<1> QED BY <1>1 DEF Mails

LEMMA ListenersAre ==
    ASSUME BridgeTypes
    PROVE  /\ Listeners(joined) \subseteq Keys
           /\ \A k \in Listeners(joined) : k.pid \in joined
           /\ \A port \in Ports : sockets[port].pid \in joined => Key(sockets[port].pid, port) \in Listeners(joined)
  BY DEF Listeners, Key, Keys, BridgeTypes

LEMMA LaterIs ==
    ASSUME memory \in Memories, NEW sweeps \in 1..RETRY_GAP
    PROVE  LET later == Later(memory, sweeps)
           IN  /\ later \in Memories
               /\ \A k \in Keys : later.refused[k].n = memory.refused[k].n
               /\ \A p \in QtHosts : later.since[p] = NotRunning => memory.since[p] = NotRunning
               /\ \A p \in QtHosts : memory.since[p] = NotRunning => later.since[p] = NotRunning
<1> DEFINE refused_ == [k \in Keys |-> Aged(memory.refused[k], sweeps)]
           since_   == [p \in QtHosts |-> RunsOn(memory.since[p])]
<1>1. Later(memory, sweeps) = [memory EXCEPT !.refused = refused_, !.since = since_] BY DEF Later
<1>2. Never \in Refusals /\ \A r \in Refusals : Aged(r, sweeps) \in Refusals /\ Aged(r, sweeps).n = r.n
  BY BridgeSizes DEF Never, Refusals, Aged
<1>3. \A n \in NotRunning..QT_ENGINE_GRACE : RunsOn(n) \in NotRunning..QT_ENGINE_GRACE /\ (RunsOn(n) = NotRunning <=> n = NotRunning)
  BY BridgeSizes DEF NotRunning, RunsOn
<1>4. refused_ \in [Keys -> Refusals] /\ \A k \in Keys : refused_[k].n = memory.refused[k].n
  BY <1>2 DEF Memories
<1>5. since_ \in [QtHosts -> NotRunning..QT_ENGINE_GRACE] /\ \A p \in QtHosts : since_[p] = NotRunning <=> memory.since[p] = NotRunning
  BY <1>3 DEF Memories
<1> HIDE DEF refused_, since_
<1> QED BY <1>1, <1>4, <1>5 DEF Memories

LEMMA KeptIs ==
    ASSUME NEW mem \in Memories, NEW live
    PROVE  LET kept == Kept(mem, live)
           IN  /\ kept \in Memories /\ kept.since = mem.since
               /\ \A k \in Keys : kept.refused[k].n = IF k \in live THEN mem.refused[k].n ELSE 0
<1> DEFINE refused_ == [k \in Keys |-> IF k \in live THEN mem.refused[k] ELSE Never]
<1>1. Never \in Refusals /\ Never.n = 0 BY BridgeSizes DEF Never, Refusals
<1>2. refused_ \in [Keys -> Refusals] /\ \A k \in Keys : refused_[k].n = IF k \in live THEN mem.refused[k].n ELSE 0
  BY <1>1 DEF Memories
<1>3. Kept(mem, live) = [mem EXCEPT !.found = mem.found \cap live, !.refused = refused_] BY DEF Kept
<1> HIDE DEF refused_
<1> QED BY <1>2, <1>3 DEF Memories

LEMMA LearnedIs ==
    ASSUME NEW mem \in Memories, NEW wanted
    PROVE  LET learned == Learned(mem, wanted)
           IN  /\ learned \in Memories /\ learned.refused = mem.refused
               /\ \A p \in QtHosts : learned.since[p] # NotRunning => mem.since[p] # NotRunning \/ p \in runs
<1> DEFINE since_ == [p \in QtHosts |->
                        IF /\ mem.since[p] = NotRunning /\ p \in runs /\ WantsEngine(mem, p)
                           /\ \E k \in wanted : k.pid = p
                        THEN 0 ELSE mem.since[p]]
<1>1. 0 \in NotRunning..QT_ENGINE_GRACE BY BridgeSizes DEF NotRunning
<1>2. /\ since_ \in [QtHosts -> NotRunning..QT_ENGINE_GRACE]
      /\ \A p \in QtHosts : since_[p] # NotRunning => mem.since[p] # NotRunning \/ p \in runs
  BY <1>1 DEF Memories
<1>3. Learned(mem, wanted) = [mem EXCEPT !.since = since_] BY DEF Learned
<1> HIDE DEF since_
<1> QED BY <1>2, <1>3 DEF Memories

\* One look at the table.
LEMMA LooksKeep ==
    ASSUME BridgeTypes, AskInv, NEW sweeps \in 1..RETRY_GAP, NEW kept, NEW wanted, NEW mem,
           kept = Kept(Later(memory, sweeps), Listeners(joined)),
           wanted = ListenersDue(kept, Listeners(joined)),
           mem = Learned(kept, wanted),
           memory' = mem, scan' \in Scans, scan'.ask = {k \in wanted : WorthAsking(mem, k)},
           UNCHANGED <<sockets, runs, joined>>
    PROVE  memory' \in Memories /\ AskInv' /\ {k \in wanted : WorthAsking(mem, k)} \in SUBSET Keys
<1> DEFINE live == Listeners(joined)
<1>1. /\ live \subseteq Keys /\ \A k \in live : k.pid \in joined
      /\ \A port \in Ports : sockets[port].pid \in joined => Key(sockets[port].pid, port) \in live
  BY ListenersAre
<1>2. memory \in Memories BY DEF BridgeTypes, BridgeTypeOK, Memories, Refusals
<1> DEFINE later == Later(memory, sweeps)
<1>3. /\ later \in Memories
      /\ \A k \in Keys : later.refused[k].n = memory.refused[k].n
      /\ \A p \in QtHosts : later.since[p] # NotRunning => memory.since[p] # NotRunning
  BY <1>2, LaterIs
<1>4. kept = Kept(later, live) OBVIOUS
<1> HIDE DEF live, later
<1>5. /\ kept \in Memories /\ kept.since = later.since
      /\ \A k \in Keys : kept.refused[k].n = IF k \in live THEN memory.refused[k].n ELSE 0
  BY <1>3, <1>4, KeptIs
<1>6. /\ mem \in Memories /\ mem.refused = kept.refused
      /\ \A p \in QtHosts : mem.since[p] # NotRunning => kept.since[p] # NotRunning \/ p \in runs
  BY <1>5, LearnedIs
<1>7. wanted \subseteq live /\ \A k \in wanted : mem.refused[k].n <= RETRIES
  <2>1. \A k \in live : mem.refused[k].n \in Nat BY <1>1, <1>6 DEF Memories, Refusals
  <2>2. wanted = {k \in live \ kept.found : kept.refused[k] = Never \/ (~Spent(kept, k) /\ kept.refused[k].ago >= RETRY_GAP)}
    BY DEF ListenersDue, live
  <2>3. Never.n = 0 BY DEF Never
  <2>4. wanted \subseteq live BY <2>2
  <2>5. ASSUME NEW k \in wanted PROVE mem.refused[k].n <= RETRIES
    <3>1. mem.refused[k].n = 0 \/ ~(mem.refused[k].n > RETRIES) BY <1>6, <2>2, <2>3 DEF Spent
    <3>2. mem.refused[k].n \in Nat BY <2>1, <2>4
    <3> QED BY <3>1, <3>2, BridgeSizes
  <2> QED BY <2>4, <2>5
<1>8. \A p \in QtHosts : mem.since[p] # NotRunning => p \in runs BY <1>3, <1>5, <1>6 DEF AskInv
<1>9. ASSUME NEW k \in scan'.ask
      PROVE  /\ memory'.refused[k].n <= RETRIES /\ k.pid \in joined
             /\ k.pid \in QtHosts /\ k.port # QtPort => k.pid \in runs
  <2>1. k \in wanted /\ WorthAsking(mem, k) BY <1>9
  <2>2. ASSUME k.pid \in QtHosts, k.port # QtPort PROVE k.pid \in runs
    <3>1. mem.since[k.pid] >= QT_ENGINE_GRACE BY <2>1, <2>2 DEF WorthAsking
    <3>2. mem.since[k.pid] # NotRunning BY <3>1, BridgeSizes DEF NotRunning
    <3> QED BY <1>8, <2>2, <3>2
  <2> QED BY <1>1, <1>7, <2>1, <2>2
<1>10. ASSUME NEW port \in Ports, sockets[port].kind \in {"server", "bound"}
       PROVE  sockets[port].asked <= memory'.refused[Key(sockets[port].pid, port)].n
  <2>1. Key(sockets[port].pid, port) \in Keys /\ sockets[port].asked \in Nat
    BY <1>10 DEF BridgeTypes, BridgeTypeOK, Key, Keys
  <2>2. memory'.refused[Key(sockets[port].pid, port)].n \in Nat BY <1>6, <2>1 DEF Memories, Refusals
  <2>3. CASE sockets[port].asked > 0
    <3>1. Key(sockets[port].pid, port) \in live BY <1>1, <2>3 DEF AskInv
    <3> QED BY <1>5, <1>6, <1>10, <2>1, <3>1 DEF AskInv
  <2>4. CASE ~(sockets[port].asked > 0) BY <2>1, <2>2, <2>4
  <2> QED BY <2>3, <2>4
<1>11. AskInv' BY <1>8, <1>9, <1>10 DEF AskInv
<1> QED BY <1>1, <1>6, <1>7, <1>11

LEMMA ReadsTableKeeps ==
    ASSUME BridgeInv, ReadsTable
    PROVE  BridgeInv'
<1>1. turn # "over" /\ UNCHANGED <<sockets, runs, joined, connecting, attachers, accounts, turn>>
  BY DEF ReadsTable, BridgeStands
<1>2. /\ scan \in Scans /\ mail \in Mails /\ spoken \in Said /\ memory \in Memories
      /\ [kind |-> "unavailable"] \in Notices /\ [kind |-> "taken"] \in Notices
  BY DEF BridgeInv, BridgeTypes, BridgeTypeOK, Scans, Memories, Refusals, Notices
\* Nothing is asked of what is known here but that the types and the questions hold.
<1>3. ASSUME AskInv', scan' \in Scans, memory' \in Memories, mail' \in Mails, mail'.results = mail.results,
             spoken' \in Said, spoken'.lives = spoken.lives, spoken'.pages = spoken.pages
      PROVE  BridgeInv'
  <2>1. BridgeTypes'
    BY <1>1, <1>3 DEF BridgeInv, BridgeTypes, BridgeTypeOK, Scans, Memories, Refusals
  <2> QED BY <1>1, <1>3, <2>1, HoldersStand, AccountsStand DEF BridgeInv
<1>4. ASSUME scan' = [scan EXCEPT !.at = "over"], mail' = [mail EXCEPT !.notices = Append(@, [kind |-> "unavailable"])],
             UNCHANGED <<memory, spoken>>
      PROVE  BridgeInv'
  <2>1. mail' \in Mails /\ mail'.results = mail.results BY <1>2, <1>4, IsNoted
  <2>2. scan' \in Scans /\ scan'.ask = scan.ask BY <1>2, <1>4 DEF Scans
  <2>3. AskInv' BY <1>1, <1>4, <2>2 DEF BridgeInv, AskInv
  <2> QED BY <1>2, <1>3, <1>4, <2>1, <2>2, <2>3
<1>5. ASSUME scan.unread + 1 < UNREADABLE_SWEEPS, scan' = [scan EXCEPT !.unread = @ + 1], UNCHANGED <<mail, memory, spoken>>
      PROVE  BridgeInv'
  <2>1. scan' \in Scans /\ scan'.ask = scan.ask BY <1>2, <1>5, BridgeSizes DEF Scans
  <2>2. AskInv' BY <1>1, <1>5, <2>1 DEF BridgeInv, AskInv
  <2> QED BY <1>2, <1>3, <1>5, <2>1, <2>2
<1>6. ASSUME NEW sweeps \in 1..RETRY_GAP, NEW looks \in BOOLEAN,
             LET live  == Listeners(joined)
                 kept  == Kept(Later(memory, sweeps), live)
                 wanted   == ListenersDue(kept, live)
                 mem   == Learned(kept, wanted)
                 taken == ~scan.taken /\ looks /\ QtPortTaken(joined)
             IN  /\ memory' = mem
                 /\ scan' = Asking({k \in wanted : WorthAsking(mem, k)},
                                   [scan EXCEPT !.unread = 0, !.taken = @ \/ taken])
                 /\ mail' = IF taken THEN [mail EXCEPT !.notices = Append(@, [kind |-> "taken"])] ELSE mail
                 /\ spoken' = [spoken EXCEPT !.swept = live]
      PROVE  BridgeInv'
  <2> DEFINE live   == Listeners(joined)
             kept   == Kept(Later(memory, sweeps), live)
             wanted == ListenersDue(kept, live)
             mem    == Learned(kept, wanted)
             saysTaken   == ~scan.taken /\ looks /\ QtPortTaken(joined)
             them   == {k \in wanted : WorthAsking(mem, k)}
             next   == [scan EXCEPT !.unread = 0, !.taken = @ \/ saysTaken]
  <2>1. /\ memory' = mem
        /\ scan' = Asking(them, next)
        /\ mail' = IF saysTaken THEN [mail EXCEPT !.notices = Append(@, [kind |-> "taken"])] ELSE mail
        /\ spoken' = [spoken EXCEPT !.swept = live]
    BY <1>6
  <2>2. live \subseteq Keys BY ListenersAre DEF BridgeInv
  <2>3. wanted \subseteq live BY DEF ListenersDue
  <2>4. next \in Scans
    <3> HIDE DEF saysTaken
    <3> DEFINE both == scan.taken \/ saysTaken
    <3>1. next = [scan EXCEPT !.unread = 0, !.taken = both] OBVIOUS
    <3>2. both \in BOOLEAN OBVIOUS
    <3>3. 0 \in 0..UNREADABLE_SWEEPS BY BridgeSizes
    <3> HIDE DEF both
    <3> QED BY <1>2, <3>1, <3>2, <3>3, Zenon DEF Scans
  <2>5. them \in SUBSET Keys BY <2>2, <2>3
  <2>6. scan' \in Scans /\ scan'.ask = them
    <3> HIDE DEF them, next
    <3> QED BY <2>1, <2>4, <2>5, AskingIs
  <2>7. memory' \in Memories /\ AskInv'
    <3>1. UNCHANGED <<sockets, runs, joined>> BY <1>1
    <3>2. BridgeTypes /\ AskInv BY DEF BridgeInv
    <3> QED BY <2>1, <2>6, <3>1, <3>2, LooksKeep
  <2>8. mail' \in Mails /\ mail'.results = mail.results
    <3> HIDE DEF saysTaken
    <3>1. CASE saysTaken BY <1>2, <2>1, <3>1, IsNoted
    <3> QED BY <1>2, <2>1, <3>1
  <2>9. spoken' \in Said /\ spoken'.lives = spoken.lives /\ spoken'.pages = spoken.pages
    <3> HIDE DEF live
    <3> QED BY <1>2, <2>1, <2>2 DEF Said
  <2> HIDE DEF live, kept, wanted, mem, saysTaken, them, next
  <2> QED BY <1>3, <2>6, <2>7, <2>8, <2>9
<1> QED BY <1>4, <1>5, <1>6 DEF ReadsTable

\* A listener that answers, or does not, is counted by its memory as it is asked.
LEMMA AsksOneKeeps ==
    ASSUME BridgeInv, AsksOne
    PROVE  BridgeInv'
<1>1. turn # "over" /\ UNCHANGED <<runs, joined, connecting, attachers, accounts, turn, spoken>>
  BY DEF AsksOne, BridgeStands
<1>2. /\ scan \in Scans /\ mail \in Mails /\ spoken \in Said /\ memory \in Memories
      /\ sockets \in [Ports -> Sockets]
  BY DEF BridgeInv, BridgeTypes, BridgeTypeOK, Scans, Memories, Refusals, Sockets
<1>3. PICK k \in scan.ask :
         /\ scan' = Asking(scan.ask \ {k}, scan)
         /\ IF k.port # QtPort /\ EndpointOpen(memory, k.pid) THEN UNCHANGED <<memory, mail, sockets>>
            ELSE /\ sockets' = IF sockets[k.port].pid = k.pid THEN [sockets EXCEPT ![k.port].asked = @ + 1]
                                                              ELSE sockets
                 /\ IF sockets[k.port].kind = "engine"
                    THEN /\ memory' = [memory EXCEPT !.found = @ \cup {k}, !.refused[k] = Never]
                         /\ mail' = [mail EXCEPT !.notices = Append(@, [kind |-> "found", key |-> k])]
                    ELSE /\ memory' = [memory EXCEPT !.refused[k] = [n |-> @.n + 1, ago |-> 0]]
                         /\ UNCHANGED mail
  BY DEF AsksOne
<1>4. /\ scan.ask \in SUBSET Keys /\ k \in Keys /\ k.port \in Ports /\ k.pid \in Pids
      /\ memory.refused[k].n <= RETRIES /\ k.pid \in joined /\ (k.pid \in QtHosts /\ k.port # QtPort => k.pid \in runs)
  BY <1>2, <1>3 DEF Scans, Keys, BridgeInv, AskInv
<1>5. scan' \in Scans /\ scan'.ask = scan.ask \ {k} BY <1>2, <1>3, <1>4, AskingIs
\* The types and the questions are what may move.
<1>6. ASSUME AskInv', memory' \in Memories, mail' \in Mails, mail'.results = mail.results, sockets' \in [Ports -> Sockets],
             \A port \in Ports : \A f \in {"pid", "life", "kind"} : sockets'[port][f] = sockets[port][f]
      PROVE  BridgeInv'
  <2>1. \A port \in Ports : /\ sockets'[port].life <= spoken.lives
                            /\ sockets'[port].kind # "none" => sockets'[port].pid \in Pids /\ sockets'[port].life > 0
    BY <1>6 DEF BridgeInv, BridgeTypes
  <2>2. BridgeTypes'
    BY <1>1, <1>2, <1>5, <1>6, <2>1 DEF BridgeInv, BridgeTypes, BridgeTypeOK, Scans, Memories, Refusals, Sockets
  <2> QED BY <1>1, <1>2, <1>6, <2>2, HoldersStand, AccountsStand DEF BridgeInv
<1>7. CASE k.port # QtPort /\ EndpointOpen(memory, k.pid)
  <2>1. UNCHANGED <<memory, mail, sockets>> BY <1>3, <1>7
  <2>2. AskInv' BY <1>1, <1>5, <2>1 DEF BridgeInv, AskInv
  <2> QED BY <1>2, <1>6, <2>1, <2>2
<1>8. CASE ~(k.port # QtPort /\ EndpointOpen(memory, k.pid))
  <2>1. sockets' = IF sockets[k.port].pid = k.pid THEN [sockets EXCEPT ![k.port].asked = @ + 1] ELSE sockets
    BY <1>3, <1>8
  <2>2. /\ sockets' \in [Ports -> Sockets]
        /\ \A port \in Ports : /\ sockets'[port].pid = sockets[port].pid /\ sockets'[port].life = sockets[port].life
                               /\ sockets'[port].kind = sockets[port].kind
        /\ \A port \in Ports : sockets'[port].asked = IF port = k.port /\ sockets[port].pid = k.pid
                                                      THEN sockets[port].asked + 1 ELSE sockets[port].asked
    <3>1. [sockets[k.port] EXCEPT !.asked = @ + 1] \in Sockets BY <1>2, <1>4 DEF Sockets
    <3> QED BY <1>2, <1>4, <2>1, <3>1 DEF Sockets
  \* The questions, from what the memory of the key that was asked has come to.
  <2>3. ASSUME memory' \in Memories, memory'.since = memory.since,
               \A other \in Keys \ {k} : memory'.refused[other] = memory.refused[other],
               sockets[k.port].kind # "engine" => memory'.refused[k].n = memory.refused[k].n + 1
        PROVE  AskInv'
    <3>1. ASSUME NEW other \in scan'.ask
          PROVE  /\ memory'.refused[other].n <= RETRIES /\ other.pid \in joined'
                 /\ other.pid \in QtHosts /\ other.port # QtPort => other.pid \in runs'
      <4>1. other \in scan.ask /\ other \in Keys \ {k} BY <1>4, <1>5, <3>1
      <4> QED BY <1>1, <2>3, <4>1 DEF BridgeInv, AskInv
    <3>2. \A p \in QtHosts : memory'.since[p] # NotRunning => p \in runs'
      BY <1>1, <2>3 DEF BridgeInv, AskInv
    <3>3. ASSUME NEW port \in Ports
          PROVE  /\ sockets'[port].asked > 0 => sockets'[port].pid \in joined'
                 /\ sockets'[port].asked > 0 /\ sockets'[port].pid \in QtHosts /\ port # QtPort => sockets'[port].pid \in runs'
      BY <1>1, <1>4, <2>2 DEF BridgeInv, AskInv
    <3>4. ASSUME NEW port \in Ports, sockets'[port].kind \in {"server", "bound"}
          PROVE  sockets'[port].asked <= memory'.refused[Key(sockets'[port].pid, port)].n
      <4> DEFINE key == Key(sockets[port].pid, port)
      <4>1. key \in Keys /\ key.pid = sockets[port].pid /\ key.port = port
        BY <2>2, <3>4 DEF BridgeInv, BridgeTypes, Key, Keys
      <4>2. sockets[port].asked <= memory.refused[key].n /\ sockets[port].asked \in Nat
        BY <1>2, <2>2, <3>4 DEF BridgeInv, AskInv, Sockets
      <4>3. memory.refused[key].n \in Nat BY <1>2, <4>1 DEF Memories, Refusals
      <4>4. key = k <=> port = k.port /\ sockets[port].pid = k.pid BY <1>4, <4>1 DEF Keys
      <4>5. sockets'[port].pid = sockets[port].pid /\ sockets'[port].kind = sockets[port].kind
        BY <2>2
      <4> HIDE DEF key
      <4>6. CASE key = k BY <2>2, <2>3, <3>4, <4>2, <4>3, <4>4, <4>5, <4>6 DEF key
      <4>7. CASE key # k BY <2>2, <2>3, <4>1, <4>2, <4>4, <4>5, <4>7 DEF key
      <4> QED BY <4>6, <4>7
    <3> QED BY <3>1, <3>2, <3>3, <3>4 DEF AskInv
  <2>4. /\ memory.refused[k] \in Refusals /\ Never \in Refusals
        /\ [n |-> memory.refused[k].n + 1, ago |-> 0] \in Refusals
    BY <1>2, <1>4, BridgeSizes DEF Memories, Refusals, Never
  <2>5. CASE sockets[k.port].kind = "engine"
    <3>1. memory' = [memory EXCEPT !.found = @ \cup {k}, !.refused = [memory.refused EXCEPT ![k] = Never]]
      BY <1>3, <1>8, <2>5
    <3>2. /\ memory' \in Memories /\ memory'.since = memory.since
          /\ \A other \in Keys \ {k} : memory'.refused[other] = memory.refused[other]
      BY <1>2, <1>4, <2>4, <3>1 DEF Memories
    <3>3. mail' \in Mails /\ mail'.results = mail.results
      <4>1. [kind |-> "found", key |-> k] \in Notices BY <1>4 DEF Notices
      <4> QED BY <1>2, <1>3, <1>8, <2>5, <4>1, IsNoted
    <3> QED BY <1>6, <2>2, <2>3, <2>5, <3>2, <3>3
  <2>6. CASE sockets[k.port].kind # "engine"
    <3>1. memory' = [memory EXCEPT !.refused = [memory.refused EXCEPT ![k] = [n |-> memory.refused[k].n + 1, ago |-> 0]]]
      BY <1>3, <1>8, <2>6
    <3>2. /\ memory' \in Memories /\ memory'.since = memory.since
          /\ \A other \in Keys \ {k} : memory'.refused[other] = memory.refused[other]
          /\ memory'.refused[k].n = memory.refused[k].n + 1
      <4> DEFINE counted == [n |-> memory.refused[k].n + 1, ago |-> 0]
      <4>1. counted \in Refusals /\ counted.n = memory.refused[k].n + 1 BY <2>4
      <4>2. memory' = [memory EXCEPT !.refused = [memory.refused EXCEPT ![k] = counted]] BY <3>1
      <4> HIDE DEF counted
      <4> QED BY <1>2, <1>4, <4>1, <4>2 DEF Memories
    <3>3. UNCHANGED mail BY <1>3, <1>8, <2>6
    <3> QED BY <1>2, <1>6, <2>2, <2>3, <3>2, <3>3
  <2> QED BY <2>5, <2>6
<1> QED BY <1>7, <1>8

-----------------------------------------------------------------------------
(* The connect threads and the bridge.                                     *)

LEMMA ConnectEndsKeeps ==
    ASSUME BridgeInv, ConnectEnds
    PROVE  BridgeInv'
<1>1. turn # "over" /\ UNCHANGED <<sockets, runs, joined, scan, memory, attachers, accounts, turn, spoken>>
  BY DEF ConnectEnds, ThreadStands
<1>2. /\ connecting \in [ports : SUBSET Ports, threads : SUBSET Keys] /\ mail \in Mails
      /\ sockets \in [Ports -> Sockets]
  BY DEF BridgeInv, BridgeTypes, BridgeTypeOK, Sockets
<1>3. PICK key \in connecting.threads, life \in {0} \cup {sockets[p].life : p \in Ports} :
         /\ connecting' = [connecting EXCEPT !.threads = @ \ {key}]
         /\ mail' = [mail EXCEPT !.results = Append(@, [key |-> key, life |-> life])]
  <2>1. PICK key \in connecting.threads :
           /\ connecting' = [connecting EXCEPT !.threads = @ \ {key}]
           /\ \E life \in {0} \cup {sockets[p].life : p \in {q \in {key.port} : sockets[q].kind = "engine"}} :
                 mail' = [mail EXCEPT !.results = Append(@, [key |-> key, life |-> life])]
    BY DEF ConnectEnds
  <2>2. key.port \in Ports BY <1>2, <2>1 DEF Keys
  <2>3. PICK life \in {0} \cup {sockets[p].life : p \in {q \in {key.port} : sockets[q].kind = "engine"}} :
           mail' = [mail EXCEPT !.results = Append(@, [key |-> key, life |-> life])]
    BY <2>1
  <2>4. life \in {0} \cup {sockets[p].life : p \in Ports} BY <2>2
  <2> QED BY <2>1, <2>3, <2>4
<1> DEFINE result == [key |-> key, life |-> life]
<1>4. result \in Results /\ key \in Keys /\ key.port \in Ports /\ result.key = key
  <2>1. \A p \in Ports : sockets[p].life \in 0..MaxLives BY <1>2 DEF Sockets
  <2>2. life \in 0..MaxLives BY <1>3, <2>1, BridgeSizes
  <2> QED BY <1>2, <1>3, <2>2 DEF Results, Keys
<1>5. mail' = [mail EXCEPT !.results = Append(mail.results, result)] BY <1>3
<1> HIDE DEF result
<1>6. /\ mail.results \in Seq(Results) /\ mail'.results \in Seq(Results) /\ mail'.results = Append(mail.results, result)
      /\ mail' \in Mails
  <2>1. mail.results \in Seq(Results) BY <1>2 DEF Mails
  <2>2. Append(mail.results, result) \in Seq(Results) BY <1>4, <2>1, AppendIs
  <2> QED BY <1>2, <1>5, <2>1, <2>2 DEF Mails
<1>7. /\ Len(mail.results) \in Nat /\ DOMAIN mail'.results = 1..(Len(mail.results) + 1) /\ DOMAIN mail.results = 1..Len(mail.results)
      /\ \A i \in 1..Len(mail.results) : mail'.results[i] = mail.results[i]
      /\ mail'.results[Len(mail.results) + 1] = result
  <2>1. /\ Len(Append(mail.results, result)) = Len(mail.results) + 1 /\ Len(mail.results) \in Nat
        /\ \A i \in 1..Len(mail.results) : Append(mail.results, result)[i] = mail.results[i]
        /\ Append(mail.results, result)[Len(mail.results) + 1] = result
    BY <1>4, <1>6, AppendIs
  <2>2. DOMAIN mail'.results = 1..Len(mail'.results) /\ DOMAIN mail.results = 1..Len(mail.results)
    BY <1>6, LenProperties
  <2> QED BY <1>6, <2>1, <2>2
<1>8. connecting' \in [ports : SUBSET Ports, threads : SUBSET Keys] /\ connecting'.ports = connecting.ports
      /\ connecting'.threads = connecting.threads \ {key}
  BY <1>2, <1>3
<1>9. \A port \in Ports : Here(port)' = Here(port) BY <1>1 DEF Here
<1>10. OneInv'
  <2>1. ASSUME NEW port \in Ports \ {key.port}
        PROVE  Threads(port)' = Threads(port) /\ Came(port)' = Came(port)
    <3>1. Threads(port)' = Threads(port) BY <1>8, <2>1 DEF Threads
    <3>2. Len(mail.results) + 1 \notin Came(port)' BY <1>4, <1>7, <2>1 DEF Came
    <3>3. \A i \in 1..Len(mail.results) : i \in Came(port)' <=> i \in Came(port) BY <1>7 DEF Came
    <3>4. Came(port) \subseteq 1..Len(mail.results) /\ Came(port)' \subseteq 1..(Len(mail.results) + 1)
      BY <1>7 DEF Came
    <3>5. \A i : i \in 1..(Len(mail.results) + 1) <=> i \in 1..Len(mail.results) \/ i = Len(mail.results) + 1
      BY <1>7
    <3>6. \A i : i \in Came(port)' <=> i \in Came(port) BY <3>2, <3>3, <3>4, <3>5
    <3> QED BY <3>1, <3>6
  <2>2. Threads(key.port) = {key} /\ Came(key.port) = {} /\ Here(key.port) = {} /\ key.port \in connecting.ports
    <3>1. key \in Threads(key.port) BY <1>3 DEF Threads
    <3> QED BY <1>4, <3>1 DEF BridgeInv, OneInv, AtMostOne
  <2>3. Threads(key.port)' = {} BY <1>8, <2>2 DEF Threads
  <2>4. Came(key.port)' = {Len(mail.results) + 1}
    <3>1. Len(mail.results) + 1 \in Came(key.port)' BY <1>4, <1>7 DEF Came
    <3>2. \A i \in 1..Len(mail.results) : i \notin Came(key.port)' BY <1>7, <2>2 DEF Came
    <3>3. Came(key.port)' \subseteq 1..(Len(mail.results) + 1) BY <1>7 DEF Came
    <3> QED BY <1>7, <3>1, <3>2, <3>3
  <2>5. ASSUME NEW port \in Ports
        PROVE  /\ AtMostOne(Here(port)') /\ AtMostOne(Threads(port)') /\ AtMostOne(Came(port)')
               /\ Here(port)' # {} => Threads(port)' = {} /\ Came(port)' = {}
               /\ Threads(port)' # {} => Came(port)' = {}
               /\ port \in connecting'.ports <=> Threads(port)' # {} \/ Came(port)' # {}
    <3>1. CASE port = key.port BY <1>4, <1>8, <1>9, <2>2, <2>3, <2>4, <3>1 DEF AtMostOne
    <3>2. CASE port # key.port BY <1>8, <1>9, <2>1, <3>2 DEF BridgeInv, OneInv
    <3> QED BY <3>1, <3>2
  <2> QED BY <2>5 DEF OneInv, AtMostOne
<1>11. BridgeTypes' BY <1>1, <1>6, <1>8 DEF BridgeInv, BridgeTypes, BridgeTypeOK
<1> QED BY <1>1, <1>10, <1>11, QuestionsStand, AccountsStand DEF BridgeInv

LEMMA TakesNoticeKeeps ==
    ASSUME BridgeInv, TakesNotice
    PROVE  BridgeInv'
<1>1. turn = "notices" /\ turn' # "over" /\ UNCHANGED <<sockets, runs, joined, scan, memory, attachers, accounts, turn>>
  BY DEF TakesNotice, ThreadStands
<1>2. /\ connecting \in [ports : SUBSET Ports, threads : SUBSET Keys] /\ mail \in Mails /\ spoken \in Said
      /\ sockets \in [Ports -> Sockets]
  BY DEF BridgeInv, BridgeTypes, BridgeTypeOK, Sockets
<1> DEFINE notice == Head(mail.notices)
<1>3. mail' \in Mails /\ mail'.results = mail.results /\ notice \in Notices
  <2>1. mail.notices \in Seq(Notices) /\ mail.notices # <<>> /\ mail' = [mail EXCEPT !.notices = Tail(@)]
    BY <1>2 DEF Mails, TakesNotice
  <2>2. Tail(mail.notices) \in Seq(Notices) /\ Head(mail.notices) \in Notices BY <2>1, TailIs
  <2> QED BY <1>2, <2>1, <2>2 DEF Mails
<1>4. \/ notice.kind # "found" /\ Warn(notice.kind) /\ UNCHANGED connecting
      \/ /\ notice.kind = "found"
         /\ spoken' = [spoken EXCEPT !.aside = @ \cup SetAside(notice.key.port)] /\ UNCHANGED connecting
      \/ Warn("unreachable") /\ UNCHANGED connecting
      \/ /\ notice.kind = "found" /\ ~Known(notice.key.port)
         /\ connecting' = [ports |-> connecting.ports \cup {notice.key.port},
                           threads |-> connecting.threads \cup {notice.key}]
         /\ UNCHANGED spoken
  BY DEF TakesNotice
<1> HIDE DEF notice
<1>5. notice.kind = "found" => notice.key \in Keys /\ notice.key.port \in Ports
  BY <1>3 DEF Notices, Keys
\* Nothing moves but what is said and, once, a connect.
<1>6. ASSUME OneInv', spoken' \in Said, spoken'.lives = spoken.lives, spoken'.pages = spoken.pages,
             connecting' \in [ports : SUBSET Ports, threads : SUBSET Keys]
      PROVE  BridgeInv'
  <2>1. BridgeTypes' BY <1>1, <1>3, <1>6 DEF BridgeInv, BridgeTypes, BridgeTypeOK
  <2> QED BY <1>1, <1>6, <2>1, QuestionsStand, AccountsStand DEF BridgeInv
<1>7. ASSUME UNCHANGED connecting, spoken' \in Said, spoken'.lives = spoken.lives, spoken'.pages = spoken.pages
      PROVE  BridgeInv'
  BY <1>1, <1>2, <1>3, <1>6, <1>7, HoldersStand DEF BridgeInv
<1>8. ASSUME NEW kind \in {"taken", "unavailable", "unreachable"}, Warn(kind), UNCHANGED connecting
      PROVE  BridgeInv'
  <2>1. spoken' \in Said /\ spoken'.lives = spoken.lives /\ spoken'.pages = spoken.pages
    BY <1>2, <1>8 DEF Warn, Said
  <2> QED BY <1>7, <1>8, <2>1
<1>9. CASE notice.kind # "found" /\ Warn(notice.kind) /\ UNCHANGED connecting
  <2>1. notice.kind \in {"taken", "unavailable", "unreachable"} BY <1>3, <1>9 DEF Notices
  <2> QED BY <1>8, <1>9, <2>1
<1>10. CASE notice.kind = "found" /\ spoken' = [spoken EXCEPT !.aside = @ \cup SetAside(notice.key.port)] /\ UNCHANGED connecting
  <2>1. SetAside(notice.key.port) \subseteq Nat
    BY <1>2, <1>5, <1>10, BridgeSizes DEF SetAside, Sockets
  <2>2. spoken' \in Said /\ spoken'.lives = spoken.lives /\ spoken'.pages = spoken.pages
    BY <1>2, <1>10, <2>1 DEF Said
  <2> QED BY <1>7, <1>10, <2>2
<1>11. CASE Warn("unreachable") /\ UNCHANGED connecting BY <1>8, <1>11
<1>12. CASE /\ notice.kind = "found" /\ ~Known(notice.key.port)
            /\ connecting' = [ports |-> connecting.ports \cup {notice.key.port},
                              threads |-> connecting.threads \cup {notice.key}]
            /\ UNCHANGED spoken
  <2>0. PICK key : key = notice.key OBVIOUS
  <2>1. key \in Keys /\ key.port \in Ports /\ ~Known(key.port) BY <1>5, <1>12, <2>0
  <2>2. /\ connecting'.ports = connecting.ports \cup {key.port}
        /\ connecting'.threads = connecting.threads \cup {key}
        /\ connecting' \in [ports : SUBSET Ports, threads : SUBSET Keys]
    BY <1>2, <1>12, <2>0, <2>1
  <2>3. Threads(key.port) = {} /\ Came(key.port) = {} /\ Here(key.port) = {}
    BY <2>1 DEF BridgeInv, OneInv, Known, Here
  <2>4. /\ Threads(key.port)' = {key}
        /\ \A port \in Ports \ {key.port} : Threads(port)' = Threads(port)
        /\ \A port \in Ports : Here(port)' = Here(port) /\ Came(port)' = Came(port)
    <3>1. Threads(key.port)' = {key} BY <2>2, <2>3 DEF Threads
    <3>2. \A port \in Ports \ {key.port} : Threads(port)' = Threads(port) BY <2>2 DEF Threads
    <3>3. \A port \in Ports : Here(port)' = Here(port) BY <1>1 DEF Here
    <3>4. \A port \in Ports : Came(port)' = Came(port) BY <1>3 DEF Came
    <3> QED BY <3>1, <3>2, <3>3, <3>4
  <2>5. ASSUME NEW port \in Ports
        PROVE  /\ AtMostOne(Here(port)') /\ AtMostOne(Threads(port)') /\ AtMostOne(Came(port)')
               /\ Here(port)' # {} => Threads(port)' = {} /\ Came(port)' = {}
               /\ Threads(port)' # {} => Came(port)' = {}
               /\ port \in connecting'.ports <=> Threads(port)' # {} \/ Came(port)' # {}
    <3>1. CASE port = key.port
      <4>1. Threads(port)' = {key} /\ Came(port)' = {} /\ Here(port)' = {} /\ port \in connecting'.ports
        BY <2>1, <2>2, <2>3, <2>4, <3>1
      <4> QED BY <4>1 DEF AtMostOne
    <3>2. CASE port # key.port BY <2>2, <2>4, <3>2 DEF BridgeInv, OneInv
    <3> QED BY <3>1, <3>2
  <2>6. OneInv' BY <2>5 DEF OneInv, AtMostOne
  <2> QED BY <1>2, <1>6, <1>12, <2>2, <2>6
<1> QED BY <1>4, <1>9, <1>10, <1>11, <1>12

\* A new page is with the one it was given to; an attacher that goes hands its pages to one part.
LEMMA PagesOfANewOne ==
    ASSUME NEW standing, NEW closed, NEW pages \in Nat, PagesAre(standing, closed, pages),
           NEW one, NEW after \in Nat,
           \/ one.pages = {} /\ after = pages
           \/ one.pages = {pages + 1} /\ after = pages + 1
    PROVE  PagesAre(standing \cup {one}, closed, after)
<1>1. CASE one.pages = {} /\ after = pages BY <1>1 DEF PagesAre
<1>2. CASE one.pages = {pages + 1} /\ after = pages + 1
  <2>1. pages + 1 \notin 1..pages /\ 1..pages \subseteq 1..after /\ \A n \in 1..after : n \in 1..pages \/ n = pages + 1
    BY <1>2
  <2>2. /\ \A a \in standing : a.pages \subseteq 1..after /\ pages + 1 \notin a.pages
        /\ \A x \in closed : x.pages \subseteq 1..after /\ pages + 1 \notin x.pages
    BY <2>1 DEF PagesAre
  <2>3. one.pages \subseteq 1..after /\ pages + 1 \in one.pages BY <1>2
  <2>4. \A n \in 1..after : (\E a \in standing \cup {one} : n \in a.pages) \/ (\E x \in closed : n \in x.pages)
    BY <2>1, <2>3 DEF PagesAre
  <2>5. \A a, b \in standing \cup {one} : \A n \in a.pages : n \in b.pages => a = b
    BY <1>2, <2>2 DEF PagesAre
  <2>6. \A a \in standing \cup {one}, x \in closed : \A n \in a.pages : n \notin x.pages
    BY <1>2, <2>2 DEF PagesAre
  <2>7. \A x, y \in closed : \A n \in x.pages : n \in y.pages => x = y BY DEF PagesAre
  <2> QED BY <2>2, <2>3, <2>4, <2>5, <2>6, <2>7 DEF PagesAre
<1> QED BY <1>1, <1>2

LEMMA PagesOfAnother ==
    ASSUME NEW standing, NEW closed, NEW pages \in Nat, PagesAre(standing, closed, pages),
           NEW a \in standing, NEW b, b.pages = a.pages \cup {pages + 1}
    PROVE  PagesAre((standing \ {a}) \cup {b}, closed, pages + 1)
<1>1. pages + 1 \notin 1..pages /\ 1..pages \subseteq 1..(pages + 1) /\ \A n \in 1..(pages + 1) : n \in 1..pages \/ n = pages + 1
  OBVIOUS
<1>2. pages + 1 \in 1..(pages + 1) OBVIOUS
<1>3. /\ \A c \in standing : c.pages \subseteq 1..(pages + 1) /\ pages + 1 \notin c.pages
      /\ \A x \in closed : x.pages \subseteq 1..(pages + 1) /\ pages + 1 \notin x.pages
  BY <1>1 DEF PagesAre
<1> DEFINE now == (standing \ {a}) \cup {b}
<1>4. b.pages \subseteq 1..(pages + 1) /\ pages + 1 \in b.pages BY <1>2, <1>3
<1>5. \A n \in 1..(pages + 1) : (\E c \in now : n \in c.pages) \/ (\E x \in closed : n \in x.pages)
  <2> TAKE n \in 1..(pages + 1)
  <2>1. CASE n = pages + 1 BY <1>4, <2>1
  <2>2. CASE n \in 1..pages
    <3>1. (\E c \in standing : n \in c.pages) \/ (\E x \in closed : n \in x.pages)
      BY <2>2 DEF PagesAre
    <3>2. ASSUME NEW c \in standing, n \in c.pages PROVE \E d \in now : n \in d.pages BY <3>2
    <3> QED BY <3>1, <3>2
  <2> QED BY <1>1, <2>1, <2>2
<1>6. ASSUME NEW c \in now, NEW d \in now, NEW n \in c.pages, n \in d.pages PROVE c = d
  <2>1. CASE c = b /\ d # b
    <3>1. n \in a.pages \/ n = pages + 1 BY <1>6, <2>1
    <3>2. d \in standing /\ d # a BY <2>1
    <3> QED BY <1>3, <1>6, <3>1, <3>2 DEF PagesAre
  <2>2. CASE d = b /\ c # b
    <3>1. n \in a.pages \/ n = pages + 1 BY <1>6, <2>2
    <3>2. c \in standing /\ c # a BY <2>2
    <3> QED BY <1>3, <1>6, <3>1, <3>2 DEF PagesAre
  <2>3. CASE c # b /\ d # b BY <1>6, <2>3 DEF PagesAre
  <2> QED BY <2>1, <2>2, <2>3
<1>7. ASSUME NEW c \in now, NEW x \in closed, NEW n \in c.pages PROVE n \notin x.pages
  <2>1. CASE c = b BY <1>3, <1>7, <2>1 DEF PagesAre
  <2>2. CASE c # b BY <1>7, <2>2 DEF PagesAre
  <2> QED BY <2>1, <2>2
<1>8. \A c \in now : c.pages \subseteq 1..(pages + 1) BY <1>3, <1>4
<1>9. \A x, y \in closed : \A n \in x.pages : n \in y.pages => x = y BY DEF PagesAre
<1> HIDE DEF now
<1>10. PagesAre(now, closed, pages + 1) BY <1>3, <1>5, <1>6, <1>7, <1>8, <1>9 DEF PagesAre
<1> QED BY <1>10 DEF now

LEMMA PagesHandedOver ==
    ASSUME NEW standing, NEW closed, NEW pages, PagesAre(standing, closed, pages),
           NEW gone \in SUBSET standing, NEW part, NEW parts, parts = {part[a] : a \in gone},
           \A a \in gone : part[a].pages = a.pages
    PROVE  PagesAre(standing \ gone, closed \cup parts, pages)
<1>1. \A x \in parts : \E a \in gone : x = part[a] /\ x.pages = a.pages OBVIOUS
<1>2. \A a \in gone : part[a] \in parts /\ part[a].pages = a.pages OBVIOUS
<1>3. \A x \in closed \cup parts : x.pages \subseteq 1..pages BY <1>1 DEF PagesAre
<1>4. ASSUME NEW n \in 1..pages
      PROVE  (\E a \in standing \ gone : n \in a.pages) \/ (\E x \in closed \cup parts : n \in x.pages)
  <2>1. CASE \E a \in standing : n \in a.pages BY <1>2, <2>1
  <2>2. CASE \E x \in closed : n \in x.pages BY <2>2
  <2> QED BY <2>1, <2>2 DEF PagesAre
<1>5. ASSUME NEW x \in closed \cup parts, NEW y \in closed \cup parts, NEW n \in x.pages, n \in y.pages
      PROVE  x = y
  <2>1. CASE x \in closed /\ y \in closed BY <1>5, <2>1 DEF PagesAre
  <2>2. CASE x \in parts /\ y \in parts BY <1>1, <1>5, <2>2 DEF PagesAre
  <2>3. CASE x \in closed /\ y \in parts BY <1>1, <1>5, <2>3 DEF PagesAre
  <2>4. CASE x \in parts /\ y \in closed BY <1>1, <1>5, <2>4 DEF PagesAre
  <2> QED BY <2>1, <2>2, <2>3, <2>4
<1>6. ASSUME NEW a \in standing \ gone, NEW x \in closed \cup parts, NEW n \in a.pages
      PROVE  n \notin x.pages
  BY <1>1, <1>6 DEF PagesAre
<1>7. /\ \A a \in standing \ gone : a.pages \subseteq 1..pages
      /\ \A a, b \in standing \ gone : \A n \in a.pages : n \in b.pages => a = b
  BY DEF PagesAre
<1> QED BY <1>3, <1>4, <1>5, <1>6, <1>7 DEF PagesAre

LEMMA NewPagesAre ==
    ASSUME spoken \in Said
    PROVE  /\ spoken.pages \in Nat /\ spoken.pages <= MaxPages
           /\ NewPages = {} \/ (NewPages = {spoken.pages + 1} /\ spoken.pages + 1 \in 1..MaxPages)
  BY BridgeSizes DEF Said, NewPages

\* What came is taken from the front: the port is nobody's now.
LEMMA ResultTaken ==
    ASSUME BridgeInv, NEW result, NEW port,
           mail.results # <<>>, result = Head(mail.results), port = result.key.port,
           mail' = [mail EXCEPT !.results = Tail(@)],
           connecting' = [connecting EXCEPT !.ports = @ \ {port}]
    PROVE  /\ result \in Results /\ port \in Ports /\ mail' \in Mails
           /\ connecting' \in [ports : SUBSET Ports, threads : SUBSET Keys]
           /\ Here(port) = {} /\ Threads(port)' = {} /\ Came(port)' = {}
           /\ \A p \in Ports : AtMostOne(Threads(p)') /\ AtMostOne(Came(p)')
           /\ \A p \in Ports \ {port} : /\ Threads(p)' = Threads(p)
                                        /\ Came(p)' = {} <=> Came(p) = {}
           /\ connecting'.ports = connecting.ports \ {port}
<1>1. /\ connecting \in [ports : SUBSET Ports, threads : SUBSET Keys] /\ mail \in Mails
      /\ mail.results \in Seq(Results)
  BY DEF BridgeInv, BridgeTypes, BridgeTypeOK, Mails
<1>2. /\ Tail(mail.results) \in Seq(Results) /\ Len(Tail(mail.results)) = Len(mail.results) - 1
      /\ Len(mail.results) \in Nat /\ Len(mail.results) >= 1
      /\ result = mail.results[1] /\ result \in Results
      /\ \A i \in 1..(Len(mail.results) - 1) : Tail(mail.results)[i] = mail.results[i + 1]
  BY <1>1, TailIs
<1>3. mail'.results = Tail(mail.results) /\ mail' \in Mails BY <1>1, <1>2 DEF Mails
<1>4. /\ DOMAIN mail.results = 1..Len(mail.results) /\ DOMAIN mail'.results = 1..(Len(mail.results) - 1)
      /\ \A i \in 1..(Len(mail.results) - 1) : mail'.results[i] = mail.results[i + 1]
  BY <1>1, <1>2, <1>3, LenProperties
<1>5. port \in Ports BY <1>2 DEF Results, Keys
<1>6. /\ connecting' \in [ports : SUBSET Ports, threads : SUBSET Keys]
      /\ connecting'.ports = connecting.ports \ {port} /\ connecting'.threads = connecting.threads
  BY <1>1
<1>7. 1 \in Came(port) BY <1>2, <1>4 DEF Came
<1>8. Here(port) = {} /\ Threads(port) = {} /\ \A i \in Came(port) : i = 1
  BY <1>5, <1>7 DEF BridgeInv, OneInv, AtMostOne
<1>9. \A p \in Ports : Threads(p)' = Threads(p) BY <1>6 DEF Threads
<1>10. \A p \in Ports : \A i \in Came(p)' : i \in Nat /\ i + 1 \in Came(p) /\ i >= 1
  <2> TAKE p \in Ports
  <2> TAKE i \in Came(p)'
  <2>1. i \in 1..(Len(mail.results) - 1) /\ mail'.results[i].key.port = p BY <1>4 DEF Came
  <2>2. i + 1 \in 1..Len(mail.results) /\ mail.results[i + 1].key.port = p /\ i \in Nat /\ i >= 1
    BY <1>2, <1>4, <2>1
  <2> QED BY <1>4, <2>2 DEF Came
<1>11. Came(port)' = {}
  <2>1. ASSUME NEW i \in Came(port)' PROVE FALSE
    <3>1. i \in Nat /\ i + 1 \in Came(port) /\ i >= 1 BY <1>5, <1>10, <2>1
    <3>2. i + 1 = 1 BY <1>8, <3>1
    <3> QED BY <3>1, <3>2
  <2> QED BY <2>1
<1>12. ASSUME NEW p \in Ports PROVE AtMostOne(Came(p)')
  <2>1. ASSUME NEW i \in Came(p)', NEW j \in Came(p)' PROVE i = j
    <3>1. i + 1 \in Came(p) /\ j + 1 \in Came(p) /\ i \in Nat /\ j \in Nat BY <1>10, <2>1
    <3>2. i + 1 = j + 1 BY <3>1 DEF BridgeInv, OneInv, AtMostOne
    <3> QED BY <3>1, <3>2
  <2> QED BY <2>1 DEF AtMostOne
<1>13. ASSUME NEW p \in Ports \ {port} PROVE Came(p)' = {} <=> Came(p) = {}
  <2>1. ASSUME NEW i \in Came(p) PROVE i - 1 \in Came(p)'
    <3>1. i \in 1..Len(mail.results) /\ mail.results[i].key.port = p BY <1>4 DEF Came
    <3>2. i # 1 BY <1>2, <3>1, <1>13
    <3>3. i - 1 \in 1..(Len(mail.results) - 1) /\ (i - 1) + 1 = i BY <1>2, <3>1, <3>2
    <3>4. mail'.results[i - 1] = mail.results[i] BY <1>4, <3>3
    <3> QED BY <1>4, <3>1, <3>3, <3>4 DEF Came
  <2> QED BY <1>10, <2>1
<1>14. \A p \in Ports : AtMostOne(Threads(p)') BY <1>9 DEF BridgeInv, OneInv, AtMostOne
<1> QED BY <1>2, <1>3, <1>5, <1>6, <1>8, <1>9, <1>11, <1>12, <1>13, <1>14

LEMMA TakesConnectKeeps ==
    ASSUME BridgeInv, TakesConnect
    PROVE  BridgeInv'
<1>1. turn' \in {"pump", "connects"} /\ UNCHANGED <<sockets, runs, joined, scan, memory>>
  BY DEF TakesConnect, ThreadStands
<1>2. PICK result, port :
         /\ mail.results # <<>> /\ result = Head(mail.results) /\ port = result.key.port
         /\ mail' = [mail EXCEPT !.results = Tail(@)]
         /\ connecting' = [connecting EXCEPT !.ports = @ \ {port}]
         /\ IF result.life = 0 THEN Warn("unreachable") /\ UNCHANGED <<attachers, accounts>>
            ELSE \E pages \in {{}, NewPages} :
                   /\ attachers' = attachers \cup
                        {[port |-> port, life |-> result.life, pages |-> pages, lost |-> FALSE]}
                   /\ accounts' = [accounts EXCEPT
                        !.engines = Append(@, [port |-> port, life |-> result.life]),
                        !.entry[port] = Len(accounts.engines) + 1]
                   /\ spoken' = [spoken EXCEPT !.pages = IF pages = {} THEN @ ELSE @ + 1]
  BY DEF TakesConnect
<1>3. /\ result \in Results /\ port \in Ports /\ mail' \in Mails
      /\ connecting' \in [ports : SUBSET Ports, threads : SUBSET Keys]
      /\ Here(port) = {} /\ Threads(port)' = {} /\ Came(port)' = {}
      /\ \A p \in Ports : AtMostOne(Threads(p)') /\ AtMostOne(Came(p)')
      /\ \A p \in Ports \ {port} : /\ Threads(p)' = Threads(p)
                                   /\ Came(p)' = {} <=> Came(p) = {}
      /\ connecting'.ports = connecting.ports \ {port}
  <2>1. /\ mail.results # <<>> /\ result = Head(mail.results) /\ port = result.key.port
        /\ mail' = [mail EXCEPT !.results = Tail(@)]
        /\ connecting' = [connecting EXCEPT !.ports = @ \ {port}]
    BY <1>2
  <2> QED BY <2>1, ResultTaken
<1>4. /\ spoken \in Said /\ attachers \subseteq Attached
      /\ accounts \in [engines : Seq(Engines), entry : [Ports -> Nat], closed : SUBSET Parts, counts : Seq(SUBSET Parts)]
  BY DEF BridgeInv, BridgeTypes, BridgeTypeOK, Attached, Pages
<1>5. \A a \in attachers : a.port \in Ports \ {port} BY <1>3, <1>4 DEF Here, Attached
\* One holder per port, whoever stands on this one now.
<1>6. ASSUME \A p \in Ports \ {port} : Here(p)' = Here(p), AtMostOne(Here(port)')
      PROVE  OneInv'
  <2>1. ASSUME NEW p \in Ports
        PROVE  /\ AtMostOne(Here(p)') /\ AtMostOne(Threads(p)') /\ AtMostOne(Came(p)')
               /\ Here(p)' # {} => Threads(p)' = {} /\ Came(p)' = {}
               /\ Threads(p)' # {} => Came(p)' = {}
               /\ p \in connecting'.ports <=> Threads(p)' # {} \/ Came(p)' # {}
    <3>1. CASE p = port BY <1>3, <1>6, <3>1
    <3>2. CASE p # port
      <4>1. AtMostOne(Here(p)') BY <1>6, <3>2 DEF BridgeInv, OneInv, AtMostOne
      <4> QED BY <1>3, <1>6, <3>2, <4>1 DEF BridgeInv, OneInv
    <3> QED BY <3>1, <3>2
  <2> QED BY <2>1 DEF OneInv, AtMostOne
<1>7. CASE result.life = 0
  <2>1. Warn("unreachable") /\ UNCHANGED <<attachers, accounts>> BY <1>2, <1>7
  <2>2. spoken' \in Said /\ spoken'.lives = spoken.lives /\ spoken'.pages = spoken.pages
    BY <1>4, <2>1 DEF Warn, Said
  <2>3. \A p \in Ports : Here(p)' = Here(p) BY <2>1 DEF Here
  <2>4. OneInv' BY <1>3, <1>6, <2>3 DEF AtMostOne
  <2>5. BridgeTypes' BY <1>1, <1>3, <2>1, <2>2 DEF BridgeInv, BridgeTypes, BridgeTypeOK
  <2> QED BY <1>1, <2>1, <2>2, <2>4, <2>5, QuestionsStand, AccountsStand DEF BridgeInv
<1>8. CASE result.life # 0
  <2>1. PICK pages \in {{}, NewPages} :
           /\ attachers' = attachers \cup {[port |-> port, life |-> result.life, pages |-> pages, lost |-> FALSE]}
           /\ accounts' = [accounts EXCEPT
                !.engines = Append(@, [port |-> port, life |-> result.life]),
                !.entry[port] = Len(accounts.engines) + 1]
           /\ spoken' = [spoken EXCEPT !.pages = IF pages = {} THEN @ ELSE @ + 1]
    BY <1>2, <1>8
  <2> DEFINE one == [port |-> port, life |-> result.life, pages |-> pages, lost |-> FALSE]
             engine == [port |-> port, life |-> result.life]
  <2>2. /\ spoken.pages \in Nat /\ spoken.pages <= MaxPages
        /\ NewPages = {} \/ (NewPages = {spoken.pages + 1} /\ spoken.pages + 1 \in 1..MaxPages)
    BY <1>4, NewPagesAre
  <2>3. /\ pages \in Pages /\ spoken' \in Said /\ spoken'.lives = spoken.lives
        /\ \/ pages = {} /\ spoken'.pages = spoken.pages
           \/ pages = {spoken.pages + 1} /\ spoken'.pages = spoken.pages + 1
    <3>1. CASE pages = {}
      <4>1. spoken' = [spoken EXCEPT !.pages = spoken.pages] BY <2>1, <3>1
      <4> QED BY <1>4, <3>1, <4>1 DEF Said, Pages
    <3>2. CASE pages # {}
      <4>1. pages = {spoken.pages + 1} /\ spoken.pages + 1 \in 1..MaxPages /\ spoken.pages + 1 \in 0..MaxPages
        BY <2>1, <2>2, <3>2, BridgeSizes
      <4>2. spoken' = [spoken EXCEPT !.pages = spoken.pages + 1] BY <2>1, <3>2
      <4> QED BY <1>4, <4>1, <4>2 DEF Said, Pages
    <3> QED BY <3>1, <3>2
  <2>4. result.life \in 1..MaxLives BY <1>3, <1>8, BridgeSizes DEF Results
  <2>5. one \in Attached /\ engine \in Engines BY <1>3, <2>3, <2>4 DEF Attached, Engines
  <2>6. one.port = port /\ one.life = result.life /\ one.pages = pages /\ engine.life = result.life
    OBVIOUS
  <2>7. attachers' = attachers \cup {one} /\ attachers' \subseteq Attached BY <1>4, <2>1, <2>5
  <2>8. /\ Append(accounts.engines, engine) \in Seq(Engines) /\ Len(accounts.engines) \in Nat
        /\ Len(Append(accounts.engines, engine)) = Len(accounts.engines) + 1
        /\ \A i \in 1..Len(accounts.engines) : Append(accounts.engines, engine)[i] = accounts.engines[i]
        /\ Append(accounts.engines, engine)[Len(accounts.engines) + 1] = engine
    <3>1. accounts.engines \in Seq(Engines) BY <1>4
    <3> HIDE DEF engine
    <3> QED BY <2>5, <3>1, AppendIs
  <2>9. accounts' = [accounts EXCEPT !.engines = Append(accounts.engines, engine),
                                     !.entry = [accounts.entry EXCEPT ![port] = Len(accounts.engines) + 1]]
    BY <2>1
  <2> HIDE DEF one, engine
  <2>10. /\ accounts' \in [engines : Seq(Engines), entry : [Ports -> Nat], closed : SUBSET Parts, counts : Seq(SUBSET Parts)]
         /\ accounts'.engines = Append(accounts.engines, engine) /\ accounts'.closed = accounts.closed
         /\ accounts'.entry[port] = Len(accounts.engines) + 1
         /\ \A p \in Ports \ {port} : accounts'.entry[p] = accounts.entry[p]
    <3> DEFINE longer == Append(accounts.engines, engine)
               entry_ == [accounts.entry EXCEPT ![port] = Len(accounts.engines) + 1]
    <3>1. longer \in Seq(Engines) BY <2>8
    <3>2. /\ entry_ \in [Ports -> Nat] /\ entry_[port] = Len(accounts.engines) + 1
          /\ \A p \in Ports \ {port} : entry_[p] = accounts.entry[p]
      BY <1>3, <1>4, <2>8
    <3>3. accounts' = [accounts EXCEPT !.engines = longer, !.entry = entry_] BY <2>9
    <3> HIDE DEF longer, entry_
    <3>4. /\ accounts' \in [engines : Seq(Engines), entry : [Ports -> Nat], closed : SUBSET Parts, counts : Seq(SUBSET Parts)]
          /\ accounts'.engines = longer /\ accounts'.closed = accounts.closed /\ accounts'.entry = entry_
      BY <1>4, <3>1, <3>2, <3>3
    <3> QED BY <3>2, <3>4 DEF longer
  <2>11. OneInv'
    <3>1. Here(port)' = {one} BY <1>5, <2>6, <2>7 DEF Here
    <3>2. \A p \in Ports \ {port} : Here(p)' = Here(p) BY <2>6, <2>7 DEF Here
    <3>3. AtMostOne(Here(port)') BY <3>1 DEF AtMostOne
    <3> QED BY <1>6, <3>2, <3>3
  <2>12. EntryInv'
    <3>1. \A entry, life : Enters(entry, life) => Enters(entry, life)' BY <2>8, <2>10 DEF Enters
    <3>2. Enters(accounts.entry[port], one.life)' BY <2>6, <2>8, <2>10 DEF Enters
    <3>3. (\A a \in attachers : Enters(accounts.entry[a.port], a.life))'
      BY <1>5, <2>6, <2>7, <2>10, <3>1, <3>2 DEF BridgeInv, EntryInv
    <3>4. (\A x \in accounts.closed : Enters(x.entry, x.life))'
      BY <2>10, <3>1 DEF BridgeInv, EntryInv
    <3>5. ASSUME NEW p \in Ports, Here(p)' = {} PROVE accounts'.entry[p] = 0
      <4>1. p # port BY <2>6, <2>7, <3>5 DEF Here
      <4>2. Here(p) = {} BY <2>7, <3>5 DEF Here
      <4> QED BY <2>10, <4>1, <4>2 DEF BridgeInv, EntryInv
    <3> QED BY <3>3, <3>4, <3>5 DEF EntryInv
  <2>13. PageInv'
    <3>1. spoken'.pages \in Nat BY <2>2, <2>3
    <3>2. PagesAre(attachers, accounts.closed, spoken.pages) BY DEF BridgeInv, PageInv
    <3>3. \/ one.pages = {} /\ spoken'.pages = spoken.pages
          \/ one.pages = {spoken.pages + 1} /\ spoken'.pages = spoken.pages + 1
      BY <2>3, <2>6
    <3>4. PagesAre(attachers \cup {one}, accounts.closed, spoken'.pages)
      BY <2>2, <3>1, <3>2, <3>3, PagesOfANewOne
    <3> QED BY <2>7, <2>10, <3>4 DEF PageInv
  <2>14. BridgeTypes'
    BY <1>1, <1>3, <2>3, <2>7, <2>10 DEF BridgeInv, BridgeTypes, BridgeTypeOK, Attached, Pages
  <2> QED BY <1>1, <2>11, <2>12, <2>13, <2>14, QuestionsStand DEF BridgeInv, FinishInv
<1> QED BY <1>7, <1>8

\* The attachers as pumped, and those of them that have ended.
LEMMA EndedGo ==
    ASSUME BridgeInv, NEW pumped \in SUBSET Attached, NEW gone \in SUBSET pumped,
           \A a \in pumped : \E b \in attachers : a.port = b.port /\ a.life = b.life,
           \A b \in attachers : \E a \in pumped : a.port = b.port,
           \A a, b \in pumped : a.port = b.port => a = b,
           spoken' \in Said, spoken'.lives = spoken.lives,
           PagesAre(pumped, accounts.closed, spoken'.pages),
           attachers' = pumped \ gone,
           accounts' = [accounts EXCEPT
              !.closed = @ \cup HandedOver(gone),
              !.entry = [p \in Ports |-> IF \E a \in gone : a.port = p THEN 0 ELSE @[p]]],
           turn' = "notices", UNCHANGED <<sockets, runs, joined, scan, memory, mail, connecting>>
    PROVE  BridgeInv'
<1> DEFINE part    == [a \in gone |-> [entry |-> accounts.entry[a.port], life |-> a.life, pages |-> a.pages]]
           closed_ == accounts.closed \cup {part[a] : a \in gone}
           entry_  == [p \in Ports |-> IF \E a \in gone : a.port = p THEN 0 ELSE accounts.entry[p]]
<1>1. accounts \in [engines : Seq(Engines), entry : [Ports -> Nat], closed : SUBSET Parts, counts : Seq(SUBSET Parts)]
  BY DEF BridgeInv, BridgeTypes
<1>2. \A a \in gone : /\ part[a].entry = accounts.entry[a.port] /\ part[a].life = a.life /\ part[a].pages = a.pages
                      /\ part[a] \in Parts
  BY <1>1 DEF Attached, Parts
<1>3. accounts' = [accounts EXCEPT !.closed = closed_, !.entry = entry_]
  <2>1. HandedOver(gone) = {part[a] : a \in gone} BY DEF HandedOver
  <2>2. accounts' = [accounts EXCEPT
           !.closed = accounts.closed \cup HandedOver(gone),
           !.entry = [p \in Ports |-> IF \E a \in gone : a.port = p THEN 0 ELSE accounts.entry[p]]]
    OBVIOUS
  <2> HIDE DEF part
  <2> QED BY <2>1, <2>2
<1>4. /\ entry_ \in [Ports -> Nat]
      /\ \A p \in Ports : entry_[p] = IF \E a \in gone : a.port = p THEN 0 ELSE accounts.entry[p]
  BY <1>1
<1> HIDE DEF part, entry_
<1>5. closed_ \subseteq Parts /\ \A x \in closed_ : x \in accounts.closed \/ \E a \in gone : x = part[a]
  BY <1>1, <1>2
<1>6. PagesAre(pumped \ gone, closed_, spoken'.pages)
  <2>1. \A a \in gone : part[a].pages = a.pages BY <1>2
  <2> DEFINE parts == {part[a] : a \in gone}
  <2>2. closed_ = accounts.closed \cup parts OBVIOUS
  <2>3. parts = {part[a] : a \in gone} OBVIOUS
  <2> HIDE DEF parts, closed_
  <2>4. PagesAre(pumped \ gone, accounts.closed \cup parts, spoken'.pages)
    BY <2>1, <2>3, PagesHandedOver
  <2> QED BY <2>2, <2>4
<1> HIDE DEF closed_
<1>7. /\ accounts' \in [engines : Seq(Engines), entry : [Ports -> Nat], closed : SUBSET Parts, counts : Seq(SUBSET Parts)]
      /\ accounts'.engines = accounts.engines /\ accounts'.closed = closed_ /\ accounts'.entry = entry_
  <2>1. closed_ \in SUBSET Parts /\ entry_ \in [Ports -> Nat] BY <1>4, <1>5
  <2>2. /\ accounts'.engines = accounts.engines /\ accounts'.counts = accounts.counts
        /\ accounts'.closed = closed_ /\ accounts'.entry = entry_
    BY <1>1, <1>3
  <2> QED BY <1>1, <1>3, <2>1, <2>2
<1>8. PageInv' BY <1>6, <1>7 DEF PageInv
<1>9. EntryInv'
  <2>1. \A entry, life : Enters(entry, life) => Enters(entry, life)' BY <1>7 DEF Enters
  <2>2. \A a \in pumped : Enters(accounts.entry[a.port], a.life) /\ a.port \in Ports
    BY DEF BridgeInv, EntryInv, Attached
  <2>3. ASSUME NEW a \in pumped \ gone PROVE Enters(entry_[a.port], a.life)
    <3>1. ~\E b \in gone : b.port = a.port BY <2>3
    <3> QED BY <1>4, <2>2, <3>1
  <2>4. (\A a \in attachers : Enters(accounts.entry[a.port], a.life))' BY <1>7, <2>1, <2>3
  <2>5. \A x \in closed_ : Enters(x.entry, x.life) BY <1>2, <1>5, <2>2 DEF BridgeInv, EntryInv
  <2>6. (\A x \in accounts.closed : Enters(x.entry, x.life))' BY <1>7, <2>1, <2>5
  <2>7. ASSUME NEW p \in Ports, Here(p)' = {} PROVE entry_[p] = 0
    <3>1. CASE Here(p) = {} BY <1>4, <3>1 DEF BridgeInv, EntryInv
    <3>2. CASE Here(p) # {}
      <4>1. PICK a \in pumped : a.port = p BY <3>2 DEF Here
      <4>2. a \in gone BY <2>7, <4>1 DEF Here
      <4> QED BY <1>4, <4>1, <4>2
    <3> QED BY <3>1, <3>2
  <2>8. (\A p \in Ports : Here(p) = {} => accounts.entry[p] = 0)' BY <1>7, <2>7
  <2> QED BY <2>4, <2>6, <2>8 DEF EntryInv
<1>10. OneInv'
  <2>1. \A p \in Ports : Threads(p)' = Threads(p) /\ Came(p)' = Came(p) BY DEF Threads, Came
  <2>2. \A p \in Ports : AtMostOne(Here(p)') /\ (Here(p)' # {} => Here(p) # {})
    BY DEF Here, AtMostOne
  <2> QED BY <2>1, <2>2 DEF BridgeInv, OneInv, AtMostOne
<1>11. BridgeTypes'
  <2>1. attachers' \subseteq Attached OBVIOUS
  <2> QED BY <1>7, <2>1 DEF BridgeInv, BridgeTypes, BridgeTypeOK, Attached, Pages
<1> QED BY <1>8, <1>9, <1>10, <1>11, QuestionsStand DEF BridgeInv, FinishInv

LEMMA PumpsKeeps ==
    ASSUME BridgeInv, Pumps
    PROVE  BridgeInv'
<1>1. turn' = "notices" /\ UNCHANGED <<sockets, runs, joined, scan, memory, mail, connecting>>
  BY DEF Pumps, ThreadStands
<1>2. PICK more \in {{}} \cup {{a} : a \in {b \in attachers : NewPages # {}}} :
         LET Pumped(a) == IF a \in more THEN [a EXCEPT !.pages = @ \cup NewPages] ELSE a
             pumped == {Pumped(a) : a \in attachers}
             gone   == {a \in pumped : HasEnded(a)}
         IN  /\ attachers' = pumped \ gone
             /\ accounts' = [accounts EXCEPT
                  !.closed = @ \cup HandedOver(gone),
                  !.entry = [p \in Ports |-> IF \E a \in gone : a.port = p THEN 0 ELSE @[p]]]
             /\ spoken' = [spoken EXCEPT !.pages = @ + (IF more = {} THEN 0 ELSE 1)]
  BY DEF Pumps
<1> DEFINE Pumped(a) == IF a \in more THEN [a EXCEPT !.pages = @ \cup NewPages] ELSE a
           pumped == {Pumped(a) : a \in attachers}
           gone   == {a \in pumped : HasEnded(a)}
<1>3. /\ attachers' = pumped \ gone
      /\ accounts' = [accounts EXCEPT
           !.closed = @ \cup HandedOver(gone),
           !.entry = [p \in Ports |-> IF \E a \in gone : a.port = p THEN 0 ELSE @[p]]]
      /\ spoken' = [spoken EXCEPT !.pages = @ + (IF more = {} THEN 0 ELSE 1)]
  BY <1>2
<1>4. gone \in SUBSET pumped OBVIOUS
<1>5. spoken \in Said /\ attachers \subseteq Attached
  BY DEF BridgeInv, BridgeTypes, BridgeTypeOK, Attached, Pages
<1>6. /\ spoken.pages \in Nat /\ spoken.pages <= MaxPages
      /\ NewPages = {} \/ (NewPages = {spoken.pages + 1} /\ spoken.pages + 1 \in 1..MaxPages)
  BY <1>5, NewPagesAre
<1>7. PagesAre(attachers, accounts.closed, spoken.pages) BY DEF BridgeInv, PageInv
<1>8. \A a, b \in attachers : a.port = b.port => a = b
  BY <1>5 DEF BridgeInv, OneInv, Here, AtMostOne, Attached
<1>9. /\ pumped \in SUBSET Attached
      /\ \A a \in pumped : \E b \in attachers : a.port = b.port /\ a.life = b.life
      /\ \A b \in attachers : \E a \in pumped : a.port = b.port
      /\ \A a, b \in pumped : a.port = b.port => a = b
      /\ spoken' \in Said /\ spoken'.lives = spoken.lives
      /\ PagesAre(pumped, accounts.closed, spoken'.pages)
  <2>1. CASE more = {}
    <3>1. pumped = attachers BY <2>1
    <3>2. spoken' = [spoken EXCEPT !.pages = spoken.pages] BY <1>3, <1>6, <2>1
    <3>3. spoken' \in Said /\ spoken'.lives = spoken.lives /\ spoken'.pages = spoken.pages
      BY <1>5, <3>2 DEF Said
    <3> HIDE DEF pumped
    <3> QED BY <1>5, <1>7, <1>8, <3>1, <3>3
  <2>2. CASE more # {}
    <3>1. PICK c \in attachers : more = {c} /\ NewPages # {} BY <1>2, <2>2
    <3>2. NewPages = {spoken.pages + 1} /\ spoken.pages + 1 \in 1..MaxPages /\ spoken.pages + 1 \in 0..MaxPages
      BY <1>6, <3>1, BridgeSizes
    <3> DEFINE d == [c EXCEPT !.pages = c.pages \cup NewPages]
    <3>3. pumped = (attachers \ {c}) \cup {d} BY <3>1
    <3>4. d \in Attached /\ d.port = c.port /\ d.life = c.life /\ d.pages = c.pages \cup {spoken.pages + 1}
      BY <1>5, <3>1, <3>2 DEF Attached, Pages
    <3>5. spoken' = [spoken EXCEPT !.pages = spoken.pages + 1] BY <1>3, <2>2
    <3>6. spoken' \in Said /\ spoken'.lives = spoken.lives /\ spoken'.pages = spoken.pages + 1
      BY <1>5, <3>2, <3>5 DEF Said
    <3> HIDE DEF pumped, d
    <3>7. PagesAre(pumped, accounts.closed, spoken'.pages)
      BY <1>6, <1>7, <3>3, <3>4, <3>6, PagesOfAnother
    <3>8. pumped \in SUBSET Attached BY <1>5, <3>3, <3>4
    <3>9. /\ \A a \in pumped : \E b \in attachers : a.port = b.port /\ a.life = b.life
          /\ \A b \in attachers : \E a \in pumped : a.port = b.port
      BY <3>3, <3>4
    <3>10. \A a, b \in pumped : a.port = b.port => a = b BY <1>8, <3>1, <3>3, <3>4
    <3> QED BY <3>6, <3>7, <3>8, <3>9, <3>10
  <2> QED BY <2>1, <2>2
<1> HIDE DEF pumped, gone
<1> QED BY <1>1, <1>3, <1>4, <1>9, EndedGo

LEMMA BridgeFinishesKeeps ==
    ASSUME BridgeInv, BridgeFinishes
    PROVE  BridgeInv'
<1> DEFINE parts   == accounts.closed \cup HandedOver(attachers)
           counts_ == [i \in DOMAIN accounts.engines |-> {x \in parts : x.entry = i}]
<1>1. /\ turn' = "over" /\ accounts' = [accounts EXCEPT !.counts = counts_]
      /\ UNCHANGED <<mail, connecting, attachers, spoken, sockets, runs, joined, scan, memory>>
  BY DEF BridgeFinishes, ThreadStands
<1>2. /\ accounts \in [engines : Seq(Engines), entry : [Ports -> Nat], closed : SUBSET Parts, counts : Seq(SUBSET Parts)]
      /\ attachers \subseteq Attached
  BY DEF BridgeInv, BridgeTypes, BridgeTypeOK, Attached, Pages
<1>3. parts \subseteq Parts BY <1>2 DEF HandedOver, Parts, Attached
<1>4. counts_ \in Seq(SUBSET Parts)
  <2>1. DOMAIN accounts.engines = 1..Len(accounts.engines) /\ Len(accounts.engines) \in Nat
    BY <1>2, LenProperties
  <2> HIDE DEF parts
  <2>2. counts_ \in [1..Len(accounts.engines) -> SUBSET Parts] BY <1>3, <2>1
  <2> HIDE DEF counts_
  <2> QED BY <2>1, <2>2, SeqDef
<1>5. parts' = parts
  <2>1. accounts'.entry = accounts.entry /\ accounts'.closed = accounts.closed BY <1>1, <1>2
  <2> QED BY <1>1, <2>1 DEF HandedOver
<1> HIDE DEF parts
<1>6. /\ accounts' \in [engines : Seq(Engines), entry : [Ports -> Nat], closed : SUBSET Parts, counts : Seq(SUBSET Parts)]
      /\ accounts'.engines = accounts.engines /\ accounts'.closed = accounts.closed /\ accounts'.entry = accounts.entry
      /\ accounts'.counts = counts_
  <2> HIDE DEF counts_
  <2> QED BY <1>1, <1>2, <1>4
<1>7. FinishInv'
  <2>1. accounts'.counts = [i \in DOMAIN accounts'.engines |-> {x \in parts' : x.entry = i}]
    BY <1>5, <1>6
  <2> QED BY <2>1 DEF FinishInv, parts
<1>8. EntryInv' /\ PageInv' BY <1>1, <1>6 DEF BridgeInv, EntryInv, PageInv, Enters, Here
<1>9. BridgeTypes' BY <1>1, <1>6 DEF BridgeInv, BridgeTypes, BridgeTypeOK
<1> QED BY <1>1, <1>7, <1>8, <1>9, HoldersStand, QuestionsStand DEF BridgeInv

-----------------------------------------------------------------------------
(* The specification.                                                      *)

LEMMA BridgeInvInit == BridgeInit => BridgeInv
<1> SUFFICES ASSUME BridgeInit PROVE BridgeInv OBVIOUS
<1>1. First \in Pids BY FirstIs
<1>2. /\ Free \in Sockets /\ Free.life = 0 /\ Free.kind = "none" /\ Free.asked = 0
      /\ sockets = [p \in Ports |-> Free]
  BY BridgeSizes DEF BridgeInit, Free, Sockets
<1>3. Never \in Refusals BY BridgeSizes DEF Never, Refusals
<1>4. memory \in Memories /\ scan \in Scans
  BY <1>3, BridgeSizes DEF BridgeInit, Memories, Scans, NotRunning
<1>5. mail \in Mails BY DEF BridgeInit, Mails
<1>6. spoken \in Said BY BridgeSizes DEF BridgeInit, Said
<1>7. accounts \in [engines : Seq(Engines), entry : [Ports -> Nat], closed : SUBSET Parts, counts : Seq(SUBSET Parts)]
  BY DEF BridgeInit
<1>8. BridgeTypeOK BY <1>2, <1>4 DEF BridgeTypeOK, Sockets, Scans, Memories, Refusals, BridgeInit
<1>9. BridgeTypes
  <2>1. \A port \in Ports : sockets[port].life = 0 /\ sockets[port].kind = "none" BY <1>2
  <2>2. spoken.lives = 0 /\ joined \subseteq Pids BY <1>1 DEF BridgeInit
  <2> QED BY <1>5, <1>6, <1>7, <1>8, <2>1, <2>2 DEF BridgeTypes
<1>10. AskInv BY <1>2 DEF AskInv, BridgeInit
<1>11. OneInv BY DEF OneInv, Here, Threads, Came, AtMostOne, BridgeInit
<1>12. EntryInv BY DEF EntryInv, BridgeInit
<1>13. PageInv BY DEF PageInv, PagesAre, BridgeInit
<1> QED BY <1>9, <1>10, <1>11, <1>12, <1>13 DEF BridgeInv, FinishInv, BridgeInit

LEMMA BridgeInvStep ==
    ASSUME BridgeInv, [BridgeNext]_bridgeVars
    PROVE  BridgeInv'
<1>1. CASE ApplicationMoves
  BY <1>1, OpensKeeps, ServesKeeps, ClosesKeeps, GrowsKeeps DEF ApplicationMoves
<1>2. CASE DiscoveryMoves BY <1>2, ReadsTableKeeps, AsksOneKeeps DEF DiscoveryMoves
<1>3. CASE ConnectEnds BY <1>3, ConnectEndsKeeps
<1>4. CASE BridgeTurns BY <1>4, TakesNoticeKeeps, TakesConnectKeeps, PumpsKeeps DEF BridgeTurns
<1>5. CASE BridgeFinishes BY <1>5, BridgeFinishesKeeps
<1>6. CASE UNCHANGED bridgeVars
  <2>1. BridgeTypes' BY <1>6 DEF bridgeVars, BridgeInv, BridgeTypes, BridgeTypeOK
  <2>2. OneInv' /\ AskInv' BY <1>6, HoldersStand, QuestionsStand DEF bridgeVars, BridgeInv
  <2>3. EntryInv' /\ PageInv' BY <1>6 DEF bridgeVars, BridgeInv, EntryInv, PageInv, Enters, Here
  <2>4. FinishInv' BY <1>6 DEF bridgeVars, BridgeInv, FinishInv, HandedOver
  <2> QED BY <2>1, <2>2, <2>3, <2>4 DEF BridgeInv
<1> QED BY <1>1, <1>2, <1>3, <1>4, <1>5, <1>6 DEF BridgeNext

\* A port has one connect or one attacher at a time; every page is counted once, to the engine
\* it came through, though engines close and others take their ports; and a server that is no
\* engine is asked 1 + RETRIES times while it stands, a Qt host's own only when its engine is
\* up (cdp_discover.rs Memory::due, worth_asking; embedded_bridge.rs take_notices, finish).
THEOREM BridgeSound == SessionSpec => []SoundBridge
<1> DEFINE Inv == subject = "bridge" => BridgeInv
<1>1. SessionInit => Inv BY BridgeInvInit DEF SessionInit
<1>2. Inv /\ [SessionNext]_sessionVars => Inv'
  <2> SUFFICES ASSUME subject = "bridge", BridgeInv, [SessionNext]_sessionVars PROVE BridgeInv'
    BY DEF SessionNext, sessionVars
  <2>1. [BridgeNext]_bridgeVars BY DEF SessionNext, Moves, sessionVars
  <2> QED BY <2>1, BridgeInvStep
<1>3. Inv => SoundBridge BY BridgeInvSays DEF SoundBridge
<1> QED BY <1>1, <1>2, <1>3, PTL DEF SessionSpec
=============================================================================
