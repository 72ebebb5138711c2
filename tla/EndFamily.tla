------------------------------- MODULE EndFamily -------------------------------
(***************************************************************************)
(* Ending the family of a session that refused to go on (crates/mech       *)
(* ending.rs, terminate_family, tree.rs process_entries).  Processes start *)
(* and end, of the application and of others, and their numbers change     *)
(* hands, between any two questions the core puts to the system.           *)
(*                                                                         *)
(* A process is its place in the order of the starts, which is its         *)
(* creation time: the precise clock gives every start an instant of its    *)
(* own.  A slot without a creation time vouches for nothing, so a process  *)
(* that has one is as one nobody saw.                                      *)
(***************************************************************************)
EXTENDS Naturals, Sequences, FiniteSetsExt

CONSTANTS
    ROUNDS,      \* how many times the process list is read
    KinRights,   \* what one of the application grants this core: "end" it, only to "ask" it, "none"
    OtherRights, \* what one of somebody else's does
    MaxKin,      \* bound: processes of the application
    MaxOthers,   \* bound: processes of somebody else
    MaxPeople,   \* bound: processes in all
    MaxNumbers   \* bound: numbers the system gives out

ASSUME EndFamilyAssumption ==
    /\ {ROUNDS, MaxKin, MaxOthers, MaxPeople, MaxNumbers} \subseteq Nat \ {0}
    /\ KinRights \cup OtherRights \subseteq {"end", "ask", "none"}

NoNumber == 0
Nothing  == 0
Never    == MaxPeople + 1    \* u64::MAX, later than every start

VARIABLES
    people,   \* every process so far, in the order they started
    target,   \* the launched process, Nothing before the launch
    registry, \* what the core read of the hooks' accounts: the slots, and the numbers in the ring
    search,   \* the rounds: the step, the round, its list and what is still to be asked of it
    kept,     \* Opened.held: the processes opened
    family,   \* Searched.family
    named,    \* Searched.named
    answer,   \* FamilyEnd: the processes left running, and whether the search was not complete
    onList    \* history: the processes on the last list that was read

endVars == <<people, target, registry, search, kept, family, named, answer, onList>>

World == <<people, target>>
Done  == <<registry, family, named, answer>>

NumberOf(S) == {people[i].number : i \in S}
There(i)    == people[i].is # "gone"
Kin         == {i \in DOMAIN people : people[i].kin}

\* The process object outlives the process while somebody has a handle on it.
Exists(i) == There(i) \/ i \in kept \/ i = target

Taken == NumberOf({i \in DOMAIN people : Exists(i)})

\* A number nobody had yet is as good as any other such.
FreeNumbers ==
    LET fresh == (1..MaxNumbers) \ NumberOf(DOMAIN people)
    IN  (NumberOf(DOMAIN people) \ Taken) \cup (IF fresh = {} THEN {} ELSE {Min(fresh)})

EndInit ==
    /\ people = <<>> /\ target = Nothing
    /\ registry = [slots |-> {}, ring |-> {}]
    /\ search = [at |-> "session", round |-> 0, said |-> TRUE, taken |-> 0, read |-> FALSE,
                 list |-> {}, todo |-> {}, ghosts |-> {}, grew |-> FALSE, found |-> {},
                 entry |-> Nothing, settled |-> FALSE]
    /\ kept = {} /\ family = {} /\ named = {}
    /\ answer = [left |-> {}, incomplete |-> FALSE]
    /\ onList = {}

-----------------------------------------------------------------------------
(* The system's processes.                                                 *)

Starts(kin, by, parent, how, right) ==
    /\ Len(people) < MaxPeople
    /\ \E n \in FreeNumbers :
          people' = Append(people, [kin |-> kin, by |-> by, number |-> n, parent |-> parent,
                                    how |-> how, right |-> right, is |-> "up"])

AppLaunches ==
    /\ target = Nothing /\ target' = Len(people) + 1
    /\ Starts(TRUE, Nothing, NoNumber, "followed", "end")
    /\ UNCHANGED <<registry, search, kept, family, named, answer, onList>>

\* A process of the application starts another: the hook signs it in, could only name it, or
\* never saw it.  One that is only named may have been given somebody else for a parent.
KinStarts(i) ==
    /\ i \in Kin /\ people[i].is = "up" /\ Cardinality(Kin) < MaxKin
    /\ \E right \in KinRights :
        \/ \E how \in IF search.at = "session" THEN {"followed", "ring", "unseen"} ELSE {"unseen"} :
              Starts(TRUE, i, people[i].number, how, right)
        \/ \E other \in DOMAIN people \ Kin :
              There(other) /\ Starts(TRUE, i, people[other].number, "ring", right)
    /\ UNCHANGED <<target, registry, search, kept, family, named, answer, onList>>

\* So does somebody else's, or a service.
OtherStarts ==
    /\ Cardinality(DOMAIN people \ Kin) < MaxOthers
    /\ \E right \in OtherRights :
        \/ Starts(FALSE, Nothing, NoNumber, "unseen", right)
        \/ \E i \in DOMAIN people \ Kin :
              There(i) /\ Starts(FALSE, i, people[i].number, "unseen", right)
    /\ UNCHANGED <<target, registry, search, kept, family, named, answer, onList>>

\* A process ends: on its own, or asked to, in its own time.
ProcessGoes(i) ==
    /\ There(i) /\ people' = [people EXCEPT ![i].is = "gone"]
    /\ UNCHANGED <<target, registry, search, kept, family, named, answer, onList>>

-----------------------------------------------------------------------------
(* The core.                                                               *)

\* `terminate_family`: the registry and the ring.
Refuses ==
    /\ search.at = "session" /\ target # Nothing
    /\ registry' = [slots |-> {i \in Kin : people[i].how = "followed"},
                    ring  |-> NumberOf({i \in Kin : people[i].how = "ring"})]
    /\ search' = [search EXCEPT !.at = "root"]
    /\ UNCHANGED <<World, kept, family, named, answer, onList>>

Ended(S) == [i \in DOMAIN people |->
                IF i \in S /\ people[i].right = "end" /\ people[i].is = "up"
                THEN [people[i] EXCEPT !.is = "ending"] ELSE people[i]]

\* `end_family`: the launched process first, so that it starts nothing more.
EndsRoot ==
    /\ search.at = "root"
    /\ \E said \in BOOLEAN : search' = [search EXCEPT !.at = "time", !.said = said]
    /\ people' = Ended({target})
    /\ family' = {target}
    /\ UNCHANGED <<target, registry, kept, named, answer, onList>>

\* When a confirmed process was created; a target that would not say vouches for nothing.
Born(k) == IF k = target /\ ~search.said THEN Never ELSE k

\* Mutant: the time of now, whenever it is asked for, and not that of before the list.
TakenAtNow == Len(people)

TakenAt == search.taken

\* `now`, before the list.
TakesTime ==
    /\ search.at = "time"
    /\ search' = [search EXCEPT !.at = "list", !.round = @ + 1, !.taken = Len(people), !.ghosts = {}, !.found = {}]
    /\ UNCHANGED <<World, Done, kept, onList>>

\* `list`: the processes that have not gone, or a failure; then the registry is asked about.
TakesList ==
    LET now == {i \in DOMAIN people : There(i)}
    IN  /\ search.at = "list"
        /\ \E read \in BOOLEAN :
            /\ search' = [search EXCEPT !.at = "slots", !.read = read, !.todo = registry.slots,
                              !.list = IF read THEN {[number |-> people[i].number, parent |-> people[i].parent] : i \in now}
                                               ELSE {}]
            /\ onList' = IF read THEN now ELSE onList
        /\ UNCHANGED <<World, Done, kept>>

\* `born_of`: who has the number, if it can be asked.
BornOf(n) ==
    LET answering == {i \in DOMAIN people : people[i].number = n /\ Exists(i) /\ people[i].right # "none"}
        opened == {i \in kept : people[i].number = n}
    IN  Max((IF opened # {} THEN opened ELSE answering) \cup {Nothing})

\* Asking a process opens it, and it stays open.
AskedOf(n) == kept' = kept \cup ({BornOf(n)} \ {Nothing})

\* Mutant: a slot's process is a member whoever has its number now.
MemberOfSlot(s, born) == born # Nothing

\* `split_registry`: the process under the slot's number is the one that signed in.
IsMember(i, born) == born = i

\* The slots in their order, which is that of the starts.
AsksSlot ==
    LET i == Min(search.todo)
        n == people[i].number
        born == BornOf(n)
    IN  /\ search.at = "slots" /\ search.todo # {}
        /\ AskedOf(n)
        /\ IF IsMember(i, born)
           THEN LET new == IF n \in NumberOf(family) THEN {} ELSE {born}
                IN  /\ search' = [search EXCEPT !.todo = @ \ {i}, !.found = @ \cup new]
           ELSE search' = [search EXCEPT !.todo = @ \ {i}, !.ghosts = @ \cup {i}]
        /\ UNCHANGED <<World, Done, onList>>

\* The walk begins once the registry has been asked about, with the members in the family.
Walks ==
    /\ search.at = "slots" /\ search.todo = {}
    /\ family' = family \cup search.found
    /\ search' = [search EXCEPT !.at = "walk", !.todo = search.list, !.grew = FALSE]
    /\ UNCHANGED <<World, registry, named, answer, kept, onList>>

Vouched == family \cup search.ghosts

\* `confirm`: one entry of the list, whose parent's number is one the family vouches for.  The
\* list is gone through by number, so that parents come before their children and after them.
AsksEntry ==
    LET e == CHOOSE x \in search.todo : \A y \in search.todo : x.number <= y.number
        born == BornOf(e.number)
        skips == search' = [search EXCEPT !.todo = @ \ {e}]
    IN  /\ search.at = "walk" /\ search.todo # {}
        /\ IF e.number \in NumberOf(family) \/ e.parent \notin NumberOf(Vouched)
           THEN skips /\ UNCHANGED kept
           ELSE /\ AskedOf(e.number)
                /\ IF born = Nothing \/ born > TakenAt THEN skips
                   ELSE search' = [search EXCEPT !.todo = @ \ {e}, !.at = "holder",
                                                 !.entry = [parent |-> e.parent, born |-> born]]
        /\ UNCHANGED <<World, Done, onList>>

\* Mutant: whoever names a number of the family as its parent's is the family's.
StartedByNumber(parent, born, since, holder) == since # {}

\* `started_by_family`: the family's process had the number when the child started.  Nobody else
\* took it in between: who has it now is confirmed, no later than it, or later than the child.
StartedByFamily(parent, born, since, holder) ==
    /\ since # {}
    /\ \/ \A e \in search.list : e.number # parent
       \/ /\ holder # Nothing
          /\ \/ \E k \in family : people[k].number = parent /\ Born(k) = holder
             \/ holder <= Max(since)
             \/ holder > born

AsksHolder ==
    LET parent == search.entry.parent
        born == search.entry.born
        since == {Born(k) : k \in {v \in Vouched : people[v].number = parent /\ Born(v) <= born}}
        asks == since # {} /\ \E e \in search.list : e.number = parent
        ours == StartedByFamily(parent, born, since, BornOf(parent))
    IN  /\ search.at = "holder"
        /\ IF asks THEN AskedOf(parent) ELSE UNCHANGED kept
        /\ search' = [search EXCEPT !.at = "walk", !.entry = Nothing, !.grew = @ \/ ours,
                                    !.found = @ \cup (IF ours THEN {born} ELSE {})]
        /\ family' = family \cup (IF ours THEN {born} ELSE {})
        /\ UNCHANGED <<World, registry, named, answer, onList>>

\* The list is gone through until it gives nothing new; then, if it was read, the ring.
EndsWalk ==
    /\ search.at = "walk" /\ search.todo = {}
    /\ search' = IF search.grew THEN [search EXCEPT !.todo = search.list, !.grew = FALSE]
                 ELSE [search EXCEPT !.at = "ring", !.todo = IF search.read THEN registry.ring ELSE {}]
    /\ named' = IF ~search.grew /\ search.read THEN {} ELSE named
    /\ UNCHANGED <<World, registry, family, answer, kept, onList>>

\* `named_from_ring`.
AsksRing ==
    LET n == Min(search.todo)
    IN  /\ search.at = "ring" /\ search.todo # {}
        /\ search' = [search EXCEPT !.todo = @ \ {n}]
        /\ IF n \in NumberOf(family) \/ \A e \in search.list : e.number # n
           THEN UNCHANGED <<named, kept>>
           ELSE /\ AskedOf(n)
                /\ named' = IF BornOf(n) # Nothing /\ Born(target) <= BornOf(n) /\ BornOf(n) <= TakenAt
                            THEN named \cup {n} ELSE named
        /\ UNCHANGED <<World, registry, family, answer, onList>>

\* Mutant: a round that found nothing is the last one, its list read or not.
SettledUnread == search.found = {}

\* A list that was read found nothing new.
Settled == search.read /\ search.found = {}

\* Mutant: the rounds go on until one finds nothing.
LastRoundNever == FALSE

LastRound == search.round = ROUNDS

\* What the round found is ended.
EndsFound ==
    /\ search.at = "ring" /\ search.todo = {}
    /\ people' = Ended(search.found)
    /\ search' = [search EXCEPT !.settled = Settled,
                      !.at = IF Settled \/ LastRound THEN "wait" ELSE "time"]
    /\ UNCHANGED <<target, Done, kept, onList>>

\* `still_running`, at the end of the time the ended ones had.
Answers ==
    /\ search.at = "wait"
    /\ search' = [search EXCEPT !.at = "over"]
    /\ answer' = [left |-> {i \in family : There(i)}, incomplete |-> ~search.said \/ ~search.settled]
    /\ kept' = {}
    /\ UNCHANGED <<World, registry, family, named, onList>>

Searches ==
    \/ Refuses \/ EndsRoot \/ TakesTime \/ TakesList \/ Walks \/ AsksHolder \/ EndsWalk \/ EndsFound \/ Answers
    \/ AsksSlot \/ AsksEntry \/ AsksRing

EndNext ==
    \/ /\ search.at # "over"
       /\ \E i \in DOMAIN people : ProcessGoes(i)
    \/ /\ search.at \notin {"wait", "over"}    \* nobody asks about one that starts later
       /\ AppLaunches \/ OtherStarts \/ \E i \in DOMAIN people : KinStarts(i)
    \/ Searches

EndSpec == EndInit /\ [][EndNext]_endVars

-----------------------------------------------------------------------------
EndTypeOK ==
    /\ Len(people) <= MaxPeople /\ kept \subseteq DOMAIN people
    /\ search.round \in 0..ROUNDS /\ search.taken <= Len(people)
    /\ named \subseteq registry.ring

\* A process of somebody else is ended, or named as the application's own, only where who started
\* it has gone, or was taken so before it: a number that changes hands between the list, the
\* question and the end makes no stranger a member (R4-S5).
OnlyOrphansAreTaken ==
    \A i \in family \ Kin :
        LET by == people[i].by IN by # Nothing /\ (by \in family \/ ~There(by))

\* What the module's doc promises: a step from a parent to a child is checked by creation time, so
\* that nobody else's process is ended.
OnlyTheApplication == family \subseteq Kin

\* What the last round could confirm: it answers, and it signed in, or who started it is in the
\* family, or signed in and had left its number free when the list was taken.
Reachable(p) ==
    /\ people[p].right # "none"
    /\ \/ p \in registry.slots
       \/ LET by == people[p].by
          IN  /\ by # Nothing /\ people[p].parent = people[by].number
              /\ \/ by \in family
                 \/ by \in registry.slots /\ \A e \in search.list : e.number # people[by].number

\* The family's processes of the last list that was read, and of the moment before it.
Listed == {p \in Kin \cap onList : p <= search.taken}

\* A search that calls itself complete has ended everything of the family that ran when the list
\* was taken, and names what is left of it - the members that only started while it went on too.
CompleteIsWhole ==
    search.at = "over" /\ ~answer.incomplete =>
        \A p \in Listed : There(p) /\ Reachable(p) =>
            p \in answer.left /\ (people[p].right = "end" => people[p].is = "ending")

\* What the ending of a refused family answers for: it takes nobody else's process as long as who
\* started it can be asked, and what it calls complete is.
SearchIsSound == EndTypeOK /\ OnlyOrphansAreTaken /\ CompleteIsWhole

\* What `search`'s doc says of a list that found nothing new: everything of the family still
\* running at that moment had been ended already, or is named.
CompleteIsEverything ==
    search.at = "over" /\ ~answer.incomplete =>
        \A p \in Listed : There(p) => p \in answer.left \/ people[p].number \in named
=============================================================================
