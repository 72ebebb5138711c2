----------------------------- MODULE FamilyWatch -----------------------------
(***************************************************************************)
(* How long a session lasts (ADR-16): for as long as any process on its    *)
(* clock runs.                                                             *)
(*                                                                         *)
(* The core looks at the family at its child poll, at its heartbeat, and   *)
(* once more as it closes.  A look asks the launched process first         *)
(* (`alive_in_order`, `ended_before`), then reads the sign-in registry     *)
(* slot by slot, opens each member it has not seen by its pid, decides     *)
(* with the creation time or the process list whether that is the member,  *)
(* and asks every member it watches (`Family::refresh`).  Between any two  *)
(* of these steps the processes of Inheritance start, sign in and end.     *)
(***************************************************************************)
EXTENDS Inheritance, FiniteSetsExt

CONSTANTS
    WaitOnly,   \* processes that let the core wait on them and deny the creation time
    Closed      \* processes that deny even that

ASSUME FamilyWatchAssumption ==
    /\ WaitOnly \subseteq Everybody \ {Root} /\ Closed \subseteq Everybody \ {Root}
    /\ {"unseen", "gone", "denied", "turned_away", "ended"} \cap Everybody = {}

VARIABLES
    core,        \* the core's step, and what it has learnt in this look
    watch,       \* Family.watch: the process watched, or why there is none
    unwatchable, \* Family.unwatchable
    asked,       \* the pids `family_left_running` has still to ask about
    left,        \* session.left_running, once the session is over
    before       \* history: the members that had signed in when the last look, or the last fold, began

session == <<core, watch, unwatchable, asked, left, before>>
familyVars == <<tree, held, session>>

Slots == 1..MaxSlots
RootSlot == slot[Root]
Waiting == [pc |-> "waiting", for |-> "poll", launched |-> TRUE, at |-> 1, seen |-> {}, opened |-> {}]

FamilyInit ==
    /\ Init
    /\ core = Waiting
    /\ watch = [i \in Slots |-> "unseen"]
    /\ unwatchable = 0
    /\ asked = {} /\ left = FALSE /\ before = {}

Signed == {p \in Family : hook[p] = "signed"}

-----------------------------------------------------------------------------
(* A look.                                                                 *)

Do(pc) == core.pc = pc /\ UNCHANGED tree

\* The launched process, asked before the registry is read.
Ask(at, for) ==
    /\ Do(at)
    /\ core' = [Waiting EXCEPT !.pc = "scan", !.for = for, !.launched = Alive(Root)]
    /\ UNCHANGED <<held, watch, unwatchable, asked, left>>

Poll == Ask("waiting", "poll") /\ before' = Signed
Beat == Ask("waiting", "beat") /\ before' = Signed

\* `refresh_family`: one slot of the registry.
ScanSlot ==
    /\ Do("scan")
    /\ core' = [core EXCEPT !.seen = IF slots[core.at].pid = NoOne THEN @ ELSE @ \cup {core.at},
                            !.at = IF @ = MaxSlots THEN 1 ELSE @ + 1,
                            !.pc = IF core.at = MaxSlots THEN "open" ELSE "scan"]
    /\ UNCHANGED <<held, watch, unwatchable, asked, left, before>>

Unseen == {i \in core.seen \ {RootSlot} : watch[i] = "unseen" /\ \A m \in core.opened : m.slot # i}

Holder(n) == {p \in Everybody : Alive(p) /\ pid[p] = n}

\* Mutant: whoever holds the pid is the member.
IdentityOfPid(i, p) == "same"

\* `identity`, of the process behind the handle.
Identity(i, p) ==
    IF slots[i].created = "unknown" \/ p \in WaitOnly THEN "unknown"
    ELSE IF slots[i].created = p THEN "same" ELSE "other"

\* Mutant: a member that denied the handle is asked again.
OpenMemberAgain ==
    LET i == Min(Unseen) IN
    /\ Do("open") /\ Unseen # {}
    /\ \/ /\ Holder(slots[i].pid) = {}
          /\ watch' = [watch EXCEPT ![i] = "gone"]
          /\ UNCHANGED <<core, held, unwatchable>>
       \/ \E p \in Holder(slots[i].pid) \cap Closed :
              /\ unwatchable' = unwatchable + 1
              /\ UNCHANGED <<core, held, watch>>
       \/ \E p \in Holder(slots[i].pid) \ Closed :
              /\ core' = [core EXCEPT !.opened = @ \cup {[slot |-> i, proc |-> p, id |-> Identity(i, p)]}]
              /\ held' = held \cup {p}
              /\ UNCHANGED <<watch, unwatchable>>
    /\ UNCHANGED <<asked, left, before>>

\* `open_member`, of the first member not seen yet.  Nobody may hold its pid any more.
OpenMember ==
    LET i == Min(Unseen) IN
    /\ Do("open") /\ Unseen # {}
    /\ \/ /\ Holder(slots[i].pid) = {}
          /\ watch' = [watch EXCEPT ![i] = "gone"]
          /\ UNCHANGED <<core, held, unwatchable>>
       \/ \E p \in Holder(slots[i].pid) \cap Closed :
              /\ watch' = [watch EXCEPT ![i] = "denied"]
              /\ unwatchable' = unwatchable + 1
              /\ UNCHANGED <<core, held>>
       \/ \E p \in Holder(slots[i].pid) \ Closed :
              /\ core' = [core EXCEPT !.opened = @ \cup {[slot |-> i, proc |-> p, id |-> Identity(i, p)]}]
              /\ held' = held \cup {p}
              /\ UNCHANGED <<watch, unwatchable>>
    /\ UNCHANGED <<asked, left, before>>

Known == {pid[Root]} \cup {slots[i].pid : i \in core.seen}

\* The process list names the parent by its number; an adopted child's is somebody else's.
ListedParent(p) ==
    IF parent[p] = "outside" \/ p \in Adopted THEN NoOne ELSE pid[parent[p]]

\* `membership`, with `member_of_family` where the creation time says nothing.
Member(m) ==
    \/ m.id = "same"
    \/ m.id = "unknown" /\ Alive(m.proc) /\ ListedParent(m.proc) \in Known

\* One process list for every member opened in this look.
TakeMembers ==
    LET strangers == {m \in core.opened : ~Member(m)} IN
    /\ Do("open") /\ Unseen = {}
    /\ watch' = [i \in Slots |->
                    IF \E m \in core.opened : m.slot = i
                    THEN LET m == CHOOSE m \in core.opened : m.slot = i
                         IN  IF Member(m) THEN m.proc ELSE "turned_away"
                    ELSE watch[i]]
    /\ held' = held \ {m.proc : m \in strangers}
    /\ core' = [core EXCEPT !.pc = "wait", !.opened = {}]
    /\ UNCHANGED <<unwatchable, asked, left, before>>

Living == {i \in Slots : watch[i] \in Everybody}

\* One zero-length wait; a member that ended is let go of.
WaitMember ==
    /\ Do("wait") /\ core.at <= MaxSlots
    /\ core' = [core EXCEPT !.at = @ + 1]
    /\ IF core.at \in Living /\ ~Alive(watch[core.at])
       THEN /\ watch' = [watch EXCEPT ![core.at] = "ended"]
            /\ held' = held \ {watch[core.at]}
       ELSE UNCHANGED <<watch, held>>
    /\ UNCHANGED <<unwatchable, asked, left, before>>

Looked(for) == Do("wait") /\ core.at > MaxSlots /\ core.for = for

\* What the look was for: `poll` leaves the list current.
EndPoll ==
    /\ Looked("poll")
    /\ core' = Waiting
    /\ UNCHANGED <<held, watch, unwatchable, asked, left, before>>

\* Mutant: the launched process is asked after the registry.
EndBeatAskingLast ==
    /\ Looked("beat")
    /\ core' = IF Living # {} \/ Alive(Root) THEN Waiting ELSE [Waiting EXCEPT !.pc = "close", !.for = "beat"]
    /\ UNCHANGED <<held, watch, unwatchable, asked, left, before>>

\* `family_alive` decides whether the session goes on.
EndBeat ==
    /\ Looked("beat")
    /\ core' = IF Living # {} \/ core.launched THEN Waiting
               ELSE [Waiting EXCEPT !.pc = "close", !.for = "beat"]
    /\ UNCHANGED <<held, watch, unwatchable, asked, left, before>>

-----------------------------------------------------------------------------
(* The end.                                                                *)

\* The client's `end`, or its stdin closed.
Command ==
    /\ Do("waiting")
    /\ core' = [Waiting EXCEPT !.pc = "close", !.for = "close"]
    /\ UNCHANGED <<held, watch, unwatchable, asked, left, before>>

\* `fold_children`, the last of them: every pid signed in so far is known.  The folds of
\* the polls before it add nothing to that.
Fold ==
    /\ Do("close")
    /\ asked' = {slots[i].pid : i \in Slots} \ {NoOne}
    /\ core' = [Waiting EXCEPT !.pc = "last_look"]
    /\ before' = Signed
    /\ UNCHANGED <<held, watch, unwatchable, left>>

LastLook == Ask("last_look", "close") /\ UNCHANGED before

EndLastLook ==
    /\ Looked("close")
    /\ core' = [Waiting EXCEPT !.pc = "left"]
    /\ UNCHANGED <<held, watch, unwatchable, asked, left, before>>

Over(running) ==
    /\ left' = running
    /\ core' = [core EXCEPT !.pc = "over"]
    /\ asked' = {}
    /\ held' = {}

\* Mutant: only the members the core watches are asked.
AskLeftWatched ==
    /\ Do("left")
    /\ Over(Alive(Root) \/ \E i \in Living : Alive(watch[i]))
    /\ UNCHANGED <<watch, unwatchable, before>>

\* `family_left_running`: the launched process, then each pid in turn, whoever holds it.
AskLeft ==
    /\ Do("left")
    /\ \/ Alive(Root) /\ Over(TRUE)
       \/ ~Alive(Root) /\ core' = [core EXCEPT !.pc = "left_pids"] /\ UNCHANGED <<held, asked, left>>
    /\ UNCHANGED <<watch, unwatchable, before>>

AskLeftPid ==
    /\ Do("left_pids")
    /\ \/ asked = {} /\ Over(FALSE)
       \/ \E n \in asked :
            \/ Holder(n) # {} /\ Over(TRUE)
            \/ Holder(n) = {} /\ asked' = asked \ {n} /\ UNCHANGED <<core, held, left>>
    /\ UNCHANGED <<watch, unwatchable, before>>

-----------------------------------------------------------------------------
Look == \/ ScanSlot \/ OpenMember \/ TakeMembers \/ WaitMember
        \/ EndPoll \/ EndBeat
        \/ Fold \/ LastLook \/ EndLastLook \/ AskLeft \/ AskLeftPid

FamilyNext ==
    \/ TreeStep /\ UNCHANGED session
    \/ Poll \/ Beat \/ Command \/ Look

FamilySpec == FamilyInit /\ [][FamilyNext]_familyVars

-----------------------------------------------------------------------------
\* The types of the variables.
FamilyTypeOK ==
    /\ TypeOK
    /\ core \in [pc : {"waiting", "scan", "open", "wait", "close", "last_look", "left", "left_pids", "over"},
                 for : {"poll", "beat", "close"}, launched : BOOLEAN,
                 at : 1..MaxSlots + 1, seen : SUBSET Slots,
                 opened : SUBSET [slot : Slots, proc : Everybody, id : {"same", "other", "unknown"}]]
    /\ watch \in [Slots -> {"unseen", "gone", "denied", "turned_away", "ended"} \cup Everybody]
    /\ unwatchable = Cardinality({i \in Slots : watch[i] = "denied"})
    /\ asked \subseteq Pids /\ left \in BOOLEAN
    /\ before \subseteq Family

\* Followed into while its parent waited for it, and let run: not one whose load outlasted
\* the wait, which its parent counts instead.
Followed(p) == hook[p] = "signed" /\ life[p] = "running" /\ p \notin counted

\* A member the core cannot watch: the session says so.
Said(p) == p \in Closed /\ unwatchable > 0

\* A member with no time to speak for it that the process list speaks against: it was given
\* another parent, or a look read its slot and not yet the one of the parent that started it.
Unvouched(p) ==
    /\ p \in Timeless \cup WaitOnly
    /\ p \in Adopted \/ (parent[p] # Root /\ watch[slot[p]] = "turned_away")

\* The heartbeat found nobody.
Ending == core.pc = "close" /\ core.for = "beat"

\* The session does not end by itself while a process it can know of runs: not the launched
\* one, not one the launched one started, however they raced with the look (R4-N11), and
\* not a member that had signed in when the look began.
EndsUnderNobody ==
    Ending => /\ ~Alive(Root)
                  /\ \A p \in Family \ {Root} :
                        Followed(p) /\ (p \in before \/ parent[p] = Root) => Said(p) \/ Unvouched(p)

\* The session lasts for as long as any process on its clock is running (the first comment
\* of family.rs).
LastsForTheFamily ==
    Ending => \A p \in Family : Followed(p) => Said(p) \/ Unvouched(p)

\* A session that says nothing runs on leaves no member behind that had signed in
\* before its last fold (the comment at `family_left_running`).
QuietAboutNobody ==
    core.pc = "over" /\ ~left => \A p \in before \cup {Root} : ~Alive(p)

\* A session whose family has ended ends, whoever has the family's pids by then.
WatchesNobody == core.pc # "over" /\ \A p \in Family : ~Alive(p)
EndsWithTheFamily == WatchesNobody ~> ~WatchesNobody

\* What the audit says of the children nobody followed, over every step of the family and of the
\* core's looks: a child that runs on the real clock is counted, and none is counted that signed
\* in in time (rule 4).
CountsAreTrue == FamilyTypeOK /\ UncoveredIsCounted /\ CountedRanUncovered

\* No look forgets a process of the session: it is not ended by itself under a member the core
\* could know of, and does not close in silence over one (ADR-16).
NobodyIsForgotten == EndsUnderNobody /\ QuietAboutNobody
=============================================================================
