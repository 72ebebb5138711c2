------------------------------ MODULE PolicyValue ------------------------------
(***************************************************************************)
(* The one value a session may put in the machine registry, under the name *)
(* of the application it starts (crates/mech policy_value.rs, crates/cli   *)
(* policy_session.rs): cores that look for what dead ones left, write,     *)
(* run, take their value away, and may be killed at any step, next to the  *)
(* tester and a policy refresh.  The registry does one call at a time.     *)
(*                                                                         *)
(* The session lock is taken after the value is written, so it orders      *)
(* nothing here.  A switch list is the markers in it and whether it opens  *)
(* a port.  Looking for leftovers does not fail; every other call may.     *)
(***************************************************************************)
EXTENDS Naturals, Sequences

CONSTANTS
    MaxCores,    \* bound: cores, started in their order
    Stars,       \* what the tester's value for every host may be
    Levels,      \* the keys of the path that may be missing, from the top
    MaxMeddling, \* bound: changes by the tester or a policy refresh
    MaxRefused   \* bound: calls the registry refuses

Cores   == 1..MaxCores
LongAgo == 0    \* a core that was gone before

ASSUME PolicyAssumption ==
    /\ Levels \in Nat \ {0} /\ {MaxCores, MaxMeddling, MaxRefused} \subseteq Nat
    /\ Stars \subseteq [is : {"absent", "other", "text"}, port : BOOLEAN, marks : Seq({LongAgo})]

Absent == [is |-> "absent", port |-> FALSE, marks |-> <<>>]
Other  == [is |-> "other", port |-> FALSE, marks |-> <<>>]
Text(port, marks) == [is |-> "text", port |-> port, marks |-> marks]

VARIABLES
    star,      \* the value for every host
    value,     \* the value under the application's name
    keys,      \* how many of the keys exist, from the top
    cores,     \* each core's step and what it knows
    meddled, refused,
    outdated,  \* history: the cores whose last look at the value is no longer true
    met,       \* history: which core looked for leftovers when there was one, and whose it was
    first,     \* history: how many keys there were
    alone      \* history: no two cores at once, none killed, no call refused, nothing meddled with

policyVars == <<star, value, keys, cores, meddled, refused, outdated, met, first, alone>>

Fresh == [at |-> "unborn", asks |-> FALSE, may |-> FALSE, wrote |-> FALSE, level |-> 0,
          created |-> {}, open |-> TRUE, said |-> {}]

PolicyInit ==
    /\ star \in Stars
    /\ keys \in 0..Levels
    /\ value \in IF keys = Levels THEN {Absent, Other, Text(FALSE, <<>>), Text(TRUE, <<LongAgo>>)} ELSE {Absent}
    /\ (star # Absent => keys = Levels)
    /\ cores = [c \in Cores |-> Fresh]
    /\ meddled = 0 /\ refused = 0
    /\ outdated = {} /\ met = {} /\ first = keys /\ alone = TRUE

Lives(c) == cores[c].at \notin {"unborn", "over", "dead"}

Gone(d) == d = LongAgo \/ cores[d].at \in {"over", "dead"}

\* Who wrote the value: a session puts its marker after those it found.
WrittenBy(d) == value.marks # <<>> /\ value.marks[Len(value.marks)] = d

-----------------------------------------------------------------------------
(* What the code says of a value.                                          *)

\* Mutant: the first marker, which may be one the tester copied into `*`.
OwnerFirst(v) == IF v.marks = <<>> THEN {} ELSE {Head(v.marks)}

\* `parse_marker`: the last one, if there is any.
Owner(v) == IF v.marks = <<>> THEN {} ELSE {v.marks[Len(v.marks)]}

\* Mutant: a marker is enough.
IsStaleAnyones(v) == Owner(v) # {}

\* `stale_names`: the marker of a core that is gone.
IsStale(v) == \E c \in Owner(v) : Gone(c)

\* Mutant: a value under the application's name is written over.
DecideOver(c) == IF star.is = "other" \/ star.port THEN "leave" ELSE "write"

\* `decide`.
Decide(c) == IF value # Absent THEN "foreign"
             ELSE IF star.is = "other" \/ star.port THEN "leave" ELSE "write"

-----------------------------------------------------------------------------
(* A core's steps.                                                         *)

Goes(c, next) == cores' = [cores EXCEPT ![c] = next]
Says(core, key) == [core EXCEPT !.said = @ \cup {key}]

Looks(c) == outdated' = outdated \ {c}

\* The value is another one now, and every core's look but that of who changed it is outdated.
Puts(c, v) ==
    /\ value' = v
    /\ outdated' = IF v = value THEN outdated ELSE outdated \cup (Cores \ {c})

Refusal == refused < MaxRefused /\ refused' = refused + 1 /\ alone' = FALSE
Granted == UNCHANGED <<refused, alone>>

\* The channel is on; whether the tester asked, and whether the core is elevated.
StartsCore(c) ==
    /\ cores[c].at = "unborn" /\ \A d \in Cores : d < c => cores[d].at # "unborn"
    /\ \E asks, may \in BOOLEAN : Goes(c, [cores[c] EXCEPT !.at = "scan", !.asks = asks, !.may = may])
    /\ alone' = (alone /\ \A d \in Cores : ~Lives(d))
    /\ UNCHANGED <<star, value, keys, meddled, refused, outdated, met, first>>

\* Mutant: a core without the rights tries.
AfterLeftoversTry(core) == [core EXCEPT !.at = IF core.asks THEN "read" ELSE "run"]

\* `start_with`, once the leftovers are seen to.
AfterLeftovers(core) == IF ~core.asks THEN [core EXCEPT !.at = "run"]
                        ELSE IF ~core.may THEN [Says(core, "not_written") EXCEPT !.at = "run"]
                        ELSE [core EXCEPT !.at = "read"]

\* Mutant: a leftover is said by a session that was asked to do something about it.
SaysStaleIfAsked(core) == IF core.asks THEN Says(core, "stale") ELSE core

SaysStale(core) == Says(core, "stale")

\* `look_for_leftovers`: the scan, and what is said where nothing may be removed.
ScansLeftovers(c) ==
    LET core == cores[c]
        stale == IsStale(value)
    IN  /\ core.at = "scan" /\ Looks(c)
        /\ met' = met \cup {<<c, d>> : d \in {x \in {LongAgo} \cup Cores : WrittenBy(x) /\ Gone(x)}}
        /\ Goes(c, IF stale /\ core.asks /\ core.may THEN [core EXCEPT !.at = "recover"]
                   ELSE AfterLeftovers(IF stale THEN SaysStale(core) ELSE core))
        /\ UNCHANGED <<star, value, keys, meddled, refused, first, alone>>

\* `recover_in`, under the name the scan gave it.
Recovers(c) ==
    LET core == cores[c]
    IN  /\ core.at = "recover"
        /\ \/ Granted /\ Puts(c, Absent) /\ Goes(c, AfterLeftovers(Says(core, "recovered")))
           \/ Refusal /\ Goes(c, AfterLeftovers(SaysStale(core))) /\ UNCHANGED <<value, outdated>>
        /\ UNCHANGED <<star, keys, meddled, met, first>>

\* `read_both`, and the decision.
ReadsBoth(c) ==
    LET core == cores[c]
        does == Decide(c)
    IN  /\ core.at = "read" /\ Looks(c)
        /\ \/ /\ Granted
              /\ Goes(c, CASE does = "foreign" -> [Says(core, "foreign") EXCEPT !.at = "run"]
                           [] does = "leave" -> [(IF star.port THEN core ELSE Says(core, "not_written")) EXCEPT !.at = "run"]
                           [] does = "write" -> [core EXCEPT !.at = "keys", !.level = 1])
           \/ Refusal /\ Goes(c, [Says(core, "not_written") EXCEPT !.at = "run"])
        /\ UNCHANGED <<star, value, keys, meddled, met, first>>

Undoes(core) == [Says(core, "not_written") EXCEPT !.at = "undo", !.level = Levels]

\* `write_value`: one key after another, each opened, or made with the path to it, in one call.
MakesKey(c) ==
    LET core == cores[c]
        isNew == keys < core.level
        next == IF core.level = Levels THEN [core EXCEPT !.at = "set"] ELSE [core EXCEPT !.level = @ + 1]
    IN  /\ core.at = "keys"
        /\ \/ /\ Granted /\ keys' = IF isNew THEN core.level ELSE keys
              /\ Goes(c, IF isNew THEN [next EXCEPT !.created = @ \cup {core.level}] ELSE next)
           \/ Refusal /\ Goes(c, Undoes(core)) /\ UNCHANGED keys
        /\ UNCHANGED <<star, value, meddled, outdated, met, first>>

\* The value, through the handle of the deepest key: one deleted since takes no value.
SetsValue(c) ==
    LET core == cores[c]
    IN  /\ core.at = "set"
        /\ \/ /\ core.open /\ Granted /\ Puts(c, Text(TRUE, star.marks \o <<c>>))
              /\ Goes(c, [core EXCEPT !.at = "run", !.wrote = TRUE])
           \/ ~core.open /\ Granted /\ Goes(c, Undoes(core)) /\ UNCHANGED <<value, outdated>>
           \/ Refusal /\ Goes(c, Undoes(core)) /\ UNCHANGED <<value, outdated>>
        /\ UNCHANGED <<star, keys, meddled, met, first>>

\* The session goes as it goes: refused, vanished, run to its end.  `finish`, or the drop.
Finishes(c) ==
    /\ cores[c].at = "run"
    /\ Goes(c, [cores[c] EXCEPT !.at = IF cores[c].wrote THEN "readback" ELSE "over"])
    /\ UNCHANGED <<star, value, keys, meddled, refused, outdated, met, first, alone>>

Removed(core) == [Says(core, "removed") EXCEPT !.at = "undo", !.level = Levels]

\* Mutant: whatever stands under the name is taken for its own.
IsOwnNamed(c) == value # Absent

IsOwn(c) == c \in Owner(value)

\* `remove_value`: whose value it is now.
ReadsBack(c) ==
    LET core == cores[c]
    IN  /\ core.at = "readback" /\ Looks(c)
        /\ \/ Granted /\ Goes(c, IF IsOwn(c) THEN [core EXCEPT !.at = "delete"] ELSE Removed(core))
           \/ Refusal /\ Goes(c, [Says(core, "left") EXCEPT !.at = "over"])
        /\ UNCHANGED <<star, value, keys, meddled, met, first>>

\* Mutant: a value that would not go counts as gone.
NotDeletedRemoved(core) == Removed(core)

NotDeleted(core) == [Says(core, "left") EXCEPT !.at = "over"]

DeletesValue(c) ==
    LET core == cores[c]
    IN  /\ core.at = "delete"
        /\ \/ Granted /\ Puts(c, Absent) /\ Goes(c, Removed(core))
           \/ Refusal /\ Goes(c, NotDeleted(core)) /\ UNCHANGED <<value, outdated>>
        /\ UNCHANGED <<star, keys, meddled, met, first>>

\* Mutant: the keys are gone through from the top.
KeyOrderTop(core) == {l \in core.created : \A k \in core.created : l <= k}

\* The created keys, the deepest first.
KeyOrder(core) == {l \in core.created : \A k \in core.created : k <= l}

Bare(level) == keys = level /\ (level = Levels => value = Absent /\ star = Absent)

\* `delete_key_if_empty`: it looks, and one that is empty is deleted by a second call.
LooksAtKey(c) ==
    LET core == cores[c]
        done == [core EXCEPT !.at = IF core.wrote \/ "not_written" \notin core.said THEN "over" ELSE "run"]
    IN  /\ core.at = "undo" /\ Looks(c)
        /\ Goes(c, IF core.created = {} THEN done
                   ELSE LET l == CHOOSE x \in KeyOrder(core) : TRUE
                        IN  IF Bare(l) THEN [core EXCEPT !.at = "unmake", !.level = l]
                                       ELSE [core EXCEPT !.created = @ \ {l}])
        /\ UNCHANGED <<star, value, keys, meddled, refused, met, first, alone>>

\* The key goes with whatever was put into it since; one with keys below it stays.
DeletesKey(c) ==
    LET core == cores[c]
        l == core.level
        Shut(k) == [k EXCEPT !.open = @ /\ l # Levels]
        after == [core EXCEPT !.at = "undo", !.created = @ \ {l}]
    IN  /\ core.at = "unmake"
        /\ \/ /\ Granted /\ keys = l /\ keys' = l - 1
              /\ IF l = Levels THEN Puts(c, Absent) ELSE UNCHANGED <<value, outdated>>
              /\ cores' = [d \in Cores |-> IF d = c THEN after
                                           ELSE IF cores[d].at = "set" THEN Shut(cores[d]) ELSE cores[d]]
           \/ Granted /\ keys # l /\ Goes(c, after) /\ UNCHANGED <<keys, value, outdated>>
           \/ Refusal /\ Goes(c, after) /\ UNCHANGED <<keys, value, outdated>>
        /\ UNCHANGED <<star, meddled, met, first>>

\* The core dies, and takes its drop with it.
IsKilled(c) ==
    /\ Lives(c) /\ Goes(c, [cores[c] EXCEPT !.at = "dead"])
    /\ alone' = FALSE
    /\ UNCHANGED <<star, value, keys, meddled, refused, outdated, met, first>>

\* The tester, or a policy refresh, changes the application's value.
Meddles ==
    /\ meddled < MaxMeddling /\ meddled' = meddled + 1 /\ keys = Levels
    /\ \E v \in {Absent, Other, Text(FALSE, <<>>)} : v # value /\ Puts(LongAgo, v)
    /\ alone' = FALSE
    /\ UNCHANGED <<star, keys, cores, refused, met, first>>

CoreDoes(c) ==
    \/ StartsCore(c) \/ ScansLeftovers(c) \/ Recovers(c) \/ ReadsBoth(c) \/ MakesKey(c) \/ SetsValue(c)
    \/ Finishes(c) \/ ReadsBack(c) \/ DeletesValue(c) \/ LooksAtKey(c) \/ DeletesKey(c) \/ IsKilled(c)

PolicyNext == Meddles \/ \E c \in Cores : CoreDoes(c)

PolicySpec == PolicyInit /\ [][PolicyNext]_policyVars

-----------------------------------------------------------------------------
PolicyTypeOK ==
    /\ keys \in 0..Levels /\ (value # Absent => keys = Levels)
    /\ \A c \in Cores : LET core == cores[c]
                       IN  /\ core.created \subseteq 1..Levels /\ core.level \in 0..Levels
                           /\ (core.wrote => core.asks /\ core.may)

\* A core that came to its end has left no value of its own in the registry, unless it says so:
\* whatever the tester copied into `*`, and whoever changed the value meanwhile.
NothingLeftUnsaid ==
    \A c \in Cores : cores[c].at = "over" /\ WrittenBy(c) => "left" \in cores[c].said

\* A value a session left behind when it died is gone once the next one has looked, or that one
\* says that it is there.
LeftoverGoesOrIsSaid ==
    \A m \in met : LET core == cores[m[1]]
                   IN  core.at \notin {"recover", "dead"} /\ WrittenBy(m[2]) => "stale" \in core.said

\* Sessions that follow one another, and are disturbed by nothing, leave the keys as they were.
KeysAreRestored == alone /\ (\A c \in Cores : ~Lives(c)) => keys = first

MayChange(c) == value = Absent \/ \E d \in {LongAgo} \cup Cores : WrittenBy(d) /\ (d = c \/ Gone(d))

\* No core changes a value of the tester's, or of a core that lives, that it could have seen when
\* it last looked.
LeavesOthersAlone == \A c \in Cores : CoreDoes(c) /\ value' # value => c \in outdated \/ MayChange(c)
OthersStand == [][LeavesOthersAlone]_policyVars

\* What the docs say: a session writes over nothing that is not its own, and only a value with
\* the marker of a core that is gone is removed.
OnlyItsOwn == [][\A c \in Cores : CoreDoes(c) /\ value' # value => MayChange(c)]_policyVars

\* What the cores leave in the registry is what they found, or somebody was told: over a kill at
\* any step, a refusal of any call, and two of them at once.
LeavesNothingUnsaid ==
    PolicyTypeOK /\ NothingLeftUnsaid /\ LeftoverGoesOrIsSaid /\ KeysAreRestored
=============================================================================
