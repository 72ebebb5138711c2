----------------------------- MODULE MCFamilyEnds -----------------------------
(***************************************************************************)
(* Two machines that share no state, in one run: the family of a session   *)
(* that runs, and that of a session that refused to go on.  A behaviour    *)
(* moves one of them.                                                      *)
(***************************************************************************)
EXTENDS FamilyWatch, EndFamily, TLC

CONSTANTS r, a, b, s, n1, n2, n3

Three  == {r, a, b}
OnlyA  == {a}
OnlyB  == {b}
Nobody == {}

Numbers == {n1, n2, n3}

\* Nothing orders or names the numbers the system gives out.
NumberSymmetry == Permutations(Numbers)

VARIABLE subject

runVars == <<subject, familyVars, endVars>>

EndsInit ==
    /\ subject \in {"running", "refused"}
    /\ EndInit
    /\ FamilyInit /\ (subject = "refused" => MaxSlots = 3)

EndsNext ==
    /\ UNCHANGED subject
    /\ \/ subject = "running" /\ FamilyNext /\ UNCHANGED endVars
       \/ subject = "refused" /\ EndNext /\ UNCHANGED familyVars

EndsSpec == EndsInit /\ [][EndsNext]_runVars
=============================================================================
