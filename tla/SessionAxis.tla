----------------------------- MODULE SessionAxis -----------------------------
(***************************************************************************)
(* What one duration axis of a session promises, with no anchor, no block  *)
(* and no seqlock: the axis is the integral of the rate over real time, a  *)
(* rate change leaves it where it stands, and a call is answered with a    *)
(* value the axis has passed, never below one that was answered before the *)
(* call began.  A core that dies in the middle of a rate change leaves the *)
(* axis somewhere, but nowhere below what has been answered.               *)
(***************************************************************************)
EXTENDS Integers

CONSTANTS Readers, Rates, I64_MAX

VARIABLES
    axis,    \* where the axis stands now
    speed,   \* the multiplier in force
    alive,   \* the core runs
    served,  \* the greatest value answered so far
    floor    \* per call in progress: what had been answered when it began

axisVars == <<axis, speed, alive, served, floor>>

NoCall == -1
Faster(m) == IF m < 1 THEN 1 ELSE m   \* a frozen wall does not freeze the axis
Top(v)    == IF v > I64_MAX THEN I64_MAX ELSE v

Init ==
    /\ axis \in 0..I64_MAX
    /\ speed \in Rates
    /\ alive = TRUE
    /\ served = 0
    /\ floor = [r \in Readers |-> NoCall]

Tick ==
    /\ axis' = Top(axis + Faster(speed))
    /\ UNCHANGED <<speed, alive, served, floor>>

ChangeRate(m) ==
    /\ alive
    /\ speed' = m
    /\ UNCHANGED <<axis, alive, served, floor>>

Die ==
    /\ alive
    /\ alive' = FALSE
    /\ speed' \in Rates
    /\ axis' \in served..I64_MAX
    /\ UNCHANGED <<served, floor>>

Begin(r) ==
    /\ floor[r] = NoCall
    /\ floor' = [floor EXCEPT ![r] = served]
    /\ UNCHANGED <<axis, speed, alive, served>>

Answer(r) ==
    /\ floor[r] # NoCall
    /\ \E v \in floor[r]..axis : served' = IF v > served THEN v ELSE served
    /\ floor' = [floor EXCEPT ![r] = NoCall]
    /\ UNCHANGED <<axis, speed, alive>>

Next ==
    \/ Tick \/ Die
    \/ \E m \in Rates : ChangeRate(m)
    \/ \E r \in Readers : Begin(r) \/ Answer(r)

Spec == Init /\ [][Next]_axisVars
=============================================================================
