----------------------------- MODULE MCHookCalls -----------------------------
(***************************************************************************)
(* What a detour does for one call: it reads the session's clock while the *)
(* core writes it, or it hands a wait or a timer on with its length        *)
(* converted.  The two share no state, so a behaviour moves one of them.   *)
(***************************************************************************)
EXTENDS MCAnchorSeqlock, DetourCalls

TheDelays == {-1, -9, 40}
TheTimerArgs == {[n |-> -9, period |-> 2], [n |-> 40, period |-> 0]}

-----------------------------------------------------------------------------
VARIABLE subject

AllInit ==
    /\ subject \in {"clock", "calls"}
    /\ Init /\ DetourInit
    /\ subject = "calls" => plain = 1 /\ rate = CHOOSE m \in Rates : TRUE

AllNext ==
    /\ UNCHANGED subject
    /\ \/ subject = "clock" /\ Next /\ UNCHANGED callVars
       \/ subject = "calls" /\ DetourNext /\ UNCHANGED vars

HookSpec == AllInit /\ [][AllNext]_<<subject, vars, callVars>>
=============================================================================
