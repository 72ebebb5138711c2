----------------------------- MODULE CoreOutput -----------------------------
(***************************************************************************)
(* What a core process promises on its stdout, whatever it does inside     *)
(* (crates/cli core.rs): `ready` first, then either a refusal that owes no *)
(* `ended`, or a start that fails and ends, or a running session that is   *)
(* judged once and ended once, in that order, with nothing of the session  *)
(* after `ended`.  The thread that reads stdin says its own errors beside  *)
(* the session.  A core that is killed says nothing more.                  *)
(***************************************************************************)
CONSTANT Lines      \* the lines of a session before its verdict

VARIABLES
    stage,   \* how far the core has got
    wrote    \* the line it wrote last, "nothing" at first

promise == <<stage, wrote>>

OutputInit == stage = "starting" /\ wrote = "nothing"

Write(from, line, to) ==
    /\ stage \in from
    /\ wrote' = line /\ stage' = to

Ready == wrote = "nothing" /\ Write({"starting"}, "ready", "starting")

\* One of REFUSALS_WITHOUT_ENDED: the core leaves at once.
Refuse == wrote = "ready" /\ Write({"starting"}, "error", "refused")

\* The start's own lines, and its end when it does not become a session.
Start == wrote # "nothing" /\ \E l \in Lines : Write({"starting"}, l, "starting")
EndOfStart == wrote \notin {"nothing", "ready"} /\ Write({"starting"}, "ended", "ended")

Run == stage = "starting" /\ wrote = "verdict" /\ stage' = "running" /\ UNCHANGED wrote

Say == \E l \in Lines : Write({"running"}, l, "running")
Judge == Write({"running"}, "session_verdict", "judged")
End == Write({"judged"}, "ended", "ended")

\* The reader of stdin, on its own thread until the process has left.
ReaderSays ==
    /\ stage \in {"running", "judged", "ended"}
    /\ wrote' \in Lines /\ UNCHANGED stage

Leave == stage \in {"refused", "ended"} /\ stage' = "left" /\ UNCHANGED wrote
Die == stage # "left" /\ stage' = "dead" /\ UNCHANGED wrote

OutputNext ==
    \/ Ready \/ Refuse \/ Start \/ EndOfStart \/ Run
    \/ Say \/ Judge \/ End \/ ReaderSays \/ Leave \/ Die

OutputSpec == OutputInit /\ [][OutputNext]_promise
=============================================================================
