------------------------------ MODULE CorePipe ------------------------------
(***************************************************************************)
(* The stdout of a core, as its client sees it: lines of CoreOutput in a   *)
(* pipe of limited room, among lines that are no events, and a write end   *)
(* that somebody else may hold open after the core is gone.                *)
(***************************************************************************)
EXTENDS CoreOutput, Naturals, Sequences

CONSTANTS
    PipeRoom,    \* lines the pipe holds
    IdleLimit,   \* ticks of the watchdog, the same in both clients
    MaxEvents,   \* bound: events the core writes
    MaxNoise     \* bound: lines on the pipe that are no events

\* The lines around a session are none of its own.
ASSUME CorePipeAssumption ==
    /\ Lines \cap {"ready", "session_verdict", "ended", "noise", "nothing"} = {}
    /\ PipeRoom \in Nat \ {0} /\ IdleLimit \in Nat \ {0}
    /\ MaxEvents \in Nat /\ MaxNoise \in Nat

VARIABLES
    pipe,      \* lines written and not read: an event with its number, or noise
    written,   \* history: events and noise written so far, whether a verdict of the session and `ended` were
    holder     \* somebody else holds the pipe's write end

pipeVars == <<promise, pipe, written, holder>>

Noise == [kind |-> "noise", n |-> 0]

PipeInit ==
    /\ OutputInit
    /\ pipe = <<>> /\ written = [events |-> 0, noise |-> 0, judged |-> FALSE, ended |-> FALSE]
    /\ holder \in BOOLEAN

HasExited == stage \in {"left", "dead"}
Eof == pipe = <<>> /\ HasExited /\ ~holder

Emits ==
    \/ Ready \/ Refuse \/ Start \/ EndOfStart
    \/ Say \/ Judge \/ End \/ ReaderSays

\* A core that has no room for a line stands on its write.
CoreWrites ==
    /\ Emits
    /\ Len(pipe) < PipeRoom /\ written.events < MaxEvents
    /\ pipe' = Append(pipe, [kind |-> wrote', n |-> written.events + 1])
    /\ written' = [written EXCEPT !.events = @ + 1, !.judged = @ \/ wrote' = "session_verdict",
                                  !.ended = @ \/ wrote' = "ended"]
    /\ UNCHANGED holder

CoreGoesOn == (Run \/ Leave \/ Die) /\ UNCHANGED <<pipe, written, holder>>

\* A line that is not text, is too long, or is no event of this protocol version.
NoiseIsWritten ==
    /\ ~HasExited \/ holder
    /\ Len(pipe) < PipeRoom /\ written.noise < MaxNoise
    /\ pipe' = Append(pipe, Noise)
    /\ written' = [written EXCEPT !.noise = @ + 1]
    /\ UNCHANGED <<promise, holder>>

HolderCloses == holder /\ holder' = FALSE /\ UNCHANGED <<promise, pipe, written>>

\* The client takes the next line.
LineIsTaken == pipe # <<>> /\ pipe' = Tail(pipe) /\ UNCHANGED <<promise, written, holder>>

Kinds == Lines \cup {"ready", "error", "verdict", "session_verdict", "ended"}
Event == [kind : Kinds \cup {"noise"}, n : 0..MaxEvents]

PipeTypeOK ==
    /\ stage \in {"starting", "running", "judged", "ended", "refused", "left", "dead"}
    /\ wrote \in Kinds \cup {"nothing"}
    /\ pipe \in Seq(Event) /\ Len(pipe) <= PipeRoom
    /\ written \in [events : 0..MaxEvents, noise : 0..MaxNoise, judged : BOOLEAN, ended : BOOLEAN]
    /\ holder \in BOOLEAN
=============================================================================
