----------------------------- MODULE SessionLoop -----------------------------
(***************************************************************************)
(* The core's running session (crates/cli core.rs `run_session`,           *)
(* `close_session`): one loop that takes the client's commands off a       *)
(* channel, polls for children, beats the heartbeat, and closes the        *)
(* session; and the thread that turns lines of stdin into those commands   *)
(* (wire.rs `spawn_command_reader_with`).                                  *)
(*                                                                         *)
(* Time is kept as what is left until each deadline.  The core's machine   *)
(* is prompt: at most one tick passes between the moment the loop could    *)
(* go on and the end of the turn that follows.  The looks at the family    *)
(* are FamilyWatch's and are one step here.                                *)
(***************************************************************************)
EXTENDS Naturals, Sequences

CONSTANTS
    Heartbeat,   \* ticks between two heartbeats
    ChildPoll,   \* ticks between two child polls
    Reported,    \* SLEPT_REPORTED_MS, in units of sleep
    MaxSlept,    \* bound: how much the machine sleeps in the session
    MaxUnread    \* bound: how many lines the client has waiting at once

ASSUME SessionLoopAssumption ==
    /\ ChildPoll \in Nat \ {0} /\ Heartbeat \in Nat /\ Heartbeat >= ChildPoll
    /\ Reported \in Nat \ {0} /\ MaxSlept \in Nat
    /\ MaxUnread \in Nat \ {0}

\* What a line of stdin is: a command, one that does not parse, or one that breaks the stream.
Commands == {"query", "move", "refused", "end"}
LineKinds == Commands \cup {"junk", "broken"}
Answered == {"query", "move", "refused"}

VARIABLES
    inbox,     \* lines the client has written and the reader has not read
    stdin,     \* "open" or "closed"
    reader,    \* "reading" or "gone"
    queue,     \* the mpsc channel of commands
    owed,      \* history: commands sent that want an answer and have none
    loop,      \* the loop's step, the command in hand, its place in `apply_command`, ticks since `now`
    lag,       \* ticks since the loop could have gone on
    due,       \* ticks left until each deadline
    since,     \* history: ticks since the last heartbeat and the last child poll
    host,      \* the family and the machine: alive, absolute deadlines converted, sleep
    ledger,    \* SessionLedger: absolute_due_before_move, slept_announced_ms
    out,       \* lines the loop has still to write in this step
    wrote,     \* the line written last; "said" for any line of the session before its verdict
    told,      \* history: the sleep announced so far
    movedDue,  \* history: the clock moved with a deadline converted before
    final      \* what the verdict says: sleep, and the deadlines

client == <<inbox, stdin>>
vars == <<client, owed, reader, queue, loop, lag, due, since, host, ledger, out, wrote, told, movedDue, final>>

Idle(pc) == [pc |-> pc, hand |-> "end", at |-> 1, age |-> 0]

Init ==
    /\ inbox = <<>> /\ stdin = "open" /\ owed = 0
    /\ reader = "reading" /\ queue = <<>>
    /\ loop = Idle("waiting") /\ lag = 0
    /\ due = [beat |-> Heartbeat, poll |-> ChildPoll]
    /\ since = [beat |-> 0, poll |-> 0]
    /\ host = [alive |-> TRUE, dues |-> FALSE, slept |-> 0]
    /\ ledger = [moved |-> FALSE, announced |-> 0]
    /\ out = <<>> /\ wrote = "verdict"
    /\ told = 0 /\ movedDue = FALSE
    /\ final = [slept |-> 0, moved |-> FALSE]

Closing == {"close", "final", "judge", "ended", "gone"}

-----------------------------------------------------------------------------
(* The client, and the reader of stdin.                                    *)

Send(line) ==
    /\ stdin = "open" /\ Len(inbox) + Len(queue) < MaxUnread
    /\ inbox' = Append(inbox, line)
    /\ owed' = IF line \in Answered THEN owed + 1 ELSE owed
    /\ UNCHANGED <<stdin, reader, queue, loop, lag, due, since, host, ledger, out, wrote, told, movedDue, final>>

CloseStdin ==
    /\ stdin = "open" /\ stdin' = "closed"
    /\ UNCHANGED <<inbox, owed, reader, queue, loop, lag, due, since, host, ledger, out, wrote, told, movedDue, final>>

\* The process has not left: until then the reader's thread goes on.
Reading == reader = "reading" /\ loop.pc # "gone"

Read(kinds) ==
    /\ Reading /\ inbox # <<>> /\ Head(inbox) \in kinds
    /\ inbox' = Tail(inbox)
    /\ UNCHANGED <<stdin, owed, loop, lag, due, since, host, ledger, out, told, movedDue, final>>

ReadCommand == Read(Commands) /\ queue' = Append(queue, Head(inbox)) /\ UNCHANGED <<reader, wrote>>

\* Mutant: a line that does not parse goes on to the loop.
ReadJunkOn == Read({"junk"}) /\ queue' = Append(queue, Head(inbox)) /\ UNCHANGED <<reader, wrote>>

\* A line that does not parse is answered, without an id, and the stream goes on.
ReadJunk == Read({"junk"}) /\ wrote' = "said" /\ UNCHANGED <<reader, queue>>

\* A line past the cap, or bytes that are not text: said, and the stream ends.
ReadBroken == Read({"broken"}) /\ wrote' = "said" /\ reader' = "gone" /\ UNCHANGED queue

ReadEnd ==
    /\ Reading /\ inbox = <<>> /\ stdin = "closed"
    /\ reader' = "gone"
    /\ UNCHANGED <<client, owed, queue, loop, lag, due, since, host, ledger, out, wrote, told, movedDue, final>>

-----------------------------------------------------------------------------
(* The loop.                                                               *)

Loop(pc) ==
    /\ loop.pc = pc /\ out = <<>>
    /\ UNCHANGED <<inbox, stdin, reader>>

Quiet == UNCHANGED <<wrote>>

\* One line of the step in hand.
WriteLine ==
    /\ out # <<>>
    /\ wrote' = IF Head(out) \in {"session_verdict", "ended"} THEN Head(out) ELSE "said"
    /\ out' = Tail(out)
    /\ UNCHANGED <<client, owed, reader, queue, loop, lag, due, since, host, ledger, told, movedDue, final>>

Receive ==
    /\ Loop("waiting") /\ queue # <<>>
    /\ queue' = Tail(queue)
    /\ loop' = IF Head(queue) = "end" THEN Idle("close")
               ELSE [Idle("apply") EXCEPT !.hand = Head(queue)]
    /\ UNCHANGED <<owed, lag, due, since, host, ledger, out, told, movedDue, final>> /\ Quiet

\* A channel without a sender is found out before the wait.
Disconnected ==
    /\ Loop("waiting") /\ queue = <<>> /\ reader = "gone"
    /\ loop' = Idle("close")
    /\ UNCHANGED <<owed, queue, lag, due, since, host, ledger, out, told, movedDue, final>> /\ Quiet

Timeout ==
    /\ Loop("waiting") /\ queue = <<>> /\ reader = "reading"
    /\ due.beat = 0 \/ due.poll = 0
    /\ loop' = Idle("turn")
    /\ UNCHANGED <<owed, queue, lag, due, since, host, ledger, out, told, movedDue, final>> /\ Quiet

\* Mutant: the deadlines counted are noted before the clock moves.
AppliedNoteFirst == <<"note", "move", "answer">>

\* `apply_command` of a command that moves the clock, and what its loop notes.
Applied == <<"move", "answer", "note">>

Doing == Applied[loop.at]

\* Mutant: the deadlines are looked at only when the wait times out.
AfterCommandWait == "waiting"

\* Both deadlines are looked at after a command too.
AfterCommand == "turn"

\* Mutant: a command the session does not act on is left without a word.
AnswerToActed(kind) ==
    CASE kind = "query"   -> <<"state", "ack">>
      [] kind = "move"    -> <<"ack", "state">>
      [] kind = "refused" -> <<>>

\* Every command is answered: `query` with the state first, a move with the ack first.
AnswerTo(kind) ==
    CASE kind = "query"   -> <<"state", "ack">>
      [] kind = "move"    -> <<"ack", "state">>
      [] kind = "refused" -> <<"error">>

\* `apply_command`, one step of it.
Apply ==
    LET kind == loop.hand
        last == kind # "move" \/ loop.at = Len(Applied)
        says == kind # "move" \/ Doing = "answer"
    IN
    /\ Loop("apply")
    /\ out' = IF says THEN AnswerTo(kind) ELSE <<>>
    /\ owed' = IF says /\ AnswerTo(kind) # <<>> THEN owed - 1 ELSE owed
    /\ movedDue' = (movedDue \/ (kind = "move" /\ Doing = "move" /\ host.dues))
    /\ ledger' = IF kind = "move" /\ Doing = "note"
                 THEN [ledger EXCEPT !.moved = @ \/ host.dues] ELSE ledger
    /\ loop' = IF last THEN Idle(AfterCommand) ELSE [loop EXCEPT !.at = @ + 1]
    /\ lag' = IF last /\ AfterCommand = "waiting" THEN 0 ELSE lag
    /\ UNCHANGED <<queue, due, since, host, told, final>> /\ Quiet

\* `now` is read once; the child poll, when it is due, at that time.
Turn ==
    LET polls == due.poll = 0
        beats == due.beat = 0
    IN
    /\ Loop("turn")
    /\ due' = IF polls THEN [due EXCEPT !.poll = ChildPoll] ELSE due
    /\ since' = IF polls THEN [since EXCEPT !.poll = 0] ELSE since
    /\ loop' = Idle(IF beats THEN "beat" ELSE "waiting")
    /\ lag' = IF beats THEN lag ELSE 0
    /\ UNCHANGED <<owed, queue, host, ledger, out, told, movedDue, final>> /\ Quiet

\* Mutant: what was announced is not remembered.
AnnounceForgetting(slept) ==
    /\ told' = IF slept - ledger.announced >= Reported THEN told + slept - ledger.announced ELSE told
    /\ UNCHANGED ledger

\* `sleep_to_announce`: everything since the last announcement, once it is enough.
Announce(slept) ==
    IF slept - ledger.announced >= Reported
    THEN /\ told' = told + slept - ledger.announced
         /\ ledger' = [ledger EXCEPT !.announced = slept]
    ELSE UNCHANGED <<told, ledger>>

News(slept) == IF slept - ledger.announced >= Reported THEN <<"host_slept">> ELSE <<>>

\* The heartbeat, before its look at the family.
Beat ==
    /\ Loop("beat")
    /\ Announce(host.slept)
    /\ out' = News(host.slept) \o <<"state">>
    /\ since' = [since EXCEPT !.beat = 0]
    /\ loop' = [loop EXCEPT !.pc = "family"]
    /\ UNCHANGED <<owed, queue, lag, due, host, movedDue, final>> /\ Quiet

\* `family_alive`; the next deadline counts from `now` as it was read.
LookAtFamily ==
    /\ Loop("family")
    /\ IF host.alive
       THEN /\ due' = [due EXCEPT !.beat = Heartbeat - loop.age]
            /\ loop' = Idle("waiting") /\ lag' = 0
       ELSE loop' = Idle("close") /\ UNCHANGED <<due, lag>>
    /\ UNCHANGED <<owed, queue, since, host, ledger, out, told, movedDue, final>> /\ Quiet

-----------------------------------------------------------------------------
(* `close_session`.                                                        *)

\* The last fold.  The pages are let go of and asked for their counts after it.
Close ==
    /\ Loop("close")
    /\ loop' = Idle("final")
    /\ UNCHANGED <<owed, queue, lag, due, since, host, ledger, out, told, movedDue, final>> /\ Quiet

\* Mutant: a sleep after the last heartbeat is left to the verdict.
FinalNewsNone ==
    /\ UNCHANGED <<told, ledger>>
    /\ out' = <<"coverage">>

\* A sleep after the last heartbeat is announced before the verdict sums it up.
FinalNews ==
    /\ Announce(host.slept)
    /\ out' = News(host.slept) \o <<"coverage">>

\* The last sample of the clocks, and the counts every process ended with.
Final ==
    /\ Loop("final")
    /\ FinalNews
    /\ final' = [slept |-> host.slept, moved |-> ledger.moved]
    /\ loop' = Idle("judge")
    /\ UNCHANGED <<owed, queue, lag, due, since, host, movedDue>> /\ Quiet

\* Mutant: `ended` goes out before the verdict.
LastLinesEndedFirst == <<"ended", "session_verdict">>

LastLines == <<"session_verdict", "ended">>

\* The session is dropped, then the verdict and `ended` are written.
JudgeSession ==
    /\ Loop("judge")
    /\ out' = LastLines
    /\ loop' = Idle("ended")
    /\ UNCHANGED <<owed, queue, lag, due, since, host, ledger, told, movedDue, final>> /\ Quiet

ExitCore ==
    /\ Loop("ended")
    /\ loop' = Idle("gone")
    /\ UNCHANGED <<owed, queue, lag, due, since, host, ledger, out, told, movedDue, final>> /\ Quiet

-----------------------------------------------------------------------------
(* The machine.                                                            *)

Outside == loop.pc \notin {"judge", "ended", "gone"}

World ==
    /\ Outside
    /\ UNCHANGED <<client, owed, reader, queue, loop, lag, due, since, ledger, out, wrote, told, movedDue, final>>

FamilyEnds == host.alive /\ World /\ host' = [host EXCEPT !.alive = FALSE]
DueConverted == host.alive /\ ~host.dues /\ World /\ host' = [host EXCEPT !.dues = TRUE]
Sleeps == host.slept < MaxSlept /\ World /\ host' = [host EXCEPT !.slept = @ + 1]

\* A history is counted up to where it is too long.
UpTo(n, limit) == IF n < limit THEN n ELSE limit

CanGoOn ==
    \/ loop.pc # "waiting" \/ queue # <<>> \/ reader = "gone"
    \/ due.beat = 0 \/ due.poll = 0

Tick ==
    /\ loop.pc \notin Closing
    /\ CanGoOn => lag = 0
    /\ lag' = IF CanGoOn THEN 1 ELSE 0
    /\ due' = [d \in DOMAIN due |-> IF due[d] = 0 THEN 0 ELSE due[d] - 1]
    /\ since' = [beat |-> UpTo(since.beat + 1, Heartbeat + 2), poll |-> UpTo(since.poll + 1, ChildPoll + 2)]
    /\ loop' = [loop EXCEPT !.age = IF loop.pc = "waiting" THEN 0 ELSE @ + 1]
    /\ UNCHANGED <<client, owed, reader, queue, host, ledger, out, wrote, told, movedDue, final>>

-----------------------------------------------------------------------------
LoopStep ==
    \/ WriteLine \/ Receive \/ Disconnected \/ Timeout \/ Apply \/ Turn \/ Beat \/ LookAtFamily
    \/ Close \/ Final \/ JudgeSession \/ ExitCore

ReaderStep == ReadCommand \/ ReadJunk \/ ReadBroken \/ ReadEnd

Next ==
    \/ \E line \in LineKinds : Send(line)
    \/ CloseStdin
    \/ ReaderStep \/ LoopStep
    \/ FamilyEnds \/ DueConverted \/ Sleeps \/ Tick

Spec == Init /\ [][Next]_vars

\* The reader and the loop are threads the system runs, and time passes.
FairSpec == Spec /\ WF_vars(ReaderStep) /\ WF_vars(LoopStep) /\ WF_vars(Tick)

-----------------------------------------------------------------------------
\* The types of the variables.
TypeOK ==
    /\ inbox \in Seq(LineKinds) /\ stdin \in {"open", "closed"} /\ reader \in {"reading", "gone"}
    /\ queue \in Seq(Commands)
    /\ owed \in Nat
    /\ loop \in [pc : {"waiting", "apply", "turn", "beat", "family"} \cup Closing,
                 hand : Commands, at : 1..3, age : 0..1]
    /\ lag \in 0..1
    /\ due \in [beat : 0..Heartbeat, poll : 0..ChildPoll] /\ since \in [beat : Nat, poll : Nat]
    /\ host \in [alive : BOOLEAN, dues : BOOLEAN, slept : 0..MaxSlept]
    /\ ledger \in [moved : BOOLEAN, announced : 0..MaxSlept]
    /\ told \in Nat /\ movedDue \in BOOLEAN
    /\ final \in [slept : 0..MaxSlept, moved : BOOLEAN]

\* While the session runs, the heartbeat and the child poll are never more than one tick
\* behind their time, however many commands come back to back (the comment in
\* `run_session`: "`state` stopped being emitted for as long as the client kept talking").
CadenceKept ==
    loop.pc \notin Closing => since.beat <= Heartbeat + 1 /\ since.poll <= ChildPoll + 1

\* A clock moved with a converted deadline pending is said at the end (R5-D2): the count is
\* read after the move, so one converted just before it is in.
MovedDueIsSaid == loop.pc \in {"judge", "ended", "gone"} /\ movedDue => final.moved

\* The sleep the log was told about is the sleep the verdict reports, told once, short of
\* less than the threshold (R5-P1).
SleepIsToldOnce ==
    /\ told <= host.slept
    /\ loop.pc \in {"judge", "ended", "gone"} => told <= final.slept /\ final.slept - told < Reported

\* Every command that wants an answer has had one, once, when the loop has taken what was
\* sent (`apply_command`: a client waiting on `ack` never "waits for ever").
EveryCommandIsAnswered ==
    loop.pc = "waiting" /\ inbox = <<>> /\ queue = <<>> /\ out = <<>> => owed = 0

\* A session whose family has ended ends, whatever the client keeps asking.
FamilyHasEnded == ~host.alive /\ loop.pc # "gone"
EndsAfterFamily == FamilyHasEnded ~> ~FamilyHasEnded

\* How far the core has got, for CoreOutput: a line is out once it is written.
Stage ==
    CASE loop.pc = "gone" -> "left"
      [] loop.pc = "ended" /\ out = <<>> -> "ended"
      [] loop.pc = "ended" /\ Len(out) = 1 -> "judged"
      [] OTHER -> "running"

Output == INSTANCE CoreOutput WITH
              Lines <- {"said"}, stage <- Stage, wrote <- wrote

\* The running session keeps what a core promises on its stdout, from `verdict` on: one
\* session verdict, then one `ended`, then nothing of the session.
KeepsItsPromise == [][Output!OutputNext]_<<Stage, wrote>>

\* The end of a session says what happened in it: a due time converted before a clock was moved,
\* and the machine's sleep, each once.
EndSaysItAll == TypeOK /\ MovedDueIsSaid /\ SleepIsToldOnce

\* However closely the lines come, good and bad, the loop keeps its time and owes no answer.
LoopIsPrompt == CadenceKept /\ EveryCommandIsAnswered
=============================================================================
