---------------------------- MODULE DevToolsCalls ----------------------------
(***************************************************************************)
(* The DevTools client over that socket (crates/cli cdp/mod.rs CdpClient): *)
(* commands are sent and their replies awaited in turn, each by a deadline,*)
(* and what comes in between is parked in a bounded queue that the session *)
(* polls.  A message is known by its kind - an event the session reads     *)
(* (target), one it does not (event), a reply, text that is not JSON even  *)
(* once its surrogates are repaired (junk) - and a target event by its     *)
(* number.                                                                 *)
(***************************************************************************)
EXTENDS Integers, SequencesExt

CONSTANTS
    MAX_QUEUED_EVENTS,  \* the cap of the queue
    CALL_TICKS,         \* how long a call may wait for its reply
    MaxTargets,         \* bound: target events the browser sends
    MaxCalls            \* bound: commands sent

ASSUME DevToolsCallsAssumption ==
    MAX_QUEUED_EVENTS \in Nat \ {0} /\ {CALL_TICKS, MaxTargets, MaxCalls} \subseteq Nat

VARIABLES
    saidTargets,    \* target events the browser sent
    asked,          \* commands the browser has not replied to
    call,           \* the reply that is awaited, 0 for none, and the time left for it
    awaitable,      \* commands sent whose reply is still to be awaited
    queued,         \* CdpClient.queued
    notices,        \* what the queue dropped and said once
    nextId,         \* the next command's number
    handled,        \* the last target event the session took
    missedReplies,  \* replies that had come when their call ran out of time
    linkOver        \* the socket's word that the connection is over

callsVars == <<saidTargets, asked, call, awaitable, queued, notices, nextId, handled, missedReplies, linkOver>>

TargetEvent(n) == [kind |-> "target", n |-> n]
ReplyTo(id) == [kind |-> "reply", n |-> id]
OtherEvent     == [kind |-> "event", n |-> 0]
Junk      == [kind |-> "junk", n |-> 0]

NoCall == [id |-> 0, left |-> 0]

CallsInit ==
    /\ saidTargets = 0 /\ asked = {} /\ call = NoCall /\ awaitable = {} /\ queued = <<>>
    /\ notices = [lost |-> {}, spent |-> FALSE, target |-> FALSE]
    /\ nextId = 1 /\ handled = 0 /\ missedReplies = {} /\ linkOver = FALSE

\* The browser's next message: an event at any time, a reply to what it was asked.
MessageComes(m) ==
    /\ ~linkOver
    /\ \/ m \in {OtherEvent, Junk} /\ UNCHANGED <<saidTargets, asked>>
       \/ saidTargets < MaxTargets /\ m = TargetEvent(saidTargets + 1) /\ saidTargets' = saidTargets + 1 /\ UNCHANGED asked
       \/ m.kind = "reply" /\ m.n \in asked /\ asked' = asked \ {m.n} /\ UNCHANGED saidTargets

CallMessages == {OtherEvent, Junk} \cup {TargetEvent(n) : n \in 1..MaxTargets} \cup {ReplyTo(n) : n \in 1..MaxCalls}

-----------------------------------------------------------------------------
\* Mutant: at the cap the oldest message goes, of whatever kind, and is called spent.
PushOldest(m) ==
    IF Len(queued) >= MAX_QUEUED_EVENTS
    THEN queued' = Append(Tail(queued), m) /\ notices' = [notices EXCEPT !.spent = TRUE]
    ELSE queued' = Append(queued, m) /\ UNCHANGED notices

\* `push_bounded`: the oldest message that is not a target event makes room for the next,
\* and the oldest target event only in a queue of nothing else at twice the cap.
OldestSpent == SelectInSeq(queued, LAMBDA m : m.kind # "target")

PushBounded(m) ==
    CASE Len(queued) >= MAX_QUEUED_EVENTS /\ OldestSpent # 0 ->
           /\ queued' = Append(RemoveAt(queued, OldestSpent), m)
           /\ notices' = [notices EXCEPT !.spent = TRUE]
      [] Len(queued) >= 2 * MAX_QUEUED_EVENTS /\ OldestSpent = 0 ->
           /\ queued' = Append(Tail(queued), m)
           /\ notices' = [notices EXCEPT !.target = TRUE, !.lost = @ \cup {Head(queued).n}]
      [] OTHER -> queued' = Append(queued, m) /\ UNCHANGED notices

\* `send`; one that fails ends the connection.
CallSends ==
    /\ call = NoCall /\ ~linkOver /\ nextId <= MaxCalls /\ nextId' = nextId + 1
    /\ \/ asked' = asked \cup {nextId} /\ awaitable' = awaitable \cup {nextId} /\ UNCHANGED linkOver
       \/ linkOver' = TRUE /\ UNCHANGED <<asked, awaitable>>
    /\ UNCHANGED <<saidTargets, call, queued, notices, handled, missedReplies>>

\* The queue is looked through once, before the wait.
QueuedReply(id) == SelectInSeq(queued, LAMBDA m : m = ReplyTo(id))

\* `reply_until`, by a deadline the caller set - for a sequence of calls the sequence's.
CallAwaits ==
    /\ call = NoCall
    /\ \E id \in awaitable, left \in 0..CALL_TICKS :
         /\ awaitable' = awaitable \ {id}
         /\ IF QueuedReply(id) # 0 THEN queued' = RemoveAt(queued, QueuedReply(id)) /\ UNCHANGED call
                              ELSE call' = [id |-> id, left |-> left] /\ UNCHANGED queued
    /\ UNCHANGED <<saidTargets, asked, notices, nextId, handled, missedReplies, linkOver>>

\* Mutant: the deadline is looked at only when the connection has nothing to read.
RunsOutWhenQuiet ==
    /\ call.id # 0 /\ linkOver /\ call' = NoCall
    /\ missedReplies' = IF call.id \in asked THEN missedReplies ELSE missedReplies \cup {call.id}
    /\ UNCHANGED <<saidTargets, asked, awaitable, queued, notices, nextId, handled, linkOver>>

\* The deadline is looked at on every pass, not only when the connection is quiet.
CallRunsOut ==
    /\ call.id # 0 /\ (call.left = 0 \/ linkOver) /\ call' = NoCall
    /\ missedReplies' = IF call.id \in asked THEN missedReplies ELSE missedReplies \cup {call.id}
    /\ UNCHANGED <<saidTargets, asked, awaitable, queued, notices, nextId, handled, linkOver>>

CallTakes ==
    /\ call.id # 0 /\ call.left > 0
    /\ \E m \in CallMessages :
         /\ MessageComes(m)
         /\ CASE m = ReplyTo(call.id) -> call' = NoCall /\ UNCHANGED <<queued, notices>>
              [] m = Junk -> UNCHANGED <<call, queued, notices>>
              [] OTHER -> PushBounded(m) /\ UNCHANGED call
    /\ UNCHANGED <<awaitable, nextId, handled, missedReplies, linkOver>>

\* A socket with nothing to read gives the wait back when the time left is over.
CallTimePasses ==
    /\ call.left > 0 /\ call' = [call EXCEPT !.left = @ - 1]
    /\ UNCHANGED <<saidTargets, asked, awaitable, queued, notices, nextId, handled, missedReplies, linkOver>>

ConnectionCloses ==
    /\ ~linkOver /\ linkOver' = TRUE
    /\ UNCHANGED <<saidTargets, asked, call, awaitable, queued, notices, nextId, handled, missedReplies>>

\* `poll`, `poll_for`, `poll_ready`: a queued message first, else what the socket has.  The
\* session waits for no reply it polled.
CallPolls ==
    /\ call = NoCall
    /\ \E m \in CallMessages :
         /\ IF queued # <<>> THEN m = Head(queued) /\ queued' = Tail(queued) /\ UNCHANGED <<saidTargets, asked>>
                             ELSE MessageComes(m) /\ UNCHANGED queued
         /\ handled' = IF m.kind = "target" THEN m.n ELSE handled
         /\ awaitable' = IF m.kind = "reply" THEN awaitable \ {m.n} ELSE awaitable
    /\ UNCHANGED <<call, notices, nextId, missedReplies, linkOver>>

CallEnds == CallRunsOut \/ CallTakes \/ CallTimePasses
CallsNext == CallSends \/ CallAwaits \/ CallEnds \/ ConnectionCloses \/ CallPolls

-----------------------------------------------------------------------------
CallsTypeOK ==
    /\ saidTargets \in 0..MaxTargets /\ handled \in 0..MaxTargets
    /\ {asked, awaitable, missedReplies} \subseteq SUBSET (1..MaxCalls) /\ nextId \in 1..MaxCalls + 1
    /\ call \in [id : 0..MaxCalls, left : 0..CALL_TICKS]
    /\ queued \in BoundedSeq(CallMessages \ {Junk}, 2 * MAX_QUEUED_EVENTS)

\* Where target events are parked, and their numbers.
ParkedAt == {i \in DOMAIN queued : queued[i].kind = "target"}
Parked == {queued[i].n : i \in ParkedAt}

\* The session gets the target events in their order and each once, though calls in between
\* park them; one it never gets was dropped from a queue of nothing else, and that was said:
\* a context paused at its start waits for the session (cdp/mod.rs push_bounded).
TargetsComeInOrder ==
    /\ \A i \in ParkedAt : queued[i].n > handled
    /\ \A i, j \in ParkedAt : i < j => queued[i].n < queued[j].n
    /\ (handled + 1)..saidTargets \subseteq Parked \cup notices.lost
    /\ notices.lost # {} => notices.target

\* A call does not wait for a reply that has come: when one runs out of time and its reply
\* was there, the queue had dropped it for room, and that was said (cdp/mod.rs reply_until).
RepliesAreFound ==
    /\ call.id # 0 => ReplyTo(call.id) \notin ToSet(queued)
    /\ missedReplies # {} => notices.spent

CallsAreSound == CallsTypeOK /\ TargetsComeInOrder /\ RepliesAreFound

\* A call ends by its deadline however much the browser says in the meantime (cdp/mod.rs
\* reply_until; the session's heartbeat and commands wait behind it).
CallIsUnderWay == call.id # 0
CallsReturn == CallIsUnderWay ~> ~CallIsUnderWay
=============================================================================
