---------------------------- MODULE DevToolsSocket ----------------------------
(***************************************************************************)
(* The WebSocket under a DevTools connection (crates/cli cdp/ws.rs): a     *)
(* reader thread assembles messages and answers pings, the owner sends and *)
(* polls, and the two share the write half under a lock and the messages   *)
(* through a bounded inbox.                                                *)
(*                                                                         *)
(* The unit on the wire is a frame: a read that ends inside one leaves it  *)
(* where it is, so what the reader has buffered and what is on its way are *)
(* one sequence.  Messages are numbered, and lengths are parts.            *)
(***************************************************************************)
EXTENDS Integers, SequencesExt

CONSTANTS
    INBOX,         \* messages the reader holds for a busy owner
    MAX_WS_PARTS,  \* MAX_WS_BYTES, in parts of a message
    WireRoom,      \* frames each direction of the connection holds
    MaxMessages,   \* bound: messages the browser sends
    MaxPings,      \* bound: pings it sends
    MaxSends       \* bound: commands the owner sends

ASSUME DevToolsSocketAssumption ==
    /\ {INBOX, MAX_WS_PARTS, WireRoom} \subseteq Nat \ {0}
    /\ {MaxMessages, MaxPings, MaxSends} \subseteq Nat

VARIABLES
    browser,    \* messages and pings sent, whether it reads and how it left
    incoming,   \* frames on their way to the reader's parser
    outgoing,   \* frames written and not taken by the browser
    torn,       \* who first stopped inside a frame, and whether the same one wrote another after it
    writeLock,  \* who writes: "free", "reader", "owner"
    wsReader,   \* what the thread does, what it hands over, parts of the message it is in
    inbox,      \* what it handed over: messages, and the end
    wsOwner,    \* what the owner does, what it sent and the last message it took
    wsOver      \* WsClient.over

socketVars == <<browser, incoming, outgoing, torn, writeLock, wsReader, inbox, wsOwner, wsOver>>

\* Among the messages, the end of the connection; and no message.
EndOfSocket  == -1
NoMessage == 0

Frame(op, of) == [op |-> op, of |-> of]

SocketInit ==
    /\ browser = [said |-> 0, pings |-> 0, reads |-> TRUE, left |-> "no"]
    /\ incoming = <<>> /\ outgoing = <<>>
    /\ torn = [by |-> "nobody", again |-> FALSE]
    /\ writeLock = "free"
    /\ wsReader = [at |-> "reading", hands |-> NoMessage, parts |-> 0]
    /\ inbox = <<>>
    /\ wsOwner = [at |-> "turn", sent |-> 0, took |-> 0]
    /\ wsOver = FALSE

-----------------------------------------------------------------------------
(* The browser.                                                            *)

OurSide == <<torn, writeLock, wsReader, inbox, wsOwner, wsOver>>

BrowserPuts(frame) == /\ browser.left = "no" /\ Len(incoming) < WireRoom
                /\ incoming' = Append(incoming, frame)

\* A part of a message that goes on, its last part - which says the message it was - or a
\* control frame, which may come between two parts: a ping, the close frame, or bytes no
\* frame can be read from.
BrowserSends ==
    /\ \/ BrowserPuts(Frame("part", NoMessage)) /\ UNCHANGED browser
       \/ /\ browser.said < MaxMessages /\ BrowserPuts(Frame("last", browser.said + 1))
          /\ browser' = [browser EXCEPT !.said = @ + 1]
       \/ /\ browser.pings < MaxPings /\ BrowserPuts(Frame("ping", NoMessage))
          /\ browser' = [browser EXCEPT !.pings = @ + 1]
       \/ \E op \in {"close", "unusable"} :
             /\ BrowserPuts(Frame(op, NoMessage)) /\ browser' = [browser EXCEPT !.left = "closed"]
    /\ UNCHANGED outgoing /\ UNCHANGED OurSide

\* A hung browser stops reading, one that ends closes its side, or resets the connection:
\* what had not been read is lost.
BrowserLeaves ==
    /\ browser.left = "no"
    /\ \/ browser.reads /\ browser' = [browser EXCEPT !.reads = FALSE] /\ UNCHANGED incoming
       \/ browser' = [browser EXCEPT !.left = "closed"] /\ UNCHANGED incoming
       \/ /\ browser' = [browser EXCEPT !.left = "reset"]
          /\ \E n \in 0..Len(incoming) : incoming' = SubSeq(incoming, 1, n)
    /\ UNCHANGED outgoing /\ UNCHANGED OurSide

\* It answers our close frame with the end of its side.
BrowserReads ==
    /\ outgoing # <<>> /\ browser.reads /\ browser.left = "no"
    /\ outgoing' = Tail(outgoing)
    /\ browser' = IF Head(outgoing) = "close" THEN [browser EXCEPT !.left = "closed"] ELSE browser
    /\ UNCHANGED incoming /\ UNCHANGED OurSide

-----------------------------------------------------------------------------
(* Writing, under the lock.                                                *)

\* `Writer::frame`: it is written whole, or the write times out or fails - and may then have
\* written a part of it.
Written(who, frame, whole) ==
    /\ writeLock = who /\ writeLock' = "free"
    /\ IF whole
       THEN /\ Len(outgoing) < WireRoom /\ browser.left # "reset"
            /\ outgoing' = Append(outgoing, frame)
            /\ torn' = [torn EXCEPT !.again = @ \/ torn.by = who]
       ELSE /\ Len(outgoing) = WireRoom \/ browser.left # "no"
            /\ \E by \in IF torn.by = "nobody" THEN {who, "nobody"} ELSE {torn.by} :
                  torn' = [torn EXCEPT !.by = by]
            /\ UNCHANGED outgoing

-----------------------------------------------------------------------------
(* The reader thread.                                                      *)

ReaderAtEnd == [wsReader EXCEPT !.at = "handing", !.hands = EndOfSocket]

\* `read_loop` and `take_message`: the next frame, waited for with no timeout.
ReaderParses ==
    /\ wsReader.at = "reading" /\ incoming # <<>> /\ incoming' = Tail(incoming)
    /\ LET f == Head(incoming) IN
         wsReader' = CASE f.op = "ping" -> [wsReader EXCEPT !.at = "pong"]
                     [] f.op \in {"close", "unusable"} -> ReaderAtEnd
                     [] OTHER -> IF wsReader.parts = MAX_WS_PARTS THEN ReaderAtEnd
                                 ELSE IF f.op = "part" THEN [wsReader EXCEPT !.parts = @ + 1]
                                 ELSE [at |-> "handing", hands |-> f.of, parts |-> 0]
    /\ UNCHANGED <<browser, outgoing, torn, writeLock, inbox, wsOwner, wsOver>>

ReaderSeesTheEnd ==
    /\ wsReader.at = "reading" /\ incoming = <<>> /\ browser.left # "no" /\ wsReader' = ReaderAtEnd
    /\ UNCHANGED <<browser, incoming, outgoing, torn, writeLock, inbox, wsOwner, wsOver>>

ReaderLocks ==
    /\ wsReader.at = "pong" /\ writeLock = "free" /\ writeLock' = "reader"
    /\ UNCHANGED <<browser, incoming, outgoing, torn, wsReader, inbox, wsOwner, wsOver>>

ReaderPongs ==
    /\ \E whole \in BOOLEAN :
         /\ Written("reader", "pong", whole)
         /\ wsReader' = IF whole THEN [wsReader EXCEPT !.at = "reading"] ELSE ReaderAtEnd
    /\ UNCHANGED <<browser, incoming, inbox, wsOwner, wsOver>>

\* A send into the bounded inbox waits for room, and fails once the owner is gone.
ReaderHands ==
    /\ wsReader.at = "handing"
    /\ IF wsOwner.at = "gone"
       THEN wsReader' = [wsReader EXCEPT !.at = "gone"] /\ UNCHANGED inbox
       ELSE /\ Len(inbox) < INBOX /\ inbox' = Append(inbox, wsReader.hands)
            /\ wsReader' = [wsReader EXCEPT !.at = IF wsReader.hands = EndOfSocket THEN "gone" ELSE "reading",
                                        !.hands = NoMessage]
    /\ UNCHANGED <<browser, incoming, outgoing, torn, writeLock, wsOwner, wsOver>>

-----------------------------------------------------------------------------
(* The owner.                                                              *)

OwnerLeavesAlone == UNCHANGED <<browser, incoming, wsReader>>

\* `send_text`: refused at once on a connection that is over.
OwnerSends ==
    /\ wsOwner.at = "turn" /\ ~wsOver /\ wsOwner.sent < MaxSends
    /\ wsOwner' = [wsOwner EXCEPT !.at = "send", !.sent = @ + 1]
    /\ UNCHANGED <<wsOver, inbox, outgoing, torn, writeLock>> /\ OwnerLeavesAlone

OwnerLocks ==
    /\ wsOwner.at \in {"send", "drop"} /\ writeLock = "free" /\ writeLock' = "owner"
    /\ UNCHANGED <<wsOwner, wsOver, inbox, outgoing, torn>> /\ OwnerLeavesAlone

OwnerWrites ==
    /\ wsOwner.at = "send"
    /\ \E whole \in BOOLEAN :
         Written("owner", "text", whole) /\ wsOver' = ~whole
    /\ wsOwner' = [wsOwner EXCEPT !.at = "turn"]
    /\ UNCHANGED inbox /\ OwnerLeavesAlone

\* `poll_text_for` and `poll_text_ready`: a message, or the end once they are all taken.
OwnerPolls ==
    /\ wsOwner.at = "turn" /\ ~wsOver /\ inbox # <<>> /\ inbox' = Tail(inbox)
    /\ IF Head(inbox) = EndOfSocket THEN wsOver' = TRUE /\ UNCHANGED wsOwner
                               ELSE wsOwner' = [wsOwner EXCEPT !.took = Head(inbox)] /\ UNCHANGED wsOver
    /\ UNCHANGED <<outgoing, torn, writeLock>> /\ OwnerLeavesAlone

OwnerLetsGo ==
    /\ wsOwner.at = "turn" /\ wsOwner' = [wsOwner EXCEPT !.at = "drop"]
    /\ UNCHANGED <<wsOver, inbox, outgoing, torn, writeLock>> /\ OwnerLeavesAlone

\* `drop`: the close frame, but on a connection that is over, and our side ends.
OwnerCloses ==
    /\ wsOwner.at = "drop" /\ writeLock = "owner"
    /\ IF wsOver THEN writeLock' = "free" /\ UNCHANGED <<outgoing, torn>>
                 ELSE \E whole \in BOOLEAN : Written("owner", "close", whole)
    /\ wsOwner' = [wsOwner EXCEPT !.at = "gone"]
    /\ UNCHANGED <<wsOver, inbox>> /\ OwnerLeavesAlone

-----------------------------------------------------------------------------
BrowserMoves == BrowserSends \/ BrowserLeaves \/ BrowserReads
ReaderMoves == ReaderParses \/ ReaderSeesTheEnd \/ ReaderLocks \/ ReaderPongs \/ ReaderHands
OwnerReturns == OwnerLocks \/ OwnerWrites \/ OwnerCloses
OwnerMoves == OwnerSends \/ OwnerPolls \/ OwnerLetsGo \/ OwnerReturns

SocketNext == BrowserMoves \/ ReaderMoves \/ OwnerMoves

-----------------------------------------------------------------------------
(* Properties.                                                             *)

SocketTypeOK ==
    /\ browser \in [said : 0..MaxMessages, pings : 0..MaxPings, reads : BOOLEAN,
                    left : {"no", "closed", "reset"}]
    /\ Len(incoming) <= WireRoom /\ outgoing \in BoundedSeq({"text", "pong", "close"}, WireRoom)
    /\ inbox \in BoundedSeq(1..MaxMessages \cup {EndOfSocket}, INBOX)
    /\ wsReader \in [at : {"reading", "pong", "handing", "gone"}, parts : 0..MAX_WS_PARTS,
                   hands : 0..MaxMessages \cup {EndOfSocket}]
    /\ wsOwner \in [at : {"turn", "send", "drop", "gone"}, sent : 0..MaxSends, took : 0..MaxMessages]
    /\ writeLock \in {"free", "reader", "owner"} /\ wsOver \in BOOLEAN

\* What is on its way to the owner, in the order it would get it, and the messages of it.
Arriving == inbox \o (<<wsReader.hands>> \o [i \in DOMAIN incoming |-> incoming[i].of])
MessagesAt == {i \in DOMAIN Arriving : Arriving[i] > NoMessage}
Messages == {Arriving[i] : i \in MessagesAt}

\* The reader gave up on a message that goes on past the cap.
TooLong == wsReader.at \in {"handing", "gone"} /\ wsReader.parts = MAX_WS_PARTS

\* The owner gets every message once and in order, pings between its parts or not, whoever
\* is slow; what a reset takes away is the tail of them (ws.rs read_loop, take_message).
MessagesComeInOrder ==
    /\ \A i, j \in MessagesAt : i < j => Arriving[i] < Arriving[j]
    /\ \A m \in Messages : m > wsOwner.took
    /\ ~TooLong => \A m \in Messages : (wsOwner.took + 1)..m \subseteq Messages
    /\ ~TooLong /\ browser.left # "reset" => Messages = (wsOwner.took + 1)..browser.said

\* The end is the last thing the reader says (ws.rs read_loop).
TheEndIsLast == \A i \in DOMAIN inbox : inbox[i] = EndOfSocket => i = Len(inbox) /\ wsReader.at = "gone"

\* Nobody goes on writing after a frame it could not finish: the owner's connection is over
\* then, and the reader ends (ws.rs WRITE_TIMEOUT).  The other one learns of it later.
TornIsTheLast == ~torn.again

SocketIsSound == SocketTypeOK /\ MessagesComeInOrder /\ TheEndIsLast /\ TornIsTheLast

\* Whatever the browser does - stops reading with both directions full, leaves - a send and
\* a drop come back (ws.rs send_text, Drop).
WriteIsUnderWay == wsOwner.at \in {"send", "drop"}
WritesReturn == WriteIsUnderWay ~> ~WriteIsUnderWay

\* Once the owner is gone and the browser has closed its side, the reader thread ends.
ReaderIsLeft == wsOwner.at = "gone" /\ browser.left # "no" /\ wsReader.at # "gone"
ReaderEndsToo == ReaderIsLeft ~> ~ReaderIsLeft
=============================================================================
