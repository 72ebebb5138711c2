---------------------------- MODULE ClientsProofs ----------------------------
(***************************************************************************)
(* Proofs about the two clients of a core, CoreClient and RunDriver, for   *)
(* any room in the pipe, any limits and any callers.                       *)
(*                                                                         *)
(* What carries them is the stream: what the core wrote and the client has *)
(* not taken in, wherever it stands, in the order it was written.  Moving  *)
(* a line from one place to the next leaves it as it is.                   *)
(***************************************************************************)
EXTENDS MCClients, SequenceTheorems, WellFoundedInduction, TLAPS

\* The events of s are numbered from the one after low to high, in their order.
Numbered(low, s, high) ==
    /\ low <= high
    /\ \A i \in 1..Len(s) : s[i] # Noise => low < s[i].n /\ s[i].n <= high
    /\ \A i, j \in 1..Len(s) : i < j /\ s[i] # Noise /\ s[j] # Noise => s[i].n < s[j].n
    /\ \A k \in low + 1..high : \E i \in 1..Len(s) : s[i] # Noise /\ s[i].n = k

Has(s, kind) == \E i \in 1..Len(s) : s[i].kind = kind
Only(s, kinds) == \A i \in 1..Len(s) : s[i].kind \in kinds
Loud(s) == \E i \in 1..Len(s) : s[i] # Noise

\* A session's verdict is in s, and before its end.
JudgedFirst(s) ==
    \E i \in 1..Len(s) :
        /\ s[i].kind = "session_verdict"
        /\ \A j \in 1..Len(s) : s[j].kind = "ended" => i < j

-----------------------------------------------------------------------------
(* The panel's client.                                                     *)

InHand == IF readLoop.pc = "handing" THEN <<readLoop.event>> ELSE <<>>
Unread == InHand \o pipe

\* While the client reads, what it has handed on and what it has not make up what was written.
StreamInv ==
    readLoop.pc # "done" =>
        /\ Numbered(handed.n, Unread, written.events)
        /\ readLoop.pc = "handing" => readLoop.event # Noise
        /\ written.ended => endedRead \/ Has(Unread, "ended")

\* Who stands where in the shutdown.
ShutInv ==
    /\ readLoop.pc = "done" \/ shutDown \in {"join", "exit", "done"} => complete
    /\ shutDown \in {"drain", "join", "exit"} => HasExited \/ exitCode = "refused"
    /\ shutDown = "done" => exitCode # "unknown"
    /\ \A c \in Callers : caller[c] = "returned" => shutDown = "done"

\* The watchdog has run no longer than the core has been quiet.
WatchInv == pump.pc = "waiting" /\ channel = <<>> => pump.left > 0 /\ quiet + pump.left >= IdleLimit

ClientInv == TypeOK /\ NothingLeftOut /\ StreamInv /\ ShutInv /\ WatchInv

-----------------------------------------------------------------------------
(* The run driver.                                                         *)

Acting  == IF At("acting") THEN <<loop.event>> ELSE <<>>
Sending == IF reader.pc = "sending" THEN <<reader.line>> ELSE <<>>
Coming  == queue \o (Sending \o pipe)
Unheard == Acting \o Coming

\* What was said before the core could have refused the start.
OnlyReady == ~heard.opened /\ heard.errors = "none" /\ Only(Unheard, {"ready", "noise"})

\* Nothing but the refusal is to be heard of a core that refused the start.
OnlyRefusal ==
    /\ ~heard.opened
    /\ heard.errors = "refusals" \/ (heard.errors = "none" /\ Has(Unheard, "error"))
    /\ Only(Unheard, {"ready", "error", "noise"})

\* While the loop takes lines: what it has heard and what it has not make up what was written.
HearInv ==
    Receiving =>
        /\ Numbered(heard.n, Unheard, written.events)
        /\ At("acting") => loop.event # Noise
        /\ cut = "none" /\ ~heard.ended
        /\ reader.pc = "done" => pipe = <<>> /\ HasExited /\ ~holder
        /\ clock.gone => HasExited
        /\ wrote \in {"nothing", "ready"} => OnlyReady
        /\ stage \in {"refused", "left"} /\ ~written.ended => OnlyRefusal
        /\ written.judged => heard.judged \/ JudgedFirst(Unheard)
        /\ written.ended <=> Has(Unheard, "ended")
        /\ clock.idle <= silence \/ Loud(Coming)

\* The end of the core's output is the end of its session.
OutputInv ==
    /\ written.ended => stage \in {"ended", "left", "dead"}
    /\ stage = "ended" => written.ended
    /\ heard.ended => written.ended

\* Once the loop is over by itself it has heard all of a core that is gone, or its end.
OverInv ==
    ~Receiving /\ cut = "none" =>
        /\ heard.ended \/ HasExited
        /\ written.judged => heard.judged
        /\ stage = "left" => heard.ended \/ RefusedToStart

\* The names beside the report: one of them is the driver's own, while it writes it.
OneMine(kind) == \E i \in Names : folder.beside[i] = kind /\ \A j \in Names \ {i} : ~Mine(j)
NoneMine == \A i \in Names : ~Mine(i)
FolderInv ==
    /\ Receiving \/ At("closing") => result = "running" /\ ~folder.report /\ NoneMine
    /\ loop.pc \in {"evidence", "writing", "renaming"} =>
           folder.report /\ folder.file \in {"none", "old"} /\ result \notin {"running", "no_evidence"}
    /\ At("evidence") => NoneMine /\ ~folder.whole
    /\ At("writing") => OneMine("cut off") /\ ~folder.whole
    /\ At("renaming") => OneMine("whole")
    /\ Exited => result # "running"
    /\ EvidenceIsWhereItSays /\ NoHalfIsRead

RunInv ==
    /\ RunTypeOK /\ ~heard.gap /\ (heard.judged => heard.opened)
    /\ HearInv /\ OutputInv /\ OverInv /\ FolderInv
    /\ VerdictIsRead /\ ClosedIsNotLost

BothInv == (client = "panel" => ClientInv) /\ (client = "driver" => RunInv)

-----------------------------------------------------------------------------
(* Lines in a sequence.                                                    *)

LEMMA Bounds == /\ PipeRoom \in Nat /\ PipeRoom > 0 /\ IdleLimit \in Nat /\ IdleLimit > 0
                /\ MaxEvents \in Nat /\ MaxNoise \in Nat /\ ChannelRoom \in Nat /\ ChannelRoom > 0
                /\ QueueRoom \in Nat /\ QueueRoom > 0 /\ Timeout \in Nat /\ Timeout > 0
                /\ ScratchNames \in Nat
  BY CorePipeAssumption, CoreClientAssumption, RunDriverAssumption

LEMMA NoiseIsALine == Noise \in Event /\ Noise.n = 0 /\ Noise.kind = "noise"
  BY Bounds DEF Noise, Event

LEMMA Places ==
    ASSUME NEW s \in Seq(Event), NEW r \in Seq(Event), NEW e \in Event
    PROVE  /\ r \o s \in Seq(Event) /\ <<>> \o s = s /\ <<e>> \in Seq(Event) /\ <<>> \in Seq(Event)
           /\ Append(s, e) \in Seq(Event)
           /\ <<e>> \o s # <<>> /\ Head(<<e>> \o s) = e /\ Tail(<<e>> \o s) = s
           /\ r \o Append(s, e) = Append(r \o s, e)
           /\ Append(r, e) \o s = r \o (<<e>> \o s)
           /\ s # <<>> => Head(s) \in Event /\ Tail(s) \in Seq(Event) /\ <<Head(s)>> \o Tail(s) = s
<1>1. /\ r \o s \in Seq(Event) /\ <<>> \o s = s /\ <<e>> \in Seq(Event) /\ <<>> \in Seq(Event)
      /\ Append(s, e) \in Seq(Event)
  BY ConcatProperties, ConcatEmptySeq, AppendProperties
<1>2. /\ <<e>> \o s # <<>> /\ Head(<<e>> \o s) = e /\ Tail(<<e>> \o s) = s
  <2>1. <<e>> \o s \in Seq(Event) /\ Len(<<e>> \o s) = Len(s) + 1 /\ (<<e>> \o s)[1] = e
    BY <1>1, ConcatProperties, LenProperties
  <2>2. \A i \in 1..Len(s) : (<<e>> \o s)[i + 1] = s[i] BY <1>1, ConcatProperties, LenProperties
  <2>3. <<e>> \o s # <<>> BY <2>1, LenProperties
  <2>4. /\ Tail(<<e>> \o s) \in Seq(Event) /\ Len(Tail(<<e>> \o s)) = Len(s)
        /\ \A i \in 1..Len(s) : Tail(<<e>> \o s)[i] = s[i]
    BY <2>1, <2>2, <2>3, HeadTailProperties, LenProperties
  <2>5. Tail(<<e>> \o s) = s BY <2>4, SeqEqual
  <2> QED BY <2>1, <2>3, <2>5
<1>3. r \o Append(s, e) = Append(r \o s, e) BY <1>1, AppendIsConcat, ConcatAssociative
<1>4. Append(r, e) \o s = r \o (<<e>> \o s) BY <1>1, AppendIsConcat, ConcatAssociative
<1>5. ASSUME s # <<>> PROVE Head(s) \in Event /\ Tail(s) \in Seq(Event) /\ <<Head(s)>> \o Tail(s) = s
  <2>1. /\ Head(s) \in Event /\ Tail(s) \in Seq(Event) /\ Len(Tail(s)) = Len(s) - 1
        /\ \A i \in 1..Len(Tail(s)) : Tail(s)[i] = s[i + 1]
    BY <1>5, HeadTailProperties
  <2>2. <<Head(s)>> \in Seq(Event) /\ Len(<<Head(s)>>) = 1 /\ <<Head(s)>>[1] = s[1] BY <2>1
  <2>3. /\ <<Head(s)>> \o Tail(s) \in Seq(Event) /\ Len(<<Head(s)>> \o Tail(s)) = Len(s)
        /\ \A i \in 1..Len(s) : (<<Head(s)>> \o Tail(s))[i] = s[i]
    BY <2>1, <2>2, ConcatProperties, LenProperties, <1>5
  <2> QED BY <2>1, <2>3, SeqEqual
<1> QED BY <1>1, <1>2, <1>3, <1>4, <1>5

\* A line appended, and the first line taken, element by element.
LEMMA Appended ==
    ASSUME NEW s \in Seq(Event), NEW e \in Event
    PROVE  /\ Len(Append(s, e)) = Len(s) + 1 /\ Len(s) \in Nat /\ Append(s, e)[Len(s) + 1] = e
           /\ \A i \in 1..Len(s) : Append(s, e)[i] = s[i]
           /\ \A i \in 1..Len(s) : s[i] \in Event /\ s[i].n \in Nat
<1>1. \A i \in 1..Len(s) : s[i] \in Event BY ElementOfSeq
<1> QED BY <1>1, AppendProperties, LenProperties DEF Event

LEMMA Taken ==
    ASSUME NEW s \in Seq(Event), s # <<>>
    PROVE  /\ Len(s) \in Nat /\ Len(s) > 0 /\ Len(Tail(s)) = Len(s) - 1 /\ Head(s) = s[1] /\ Head(s) \in Event
           /\ Tail(s) \in Seq(Event)
           /\ \A i \in 1..(Len(s) - 1) : Tail(s)[i] = s[i + 1]
           /\ \A i \in 1..Len(s) : s[i] \in Event /\ s[i].n \in Nat
<1>1. /\ \A i \in 1..Len(s) : s[i] \in Event
      /\ Len(s) \in Nat /\ Len(s) > 0 /\ Head(s) \in Event /\ Tail(s) \in Seq(Event)
      /\ Len(Tail(s)) = Len(s) - 1
  BY ElementOfSeq, EmptySeq, HeadTailProperties
<1>2. \A i \in 1..(Len(s) - 1) : Tail(s)[i] = s[i + 1] BY <1>1, HeadTailProperties
<1> QED BY <1>1, <1>2 DEF Event

LEMMA NumberedAppend ==
    ASSUME NEW s \in Seq(Event), NEW e \in Event, NEW low \in Nat, NEW high \in Nat,
           Numbered(low, s, high), e # Noise, e.n = high + 1
    PROVE  Numbered(low, Append(s, e), high + 1)
<1> DEFINE t == Append(s, e)
<1>1. /\ Len(t) = Len(s) + 1 /\ Len(s) \in Nat /\ t[Len(s) + 1] = e
      /\ \A i \in 1..Len(s) : t[i] = s[i] /\ s[i].n \in Nat
  BY Appended
<1> HIDE DEF t
<1>2. \A i \in 1..Len(t) : t[i] # Noise => low < t[i].n /\ t[i].n <= high + 1 BY <1>1 DEF Numbered
<1>3. \A i, j \in 1..Len(t) : i < j /\ t[i] # Noise /\ t[j] # Noise => t[i].n < t[j].n
  BY <1>1 DEF Numbered
<1>4. ASSUME NEW k \in low + 1..high + 1 PROVE \E i \in 1..Len(t) : t[i] # Noise /\ t[i].n = k
  <2>1. CASE k = high + 1 BY <1>1, <2>1
  <2>2. CASE k # high + 1
    <3>1. PICK i \in 1..Len(s) : s[i] # Noise /\ s[i].n = k BY SMTT(60), <2>2 DEF Numbered
    <3> QED BY <1>1, <3>1
  <2> QED BY <2>1, <2>2
<1> QED BY SMTT(60), <1>2, <1>3, <1>4 DEF Numbered, t

LEMMA NumberedNoise ==
    ASSUME NEW s \in Seq(Event), NEW low \in Nat, NEW high \in Nat, Numbered(low, s, high)
    PROVE  Numbered(low, Append(s, Noise), high)
<1> DEFINE t == Append(s, Noise)
<1>1. /\ Len(t) = Len(s) + 1 /\ Len(s) \in Nat /\ t[Len(s) + 1] = Noise
      /\ \A i \in 1..Len(s) : t[i] = s[i]
  BY Appended, NoiseIsALine
<1> HIDE DEF t
<1>2. \A i \in 1..Len(t) : t[i] # Noise => i \in 1..Len(s) BY <1>1
<1>3. \A k \in low + 1..high : \E i \in 1..Len(t) : t[i] # Noise /\ t[i].n = k
  <2> TAKE k \in low + 1..high
  <2>1. PICK i \in 1..Len(s) : s[i] # Noise /\ s[i].n = k BY DEF Numbered
  <2> QED BY <1>1, <2>1
<1> QED BY <1>1, <1>2, <1>3 DEF Numbered, t

LEMMA NumberedPast ==
    ASSUME NEW s \in Seq(Event), s # <<>>, Head(s) = Noise, NEW low \in Nat, NEW high \in Nat, Numbered(low, s, high)
    PROVE  Numbered(low, Tail(s), high)
<1> DEFINE t == Tail(s)
<1>1. /\ Len(s) \in Nat /\ Len(s) > 0 /\ Len(t) = Len(s) - 1 /\ s[1] = Noise
      /\ \A i \in 1..(Len(s) - 1) : t[i] = s[i + 1]
  BY Taken
<1> HIDE DEF t
<1>2. ASSUME NEW k \in low + 1..high PROVE \E i \in 1..Len(t) : t[i] # Noise /\ t[i].n = k
  <2>1. PICK i \in 1..Len(s) : s[i] # Noise /\ s[i].n = k BY DEF Numbered
  <2>2. i - 1 \in 1..Len(t) /\ t[i - 1] = s[i] BY <1>1, <2>1
  <2> QED BY <2>1, <2>2
<1>3. \A i \in 1..Len(t) : i + 1 \in 1..Len(s) /\ t[i] = s[i + 1] BY <1>1
<1>4. \A i, j \in 1..Len(t) : i < j /\ t[i] # Noise /\ t[j] # Noise => t[i].n < t[j].n
  <2> TAKE i, j \in 1..Len(t)
  <2>1. i < j => i + 1 < j + 1 OBVIOUS
  <2> QED BY <1>3, <2>1 DEF Numbered
<1> QED BY <1>2, <1>3, <1>4 DEF Numbered, t

LEMMA NumberedNext ==
    ASSUME NEW s \in Seq(Event), s # <<>>, Head(s) # Noise, NEW low \in Nat, NEW high \in Nat, Numbered(low, s, high)
    PROVE  Head(s).n = low + 1 /\ low + 1 <= high /\ Numbered(low + 1, Tail(s), high)
<1> DEFINE t == Tail(s)
<1>1. /\ Len(s) \in Nat /\ Len(s) > 0 /\ Len(t) = Len(s) - 1 /\ Head(s) = s[1]
      /\ \A i \in 1..(Len(s) - 1) : t[i] = s[i + 1]
      /\ \A i \in 1..Len(s) : s[i].n \in Nat
  BY Taken
<1> HIDE DEF t
<1>2. low < s[1].n /\ s[1].n <= high BY <1>1 DEF Numbered
<1>3. PICK a \in 1..Len(s) : s[a] # Noise /\ s[a].n = low + 1
  <2>1. low + 1 \in low + 1..high BY <1>1, <1>2
  <2> QED BY <2>1 DEF Numbered
<1>4. a = 1 BY <1>1, <1>2, <1>3 DEF Numbered
<1>5. \A i \in 1..Len(t) : i + 1 \in 1..Len(s) /\ t[i] = s[i + 1] /\ 1 < i + 1 BY <1>1
<1>6. ASSUME NEW k \in low + 1 + 1..high PROVE \E i \in 1..Len(t) : t[i] # Noise /\ t[i].n = k
  <2>1. PICK i \in 1..Len(s) : s[i] # Noise /\ s[i].n = k BY DEF Numbered
  <2>2. i - 1 \in 1..Len(t) /\ t[i - 1] = s[i] BY <1>1, <1>3, <1>4, <2>1
  <2> QED BY <2>1, <2>2
<1>7. \A i \in 1..Len(t) : t[i] # Noise => low + 1 < t[i].n /\ t[i].n <= high
  BY <1>1, <1>3, <1>4, <1>5 DEF Numbered
<1>8. \A i, j \in 1..Len(t) : i < j /\ t[i] # Noise /\ t[j] # Noise => t[i].n < t[j].n
  <2> TAKE i, j \in 1..Len(t)
  <2>1. i < j => i + 1 < j + 1 OBVIOUS
  <2> QED BY <1>5, <2>1 DEF Numbered
<1> QED BY <1>1, <1>2, <1>3, <1>4, <1>6, <1>7, <1>8 DEF Numbered, t

LEMMA HasAppend ==
    ASSUME NEW s \in Seq(Event), NEW e \in Event, NEW kind
    PROVE  Has(Append(s, e), kind) <=> Has(s, kind) \/ e.kind = kind
  BY Appended DEF Has

LEMMA HasTail ==
    ASSUME NEW s \in Seq(Event), s # <<>>, NEW kind
    PROVE  Has(s, kind) <=> Head(s).kind = kind \/ Has(Tail(s), kind)
<1>1. /\ Len(s) \in Nat /\ Len(s) > 0 /\ Len(Tail(s)) = Len(s) - 1 /\ Head(s) = s[1]
      /\ \A i \in 1..(Len(s) - 1) : Tail(s)[i] = s[i + 1]
  BY Taken
<1>2. ASSUME Has(s, kind) PROVE Head(s).kind = kind \/ Has(Tail(s), kind)
  <2>1. PICK i \in 1..Len(s) : s[i].kind = kind BY <1>2 DEF Has
  <2>2. CASE i # 1
    <3>1. i - 1 \in 1..Len(Tail(s)) /\ Tail(s)[i - 1] = s[i] BY <1>1, <2>2
    <3> QED BY <2>1, <3>1 DEF Has
  <2> QED BY <1>1, <2>1, <2>2
<1> QED BY <1>1, <1>2 DEF Has

-----------------------------------------------------------------------------
(* The pipe.                                                               *)

PipeGoesOn == CoreWrites \/ CoreGoesOn \/ NoiseIsWritten \/ HolderCloses

LEMMA LineIsWritten ==
    ASSUME PipeTypeOK, CoreWrites
    PROVE  \E e \in Event :
               /\ e # Noise /\ e.n = written.events + 1 /\ e.kind = wrote'
               /\ pipe' = Append(pipe, e) /\ Len(pipe) < PipeRoom
               /\ written' \in [events : 0..MaxEvents, noise : 0..MaxNoise, judged : BOOLEAN, ended : BOOLEAN]
               /\ written'.events = written.events + 1
               /\ written'.ended <=> written.ended \/ wrote' = "ended"
               /\ written'.judged <=> written.judged \/ wrote' = "session_verdict"
               /\ wrote' \in Kinds /\ stage' \in {"starting", "running", "judged", "ended", "refused"}
<1> DEFINE e == [kind |-> wrote', n |-> written.events + 1]
<1>1. wrote' \in Kinds /\ stage' \in {"starting", "running", "judged", "ended", "refused"}
  BY DEF CoreWrites, Emits, Ready, Refuse, Start, EndOfStart, Say, Judge, End, ReaderSays, Write, Kinds, PipeTypeOK
<1>2. written.events \in 0..MaxEvents /\ written.events < MaxEvents /\ written.events + 1 \in 0..MaxEvents
  BY Bounds DEF CoreWrites, PipeTypeOK
<1>3. e \in Event /\ e # Noise /\ e.n = written.events + 1 /\ e.kind = wrote'
  BY <1>1, <1>2, NoiseIsALine DEF Event
<1> HIDE DEF e
<1>4. pipe' = Append(pipe, e) /\ Len(pipe) < PipeRoom BY DEF CoreWrites, e
<1>5. written' = [written EXCEPT !.events = written.events + 1,
                                 !.judged = written.judged \/ wrote' = "session_verdict",
                                 !.ended = written.ended \/ wrote' = "ended"]
  BY DEF CoreWrites
<1>6. /\ written' \in [events : 0..MaxEvents, noise : 0..MaxNoise, judged : BOOLEAN, ended : BOOLEAN]
      /\ written'.events = written.events + 1
      /\ written'.ended <=> written.ended \/ wrote' = "ended"
      /\ written'.judged <=> written.judged \/ wrote' = "session_verdict"
  BY <1>2, <1>5 DEF PipeTypeOK
<1> QED BY <1>1, <1>3, <1>4, <1>6

LEMMA NoiseComes ==
    ASSUME PipeTypeOK, NoiseIsWritten
    PROVE  /\ pipe' = Append(pipe, Noise) /\ Len(pipe) < PipeRoom
           /\ written' \in [events : 0..MaxEvents, noise : 0..MaxNoise, judged : BOOLEAN, ended : BOOLEAN]
           /\ written'.events = written.events /\ written'.ended = written.ended /\ written'.judged = written.judged
           /\ UNCHANGED <<stage, wrote, holder>>
<1>1. written.noise + 1 \in 0..MaxNoise BY Bounds DEF NoiseIsWritten, PipeTypeOK
<1> QED BY <1>1 DEF NoiseIsWritten, PipeTypeOK, promise

LEMMA PipeTypeStep ==
    ASSUME PipeTypeOK, PipeGoesOn \/ LineIsTaken
    PROVE  PipeTypeOK'
<1> USE Bounds
<1>1. CASE CoreWrites
  <2>1. PICK e \in Event :
            /\ pipe' = Append(pipe, e) /\ Len(pipe) < PipeRoom
            /\ written' \in [events : 0..MaxEvents, noise : 0..MaxNoise, judged : BOOLEAN, ended : BOOLEAN]
            /\ wrote' \in Kinds /\ stage' \in {"starting", "running", "judged", "ended", "refused"}
    BY <1>1, LineIsWritten
  <2>2. pipe' \in Seq(Event) /\ Len(pipe') <= PipeRoom
    <3>1. pipe \in Seq(Event) BY DEF PipeTypeOK
    <3> QED BY <2>1, <3>1, Places, Appended
  <2>3. holder' = holder BY <1>1 DEF CoreWrites
  <2> QED BY <2>1, <2>2, <2>3 DEF PipeTypeOK
<1>2. CASE CoreGoesOn BY <1>2 DEF CoreGoesOn, Run, Leave, Die, PipeTypeOK
<1>3. CASE NoiseIsWritten
  <2>1. pipe \in Seq(Event) BY DEF PipeTypeOK
  <2>2. pipe' \in Seq(Event) /\ Len(pipe') <= PipeRoom
    BY <1>3, <2>1, NoiseComes, NoiseIsALine, Places, Appended
  <2> QED BY <1>3, <2>2, NoiseComes DEF PipeTypeOK
<1>4. CASE HolderCloses BY <1>4 DEF HolderCloses, PipeTypeOK, promise
<1>5. CASE LineIsTaken
  <2>1. pipe \in Seq(Event) /\ pipe # <<>> /\ pipe' = Tail(pipe) /\ Len(pipe) <= PipeRoom
    BY <1>5 DEF LineIsTaken, PipeTypeOK
  <2>2. pipe' \in Seq(Event) /\ Len(pipe') <= PipeRoom BY <2>1, Taken
  <2> QED BY <1>5, <2>2 DEF LineIsTaken, PipeTypeOK, promise
<1> QED BY <1>1, <1>2, <1>3, <1>4, <1>5 DEF PipeGoesOn

LEMMA ExitIsForGood == ASSUME PipeGoesOn, HasExited PROVE HasExited'
  BY DEF PipeGoesOn, HasExited, CoreWrites, CoreGoesOn, NoiseIsWritten, HolderCloses, promise, Emits, Ready, Refuse, Start,
         EndOfStart, Say, Judge, End, ReaderSays, Write, Run, Leave, Die

-----------------------------------------------------------------------------
(* The panel's client keeps its invariant.                                 *)

LEMMA ClientInit == Init => ClientInv
<1> SUFFICES ASSUME Init PROVE ClientInv OBVIOUS
<1> USE Bounds DEF Init
<1>1. PipeTypeOK /\ pipe = <<>> /\ written.events = 0 /\ ~written.ended
  BY DEF PipeInit, OutputInit, PipeTypeOK, Kinds
<1>2. TypeOK
  <2>1. channel \in Seq(Event) /\ Len(channel) <= ChannelRoom BY NoiseIsALine, Places
  <2>2. /\ readLoop \in [pc : {"reading", "handing", "done"}, event : Event]
        /\ handed \in [n : 0..MaxEvents, gap : BOOLEAN]
        /\ pump \in [pc : {"handshake", "waiting", "handling", "hung", "refused", "over"}, left : 0..IdleLimit]
    BY NoiseIsALine DEF Reading
  <2>3. /\ caller \in [Callers -> {"no", "waiting", "returned"}] /\ quiet \in 0..IdleLimit
        /\ complete = FALSE /\ endedRead = FALSE /\ exitCode = "unknown" /\ shutDown = "no"
    <3>1. caller = [c \in Callers |-> "no"] /\ quiet = 0 OBVIOUS
    <3> QED BY <3>1
  <2> HIDE DEF Init
  <2> QED BY <1>1, <2>1, <2>2, <2>3 DEF TypeOK
<1>3. Unread = <<>> BY <1>1 DEF Unread, InHand, Reading
<1>4. StreamInv BY <1>1, <1>3 DEF StreamInv, Numbered, Reading
<1>5. NothingLeftOut /\ ShutInv /\ WatchInv BY DEF NothingLeftOut, ShutInv, WatchInv, Reading
<1> QED BY <1>2, <1>4, <1>5 DEF ClientInv

LEMMA ClientPipe ==
    ASSUME ClientInv, PipeMoves
    PROVE  ClientInv'
<1>1. PipeGoesOn /\ UNCHANGED clientVars BY DEF PipeMoves, PipeGoesOn
<1>2. TypeOK' /\ PipeTypeOK BY <1>1, PipeTypeStep DEF ClientInv, TypeOK, clientVars
<1>3. ShutInv' BY <1>1, ExitIsForGood DEF ClientInv, ShutInv, clientVars
<1>4. NothingLeftOut' /\ WatchInv' BY <1>1 DEF ClientInv, NothingLeftOut, WatchInv, clientVars
<1>5. StreamInv'
  <2> SUFFICES ASSUME readLoop.pc # "done"
               PROVE  Numbered(handed.n, Unread, written.events)' /\ (written'.ended => endedRead \/ Has(Unread', "ended"))
    BY <1>1 DEF StreamInv, ClientInv, clientVars
  <2>1. /\ InHand \in Seq(Event) /\ pipe \in Seq(Event) /\ Unread \in Seq(Event)
        /\ handed.n \in Nat /\ written.events \in Nat
        /\ Numbered(handed.n, Unread, written.events)
        /\ written.ended => endedRead \/ Has(Unread, "ended")
        /\ UNCHANGED <<handed, InHand, endedRead>>
    <3>1. readLoop.event \in Event /\ pipe \in Seq(Event) BY DEF ClientInv, TypeOK, PipeTypeOK
    <3>2. InHand \in Seq(Event) BY <3>1, Places DEF InHand
    <3> QED
      BY <1>1, <3>1, <3>2, Places, NoiseIsALine, Bounds DEF ClientInv, TypeOK, PipeTypeOK, StreamInv, Unread, InHand, clientVars
  <2>2. CASE CoreWrites
    <3>1. PICK e \in Event : /\ e # Noise /\ e.n = written.events + 1 /\ e.kind = wrote' /\ pipe' = Append(pipe, e)
                             /\ written'.events = written.events + 1
                             /\ written'.ended <=> written.ended \/ wrote' = "ended"
      BY <1>2, <2>2, LineIsWritten
    <3>2. Unread' = Append(Unread, e) BY <2>1, <3>1, Places DEF Unread
    <3> QED BY <2>1, <3>1, <3>2, NumberedAppend, HasAppend
  <2>3. CASE NoiseIsWritten
    <3>1. pipe' = Append(pipe, Noise) /\ written'.events = written.events /\ written'.ended = written.ended
      BY <1>2, <2>3, NoiseComes
    <3>2. Unread' = Append(Unread, Noise) BY <2>1, <3>1, Places, NoiseIsALine DEF Unread
    <3> QED BY <2>1, <3>1, <3>2, NumberedNoise, HasAppend, NoiseIsALine
  <2>4. CASE UNCHANGED <<pipe, written>> BY <2>1, <2>4 DEF Unread
  <2> QED BY <1>1, <2>2, <2>3, <2>4 DEF PipeGoesOn, CoreGoesOn, HolderCloses
<1> QED BY <1>2, <1>3, <1>4, <1>5 DEF ClientInv

LEMMA ClientReads ==
    ASSUME ClientInv, ReadStep
    PROVE  ClientInv'
<1>a. /\ TypeOK /\ PipeTypeOK /\ NothingLeftOut /\ StreamInv /\ ShutInv /\ WatchInv
      /\ pipe \in Seq(Event) /\ channel \in Seq(Event) /\ readLoop.event \in Event
      /\ handed.n \in Nat /\ written.events \in Nat /\ handed.gap = FALSE
  BY Bounds DEF ClientInv, TypeOK, PipeTypeOK, NothingLeftOut
<1>1. CASE TakeLine
  <2>1. /\ readLoop.pc = "reading" /\ pipe # <<>> /\ pipe' = Tail(pipe)
        /\ UNCHANGED <<stage, wrote, written, holder, channel, complete, endedRead, handed, shutDown, exitCode, caller, pump, quiet>>
    BY <1>1 DEF TakeLine, LineIsTaken, promise
  <2>2. PipeTypeOK' BY <1>1, <1>a, PipeTypeStep DEF TakeLine
  <2>3. Head(pipe) \in Event /\ Tail(pipe) \in Seq(Event) /\ <<Head(pipe)>> \o Tail(pipe) = pipe
        /\ <<>> \o pipe = pipe /\ <<>> \o Tail(pipe) = Tail(pipe)
    BY <1>a, <2>1, Places, NoiseIsALine
  <2>4. Numbered(handed.n, pipe, written.events) /\ (written.ended => endedRead \/ Has(pipe, "ended"))
    BY <1>a, <2>1, <2>3 DEF StreamInv, Unread, InHand
  <2>5. NothingLeftOut' /\ ShutInv' /\ WatchInv'
    <3>1. readLoop'.pc # "done" BY <1>1 DEF TakeLine, Reading, AfterNoise
    <3> QED BY <1>a, <2>1, <3>1 DEF NothingLeftOut, ShutInv, WatchInv, HasExited
  <2>6. CASE Head(pipe) = Noise
    <3>1. readLoop' = Reading BY <1>1, <2>6 DEF TakeLine, Reading, AfterNoise
    <3>2. Unread' = Tail(pipe) BY <2>1, <2>3, <3>1 DEF Unread, InHand, Reading
    <3>3. Numbered(handed.n, Tail(pipe), written.events) /\ (Has(pipe, "ended") => Has(Tail(pipe), "ended"))
      BY <1>a, <2>1, <2>4, <2>6, NumberedPast, HasTail, NoiseIsALine
    <3>4. TypeOK' BY <1>a, <2>1, <2>2, <3>1, NoiseIsALine DEF TypeOK, Reading
    <3>5. StreamInv' BY <2>1, <2>4, <3>1, <3>2, <3>3 DEF StreamInv, Reading
    <3> QED BY <2>5, <3>4, <3>5 DEF ClientInv
  <2>7. CASE Head(pipe) # Noise
    <3>1. readLoop' = [pc |-> "handing", event |-> Head(pipe)] BY <1>1, <2>7 DEF TakeLine
    <3>2. Unread' = pipe BY <2>1, <2>3, <3>1 DEF Unread, InHand
    <3>3. TypeOK' BY <1>a, <2>1, <2>2, <2>3, <3>1 DEF TypeOK
    <3>4. StreamInv' BY <2>1, <2>4, <2>7, <3>1, <3>2 DEF StreamInv
    <3> QED BY <2>5, <3>3, <3>4 DEF ClientInv
  <2> QED BY <2>6, <2>7
<1>2. CASE HandOn
  <2> DEFINE event == readLoop.event
  <2>1. /\ readLoop.pc = "handing" /\ ~complete /\ ~Full
        /\ channel' = Append(channel, event)
        /\ handed' = [n |-> event.n, gap |-> (handed.gap \/ event.n # handed.n + 1)]
        /\ endedRead' = (endedRead \/ event.kind = "ended")
        /\ quiet' = 0 /\ readLoop' = Reading
        /\ UNCHANGED <<pipeVars, complete, shutDown, exitCode, caller, pump>>
    BY <1>2 DEF HandOn, MayHandOn
  <2>2. /\ event \in Event /\ Unread = <<event>> \o pipe /\ Head(Unread) = event /\ Tail(Unread) = pipe /\ Unread # <<>>
        /\ Unread \in Seq(Event)
    BY <1>a, <2>1, Places DEF Unread, InHand
  <2>3. /\ Numbered(handed.n, Unread, written.events) /\ event # Noise
        /\ written.ended => endedRead \/ Has(Unread, "ended")
    BY <1>a, <2>1 DEF StreamInv
  <2> HIDE DEF event
  <2>4. event.n = handed.n + 1 /\ Numbered(handed.n + 1, pipe, written.events)
    <3>1. Head(Unread) # Noise BY <2>2, <2>3
    <3>2. Head(Unread).n = handed.n + 1 /\ Numbered(handed.n + 1, Tail(Unread), written.events)
      BY <1>a, <2>2, <2>3, <3>1, NumberedNext
    <3> QED BY <2>2, <3>2
  <2>5. handed'.n = handed.n + 1 /\ handed'.gap = FALSE BY <1>a, <2>1, <2>4
  <2>6. Unread' = pipe BY <1>a, <2>1, Places, NoiseIsALine DEF Unread, InHand, Reading, pipeVars
  <2>7. StreamInv'
    <3>1. written.ended => endedRead' \/ Has(pipe, "ended")
      BY ZenonT(60), <1>a, <2>1, <2>2, <2>3, HasTail
    <3> QED BY <2>1, <2>4, <2>5, <2>6, <3>1 DEF StreamInv, Reading, pipeVars
  <2>8. TypeOK'
    <3>1. channel' \in Seq(Event) /\ Len(channel') <= ChannelRoom
      <4>1. Len(channel) < ChannelRoom BY <1>a, <2>1, Bounds, LenProperties DEF Full, TypeOK
      <4> QED BY <1>a, <2>1, <2>2, <4>1, Bounds, Appended, Places
    <3>2. handed' \in [n : 0..MaxEvents, gap : BOOLEAN] BY <1>a, <2>1, <2>2, <2>5 DEF Event, TypeOK
    <3>3. readLoop' \in [pc : {"reading", "handing", "done"}, event : Event]
      BY <2>1, NoiseIsALine DEF Reading
    <3> QED BY <1>a, <2>1, <3>1, <3>2, <3>3, Bounds DEF TypeOK, PipeTypeOK, pipeVars, promise
  <2>9. NothingLeftOut' /\ ShutInv' /\ WatchInv'
    <3>1. channel' # <<>> /\ readLoop'.pc = "reading"
      BY <1>a, <2>1, <2>2, AppendProperties DEF Reading
    <3> QED BY <1>a, <2>1, <2>5, <3>1 DEF NothingLeftOut, ShutInv, WatchInv, HasExited, pipeVars, promise
  <2> QED BY <2>7, <2>8, <2>9 DEF ClientInv
<1>3. CASE HandOnFails \/ ReadEnd
  <2>1. /\ readLoop' = [Reading EXCEPT !.pc = "done"] /\ complete'
        /\ complete' \in BOOLEAN
        /\ UNCHANGED <<pipeVars, channel, endedRead, handed, shutDown, exitCode, caller, pump, quiet>>
    BY <1>3, <1>a DEF HandOnFails, ReadEnd, TypeOK
  <2>2. readLoop' \in [pc : {"reading", "handing", "done"}, event : Event] /\ readLoop'.pc = "done"
    BY <2>1, NoiseIsALine DEF Reading
  <2>3. TypeOK' BY <1>a, <2>1, <2>2 DEF TypeOK, PipeTypeOK, pipeVars, promise
  <2>4. NothingLeftOut' /\ StreamInv' /\ ShutInv' /\ WatchInv'
    BY <1>a, <2>1, <2>2 DEF NothingLeftOut, StreamInv, ShutInv, WatchInv, HasExited, pipeVars, promise
  <2> QED BY <2>3, <2>4 DEF ClientInv
<1> QED BY <1>1, <1>2, <1>3 DEF ReadStep

LEMMA ClientDisposes ==
    ASSUME ClientInv, ShutDownStep \/ \E c \in Callers : Dispose(c) \/ Return(c)
    PROVE  ClientInv'
<1>a. TypeOK /\ PipeTypeOK /\ NothingLeftOut /\ StreamInv /\ ShutInv /\ WatchInv
  BY DEF ClientInv, TypeOK
<1>1. /\ UNCHANGED <<pipe, written, holder, wrote, readLoop, channel, endedRead, handed, pump, quiet>>
      /\ stage' \in {stage, "dead"}
  BY DEF ShutDownStep, AskToEnd, ExitInTime, GraceOver, Drain, Join, TakeExitCode, ShutDown, Same, Dispose, Return,
         promise, pipeVars
<1>2. NothingLeftOut' /\ WatchInv' BY <1>a, <1>1 DEF NothingLeftOut, WatchInv
<1>3. StreamInv' BY <1>a, <1>1 DEF StreamInv, Unread, InHand
<1>4. HasExited => HasExited' BY <1>1 DEF HasExited
<1>5. /\ complete' \in BOOLEAN /\ exitCode' \in {"unknown", "refused", "known"}
      /\ shutDown' \in {"no", "begin", "grace", "drain", "join", "exit", "done"}
      /\ caller' \in [Callers -> {"no", "waiting", "returned"}]
  BY <1>a DEF ShutDownStep, AskToEnd, ExitInTime, GraceOver, Drain, Join, TakeExitCode, ShutDown, Same, Dispose, Return,
              TypeOK
<1>6. TypeOK' BY <1>a, <1>1, <1>5 DEF TypeOK, PipeTypeOK
<1>7. ShutInv'
  <2>1. CASE ShutDownStep
    BY <1>a, <1>1, <1>4, <2>1 DEF ShutDownStep, AskToEnd, ExitInTime, GraceOver, Drain, Join, TakeExitCode,
                            ShutDown, Same, ShutInv, HasExited, promise
  <2>2. CASE \E c \in Callers : Dispose(c) \/ Return(c)
    BY <1>a, <1>1, <1>4, <2>2 DEF Dispose, Return, ShutInv, HasExited, TypeOK, pipeVars, promise
  <2> QED BY <2>1, <2>2
<1> QED BY <1>2, <1>3, <1>6, <1>7 DEF ClientInv

LEMMA ClientPumps ==
    ASSUME ClientInv, PumpStep \/ HandshakeFails \/ Tick
    PROVE  ClientInv'
<1>a. /\ TypeOK /\ PipeTypeOK /\ NothingLeftOut /\ StreamInv /\ ShutInv /\ WatchInv
      /\ channel \in Seq(Event) /\ Len(channel) <= ChannelRoom
      /\ pump \in [pc : {"handshake", "waiting", "handling", "hung", "refused", "over"}, left : 0..IdleLimit]
      /\ quiet \in 0..IdleLimit /\ pump.left \in 0..IdleLimit
  BY DEF ClientInv, TypeOK
<1>1. UNCHANGED <<pipeVars, readLoop, complete, endedRead, handed, shutDown, exitCode, caller>>
  BY DEF PumpStep, Handshake, Handle, WaitAgain, StreamOver, HandshakeFails, Tick, Pump
<1>2. NothingLeftOut' /\ StreamInv' /\ ShutInv'
  BY <1>a, <1>1 DEF NothingLeftOut, StreamInv, ShutInv, Unread, InHand, HasExited, pipeVars, promise
<1>3. ASSUME channel' \in Seq(Event), Len(channel') <= ChannelRoom, quiet' \in 0..IdleLimit, WatchInv',
             pump' \in [pc : {"handshake", "waiting", "handling", "hung", "refused", "over"}, left : 0..IdleLimit]
      PROVE  ClientInv'
  <2>1. TypeOK' BY <1>a, <1>1, <1>3 DEF TypeOK, PipeTypeOK, pipeVars, promise
  <2> QED BY <1>2, <1>3, <2>1 DEF ClientInv
<1>4. channel # <<>> => Tail(channel) \in Seq(Event) /\ Len(Tail(channel)) <= ChannelRoom
  BY <1>a, Bounds, Taken
<1>5. CASE Handshake
  <2>1. /\ channel' = Tail(channel) /\ channel # <<>> /\ quiet' = quiet
        /\ pump'.left = IdleLimit
        /\ pump' \in [pc : {"handshake", "waiting", "handling", "hung", "refused", "over"}, left : 0..IdleLimit]
    BY <1>5, <1>a, Bounds DEF Handshake, Pump
  <2>2. WatchInv' BY <1>a, <2>1, Bounds DEF WatchInv
  <2> QED BY <1>3, <1>4, <1>a, <2>1, <2>2
<1>6. CASE HandshakeFails BY <1>6, <1>3, <1>a DEF HandshakeFails, Pump, WatchInv
<1>7. CASE Handle BY <1>7, <1>3, <1>4, <1>a DEF Handle, Pump, WatchInv
<1>8. CASE WaitAgain
  <2>1. pump' = [pc |-> "waiting", left |-> IdleLimit] /\ UNCHANGED <<channel, quiet>>
    BY <1>8, Bounds DEF WaitAgain, WindowAfter, Pump
  <2>2. WatchInv' BY <1>a, <2>1, Bounds DEF WatchInv
  <2> QED BY <1>3, <1>a, <2>1, <2>2, Bounds
<1>9. CASE StreamOver BY <1>9, <1>3, <1>a DEF StreamOver, Pump, WatchInv
<1>10. CASE Tick
  <2>1. /\ channel' = channel /\ quiet' \in 0..IdleLimit
        /\ quiet' = IF quiet = IdleLimit THEN quiet ELSE quiet + 1
    BY <1>10, <1>a, Bounds DEF Tick
  <2>2. \/ pump' = [pc |-> "hung", left |-> 0]
        \/ pump.left > 0 /\ pump' = [pump EXCEPT !.left = pump.left - 1] /\ ~(pump.pc = "waiting" /\ channel = <<>> /\ pump.left = 1)
        \/ ~(pump.left > 0) /\ pump' = pump
    BY <1>10 DEF Tick
  <2>3. pump' \in [pc : {"handshake", "waiting", "handling", "hung", "refused", "over"}, left : 0..IdleLimit]
    BY <1>a, <2>2, Bounds
  <2>4. WatchInv' BY SMTT(60), <1>a, <2>1, <2>2, Bounds DEF WatchInv
  <2> QED BY <1>3, <1>a, <2>1, <2>3, <2>4
<1> QED BY <1>5, <1>6, <1>7, <1>8, <1>9, <1>10 DEF PumpStep

LEMMA ClientKeeps == ClientInv /\ [Next]_vars => ClientInv'
<1> SUFFICES ASSUME ClientInv, [Next]_vars PROVE ClientInv' OBVIOUS
<1>1. CASE UNCHANGED vars
  BY <1>1 DEF ClientInv, TypeOK, PipeTypeOK, NothingLeftOut, StreamInv, Unread, InHand, ShutInv, WatchInv, HasExited,
              vars, clientVars, pipeVars, promise
<1> QED BY <1>1, ClientPipe, ClientReads, ClientDisposes, ClientPumps DEF Next

\* For any room in the pipe and the channel, any limit and any callers: the window gets what the
\* core wrote with nothing left out (the comment at MaxQueuedEvents), and who disposed of the client
\* knows the core's exit or that it could not be stopped (`DisposeAsync`).
THEOREM ClientSound == Spec => []ClientIsSound
<1>1. ClientInv => ClientIsSound BY DEF ClientInv, ShutInv, ClientIsSound, DisposedKnowsTheExit
<1> QED BY ClientInit, ClientKeeps, <1>1, PTL DEF Spec

\* The stream of a core that wrote `ended` and left closes with `ended` handed on, and the watchdog
\* speaks only of a core that was quiet for its whole window.
LEMMA PanelCuts == ClientInv /\ [Next]_vars => EndedIsHandedOn /\ HungMeansQuiet
<1> SUFFICES ASSUME ClientInv, [Next]_vars PROVE EndedIsHandedOn /\ HungMeansQuiet OBVIOUS
<1>a. /\ TypeOK /\ StreamInv /\ ShutInv /\ WatchInv /\ pipe \in Seq(Event)
      /\ quiet \in 0..IdleLimit /\ pump.left \in 0..IdleLimit
  BY DEF ClientInv, TypeOK, PipeTypeOK
<1>1. ASSUME complete', ~complete, HasExited, written.ended PROVE endedRead \/ (readLoop.pc = "handing" /\ Full)
  <2>1. ReadEnd \/ Drain
    BY <1>1 DEF Next, PipeMoves, ReadStep, TakeLine, HandOn, HandOnFails, ShutDownStep, AskToEnd, ExitInTime, GraceOver,
                Join, TakeExitCode, Same, PumpStep, Handshake, Handle, WaitAgain, StreamOver, HandshakeFails, Tick, Pump,
                Dispose, Return, vars, clientVars
  <2>2. readLoop.pc # "done" /\ shutDown # "done" BY <1>1, <1>a DEF ShutInv
  <2>3. ASSUME readLoop.pc = "reading", pipe = <<>> PROVE endedRead
    <3>1. Unread = <<>> BY <1>a, <2>3, Places, NoiseIsALine DEF Unread, InHand
    <3> QED BY <1>1, <1>a, <2>2, <3>1 DEF StreamInv, Has
  <2> QED BY <1>1, <2>1, <2>2, <2>3 DEF ReadEnd, Drain, ReaderStands, Eof
<1>2. ASSUME pump'.pc = "hung", pump.pc # "hung" PROVE quiet' = IdleLimit
  <2>1. Tick
    BY <1>2, <1>a, Bounds DEF Next, PipeMoves, ReadStep, TakeLine, HandOn, HandOnFails, ReadEnd, ShutDownStep, AskToEnd,
                ExitInTime, GraceOver, Drain, Join, TakeExitCode, ShutDown, Same, PumpStep, Handshake, Handle,
                WaitAgain, WindowAfter, StreamOver, HandshakeFails, Dispose, Return, vars, clientVars, TypeOK
  <2>2. pump.pc = "waiting" /\ channel = <<>> /\ pump.left = 1 BY <1>2, <1>a, <2>1 DEF Tick, TypeOK
  <2> QED BY <1>a, <2>1, <2>2, Bounds DEF Tick, WatchInv
<1> QED BY <1>1, <1>2 DEF EndedIsHandedOn, HungMeansQuiet

-----------------------------------------------------------------------------
(* What of the driver's stream is said by its kinds.                       *)

LEMMA KindsAppend ==
    ASSUME NEW s \in Seq(Event), NEW e \in Event
    PROVE  /\ \A kinds : Only(Append(s, e), kinds) <=> Only(s, kinds) /\ e.kind \in kinds
           /\ Loud(Append(s, e)) <=> Loud(s) \/ e # Noise
  BY Appended DEF Only, Loud

LEMMA KindsTail ==
    ASSUME NEW s \in Seq(Event), s # <<>>
    PROVE  /\ \A kinds : Only(s, kinds) => Head(s).kind \in kinds /\ Only(Tail(s), kinds)
           /\ Loud(s) => Head(s) # Noise \/ Loud(Tail(s))
<1> DEFINE t == Tail(s)
<1>1. /\ Len(s) \in Nat /\ Len(s) > 0 /\ Len(t) = Len(s) - 1 /\ Head(s) = s[1]
      /\ \A i \in 1..(Len(s) - 1) : t[i] = s[i + 1]
  BY Taken
<1> HIDE DEF t
<1>2. ASSUME Loud(s) PROVE Head(s) # Noise \/ Loud(t)
  <2>1. PICK i \in 1..Len(s) : s[i] # Noise BY <1>2 DEF Loud
  <2>2. CASE i # 1
    <3>1. i - 1 \in 1..Len(t) /\ t[i - 1] = s[i] BY <1>1, <2>2
    <3> QED BY <2>1, <3>1 DEF Loud
  <2> QED BY <1>1, <2>1, <2>2
<1>3. \A i \in 1..Len(t) : i + 1 \in 1..Len(s) /\ t[i] = s[i + 1] BY <1>1
<1> QED BY <1>1, <1>2, <1>3 DEF Only, t

LEMMA JudgedAppend ==
    ASSUME NEW s \in Seq(Event), NEW e \in Event, JudgedFirst(s) \/ (~Has(s, "ended") /\ e.kind = "session_verdict")
    PROVE  JudgedFirst(Append(s, e))
<1> DEFINE t == Append(s, e)
<1>1. /\ Len(t) = Len(s) + 1 /\ Len(s) \in Nat /\ t[Len(s) + 1] = e
      /\ \A i \in 1..Len(s) : t[i] = s[i]
  BY Appended
<1> HIDE DEF t
<1>2. CASE JudgedFirst(s)
  <2>1. PICK i \in 1..Len(s) : /\ s[i].kind = "session_verdict"
                               /\ \A j \in 1..Len(s) : s[j].kind = "ended" => i < j
    BY <1>2 DEF JudgedFirst
  <2>2. i \in 1..Len(t) /\ t[i].kind = "session_verdict" BY <1>1, <2>1
  <2>3. \A j \in 1..Len(t) : t[j].kind = "ended" => i < j BY <1>1, <2>1
  <2> QED BY <2>2, <2>3 DEF JudgedFirst, t
<1>3. CASE ~Has(s, "ended") /\ e.kind = "session_verdict"
  <2>1. Len(s) + 1 \in 1..Len(t) /\ t[Len(s) + 1].kind = "session_verdict" BY <1>1, <1>3
  <2>2. \A j \in 1..Len(t) : t[j].kind # "ended"
    <3> TAKE j \in 1..Len(t)
    <3>1. j \in 1..Len(s) \/ j = Len(s) + 1 BY <1>1
    <3> QED BY <1>1, <1>3, <3>1 DEF Has
  <2> QED BY <2>1, <2>2 DEF JudgedFirst, t
<1> QED BY <1>2, <1>3

LEMMA JudgedTail ==
    ASSUME NEW s \in Seq(Event), s # <<>>, JudgedFirst(s)
    PROVE  Head(s).kind # "ended" /\ (Head(s).kind = "session_verdict" \/ JudgedFirst(Tail(s)))
<1> DEFINE t == Tail(s)
<1>1. /\ Len(s) \in Nat /\ Len(s) > 0 /\ Len(t) = Len(s) - 1 /\ Head(s) = s[1]
      /\ \A i \in 1..(Len(s) - 1) : t[i] = s[i + 1]
  BY Taken
<1> HIDE DEF t
<1>2. PICK i \in 1..Len(s) : /\ s[i].kind = "session_verdict"
                             /\ \A j \in 1..Len(s) : s[j].kind = "ended" => i < j
  BY DEF JudgedFirst
<1>3. Head(s).kind # "ended" BY <1>1, <1>2
<1>4. CASE i # 1
  <2>1. i - 1 \in 1..Len(t) /\ t[i - 1].kind = "session_verdict" BY <1>1, <1>2, <1>4
  <2>2. \A j \in 1..Len(t) : t[j].kind = "ended" => i - 1 < j
    <3> TAKE j \in 1..Len(t)
    <3>1. j + 1 \in 1..Len(s) /\ t[j] = s[j + 1] BY <1>1
    <3> QED BY <1>1, <1>2, <3>1
  <2> QED BY <1>3, <2>1, <2>2 DEF JudgedFirst, t
<1> QED BY <1>1, <1>2, <1>3, <1>4

LEMMA NothingToHear ==
    ~JudgedFirst(<<>>) /\ ~Loud(<<>>) /\ \A kind : ~Has(<<>>, kind)
  BY DEF JudgedFirst, Loud, Has

-----------------------------------------------------------------------------
(* The driver keeps its invariant: the core and its pipe.                  *)

LEMMA RunInitInv == RunInit => RunInv
<1> SUFFICES ASSUME RunInit PROVE RunInv OBVIOUS
<1> USE Bounds DEF RunInit
<1>1. PipeTypeOK /\ pipe = <<>> /\ written.events = 0 /\ ~written.ended /\ ~written.judged /\ wrote = "nothing" /\ stage = "starting"
  BY DEF PipeInit, OutputInit, PipeTypeOK, Kinds
<1>2. reader.pc = "reading" /\ loop.pc = "look" /\ queue = <<>> /\ heard.n = 0 /\ ~heard.gap /\ ~heard.judged /\ ~heard.ended
      /\ ~heard.opened /\ heard.errors = "none" /\ cut = "none" /\ result = "running" /\ silence = 0 /\ clock.idle = 0 /\ ~clock.gone
      /\ ~folder.report /\ folder.file = "none" /\ folder.beside = [i \in Names |-> "free"]
  BY DEF LineReader, Looking
<1>3. RunTypeOK
  <2>1. /\ reader \in [pc : {"reading", "sending", "done"}, line : Event]
        /\ loop \in [pc : {"look", "wait", "acting", "closing", "evidence", "writing", "renaming", "exited", "died"},
                     event : Event]
        /\ queue \in Seq(Event) /\ Len(queue) <= QueueRoom
    BY NoiseIsALine, Places DEF LineReader, Looking
  <2>2. clock \in [idle : 0..IdleLimit, left : 0..NoLimit, gone : BOOLEAN]
    <3>1. {Timeout, NoLimit} \subseteq 0..NoLimit /\ 0 \in 0..IdleLimit BY DEF NoLimit
    <3>2. clock \in [idle : {0}, left : {Timeout, NoLimit}, gone : {FALSE}] OBVIOUS
    <3> HIDE DEF RunInit
    <3> QED BY <3>1, <3>2
  <2>3. /\ heard \in [opened : BOOLEAN, errors : {"none", "refusals", "others"}, judged : BOOLEAN,
                      ended : BOOLEAN, n : 0..MaxEvents, gap : BOOLEAN]
        /\ folder \in [report : BOOLEAN, file : {"none", "old", "cut off", "whole"}, whole : BOOLEAN,
                       beside : [Names -> {"free", "another's", "cut off", "whole"}]]
    OBVIOUS
  <2>4. cut \in {"none", "timeout", "idle"} /\ silence \in 0..IdleLimit /\ result = "running"
    OBVIOUS
  <2> HIDE DEF RunInit
  <2> QED BY <1>1, <2>1, <2>2, <2>3, <2>4 DEF RunTypeOK
<1> HIDE DEF RunInit
<1>4. Unheard = <<>> /\ Coming = <<>>
  BY <1>1, <1>2, Places, NoiseIsALine DEF Unheard, Coming, Acting, Sending, At
<1>5. HearInv BY <1>1, <1>2, <1>4, NothingToHear DEF HearInv, Numbered, At, OnlyReady, Only
<1>6. OutputInv /\ OverInv BY <1>1, <1>2 DEF OutputInv, OverInv, Receiving
<1>7. NoneMine BY <1>2 DEF NoneMine, Mine
<1>8. FolderInv /\ VerdictIsRead /\ ClosedIsNotLost
  BY <1>2, <1>7 DEF FolderInv, At, Receiving, Exited, EvidenceIsWhereItSays, NoHalfIsRead, VerdictIsRead, ClosedIsNotLost
<1> QED BY <1>2, <1>3, <1>5, <1>6, <1>8 DEF RunInv

LEMMA Streams ==
    ASSUME RunTypeOK
    PROVE  /\ pipe \in Seq(Event) /\ queue \in Seq(Event) /\ Sending \in Seq(Event) /\ Acting \in Seq(Event)
           /\ Sending \o pipe \in Seq(Event) /\ Coming \in Seq(Event) /\ Unheard \in Seq(Event)
           /\ loop.event \in Event /\ reader.line \in Event
           /\ heard.n \in 0..MaxEvents /\ written.events \in 0..MaxEvents /\ heard.n \in Nat /\ written.events \in Nat
<1>1. /\ pipe \in Seq(Event) /\ queue \in Seq(Event) /\ loop.event \in Event /\ reader.line \in Event
      /\ heard.n \in 0..MaxEvents /\ written.events \in 0..MaxEvents /\ heard.n \in Nat /\ written.events \in Nat
  <2>1. heard.n \in 0..MaxEvents /\ written.events \in 0..MaxEvents BY DEF RunTypeOK, PipeTypeOK
  <2>2. pipe \in Seq(Event) /\ queue \in Seq(Event) /\ loop.event \in Event /\ reader.line \in Event
    BY DEF RunTypeOK, PipeTypeOK
  <2> QED BY <2>1, <2>2, Bounds
<1>2. Sending \in Seq(Event) /\ Acting \in Seq(Event) BY <1>1, Places DEF Sending, Acting
<1>3. Sending \o pipe \in Seq(Event) BY <1>1, <1>2, Places, NoiseIsALine
<1>4. Coming \in Seq(Event) BY <1>1, <1>3, Places, NoiseIsALine DEF Coming
<1>5. Unheard \in Seq(Event) BY <1>2, <1>4, Places, NoiseIsALine DEF Unheard
<1> QED BY <1>1, <1>2, <1>3, <1>4, <1>5

\* Lines move from place to place: nothing is lost and nothing is heard.
LEMMA SameStream ==
    ASSUME RunInv, Unheard' = Unheard, Coming' = Coming,
           UNCHANGED <<written, wrote, stage, heard, cut>>, Receiving' => Receiving,
           Receiving' /\ At("acting")' => loop'.event # Noise,
           Receiving' /\ reader'.pc = "done" => pipe' = <<>> /\ HasExited /\ ~holder',
           Receiving' /\ clock'.gone => HasExited,
           Receiving' => clock'.idle <= silence' \/ Loud(Coming)
    PROVE  HearInv'
<1> SUFFICES ASSUME Receiving' PROVE HearInv' BY DEF HearInv
<1>1. HearInv /\ Receiving BY DEF RunInv
<1>2. /\ Numbered(heard.n, Unheard, written.events)' /\ (OnlyReady <=> OnlyReady') /\ (OnlyRefusal <=> OnlyRefusal')
      /\ (JudgedFirst(Unheard) <=> JudgedFirst(Unheard)') /\ (Has(Unheard, "ended") <=> Has(Unheard, "ended")')
      /\ (Loud(Coming) <=> Loud(Coming)')
  BY <1>1 DEF HearInv, OnlyReady, OnlyRefusal
<1>3. HasExited' <=> HasExited BY DEF HasExited
<1> QED BY <1>1, <1>2, <1>3 DEF HearInv

Readers == [pc : {"reading", "sending", "done"}, line : Event]
Loops == [pc : {"look", "wait", "acting", "closing", "evidence", "writing", "renaming", "exited", "died"}, event : Event]
RunClocks == [idle : 0..IdleLimit, left : 0..NoLimit, gone : BOOLEAN]
Accounts == [opened : BOOLEAN, errors : {"none", "refusals", "others"}, judged : BOOLEAN,
             ended : BOOLEAN, n : 0..MaxEvents, gap : BOOLEAN]
Folders == [report : BOOLEAN, file : {"none", "old", "cut off", "whole"}, whole : BOOLEAN,
            beside : [Names -> {"free", "another's", "cut off", "whole"}]]
Results == {"running", "verdict", "no_evidence", "other", "lost", "cut"}

LEMMA RunTypes ==
    RunTypeOK <=>
        /\ PipeTypeOK /\ reader \in Readers /\ queue \in Seq(Event) /\ Len(queue) <= QueueRoom /\ loop \in Loops
        /\ clock \in RunClocks /\ cut \in {"none", "timeout", "idle"} /\ silence \in 0..IdleLimit
        /\ heard \in Accounts /\ folder \in Folders /\ result \in Results
  BY DEF RunTypeOK, Readers, Loops, RunClocks, Accounts, Folders, Results

LEMMA RunTypesNext ==
    ASSUME PipeTypeOK', reader' \in Readers, queue' \in Seq(Event), Len(queue') <= QueueRoom, loop' \in Loops,
           clock' \in RunClocks, cut' \in {"none", "timeout", "idle"}, silence' \in 0..IdleLimit,
           heard' \in Accounts, folder' \in Folders, result' \in Results
    PROVE  RunTypeOK'
  BY DEF RunTypeOK, Readers, Loops, RunClocks, Accounts, Folders, Results

LEMMA RunTypeKept ==
    ASSUME RunTypeOK, PipeTypeOK', UNCHANGED <<reader, queue, loop, clock, cut, heard, folder, result>>,
           silence' \in 0..IdleLimit
    PROVE  RunTypeOK'
  BY RunTypes, RunTypesNext

LEMMA StreamGrows ==
    ASSUME RunTypeOK, NEW e \in Event, pipe' = Append(pipe, e), UNCHANGED <<reader, queue, loop>>
    PROVE  Unheard' = Append(Unheard, e) /\ Coming' = Append(Coming, e)
<1>1. /\ pipe \in Seq(Event) /\ queue \in Seq(Event) /\ Sending \in Seq(Event) /\ Acting \in Seq(Event)
      /\ Sending \o pipe \in Seq(Event) /\ Coming \in Seq(Event)
  BY Streams
<1>2. Sending' = Sending /\ Acting' = Acting BY DEF Sending, Acting, At
<1>3. Sending \o Append(pipe, e) = Append(Sending \o pipe, e) BY <1>1, Places
<1>4. queue \o Append(Sending \o pipe, e) = Append(queue \o (Sending \o pipe), e) BY <1>1, Places
<1>5. Coming' = Append(Coming, e) BY <1>2, <1>3, <1>4 DEF Coming
<1>6. Acting \o Append(Coming, e) = Append(Acting \o Coming, e) BY <1>1, Places
<1> QED BY <1>2, <1>5, <1>6 DEF Unheard

\* The lines of the core are in the order of its promise.
LEMMA PromisedLine ==
    ASSUME PipeTypeOK, CoreWrites
    PROVE  /\ ~HasExited /\ ~HasExited' /\ wrote' # "nothing" /\ wrote' # "noise"
           /\ wrote' = "ready" => wrote = "nothing"
           /\ stage' = "refused" => wrote = "ready" /\ wrote' = "error"
           /\ wrote' = "session_verdict" => stage = "running"
           /\ wrote' = "ended" => stage' = "ended"
           /\ stage' = "ended" => stage = "ended" \/ wrote' = "ended"
           /\ stage = "ended" => stage' = "ended" /\ wrote' # "session_verdict"
           /\ stage' # "left"
  BY CorePipeAssumption
  DEF CoreWrites, Emits, Ready, Refuse, Start, EndOfStart, Say, Judge, End, ReaderSays, Write, HasExited

LEMMA CoreIsHeard ==
    ASSUME RunInv, CoreWrites, silence' = 0, Receiving,
           UNCHANGED <<reader, queue, loop, clock, cut, heard>>
    PROVE  HearInv'
<1>a. HearInv /\ OutputInv /\ RunTypeOK /\ PipeTypeOK BY DEF RunInv, RunTypeOK
<1>1. PICK e \in Event :
          /\ e # Noise /\ e.n = written.events + 1 /\ e.kind = wrote' /\ pipe' = Append(pipe, e)
          /\ written'.events = written.events + 1
          /\ written'.ended <=> written.ended \/ wrote' = "ended"
          /\ written'.judged <=> written.judged \/ wrote' = "session_verdict"
  BY <1>a, LineIsWritten
<1>2. Unheard' = Append(Unheard, e) /\ Coming' = Append(Coming, e) BY <1>a, <1>1, StreamGrows
<1>3. Unheard \in Seq(Event) /\ Coming \in Seq(Event) /\ heard.n \in Nat /\ written.events \in Nat
  BY <1>a, Streams
<1>4. /\ ~HasExited /\ ~HasExited' /\ wrote' # "nothing"
      /\ wrote' = "ready" => wrote = "nothing"
      /\ stage' = "refused" => wrote = "ready" /\ wrote' = "error"
      /\ wrote' = "session_verdict" => stage = "running"
      /\ stage' # "left"
  BY <1>a, PromisedLine
<1>5. /\ Numbered(heard.n, Unheard, written.events)
      /\ reader.pc # "done" /\ ~clock.gone
      /\ At("acting") => loop.event # Noise
      /\ cut = "none" /\ ~heard.ended
  BY <1>a, <1>4 DEF HearInv
<1>6. Numbered(heard.n, Unheard, written.events)' BY <1>1, <1>2, <1>3, <1>5, NumberedAppend
<1>7. ASSUME wrote' = "ready" PROVE OnlyReady'
  <2>1. OnlyReady BY <1>a, <1>4, <1>7 DEF HearInv
  <2> QED BY <1>1, <1>2, <1>3, <1>7, <2>1, KindsAppend DEF OnlyReady
<1>8. ASSUME stage' = "refused" PROVE OnlyRefusal'
  <2>1. OnlyReady /\ e.kind = "error" BY <1>a, <1>1, <1>4, <1>8 DEF HearInv
  <2>2. Only(Unheard, {"ready", "error", "noise"}) BY <2>1 DEF OnlyReady, Only
  <2>3. Only(Unheard', {"ready", "error", "noise"}) /\ Has(Unheard', "error")
    BY <1>2, <1>3, <2>1, <2>2, KindsAppend, HasAppend
  <2> QED BY <2>1, <2>3 DEF OnlyReady, OnlyRefusal
<1>9. ASSUME written'.judged PROVE heard.judged \/ JudgedFirst(Unheard')
  <2>1. CASE written.judged BY <1>a, <1>2, <1>3, <2>1, JudgedAppend DEF HearInv
  <2>2. CASE ~written.judged
    <3>1. e.kind = "session_verdict" /\ stage = "running" BY <1>1, <1>4, <1>9, <2>2
    <3>2. ~Has(Unheard, "ended") BY <1>a, <3>1 DEF HearInv, OutputInv
    <3> QED BY <1>2, <1>3, <3>1, <3>2, JudgedAppend
  <2> QED BY <2>1, <2>2
<1>10. written'.ended <=> Has(Unheard', "ended")
  <2>1. written.ended <=> Has(Unheard, "ended") BY <1>a DEF HearInv
  <2> QED BY <1>1, <1>2, <1>3, <2>1, HasAppend
<1>11. Loud(Coming') BY <1>1, <1>2, <1>3, KindsAppend
<1> QED BY <1>4, <1>5, <1>6, <1>7, <1>8, <1>9, <1>10, <1>11 DEF HearInv, At

LEMMA NoiseIsHeard ==
    ASSUME RunInv, NoiseIsWritten, Receiving, silence' = silence,
           UNCHANGED <<reader, queue, loop, clock, cut, heard>>
    PROVE  HearInv'
<1>a. HearInv /\ RunTypeOK /\ PipeTypeOK BY DEF RunInv, RunTypeOK
<1>1. /\ pipe' = Append(pipe, Noise) /\ UNCHANGED <<stage, wrote, holder>>
      /\ written'.events = written.events /\ written'.ended = written.ended /\ written'.judged = written.judged
      /\ Noise \in Event /\ Noise.kind = "noise"
  BY <1>a, NoiseComes, NoiseIsALine
<1>2. Unheard' = Append(Unheard, Noise) /\ Coming' = Append(Coming, Noise)
  BY <1>a, <1>1, StreamGrows
<1>3. Unheard \in Seq(Event) /\ Coming \in Seq(Event) /\ heard.n \in Nat /\ written.events \in Nat
  BY <1>a, Streams
<1>4. Numbered(heard.n, Unheard, written.events)'
  <2>1. Numbered(heard.n, Unheard, written.events) BY <1>a DEF HearInv
  <2> QED BY <1>1, <1>2, <1>3, <2>1, NumberedNoise
<1>5. /\ OnlyReady => OnlyReady'
      /\ OnlyRefusal => OnlyRefusal'
  BY <1>1, <1>2, <1>3, KindsAppend, HasAppend DEF OnlyReady, OnlyRefusal
<1>6. /\ JudgedFirst(Unheard) => JudgedFirst(Unheard')
      /\ Has(Unheard, "ended") <=> Has(Unheard', "ended")
      /\ Loud(Coming) => Loud(Coming')
  BY <1>1, <1>2, <1>3, JudgedAppend, HasAppend, KindsAppend
<1>7. reader.pc # "done" BY <1>a DEF HearInv, NoiseIsWritten
<1>8. HasExited' <=> HasExited BY <1>1 DEF HasExited
<1> QED BY <1>a, <1>1, <1>4, <1>5, <1>6, <1>7, <1>8 DEF HearInv, At

LEMMA RunPipe ==
    ASSUME RunInv, PipeRuns
    PROVE  RunInv'
<1>a. /\ RunTypeOK /\ PipeTypeOK /\ HearInv /\ OutputInv /\ OverInv /\ FolderInv
      /\ ~heard.gap /\ (heard.judged => heard.opened) /\ written.events \in Nat
  <2>1. RunTypeOK /\ PipeTypeOK /\ HearInv /\ OutputInv /\ OverInv /\ FolderInv
        /\ ~heard.gap /\ (heard.judged => heard.opened)
    BY DEF RunInv, RunTypeOK
  <2> QED BY <2>1, Streams
<1>1. /\ PipeGoesOn /\ UNCHANGED <<reader, queue, loop, clock, cut, heard, folder, result>>
      /\ Receiving \/ At("closing")
      /\ silence' = IF written'.events # written.events THEN 0 ELSE silence
  BY DEF PipeRuns, PipeGoesOn
<1>2. RunTypeOK'
  <2>1. PipeTypeOK' BY <1>a, <1>1, PipeTypeStep
  <2>2. silence' \in 0..IdleLimit
    <3>1. silence \in 0..IdleLimit /\ 0 \in 0..IdleLimit BY <1>a, Bounds, RunTypes
    <3> QED BY <1>1, <3>1
  <2> QED BY <1>a, <1>1, <2>1, <2>2, RunTypeKept
<1>3. /\ result = "running" /\ FolderInv' /\ VerdictIsRead' /\ ClosedIsNotLost'
  <2>1. result = "running" BY <1>a, <1>1 DEF FolderInv
  <2>2. FolderInv'
    BY <1>a, <1>1 DEF FolderInv, Receiving, At, Exited, OneMine, NoneMine, Mine, EvidenceIsWhereItSays, NoHalfIsRead
  <2> QED BY <1>1, <2>1, <2>2 DEF VerdictIsRead, ClosedIsNotLost
<1>4. CASE CoreWrites
  <2>1. PICK e \in Event :
            /\ written'.events = written.events + 1
            /\ written'.ended <=> written.ended \/ wrote' = "ended"
            /\ written'.judged <=> written.judged \/ wrote' = "session_verdict"
            /\ stage' \in {"starting", "running", "judged", "ended", "refused"}
    BY <1>a, <1>4, LineIsWritten
  <2>2. /\ ~HasExited /\ stage' # "left"
        /\ wrote' = "ended" => stage' = "ended"
        /\ stage' = "ended" => stage = "ended" \/ wrote' = "ended"
        /\ stage = "ended" => stage' = "ended" /\ wrote' # "session_verdict"
    BY <1>a, <1>4, PromisedLine
  <2>3. silence' = 0 BY <1>a, <1>1, <2>1
  <2>4. HearInv'
    <3>1. CASE Receiving BY <1>1, <1>4, <2>3, <3>1, CoreIsHeard
    <3>2. CASE ~Receiving BY <1>1, <3>2 DEF HearInv, Receiving
    <3> QED BY <3>1, <3>2
  <2>5. OutputInv' BY <1>a, <1>1, <2>1, <2>2 DEF OutputInv, HasExited
  <2>6. OverInv'
    <3> SUFFICES ASSUME ~Receiving, cut = "none" PROVE OverInv' BY <1>1 DEF OverInv, Receiving
    <3>1. heard.ended /\ (written.judged => heard.judged) BY <1>a, <2>2 DEF OverInv
    <3>2. stage = "ended" BY <1>a, <2>2, <3>1 DEF OutputInv, HasExited
    <3> QED BY <1>1, <2>1, <2>2, <3>1, <3>2 DEF OverInv
  <2> QED BY <1>a, <1>1, <1>2, <1>3, <2>4, <2>5, <2>6 DEF RunInv
<1>5. CASE NoiseIsWritten
  <2>1. /\ written'.events = written.events /\ written'.ended = written.ended /\ written'.judged = written.judged
        /\ UNCHANGED <<stage, wrote, holder>>
    BY <1>a, <1>5, NoiseComes
  <2>2. silence' = silence BY <1>1, <2>1
  <2>3. HearInv'
    <3>1. CASE Receiving BY <1>1, <1>5, <2>2, <3>1, NoiseIsHeard
    <3>2. CASE ~Receiving BY <1>1, <3>2 DEF HearInv, Receiving
    <3> QED BY <3>1, <3>2
  <2>4. OutputInv' /\ OverInv'
    BY <1>a, <1>1, <2>1 DEF OutputInv, OverInv, Receiving, HasExited, RefusedToStart
  <2> QED BY <1>a, <1>1, <1>2, <1>3, <2>3, <2>4 DEF RunInv
<1>6. CASE CoreGoesOn
  <2>1. /\ UNCHANGED <<pipe, written, holder, wrote>> /\ silence' = silence
        /\ \/ stage = "starting" /\ wrote = "verdict" /\ stage' = "running"
           \/ stage \in {"refused", "ended"} /\ stage' = "left"
           \/ stage # "left" /\ stage' = "dead"
    BY <1>1, <1>6 DEF CoreGoesOn, Run, Leave, Die
  <2>2. OutputInv' BY <1>a, <1>1, <2>1 DEF OutputInv
  <2>3. HasExited => HasExited' BY <2>1 DEF HasExited
  <2>4. Unheard' = Unheard /\ Coming' = Coming
    BY <1>1, <2>1 DEF Unheard, Coming, Acting, Sending, At
  <2>5. HearInv'
    <3> SUFFICES ASSUME Receiving PROVE HearInv' BY <1>1 DEF HearInv, Receiving
    <3>1. /\ Numbered(heard.n, Unheard, written.events)' /\ (OnlyReady <=> OnlyReady') /\ (OnlyRefusal <=> OnlyRefusal')
          /\ (JudgedFirst(Unheard) <=> JudgedFirst(Unheard)') /\ (Has(Unheard, "ended") <=> Has(Unheard, "ended")')
          /\ (Loud(Coming) <=> Loud(Coming)')
      BY <1>a, <1>1, <2>1, <2>4 DEF HearInv, OnlyReady, OnlyRefusal
    <3>2. stage' \in {"refused", "left"} /\ ~written.ended => OnlyRefusal
      BY <1>a, <2>1 DEF HearInv, OutputInv
    <3> QED BY <1>a, <1>1, <2>1, <2>3, <3>1, <3>2 DEF HearInv, At
  <2>6. OverInv'
    <3> SUFFICES ASSUME ~Receiving, cut = "none" PROVE OverInv' BY <1>1 DEF OverInv, Receiving
    <3>1. /\ heard.ended \/ HasExited
          /\ written.judged => heard.judged
          /\ stage = "left" => heard.ended \/ RefusedToStart
      BY <1>a DEF OverInv
    <3>2. stage' = "left" => heard.ended \/ RefusedToStart BY <2>1, <3>1 DEF HasExited
    <3> QED BY <1>1, <2>1, <2>3, <3>1, <3>2 DEF OverInv, RefusedToStart
  <2> QED BY <1>a, <1>1, <1>2, <1>3, <2>2, <2>5, <2>6 DEF RunInv
<1>7. CASE HolderCloses
  <2>1. UNCHANGED <<stage, wrote, pipe, written>> /\ holder' = FALSE /\ silence' = silence
    BY <1>1, <1>7 DEF HolderCloses, promise
  <2>2. OutputInv' /\ OverInv'
    BY <1>a, <1>1, <2>1 DEF OutputInv, OverInv, Receiving, HasExited, RefusedToStart
  <2>3. Unheard' = Unheard /\ Coming' = Coming
    BY <1>1, <2>1 DEF Unheard, Coming, Acting, Sending, At
  <2>4. HearInv'
    <3>1. Receiving => /\ At("acting") => loop.event # Noise
                       /\ reader.pc = "done" => pipe = <<>> /\ HasExited
                       /\ clock.gone => HasExited
                       /\ clock.idle <= silence \/ Loud(Coming)
      BY <1>a DEF HearInv
    <3>2. (Receiving' <=> Receiving) /\ (At("acting")' <=> At("acting")) BY <1>1 DEF Receiving, At
    <3> QED BY <1>1, <2>1, <2>3, <3>1, <3>2, SameStream
  <2> QED BY <1>a, <1>1, <1>2, <1>3, <2>2, <2>4 DEF RunInv
<1> QED BY <1>1, <1>4, <1>5, <1>6, <1>7 DEF PipeGoesOn

-----------------------------------------------------------------------------
(* The reading thread and the loop.                                        *)

LEMMA RunFacts ==
    ASSUME RunInv
    PROVE  /\ PipeTypeOK /\ reader \in Readers /\ queue \in Seq(Event) /\ Len(queue) <= QueueRoom /\ loop \in Loops
           /\ clock \in RunClocks /\ cut \in {"none", "timeout", "idle"} /\ silence \in 0..IdleLimit
           /\ heard \in Accounts /\ folder \in Folders /\ result \in Results
           /\ RunTypeOK /\ HearInv /\ OutputInv /\ OverInv /\ FolderInv /\ VerdictIsRead /\ ClosedIsNotLost
           /\ ~heard.gap /\ (heard.judged => heard.opened)
  BY RunTypes DEF RunInv

LEMMA InPlace ==
    /\ LineReader \in Readers /\ [LineReader EXCEPT !.pc = "done"] \in Readers
    /\ LineReader.pc = "reading" /\ [LineReader EXCEPT !.pc = "done"].pc = "done"
    /\ \A e \in Event : [pc |-> "sending", line |-> e] \in Readers
    /\ Looking \in Loops /\ Looking.pc = "look"
    /\ \A pc \in {"closing", "evidence", "writing", "renaming", "exited", "died"} :
           [Looking EXCEPT !.pc = pc] \in Loops /\ [Looking EXCEPT !.pc = pc].pc = pc
    /\ \A e \in Event : [pc |-> "acting", event |-> e] \in Loops
    /\ [idle |-> 0, left |-> NoLimit, gone |-> FALSE] \in RunClocks
  BY NoiseIsALine, Bounds DEF LineReader, Looking, Readers, Loops, RunClocks, NoLimit

\* While the driver takes lines nothing is judged of it yet.
LEMMA StillRunning ==
    ASSUME RunInv, Receiving \/ At("closing"), Receiving' \/ At("closing")', UNCHANGED <<folder, result>>
    PROVE  FolderInv' /\ VerdictIsRead' /\ ClosedIsNotLost'
<1>1. result = "running" /\ ~folder.report /\ NoneMine /\ folder.file # "cut off"
  BY DEF RunInv, FolderInv, NoHalfIsRead
<1>2. NoneMine' BY <1>1 DEF NoneMine, Mine
<1>3. ~Exited' /\ loop'.pc \notin {"evidence", "writing", "renaming", "exited"}
  BY DEF Receiving, At, Exited
<1> QED
  BY <1>1, <1>2, <1>3 DEF FolderInv, At, EvidenceIsWhereItSays, NoHalfIsRead, VerdictIsRead, ClosedIsNotLost, Exited

LEMMA RunReader ==
    ASSUME RunInv, ReaderThread
    PROVE  RunInv'
<1>a. /\ PipeTypeOK /\ reader \in Readers /\ queue \in Seq(Event) /\ Len(queue) <= QueueRoom /\ loop \in Loops
      /\ clock \in RunClocks /\ cut \in {"none", "timeout", "idle"} /\ silence \in 0..IdleLimit
      /\ heard \in Accounts /\ folder \in Folders /\ result \in Results
      /\ RunTypeOK /\ HearInv /\ OutputInv /\ OverInv
      /\ ~heard.gap /\ (heard.judged => heard.opened)
      /\ pipe \in Seq(Event) /\ reader.line \in Event
  BY RunFacts, Streams
<1>1. /\ UNCHANGED <<stage, wrote, written, holder, loop, clock, cut, heard, folder, result, silence>>
      /\ Receiving \/ At("closing")
  BY DEF ReaderThread, ReadLine, Send, SendFails, LinesEnd, LineIsTaken, LoopStands, pipeVars, promise
<1>2. FolderInv' /\ VerdictIsRead' /\ ClosedIsNotLost'
  <2>1. Receiving' \/ At("closing")' BY <1>1 DEF Receiving, At
  <2> QED BY <1>1, <2>1, StillRunning
<1>3. OutputInv' /\ OverInv'
  BY <1>a, <1>1 DEF OutputInv, OverInv, Receiving, HasExited, RefusedToStart
<1>4. ASSUME PipeTypeOK', reader' \in Readers, queue' \in Seq(Event), Len(queue') <= QueueRoom,
             Receiving => Unheard' = Unheard /\ Coming' = Coming,
             Receiving /\ reader'.pc = "done" => pipe' = <<>> /\ HasExited /\ ~holder
      PROVE  RunInv'
  <2>1. RunTypeOK' BY <1>a, <1>1, <1>4, RunTypesNext
  <2>2. HearInv'
    <3>1. CASE Receiving
      <4>1. /\ At("acting") => loop.event # Noise
            /\ clock.gone => HasExited
            /\ clock.idle <= silence \/ Loud(Coming)
        BY <1>a, <3>1 DEF HearInv
      <4>2. (Receiving' <=> Receiving) /\ (At("acting")' <=> At("acting")) BY <1>1 DEF Receiving, At
      <4>3. /\ Receiving' /\ reader'.pc = "done" => pipe' = <<>> /\ HasExited /\ ~holder'
            /\ Receiving' /\ At("acting")' => loop'.event # Noise
            /\ Receiving' /\ clock'.gone => HasExited
            /\ Receiving' => clock'.idle <= silence' \/ Loud(Coming)
        BY <1>1, <1>4, <3>1, <4>1, <4>2
      <4> QED BY <1>1, <1>4, <3>1, <4>3, SameStream
    <3>2. CASE ~Receiving BY <1>1, <3>2 DEF HearInv, Receiving
    <3> QED BY <3>1, <3>2
  <2> QED BY <1>a, <1>1, <1>2, <1>3, <2>1, <2>2 DEF RunInv
<1>5. CASE ReadLine
  <2>1. /\ reader.pc = "reading" /\ pipe # <<>> /\ pipe' = Tail(pipe) /\ queue' = queue
        /\ reader' = [pc |-> "sending", line |-> Head(pipe)]
    BY <1>5 DEF ReadLine, LineIsTaken
  <2>2. Head(pipe) \in Event /\ <<Head(pipe)>> \o Tail(pipe) = pipe /\ <<>> \o pipe = pipe
    BY <1>a, <2>1, Places, NoiseIsALine
  <2>3. Unheard' = Unheard /\ Coming' = Coming
    BY <1>1, <2>1, <2>2 DEF Unheard, Coming, Acting, Sending, At
  <2>4. PipeTypeOK' BY <1>a, <1>5, PipeTypeStep DEF ReadLine
  <2>5. reader' \in Readers /\ reader'.pc # "done" BY <2>1, <2>2, InPlace
  <2> QED BY <1>a, <1>4, <2>1, <2>3, <2>4, <2>5
<1>6. CASE Send
  <2>1. /\ reader.pc = "sending" /\ Len(queue) # QueueRoom
        /\ queue' = Append(queue, reader.line) /\ reader' = LineReader /\ pipe' = pipe
    BY <1>6 DEF Send, Crowded, pipeVars
  <2>2. queue' \in Seq(Event) /\ Len(queue') <= QueueRoom BY <1>a, <2>1, Bounds, Places, Appended
  <2>3. Append(queue, reader.line) \o pipe = queue \o (<<reader.line>> \o pipe) /\ <<>> \o pipe = pipe
    BY <1>a, Places
  <2>4. Unheard' = Unheard /\ Coming' = Coming
    BY <1>1, <2>1, <2>3, InPlace DEF Unheard, Coming, Acting, Sending, At
  <2>5. PipeTypeOK' BY <1>a, <1>1, <2>1 DEF PipeTypeOK
  <2> QED BY <1>4, <2>1, <2>2, <2>4, <2>5, InPlace
<1>7. CASE SendFails
  <2>1. ~Receiving /\ reader' = [LineReader EXCEPT !.pc = "done"] /\ UNCHANGED <<pipe, queue>>
    BY <1>7 DEF SendFails, pipeVars
  <2>2. PipeTypeOK' BY <1>a, <1>1, <2>1 DEF PipeTypeOK
  <2> QED BY <1>a, <1>4, <2>1, <2>2, InPlace
<1>8. CASE LinesEnd
  <2>1. /\ reader.pc = "reading" /\ reader' = [LineReader EXCEPT !.pc = "done"] /\ UNCHANGED <<pipe, queue>>
        /\ pipe = <<>> /\ HasExited /\ ~holder
    BY <1>8 DEF LinesEnd, Eof, pipeVars
  <2>2. PipeTypeOK' BY <1>a, <1>1, <2>1 DEF PipeTypeOK
  <2>3. Unheard' = Unheard /\ Coming' = Coming
    BY <1>1, <2>1, InPlace DEF Unheard, Coming, Acting, Sending, At
  <2> QED BY <1>a, <1>4, <2>1, <2>2, <2>3, InPlace
<1> QED BY <1>5, <1>6, <1>7, <1>8 DEF ReaderThread

LEMMA RunLook ==
    ASSUME RunInv, LookAtCore
    PROVE  RunInv'
<1>a. /\ PipeTypeOK /\ reader \in Readers /\ queue \in Seq(Event) /\ Len(queue) <= QueueRoom /\ loop \in Loops
      /\ clock \in RunClocks /\ cut \in {"none", "timeout", "idle"} /\ silence \in 0..IdleLimit
      /\ heard \in Accounts /\ folder \in Folders /\ result \in Results
      /\ RunTypeOK /\ HearInv /\ OutputInv /\ OverInv
      /\ ~heard.gap /\ (heard.judged => heard.opened)
  BY RunFacts
<1>1. /\ loop.pc = "look" /\ loop' = [loop EXCEPT !.pc = "wait"]
      /\ clock' = [clock EXCEPT !.gone = clock.gone \/ HasExited]
      /\ UNCHANGED <<queue, cut, heard, silence, stage, wrote, pipe, written, holder, reader, folder, result>>
  BY DEF LookAtCore, Looks, ThreadRuns, pipeVars, promise, At
<1>2. /\ loop' \in Loops /\ loop'.pc = "wait" /\ clock' \in RunClocks /\ clock'.idle = clock.idle
      /\ clock'.gone <=> clock.gone \/ HasExited
  <2>1. HasExited \in BOOLEAN BY DEF HasExited
  <2> QED BY <1>a, <1>1, <2>1 DEF Loops, RunClocks
<1>3. Receiving /\ Receiving' BY <1>1, <1>2 DEF Receiving
<1>4. RunTypeOK'
  <2>1. PipeTypeOK' BY <1>a, <1>1 DEF PipeTypeOK
  <2> QED BY <1>a, <1>1, <1>2, <2>1, RunTypesNext
<1>5. Unheard' = Unheard /\ Coming' = Coming BY <1>1, <1>2 DEF Unheard, Coming, Acting, Sending, At
<1>6. HearInv'
  <2>1. /\ reader.pc = "done" => pipe = <<>> /\ HasExited /\ ~holder
        /\ clock.gone => HasExited
        /\ clock.idle <= silence \/ Loud(Coming)
    BY <1>a, <1>3 DEF HearInv
  <2> QED BY <1>1, <1>2, <1>3, <1>5, <2>1, SameStream DEF At
<1>7. OutputInv' /\ OverInv' BY <1>a, <1>1, <1>3 DEF OutputInv, OverInv
<1> QED BY <1>a, <1>1, <1>3, <1>4, <1>6, <1>7, StillRunning DEF RunInv

LEMMA RunTakes ==
    ASSUME RunInv, TakeNext
    PROVE  RunInv'
<1>a. /\ PipeTypeOK /\ reader \in Readers /\ queue \in Seq(Event) /\ Len(queue) <= QueueRoom /\ loop \in Loops
      /\ clock \in RunClocks /\ cut \in {"none", "timeout", "idle"} /\ silence \in 0..IdleLimit
      /\ heard \in Accounts /\ folder \in Folders /\ result \in Results
      /\ RunTypeOK /\ HearInv /\ OutputInv /\ OverInv
      /\ ~heard.gap /\ (heard.judged => heard.opened)
      /\ Sending \o pipe \in Seq(Event) /\ Coming \in Seq(Event) /\ Unheard \in Seq(Event)
      /\ heard.n \in Nat /\ written.events \in Nat
  BY RunFacts, Streams
<1>1. /\ loop.pc = "wait" /\ queue # <<>> /\ queue' = Tail(queue)
      /\ IF Head(queue) = Noise THEN loop' = Looking /\ clock' = clock
         ELSE loop' = [pc |-> "acting", event |-> Head(queue)] /\ clock' = [clock EXCEPT !.idle = 0]
      /\ UNCHANGED <<cut, heard, silence, stage, wrote, pipe, written, holder, reader, folder, result>>
  BY DEF TakeNext, ThreadRuns, EventSeen, pipeVars, promise, At
<1>2. /\ Head(queue) \in Event /\ Tail(queue) \in Seq(Event) /\ Len(Tail(queue)) <= QueueRoom
      /\ <<Head(queue)>> \o Tail(queue) = queue
  <2>1. Len(Tail(queue)) = Len(queue) - 1 /\ Len(queue) \in Nat BY <1>a, <1>1, Taken
  <2> QED BY SMTT(60), <1>a, <1>1, <2>1, Places, Bounds
<1> DEFINE later == Tail(queue) \o (Sending \o pipe)
<1>3. Coming = <<Head(queue)>> \o later /\ later \in Seq(Event)
  <2>1. <<Head(queue)>> \in Seq(Event) BY <1>2, Places
  <2>2. (<<Head(queue)>> \o Tail(queue)) \o (Sending \o pipe) = <<Head(queue)>> \o (Tail(queue) \o (Sending \o pipe))
    <3> DEFINE rest == Sending \o pipe
    <3>1. rest \in Seq(Event) /\ Tail(queue) \in Seq(Event) BY <1>a, <1>2
    <3> HIDE DEF rest
    <3>2. (<<Head(queue)>> \o Tail(queue)) \o rest = <<Head(queue)>> \o (Tail(queue) \o rest)
      BY <2>1, <3>1, ConcatAssociative
    <3> QED BY <3>2 DEF rest
  <2> QED BY <1>a, <1>2, <2>2, Places DEF Coming
<1>4. Unheard = Coming /\ Coming # <<>> /\ Head(Coming) = Head(queue) /\ Tail(Coming) = later
  <2>1. Unheard = Coming BY <1>a, <1>1, Places, NoiseIsALine DEF Unheard, Acting, At
  <2> HIDE DEF later
  <2> QED BY <1>2, <1>3, <2>1, Places
<1>5. Coming' = later BY <1>1 DEF Coming, Sending
<1> HIDE DEF later
<1>6. /\ loop' \in Loops /\ clock' \in RunClocks /\ Receiving /\ Receiving'
      /\ clock'.gone = clock.gone
  <2>1. 0 \in 0..IdleLimit BY Bounds
  <2>2. CASE Head(queue) = Noise BY <1>a, <1>1, <2>2, InPlace DEF Receiving
  <2>3. CASE Head(queue) # Noise
    <3>1. loop' = [pc |-> "acting", event |-> Head(queue)] /\ clock' = [clock EXCEPT !.idle = 0]
      BY <1>1, <2>3
    <3>2. clock' \in RunClocks /\ clock'.gone = clock.gone BY <1>a, <2>1, <3>1 DEF RunClocks
    <3>3. loop' \in Loops /\ loop'.pc = "acting" BY <1>2, <3>1, InPlace
    <3> QED BY <1>1, <3>2, <3>3 DEF Receiving
  <2> QED BY <2>2, <2>3
<1>7. RunTypeOK'
  <2>1. PipeTypeOK' BY <1>a, <1>1 DEF PipeTypeOK
  <2> QED BY <1>a, <1>1, <1>2, <1>6, <2>1, RunTypesNext
<1>8. OutputInv' /\ OverInv' BY <1>a, <1>1, <1>6 DEF OutputInv, OverInv
<1>9. HearInv'
  <2>1. /\ reader.pc = "done" => pipe = <<>> /\ HasExited /\ ~holder
        /\ clock.gone => HasExited
        /\ clock.idle <= silence \/ Loud(Coming)
        /\ cut = "none" /\ ~heard.ended
    BY <1>a, <1>6 DEF HearInv
  <2>2. CASE Head(queue) = Noise
    <3>1. loop'.pc = "look" /\ clock' = clock BY <1>1, <2>2, InPlace
    <3>2. Unheard' = Tail(Unheard) /\ Coming' = Tail(Coming) /\ Unheard # <<>> /\ Head(Unheard) = Noise
      <4>1. Unheard' = Coming' BY <1>3, <1>5, <3>1, Places, NoiseIsALine DEF Unheard, Acting, At
      <4> QED BY <1>4, <1>5, <2>2, <4>1
    <3>3. Numbered(heard.n, Unheard, written.events)'
      <4>1. Numbered(heard.n, Unheard, written.events) BY <1>a, <1>6 DEF HearInv
      <4> QED BY <1>a, <1>1, <3>2, <4>1, NumberedPast
    <3>4. /\ Has(Unheard, "ended") <=> Has(Unheard', "ended")
          /\ Has(Unheard, "error") <=> Has(Unheard', "error")
      BY <1>a, <3>2, HasTail, NoiseIsALine
    <3>5. /\ JudgedFirst(Unheard) => JudgedFirst(Unheard')
          /\ \A kinds : Only(Unheard, kinds) => Only(Unheard', kinds)
          /\ Loud(Coming) => Loud(Coming')
      BY <1>a, <1>4, <3>2, JudgedTail, KindsTail, NoiseIsALine
    <3>6. /\ OnlyReady => OnlyReady'
          /\ OnlyRefusal => OnlyRefusal'
      BY <1>1, <3>4, <3>5 DEF OnlyReady, OnlyRefusal
    <3>7. HasExited' <=> HasExited BY <1>1 DEF HasExited
    <3> QED BY <1>a, <1>1, <1>6, <2>1, <3>1, <3>3, <3>4, <3>5, <3>6, <3>7 DEF HearInv, At
  <2>3. CASE Head(queue) # Noise
    <3>1. loop'.pc = "acting" /\ loop'.event = Head(queue) /\ clock'.idle = 0
      <4>1. clock' = [clock EXCEPT !.idle = 0] /\ loop' = [pc |-> "acting", event |-> Head(queue)]
        BY <1>1, <2>3
      <4> QED BY <1>a, <4>1 DEF RunClocks
    <3>2. Unheard' = Unheard BY <1>3, <1>4, <1>5, <3>1 DEF Unheard, Acting, At
    <3>3. /\ Numbered(heard.n, Unheard, written.events)' /\ (OnlyReady <=> OnlyReady') /\ (OnlyRefusal <=> OnlyRefusal')
          /\ (JudgedFirst(Unheard) <=> JudgedFirst(Unheard)') /\ (Has(Unheard, "ended") <=> Has(Unheard, "ended")')
      BY <1>a, <1>1, <1>6, <3>2 DEF HearInv, OnlyReady, OnlyRefusal
    <3>4. clock'.idle <= silence'
      <4>1. silence \in 0..IdleLimit /\ silence' = silence BY <1>a, <1>1
      <4> QED BY <3>1, <4>1, Bounds
    <3>5. HasExited' <=> HasExited BY <1>1 DEF HasExited
    <3> QED BY <1>a, <1>1, <1>6, <2>1, <2>3, <3>1, <3>3, <3>4, <3>5 DEF HearInv, At
  <2> QED BY <2>2, <2>3
<1> QED BY <1>a, <1>1, <1>6, <1>7, <1>8, <1>9, StillRunning DEF RunInv

\* `stream_session` returns: nothing is taken any more.
LEMMA RunReturned ==
    ASSUME RunInv, Returns, Receiving, PipeTypeOK', reader' \in Readers, cut' \in {"none", "timeout", "idle"},
           heard' \in Accounts, ~heard'.gap, heard'.judged => heard'.opened, UNCHANGED <<folder, result>>,
           OutputInv', OverInv'
    PROVE  RunInv'
<1>a. folder \in Folders /\ result \in Results BY RunFacts
<1>1. /\ loop' = [Looking EXCEPT !.pc = "closing"] /\ queue' = <<>> /\ silence' = 0
      /\ clock' = [idle |-> 0, left |-> NoLimit, gone |-> FALSE]
  BY DEF Returns
<1>2. loop' \in Loops /\ loop'.pc = "closing" /\ clock' \in RunClocks BY <1>1, InPlace
<1>3. RunTypeOK'
  <2>1. queue' \in Seq(Event) /\ Len(queue') <= QueueRoom /\ silence' \in 0..IdleLimit
    BY <1>1, Bounds, Places, NoiseIsALine
  <2> QED BY <1>a, <1>2, <2>1, RunTypesNext
<1>4. HearInv' BY <1>2 DEF HearInv, Receiving
<1>5. FolderInv' /\ VerdictIsRead' /\ ClosedIsNotLost' BY <1>2, StillRunning DEF At
<1> QED BY <1>3, <1>4, <1>5 DEF RunInv

\* The thread stands with an empty queue: everything written has been heard.
LEMMA AllIsHeard ==
    ASSUME RunInv, At("wait"), queue = <<>>, ThreadStands
    PROVE  Unheard = <<>> /\ Coming = <<>>
<1>a. /\ RunTypeOK /\ HearInv /\ Receiving BY DEF RunInv, Receiving, At
<1>1. reader.pc # "sending"
  <2>1. ~Crowded
    <3>1. Len(queue) = 0 BY LenProperties
    <3> QED BY <3>1, Bounds DEF Crowded
  <2> QED BY <2>1 DEF ThreadStands
<1>2. pipe = <<>> BY <1>a, <1>1 DEF ThreadStands, HearInv
<1>3. Sending = <<>> /\ Acting = <<>> BY <1>1 DEF Sending, Acting, At
<1> QED BY <1>2, <1>3, Places, NoiseIsALine DEF Unheard, Coming

LEMMA RunStops ==
    ASSUME RunInv, NothingMore
    PROVE  RunInv'
<1>a. /\ PipeTypeOK /\ reader \in Readers /\ heard \in Accounts /\ cut \in {"none", "timeout", "idle"}
      /\ HearInv /\ OutputInv /\ ~heard.gap /\ (heard.judged => heard.opened)
  BY RunFacts
<1>1. /\ At("wait") /\ queue = <<>> /\ Returns /\ ThreadStands
      /\ reader.pc = "done" \/ clock.gone
      /\ UNCHANGED <<cut, heard, stage, wrote, pipe, written, holder, reader, folder, result>>
  BY DEF NothingMore, ThreadRuns, ThreadStands, pipeVars, promise
<1>2. Receiving /\ HasExited BY <1>a, <1>1 DEF Receiving, At, HearInv
<1>3. Unheard = <<>> BY <1>1, AllIsHeard
<1>4. /\ written.judged => heard.judged
      /\ stage = "left" => RefusedToStart
  <2>1. /\ written.judged => heard.judged \/ JudgedFirst(<<>>)
        /\ written.ended <=> Has(<<>>, "ended")
        /\ stage = "left" /\ ~written.ended => OnlyRefusal
    BY <1>a, <1>2, <1>3 DEF HearInv
  <2>2. OnlyRefusal => RefusedToStart BY <1>3, NothingToHear DEF OnlyRefusal, RefusedToStart
  <2> QED BY <2>1, <2>2, NothingToHear
<1>5. OverInv' /\ OutputInv'
  BY <1>a, <1>1, <1>2, <1>4 DEF OverInv, OutputInv, HasExited, RefusedToStart
<1>6. PipeTypeOK' BY <1>a, <1>1 DEF PipeTypeOK
<1> QED BY <1>a, <1>1, <1>2, <1>5, <1>6, RunReturned

LEMMA RunIsCut ==
    ASSUME RunInv, CutShort
    PROVE  RunInv'
<1>a. /\ PipeTypeOK /\ reader \in Readers /\ heard \in Accounts /\ OutputInv /\ HearInv
      /\ ~heard.gap /\ (heard.judged => heard.opened)
  BY RunFacts
<1>1. /\ At("wait") /\ Returns /\ cut' \in {"timeout", "idle"}
      /\ stage' = (IF HasExited THEN stage ELSE "dead")
      /\ UNCHANGED <<wrote, pipe, written, holder, reader, heard, folder, result>>
  BY DEF CutShort
<1>2. Receiving BY <1>1 DEF Receiving, At
<1>3. OverInv' /\ OutputInv' BY <1>a, <1>1 DEF OverInv, OutputInv, HasExited
<1>4. PipeTypeOK' BY <1>a, <1>1 DEF PipeTypeOK
<1> QED BY <1>a, <1>1, <1>2, <1>3, <1>4, RunReturned

LEMMA Recording ==
    ASSUME heard \in Accounts, NEW e \in Event, heard' = Recorded(e)
    PROVE  /\ heard' \in Accounts
           /\ heard'.n = e.n /\ (heard'.gap <=> heard.gap \/ e.n # heard.n + 1)
           /\ heard'.ended <=> heard.ended \/ e.kind = "ended"
           /\ heard'.judged <=> heard.judged \/ e.kind = "session_verdict"
           /\ heard'.opened => heard.opened \/ e.kind \in Opens
           /\ (heard.opened \/ e.kind = "session_verdict") => heard'.opened
           /\ e.kind # "start_error" /\ (e.kind # "error" \/ heard.errors # "none") => heard'.errors = heard.errors
           /\ e.kind = "error" /\ heard.errors = "none" => heard'.errors = "refusals"
<1> DEFINE errors == CASE e.kind = "start_error" -> "others"
                       [] e.kind = "error" /\ heard.errors = "none" -> "refusals"
                       [] OTHER -> heard.errors
<1>1. heard' = [heard EXCEPT !.opened = heard.opened \/ e.kind \in Opens, !.errors = errors,
                             !.judged = heard.judged \/ e.kind = "session_verdict",
                             !.ended = heard.ended \/ e.kind = "ended",
                             !.n = e.n, !.gap = heard.gap \/ e.n # heard.n + 1]
  BY DEF Recorded
<1>2. /\ errors \in {"none", "refusals", "others"}
      /\ e.kind # "start_error" /\ (e.kind # "error" \/ heard.errors # "none") => errors = heard.errors
      /\ e.kind = "error" /\ heard.errors = "none" => errors = "refusals"
  BY DEF Accounts
<1> HIDE DEF errors
<1>3. e.n \in 0..MaxEvents BY DEF Event
<1>4. (e.kind \in Opens) \in BOOLEAN /\ (e.kind = "session_verdict" => e.kind \in Opens)
  BY DEF Opens
<1>5. heard' \in Accounts BY ZenonT(60), <1>1, <1>2, <1>3, <1>4 DEF Accounts
<1>6. /\ heard'.opened = (heard.opened \/ e.kind \in Opens) /\ heard'.errors = errors
      /\ heard'.judged = (heard.judged \/ e.kind = "session_verdict")
      /\ heard'.ended = (heard.ended \/ e.kind = "ended")
      /\ heard'.n = e.n /\ heard'.gap = (heard.gap \/ e.n # heard.n + 1)
  BY <1>1 DEF Accounts
<1> QED BY <1>2, <1>4, <1>5, <1>6

LEMMA RunActs ==
    ASSUME RunInv, Act
    PROVE  RunInv'
<1>a. /\ PipeTypeOK /\ reader \in Readers /\ queue \in Seq(Event) /\ Len(queue) <= QueueRoom /\ loop \in Loops
      /\ clock \in RunClocks /\ cut \in {"none", "timeout", "idle"} /\ silence \in 0..IdleLimit
      /\ heard \in Accounts /\ folder \in Folders /\ result \in Results
      /\ RunTypeOK /\ HearInv /\ OutputInv /\ OverInv
      /\ ~heard.gap /\ (heard.judged => heard.opened)
      /\ Coming \in Seq(Event) /\ Unheard \in Seq(Event) /\ loop.event \in Event
      /\ heard.n \in Nat /\ written.events \in Nat
  BY RunFacts, Streams
<1>1. /\ loop.pc = "acting" /\ heard' = Recorded(loop.event)
      /\ IF loop.event.kind = "ended" THEN Returns
         ELSE loop' = Looking /\ UNCHANGED <<queue, clock, silence>>
      /\ UNCHANGED <<cut, stage, wrote, pipe, written, holder, reader, folder, result>>
  BY DEF Act, ThreadRuns, pipeVars, promise, At
<1> DEFINE e == loop.event
<1>2. Unheard # <<>> /\ Head(Unheard) = e /\ Tail(Unheard) = Coming
  <2>1. Unheard = <<e>> \o Coming BY <1>1 DEF Unheard, Acting, At
  <2> QED BY <1>a, <2>1, Places
<1>3. Receiving /\ e # Noise /\ cut = "none" /\ ~heard.ended
  BY <1>a, <1>1 DEF HearInv, Receiving, At
<1>4. e.n = heard.n + 1 /\ Numbered(heard.n + 1, Coming, written.events)
  <2>1. Numbered(heard.n, Unheard, written.events) BY <1>a, <1>3 DEF HearInv
  <2>2. Head(Unheard).n = heard.n + 1 /\ Numbered(heard.n + 1, Tail(Unheard), written.events)
    BY <1>a, <1>2, <1>3, <2>1, NumberedNext
  <2> QED BY <1>2, <2>2
<1>5. /\ heard' \in Accounts
      /\ heard'.n = e.n /\ ~heard'.gap
      /\ heard'.ended <=> e.kind = "ended"
      /\ heard'.judged <=> heard.judged \/ e.kind = "session_verdict"
      /\ heard'.judged => heard'.opened
      /\ heard'.opened => heard.opened \/ e.kind \in Opens
      /\ e.kind # "start_error" /\ (e.kind # "error" \/ heard.errors # "none") => heard'.errors = heard.errors
      /\ e.kind = "error" /\ heard.errors = "none" => heard'.errors = "refusals"
  BY <1>a, <1>1, <1>3, <1>4, Recording
<1> HIDE DEF e
<1>6. PipeTypeOK' BY <1>a, <1>1 DEF PipeTypeOK
<1>7. /\ written.judged => heard'.judged \/ (e.kind # "ended" /\ JudgedFirst(Coming))
      /\ written.ended <=> e.kind = "ended" \/ Has(Coming, "ended")
  <2>1. /\ written.judged => heard.judged \/ JudgedFirst(Unheard)
        /\ written.ended <=> Has(Unheard, "ended")
    BY <1>a, <1>3 DEF HearInv
  <2>2. JudgedFirst(Unheard) => e.kind # "ended" /\ (e.kind = "session_verdict" \/ JudgedFirst(Coming))
    BY <1>a, <1>2, JudgedTail
  <2>3. Has(Unheard, "ended") <=> e.kind = "ended" \/ Has(Coming, "ended") BY <1>a, <1>2, HasTail
  <2> QED BY <1>5, <2>1, <2>2, <2>3
<1>8. OutputInv' BY <1>a, <1>1, <1>3, <1>5, <1>7 DEF OutputInv
<1>9. CASE e.kind = "ended"
  <2>1. Returns BY <1>1, <1>9 DEF e
  <2>2. OverInv' BY <1>5, <1>7, <1>9, <1>1 DEF OverInv
  <2> QED BY <1>a, <1>1, <1>3, <1>5, <1>6, <1>8, <2>1, <2>2, RunReturned
<1>10. CASE e.kind # "ended"
  <2>1. /\ loop' = Looking /\ UNCHANGED <<queue, clock, silence>>
        /\ loop'.pc = "look" /\ loop' \in Loops /\ Receiving'
    BY <1>1, <1>10, InPlace DEF e, Receiving
  <2>2. RunTypeOK' BY <1>a, <1>1, <1>5, <1>6, <2>1, RunTypesNext
  <2>3. Unheard' = Coming /\ Coming' = Coming
    <3>1. Coming' = Coming BY <1>1, <2>1 DEF Coming, Sending
    <3> QED BY <1>a, <2>1, <3>1, Places, NoiseIsALine DEF Unheard, Acting, At
  <2>4. OnlyReady => OnlyReady'
    <3> SUFFICES ASSUME OnlyReady PROVE OnlyReady' OBVIOUS
    <3>1. e.kind \in {"ready", "noise"} /\ Only(Coming, {"ready", "noise"})
      BY <1>a, <1>2, KindsTail DEF OnlyReady
    <3>2. e.kind \notin Opens BY <3>1, CorePipeAssumption DEF Opens
    <3> QED BY <1>5, <2>3, <3>1, <3>2 DEF OnlyReady
  <2>5. OnlyRefusal => OnlyRefusal'
    <3> SUFFICES ASSUME OnlyRefusal PROVE OnlyRefusal' OBVIOUS
    <3>1. e.kind \in {"ready", "error", "noise"} /\ Only(Coming, {"ready", "error", "noise"})
      BY <1>a, <1>2, KindsTail DEF OnlyRefusal
    <3>2. e.kind \notin Opens /\ ~heard.opened BY <3>1, CorePipeAssumption DEF Opens, OnlyRefusal
    <3>3. Has(Unheard, "error") <=> e.kind = "error" \/ Has(Coming, "error") BY <1>a, <1>2, HasTail
    <3>4. heard'.errors = "refusals" \/ (heard'.errors = "none" /\ Has(Coming, "error"))
      BY <1>5, <3>1, <3>3 DEF OnlyRefusal
    <3> QED BY <1>5, <2>3, <3>1, <3>2, <3>4 DEF OnlyRefusal
  <2>6. HearInv'
    <3>1. /\ reader.pc = "done" => pipe = <<>> /\ HasExited /\ ~holder
          /\ clock.gone => HasExited
          /\ clock.idle <= silence \/ Loud(Coming)
          /\ wrote \in {"nothing", "ready"} => OnlyReady
          /\ stage \in {"refused", "left"} /\ ~written.ended => OnlyRefusal
      BY <1>a, <1>3 DEF HearInv
    <3>2. HasExited' <=> HasExited BY <1>1 DEF HasExited
    <3> QED BY <1>1, <1>3, <1>4, <1>5, <1>7, <1>10, <2>1, <2>3, <2>4, <2>5, <3>1, <3>2 DEF HearInv, At
  <2>7. OverInv' BY <2>1 DEF OverInv
  <2> QED BY <1>1, <1>3, <1>5, <1>8, <2>1, <2>2, <2>6, <2>7, StillRunning DEF RunInv
<1> QED BY <1>9, <1>10

LEMMA RunTicks ==
    ASSUME RunInv, TimePasses
    PROVE  RunInv'
<1>a. /\ PipeTypeOK /\ reader \in Readers /\ queue \in Seq(Event) /\ Len(queue) <= QueueRoom /\ loop \in Loops
      /\ clock \in RunClocks /\ cut \in {"none", "timeout", "idle"} /\ silence \in 0..IdleLimit
      /\ heard \in Accounts /\ folder \in Folders /\ result \in Results
      /\ RunTypeOK /\ HearInv /\ OutputInv /\ OverInv
      /\ ~heard.gap /\ (heard.judged => heard.opened)
  BY RunFacts
<1> DEFINE idle == IF clock.idle = IdleLimit THEN clock.idle ELSE clock.idle + 1
           left == IF clock.left \in {0, NoLimit} THEN clock.left ELSE clock.left - 1
<1>1. /\ loop.pc \in {"wait", "acting"}
      /\ clock' = [clock EXCEPT !.idle = idle, !.left = left]
      /\ silence' = IF silence = IdleLimit THEN silence ELSE silence + 1
      /\ UNCHANGED <<stage, wrote, pipe, written, holder, reader, queue, loop, cut, heard, folder, result>>
  BY DEF TimePasses, At, pipeVars, promise
<1>2. /\ idle \in 0..IdleLimit /\ left \in 0..NoLimit /\ silence' \in 0..IdleLimit
      /\ clock.idle <= silence => idle <= silence'
  <2>1. clock.idle \in 0..IdleLimit /\ clock.left \in 0..NoLimit BY <1>a DEF RunClocks
  <2>2. left \in 0..NoLimit BY <2>1, Bounds DEF NoLimit
  <2> QED BY SMTT(60), <1>a, <1>1, <2>1, <2>2, Bounds
<1> HIDE DEF idle, left
<1>3. clock' \in RunClocks /\ clock'.idle = idle /\ clock'.gone = clock.gone
  BY <1>a, <1>1, <1>2 DEF RunClocks
<1>4. Receiving /\ Receiving' BY <1>1 DEF Receiving
<1>5. RunTypeOK'
  <2>1. PipeTypeOK' BY <1>a, <1>1 DEF PipeTypeOK
  <2> QED BY <1>a, <1>1, <1>2, <1>3, <2>1, RunTypesNext
<1>6. Unheard' = Unheard /\ Coming' = Coming BY <1>1 DEF Unheard, Coming, Acting, Sending, At
<1>7. HearInv'
  <2>1. /\ reader.pc = "done" => pipe = <<>> /\ HasExited /\ ~holder
        /\ clock.gone => HasExited
        /\ clock.idle <= silence \/ Loud(Coming)
        /\ At("acting") => loop.event # Noise
    BY <1>a, <1>4 DEF HearInv
  <2>2. clock'.idle <= silence' \/ Loud(Coming) BY <1>2, <1>3, <2>1
  <2>3. At("acting")' <=> At("acting") BY <1>1 DEF At
  <2> QED BY <1>1, <1>3, <1>4, <1>6, <2>1, <2>2, <2>3, SameStream
<1>8. OutputInv' /\ OverInv' BY <1>a, <1>1, <1>4 DEF OutputInv, OverInv
<1> QED BY <1>a, <1>1, <1>4, <1>5, <1>7, <1>8, StillRunning DEF RunInv

-----------------------------------------------------------------------------
(* After the loop.                                                         *)

\* Nothing but the folder, the result and the step changes any more.
LEMMA ClosingKeeps ==
    ASSUME RunInv, Closing, ~Receiving, loop'.pc \in {"evidence", "writing", "renaming", "exited", "died"}, loop' \in Loops,
           folder' \in Folders, result' \in Results, FolderInv', VerdictIsRead', ClosedIsNotLost'
    PROVE  RunInv'
<1>a. /\ PipeTypeOK /\ reader \in Readers /\ queue \in Seq(Event) /\ Len(queue) <= QueueRoom
      /\ clock \in RunClocks /\ cut \in {"none", "timeout", "idle"} /\ silence \in 0..IdleLimit
      /\ heard \in Accounts /\ OutputInv /\ OverInv /\ ~heard.gap /\ (heard.judged => heard.opened)
  BY RunFacts
<1>1. UNCHANGED <<stage, wrote, pipe, written, holder, reader, queue, clock, cut, heard, silence>>
  BY DEF Closing, pipeVars, promise
<1>2. RunTypeOK'
  <2>1. PipeTypeOK' BY <1>a, <1>1 DEF PipeTypeOK
  <2> QED BY <1>a, <1>1, <2>1, RunTypesNext
<1>3. HearInv' BY DEF HearInv, Receiving
<1>4. OutputInv' /\ OverInv' BY <1>a, <1>1 DEF OutputInv, OverInv, HasExited, RefusedToStart
<1> QED BY <1>a, <1>1, <1>2, <1>3, <1>4 DEF RunInv

\* The verdict stands or gives way to the missing evidence.
LEMMA VerdictStands ==
    ASSUME RunInv, Closing, result' = result \/ WithoutEvidence
    PROVE  /\ result' \in Results /\ VerdictIsRead' /\ ClosedIsNotLost'
           /\ WithoutEvidence => result' # "verdict"
           /\ result # "running" => result' # "running"
<1>1. VerdictIsRead /\ ClosedIsNotLost /\ result \in Results BY RunFacts
<1>2. UNCHANGED <<stage, cut, heard>> BY DEF Closing, pipeVars, promise
<1>3. /\ result' \in Results /\ (result' \in {"verdict", "no_evidence"} => result \in {"verdict", "no_evidence"})
      /\ result' = "lost" => result = "lost"
      /\ result # "running" => result' # "running"
      /\ WithoutEvidence => result' # "verdict"
  BY <1>1 DEF WithoutEvidence, Results
<1> QED BY <1>1, <1>2, <1>3 DEF VerdictIsRead, ClosedIsNotLost

LEMMA RunTakesStatus ==
    ASSUME RunInv, TakeStatus
    PROVE  RunInv'
<1>a. /\ FolderInv /\ OverInv /\ folder \in Folders /\ HearInv /\ ~heard.gap /\ (heard.judged => heard.opened)
      /\ PipeTypeOK /\ heard \in Accounts
  BY RunFacts
<1>1. /\ At("closing") /\ HasExited /\ Closing /\ ~Receiving
      /\ UNCHANGED <<stage, cut, heard>>
  BY DEF TakeStatus, Closing, pipeVars, promise, Receiving, At
<1>2. PICK code \in ExitCodes :
          result' = CASE cut # "none" -> "cut"
                      [] cut = "none" /\ core_left_session_open -> "lost"
                      [] OTHER -> driver_exit_code(code)
  BY DEF TakeStatus
<1>3. /\ result' \in Results \ {"running", "no_evidence"}
      /\ result' = "lost" => cut = "none" /\ core_left_session_open
      /\ result' = "verdict" => cut = "none" /\ ~core_left_session_open /\ code = "verdict"
  <2>1. code \in {"verdict", "other", "unknown"} BY <1>2 DEF ExitCodes
  <2>2. driver_exit_code(code) \in {"verdict", "other"} /\ (driver_exit_code(code) = "verdict" => code = "verdict")
    BY <2>1 DEF driver_exit_code
  <2>3. CASE cut # "none" BY <1>2, <2>3 DEF Results
  <2>4. CASE cut = "none" /\ core_left_session_open BY <1>2, <2>4 DEF Results
  <2>5. CASE cut = "none" /\ ~core_left_session_open
    <3>1. result' = driver_exit_code(code) BY <1>2, <2>5
    <3> QED BY <2>2, <2>5, <3>1 DEF Results
  <2> QED BY <2>3, <2>4, <2>5
<1>4. VerdictIsRead'
  <2> SUFFICES ASSUME result' = "verdict"
               PROVE  /\ cut = "none" /\ ~heard.gap
                      /\ heard.ended \/ (stage = "dead" /\ heard.errors = "refusals" /\ ~heard.opened)
                      /\ stage = "left" => heard.judged
    BY <1>1, <1>3 DEF VerdictIsRead
  <2>1. /\ cut = "none" /\ ~core_left_session_open /\ code = "verdict" BY <1>3
  <2>2. stage = "left" => heard.judged
    <3>1. stage = "left" => written.judged BY <1>2, <2>1 DEF ExitCodes
    <3> QED BY <1>a, <1>1, <2>1, <3>1 DEF OverInv
  <2>3. heard.ended \/ RefusedToStart BY <2>1 DEF core_left_session_open
  <2>4. stage = "left" \/ stage = "dead" BY <1>1 DEF HasExited
  <2> QED BY <1>a, <2>1, <2>2, <2>3, <2>4 DEF RefusedToStart
<1>5. ClosedIsNotLost'
  <2> SUFFICES ASSUME result' = "lost" PROVE stage = "dead" BY <1>1 DEF ClosedIsNotLost
  <2>1. stage = "left" => heard.ended \/ RefusedToStart BY <1>a, <1>1, <1>3 DEF OverInv
  <2> QED BY <1>1, <1>3, <2>1 DEF core_left_session_open, HasExited
<1>6. CASE folder' = folder /\ loop' = [Looking EXCEPT !.pc = "exited"]
  <2>1. loop' \in Loops /\ loop'.pc = "exited" BY <1>6, InPlace
  <2>2. ~folder.report /\ NoneMine /\ folder.file # "cut off"
    BY <1>a, <1>1 DEF FolderInv, NoHalfIsRead
  <2>3. FolderInv'
    BY <1>3, <1>6, <2>1, <2>2 DEF FolderInv, Receiving, At, Exited, EvidenceIsWhereItSays, NoHalfIsRead, NoneMine, Mine
  <2> QED BY <1>a, <1>1, <1>3, <1>4, <1>5, <1>6, <2>1, <2>3, ClosingKeeps
<1>7. CASE /\ loop' = [Looking EXCEPT !.pc = "evidence"]
           /\ \E file \in {"none", "old"}, taken \in 0..ScratchNames :
                 folder' = [report |-> TRUE, file |-> file, whole |-> FALSE,
                            beside |-> [i \in Names |-> IF i <= taken THEN "another's" ELSE "free"]]
  <2>1. loop' \in Loops /\ loop'.pc = "evidence" BY <1>7, InPlace
  <2>2. /\ folder' \in Folders /\ folder'.report /\ folder'.file \in {"none", "old"} /\ ~folder'.whole
        /\ \A i \in Names : folder'.beside[i] \in {"another's", "free"}
    <3>1. PICK file \in {"none", "old"}, taken \in 0..ScratchNames :
              folder' = [report |-> TRUE, file |-> file, whole |-> FALSE,
                         beside |-> [i \in Names |-> IF i <= taken THEN "another's" ELSE "free"]]
      BY <1>7
    <3>2. [i \in Names |-> IF i <= taken THEN "another's" ELSE "free"]
              \in [Names -> {"free", "another's", "cut off", "whole"}]
      OBVIOUS
    <3> QED BY <3>1, <3>2 DEF Folders
  <2>3. FolderInv'
    BY <1>3, <2>1, <2>2 DEF FolderInv, Receiving, At, Exited, EvidenceIsWhereItSays, NoHalfIsRead, NoneMine, Mine
  <2> QED BY <1>1, <1>3, <1>4, <1>5, <2>1, <2>2, <2>3, ClosingKeeps
<1> QED BY <1>6, <1>7 DEF TakeStatus

\* One name beside the report is marked.
LEMMA Marks ==
    ASSUME folder \in Folders, NEW i \in Names, NEW kind \in {"free", "another's", "cut off", "whole"},
           folder'.beside = [folder.beside EXCEPT ![i] = kind]
    PROVE  /\ folder'.beside \in [Names -> {"free", "another's", "cut off", "whole"}]
           /\ folder'.beside[i] = kind
           /\ \A j \in Names \ {i} : folder'.beside[j] = folder.beside[j]
  BY DEF Folders

LEMMA RunCreates ==
    ASSUME RunInv, CreateScratch
    PROVE  RunInv'
<1>a. FolderInv /\ folder \in Folders /\ loop.pc = "evidence" /\ Closing /\ ~Receiving
  BY RunFacts DEF CreateScratch, At, Receiving
<1>1. /\ folder.report /\ folder.file \in {"none", "old"} /\ result \notin {"running", "no_evidence"}
      /\ NoneMine /\ ~folder.whole
  BY <1>a DEF FolderInv, At
<1>2. CASE /\ \E i \in Names : folder' = [folder EXCEPT !.beside[i] = "cut off"]
           /\ Goes("writing") /\ UNCHANGED result
  <2>1. PICK i \in Names : folder' = [folder EXCEPT !.beside[i] = "cut off"] BY <1>2
  <2>2. folder' = [folder EXCEPT !.beside = [folder.beside EXCEPT ![i] = "cut off"]]
    BY <1>a, <2>1 DEF Folders
  <2>3. /\ folder'.beside = [folder.beside EXCEPT ![i] = "cut off"]
        /\ folder'.report = folder.report /\ folder'.file = folder.file /\ folder'.whole = folder.whole
    BY <1>a, <2>2 DEF Folders
  <2>4. /\ folder'.beside \in [Names -> {"free", "another's", "cut off", "whole"}]
        /\ folder'.beside[i] = "cut off"
        /\ \A j \in Names \ {i} : folder'.beside[j] = folder.beside[j]
    BY <1>a, <2>3, Marks
  <2>5. folder' \in Folders
    <3>1. [folder.beside EXCEPT ![i] = "cut off"] \in [Names -> {"free", "another's", "cut off", "whole"}]
      BY <2>3, <2>4
    <3> QED BY <1>a, <2>2, <3>1 DEF Folders
  <2>6. OneMine("cut off")' BY <1>1, <2>4 DEF OneMine, Mine, NoneMine
  <2>7. loop' \in Loops /\ loop'.pc = "writing" BY <1>2, InPlace DEF Goes
  <2>8. FolderInv'
    BY <1>1, <1>2, <2>3, <2>6, <2>7 DEF FolderInv, Receiving, At, Exited, EvidenceIsWhereItSays, NoHalfIsRead
  <2> QED BY <1>a, <1>2, <2>5, <2>7, <2>8, ClosingKeeps, VerdictStands
<1>3. CASE UNCHANGED folder /\ Goes("exited") /\ WithoutEvidence
  <2>1. loop' \in Loops /\ loop'.pc = "exited" BY <1>3, InPlace DEF Goes
  <2>2. result' # "verdict" /\ result' # "running" /\ result' \in Results /\ VerdictIsRead' /\ ClosedIsNotLost'
    BY <1>a, <1>1, <1>3, VerdictStands
  <2>3. \A j \in Names : folder'.beside[j] # "cut off" BY <1>1, <1>3 DEF NoneMine, Mine
  <2>4. FolderInv'
    BY <1>1, <1>3, <2>1, <2>2, <2>3 DEF FolderInv, Receiving, At, Exited, EvidenceIsWhereItSays, NoHalfIsRead
  <2> QED BY <1>a, <1>3, <2>1, <2>2, <2>4, ClosingKeeps
<1> QED BY <1>2, <1>3 DEF CreateScratch

LEMMA RunWrites ==
    ASSUME RunInv, WriteScratch
    PROVE  RunInv'
<1>a. FolderInv /\ folder \in Folders /\ loop.pc = "writing" /\ Closing /\ ~Receiving
  BY RunFacts DEF WriteScratch, At, Receiving
<1>1. /\ folder.report /\ folder.file \in {"none", "old"} /\ result \notin {"running", "no_evidence"}
      /\ OneMine("cut off") /\ ~folder.whole
  BY <1>a DEF FolderInv, At
<1>2. PICK i \in Names :
          /\ Mine(i)
          /\ \/ folder' = [folder EXCEPT !.beside[i] = "whole", !.whole = TRUE]
                /\ Goes("renaming") /\ UNCHANGED result
             \/ \E left \in {"free", "cut off"} : folder' = [folder EXCEPT !.beside[i] = left]
                /\ Goes("exited") /\ WithoutEvidence
  BY DEF WriteScratch
<1>3. \A j \in Names \ {i} : ~Mine(j) BY <1>1, <1>2 DEF OneMine
<1>4. CASE folder' = [folder EXCEPT !.beside[i] = "whole", !.whole = TRUE] /\ Goes("renaming") /\ UNCHANGED result
  <2>1. folder' = [folder EXCEPT !.beside = [folder.beside EXCEPT ![i] = "whole"], !.whole = TRUE]
    BY <1>a, <1>4 DEF Folders
  <2>2. /\ folder'.beside = [folder.beside EXCEPT ![i] = "whole"]
        /\ folder'.report = folder.report /\ folder'.file = folder.file
    BY <1>a, <2>1 DEF Folders
  <2>3. /\ folder'.beside \in [Names -> {"free", "another's", "cut off", "whole"}]
        /\ folder'.beside[i] = "whole"
        /\ \A j \in Names \ {i} : folder'.beside[j] = folder.beside[j]
    BY <1>a, <2>2, Marks
  <2>4. folder' \in Folders
    <3>1. [folder.beside EXCEPT ![i] = "whole"] \in [Names -> {"free", "another's", "cut off", "whole"}]
      BY <2>2, <2>3
    <3> QED BY <1>a, <2>1, <3>1 DEF Folders
  <2>5. OneMine("whole")' BY <1>3, <2>3 DEF OneMine, Mine
  <2>6. loop' \in Loops /\ loop'.pc = "renaming" BY <1>4, InPlace DEF Goes
  <2>7. FolderInv'
    BY <1>1, <1>4, <2>2, <2>5, <2>6 DEF FolderInv, Receiving, At, Exited, EvidenceIsWhereItSays, NoHalfIsRead
  <2> QED BY <1>a, <1>4, <2>4, <2>6, <2>7, ClosingKeeps, VerdictStands
<1>5. ASSUME NEW left \in {"free", "cut off"}, folder' = [folder EXCEPT !.beside[i] = left],
             Goes("exited"), WithoutEvidence
      PROVE  RunInv'
  <2>1. folder' = [folder EXCEPT !.beside = [folder.beside EXCEPT ![i] = left]]
    BY <1>a, <1>5 DEF Folders
  <2>2. /\ folder'.beside = [folder.beside EXCEPT ![i] = left]
        /\ folder'.report = folder.report /\ folder'.file = folder.file /\ folder'.whole = folder.whole
    BY <1>a, <2>1 DEF Folders
  <2>3. folder'.beside \in [Names -> {"free", "another's", "cut off", "whole"}] BY <1>a, <2>2, Marks
  <2>4. folder' \in Folders BY <1>a, <2>1, <2>2, <2>3 DEF Folders
  <2>6. loop' \in Loops /\ loop'.pc = "exited" BY <1>5, InPlace DEF Goes
  <2>7. result' # "verdict" /\ result' # "running" /\ result' \in Results /\ VerdictIsRead' /\ ClosedIsNotLost'
    BY <1>a, <1>1, <1>5, VerdictStands
  <2>8. FolderInv'
    BY <1>1, <2>2, <2>6, <2>7 DEF FolderInv, Receiving, At, Exited, EvidenceIsWhereItSays, NoHalfIsRead
  <2> QED BY <1>a, <2>4, <2>6, <2>7, <2>8, ClosingKeeps
<1> QED BY <1>2, <1>4, <1>5

LEMMA RunRenames ==
    ASSUME RunInv, Rename
    PROVE  RunInv'
<1>a. FolderInv /\ folder \in Folders /\ loop.pc = "renaming" /\ Closing /\ ~Receiving
  BY RunFacts DEF Rename, At, Receiving
<1>1. /\ folder.report /\ folder.file \in {"none", "old"} /\ result \notin {"running", "no_evidence"}
      /\ OneMine("whole")
  BY <1>a DEF FolderInv, At
<1>2. PICK i \in Names :
          /\ Mine(i)
          /\ \/ folder' = [folder EXCEPT !.file = folder.beside[i], !.beside[i] = "free"] /\ UNCHANGED result
             \/ UNCHANGED folder /\ WithoutEvidence
  BY DEF Rename
<1>3. folder.beside[i] = "whole" /\ \A j \in Names \ {i} : ~Mine(j) BY <1>1, <1>2 DEF OneMine
<1>4. loop' \in Loops /\ loop'.pc = "exited" BY InPlace DEF Rename, Goes
<1>5. CASE folder' = [folder EXCEPT !.file = folder.beside[i], !.beside[i] = "free"] /\ UNCHANGED result
  <2>1. folder' = [folder EXCEPT !.file = "whole", !.beside = [folder.beside EXCEPT ![i] = "free"]]
    BY <1>a, <1>3, <1>5 DEF Folders
  <2>2. folder'.beside = [folder.beside EXCEPT ![i] = "free"] /\ folder'.file = "whole"
    BY <1>a, <2>1 DEF Folders
  <2>3. /\ folder'.beside \in [Names -> {"free", "another's", "cut off", "whole"}]
        /\ folder'.beside[i] = "free"
        /\ \A j \in Names \ {i} : folder'.beside[j] = folder.beside[j]
    BY <1>a, <2>2, Marks
  <2>4. folder' \in Folders
    <3>1. [folder.beside EXCEPT ![i] = "free"] \in [Names -> {"free", "another's", "cut off", "whole"}]
      BY <2>2, <2>3
    <3> QED BY <1>a, <2>1, <3>1 DEF Folders
  <2>5. \A j \in Names : folder'.beside[j] # "cut off" BY <1>3, <2>3 DEF Mine
  <2>6. FolderInv'
    BY <1>1, <1>4, <1>5, <2>2, <2>5 DEF FolderInv, Receiving, At, Exited, EvidenceIsWhereItSays, NoHalfIsRead
  <2> QED BY <1>a, <1>4, <1>5, <2>4, <2>6, ClosingKeeps, VerdictStands
<1>6. CASE UNCHANGED folder /\ WithoutEvidence
  <2>1. result' # "verdict" /\ result' # "running" /\ result' \in Results /\ VerdictIsRead' /\ ClosedIsNotLost'
    BY <1>a, <1>1, <1>6, VerdictStands
  <2>2. \A j \in Names : folder'.beside[j] # "cut off" BY <1>3, <1>6 DEF Mine
  <2>3. FolderInv'
    BY <1>1, <1>3, <1>4, <1>6, <2>1, <2>2 DEF FolderInv, Receiving, At, Exited, EvidenceIsWhereItSays, NoHalfIsRead
  <2> QED BY <1>a, <1>4, <1>6, <2>1, <2>3, ClosingKeeps
<1> QED BY <1>2, <1>5, <1>6

LEMMA RunDies ==
    ASSUME RunInv, DriverDies
    PROVE  RunInv'
<1>1. /\ loop.pc \in {"evidence", "writing", "renaming"} /\ Closing /\ ~Receiving /\ UNCHANGED <<folder, result>>
      /\ folder \in Folders
  BY RunFacts DEF DriverDies, Receiving
<1>2. loop' \in Loops /\ loop'.pc = "died" BY InPlace DEF DriverDies, Goes
<1>3. FolderInv'
  BY <1>1, <1>2, RunFacts DEF FolderInv, Receiving, At, Exited, EvidenceIsWhereItSays, NoHalfIsRead
<1> QED BY <1>1, <1>2, <1>3, ClosingKeeps, VerdictStands

LEMMA RunKeeps == RunInv /\ [RunNext]_driverVars => RunInv'
<1> SUFFICES ASSUME RunInv, [RunNext]_driverVars PROVE RunInv' OBVIOUS
<1>1. CASE UNCHANGED driverVars
  <2>1. UNCHANGED <<stage, wrote, pipe, written, holder, reader, queue, loop, clock, cut, heard, folder, result, silence>>
    BY <1>1 DEF driverVars, runVars, pipeVars, promise
  <2>2. RunTypeOK'
    <3>1. PipeTypeOK' BY <2>1, RunFacts DEF PipeTypeOK
    <3> QED BY <2>1, <3>1, RunFacts, RunTypeKept
  <2>3. Unheard' = Unheard /\ Coming' = Coming BY <2>1 DEF Unheard, Coming, Acting, Sending, At
  <2>4. HearInv' BY <2>1, <2>3 DEF RunInv, HearInv, Receiving, At, HasExited, OnlyReady, OnlyRefusal
  <2> QED
    BY ZenonT(60), <2>1, <2>2, <2>4 DEF RunInv, OutputInv, OverInv, Receiving, At, HasExited, RefusedToStart, FolderInv, OneMine, NoneMine,
        Mine, Exited, EvidenceIsWhereItSays, NoHalfIsRead, VerdictIsRead, ClosedIsNotLost
<1> QED
  BY <1>1, RunPipe, RunReader, RunLook, RunTakes, RunStops, RunIsCut, RunActs, RunTicks, RunTakesStatus, RunCreates,
     RunWrites, RunRenames, RunDies DEF RunNext, LoopStep, CloseStep

\* For any room in the pipe and the queue, any limits and any number of scratch names: what `chrono run` tells
\* its caller by its code is true (driver_exit_code, core_left_session_open, evidence_file.rs).
THEOREM RunHonest == RunSpec => []RunIsHonest
<1>1. RunInv => RunIsHonest BY DEF RunInv, FolderInv, RunIsHonest
<1> QED BY RunInitInv, RunKeeps, <1>1, PTL DEF RunSpec

-----------------------------------------------------------------------------
(* Neither client cuts its core short without the reason it gives.         *)

LEMMA DriverCuts == RunInv /\ [RunNext]_driverVars => IdleMeansQuiet
<1> SUFFICES ASSUME RunInv, [RunNext]_driverVars, cut' = "idle", cut # "idle" PROVE silence = IdleLimit
  BY DEF IdleMeansQuiet
<1>a. HearInv /\ silence \in 0..IdleLimit BY RunFacts
<1>1. CutShort
  BY DEF RunNext, PipeRuns, ReaderThread, ReadLine, Send, SendFails, LinesEnd, LoopStands, LoopStep, LookAtCore, TakeNext,
         NothingMore, Act, TimePasses, CloseStep, TakeStatus, CreateScratch, WriteScratch, Rename, DriverDies, Closing,
         driverVars, runVars
<1>2. At("wait") /\ queue = <<>> /\ ThreadStands /\ clock.idle = IdleLimit
  BY <1>1 DEF CutShort, LimitIsOver
<1>3. Coming = <<>> /\ Receiving BY <1>2, AllIsHeard DEF Receiving, At
<1>4. clock.idle <= silence BY <1>a, <1>3, NothingToHear DEF HearInv
<1> QED BY <1>a, <1>2, <1>4, Bounds

LEMMA OthersStand == RunInv /\ [RunNext]_driverVars => AnothersStands
<1> SUFFICES ASSUME RunInv, [RunNext]_driverVars, ~At("closing"), NEW j \in Names, folder.beside[j] = "another's"
             PROVE  folder'.beside[j] = "another's"
  BY DEF AnothersStands
<1>a. folder \in Folders BY RunFacts
<1>1. CASE UNCHANGED folder BY <1>1
<1>2. CASE CreateScratch \/ WriteScratch \/ Rename
  <2> SUFFICES ASSUME folder' # folder PROVE folder'.beside[j] = "another's" BY <1>1
  <2>1. PICK i \in Names, kind \in {"free", "cut off", "whole"} :
            folder.beside[i] # "another's" /\ folder'.beside \in {folder.beside, [folder.beside EXCEPT ![i] = kind]}
    <3>1. CASE CreateScratch
      <4>1. PICK i \in Names : folder.beside[i] = "free" /\ folder' = [folder EXCEPT !.beside[i] = "cut off"]
        BY <3>1 DEF CreateScratch
      <4>2. folder'.beside = [folder.beside EXCEPT ![i] = "cut off"] BY <1>a, <4>1 DEF Folders
      <4> QED BY <4>1, <4>2
    <3>2. CASE WriteScratch BY <1>a, <3>2 DEF WriteScratch, Folders, Mine
    <3>3. CASE Rename BY <1>a, <3>3 DEF Rename, Folders, Mine
    <3> QED BY <1>2, <3>1, <3>2, <3>3
  <2> QED BY <1>a, <2>1 DEF Folders
<1> QED
  BY <1>1, <1>2 DEF RunNext, PipeRuns, ReaderThread, ReadLine, Send, SendFails, LinesEnd, LoopStands, LoopStep, LookAtCore,
         TakeNext, NothingMore, CutShort, ThreadRuns, Act, TimePasses, CloseStep, TakeStatus, DriverDies, driverVars, runVars

LEMMA BothInit == ClientsInit => BothInv
  BY ClientInit, RunInitInv DEF ClientsInit, BothInv

LEMMA BothKeep == BothInv /\ [ClientsNext]_clientsVars => BothInv'
<1> SUFFICES ASSUME BothInv, [ClientsNext]_clientsVars PROVE BothInv' OBVIOUS
<1>1. client' = client BY DEF ClientsNext, clientsVars
<1>2. client = "panel" => [Next]_vars BY DEF ClientsNext, clientsVars, vars
<1>3. client = "driver" => [RunNext]_driverVars BY DEF ClientsNext, clientsVars, driverVars
<1> QED BY <1>1, <1>2, <1>3, ClientKeeps, RunKeeps DEF BothInv

\* For any room, limits and callers: each client cuts its core short, or its last lines, only for the
\* reason it gives, and leaves what stands beside the report alone.
THEOREM CutsJust == ClientsSpec => CutsAreJust
<1>1. BothInv /\ [ClientsNext]_clientsVars => [client = "panel" => EndedIsHandedOn /\ HungMeansQuiet]_vars
  <2> SUFFICES ASSUME BothInv, [ClientsNext]_clientsVars, client = "panel" PROVE EndedIsHandedOn /\ HungMeansQuiet
    OBVIOUS
  <2>1. [Next]_vars BY DEF ClientsNext, clientsVars, vars
  <2> QED BY <2>1, PanelCuts DEF BothInv
<1>2. BothInv /\ [ClientsNext]_clientsVars => [client = "driver" => IdleMeansQuiet /\ AnothersStands]_driverVars
  <2> SUFFICES ASSUME BothInv, [ClientsNext]_clientsVars, client = "driver" PROVE IdleMeansQuiet /\ AnothersStands
    OBVIOUS
  <2>1. [RunNext]_driverVars BY DEF ClientsNext, clientsVars, driverVars
  <2> QED BY <2>1, DriverCuts, OthersStand DEF BothInv
<1> QED BY BothInit, BothKeep, <1>1, <1>2, PTL DEF ClientsSpec, CutsAreJust
=============================================================================
