------------------------ MODULE SessionReleaseProofs ------------------------
(***************************************************************************)
(* Proofs about the end of a session, SessionRelease, for any processes    *)
(* and threads, any multipliers and any margin.                            *)
(*                                                                         *)
(* What carries them is, for the end itself, that an instant is read after *)
(* the last anchor was written; and for the calls, that what a process was *)
(* answered never exceeds any line it may still be answered from.  A call  *)
(* between two of its steps may go on while its process is let go and its  *)
(* block is taken: it holds an anchor that the block or the process still  *)
(* has, or it finds that the block is not the session's any more.          *)
(***************************************************************************)
EXTENDS SessionRelease, TLAPS

-----------------------------------------------------------------------------
(* A duration axis, for every width of the integers.                       *)

\* Real time since an anchor is a natural number, whatever the clock says, and an
\* anchor whose origin lies ahead of the clock counts as just written (`.max(0)`).
LEMMA ElapsedRange ==
    ASSUME NEW o \in Int, NEW t \in Int
    PROVE  /\ elapsed(o, t) \in 0..I64_MAX
           /\ t <= o => elapsed(o, t) = 0
  BY ClockMathAssumption DEF elapsed, at_least, saturating_sub, saturate

\* Real time since an anchor does not run back.
LEMMA ElapsedMonotone ==
    ASSUME NEW o \in Int, NEW t \in Int, NEW u \in Int, t <= u
    PROVE  elapsed(o, t) <= elapsed(o, u)
  BY ClockMathAssumption DEF elapsed, at_least, saturating_sub, saturate

\* A longer stretch of real time at one rate is a longer stretch of fake time.
LEMMA ProductMonotone ==
    ASSUME NEW d \in Nat, NEW e \in Nat, NEW m \in Nat, d <= e
    PROVE  d * m \in Nat /\ e * m \in Nat /\ d * m <= e * m
<1> DEFINE k == e - d
<1>1. k \in Nat /\ e = d + k BY DEF k
<1> HIDE DEF k
<1>2. k * m \in Nat /\ d * m \in Nat BY <1>1
<1>3. e * m = d * m + k * m BY <1>1
<1> QED BY <1>2, <1>3

\* A saturating step of a line: in range, monotone in the product, and not below the base.
LEMMA SaturatingStep ==
    ASSUME NEW b \in I64, NEW p \in Nat, NEW q \in Nat, p <= q
    PROVE  /\ saturating_add(b, saturate(p)) \in I64
           /\ saturating_add(b, saturate(p)) >= b
           /\ saturating_add(b, saturate(p)) <= saturating_add(b, saturate(q))
  BY ClockMathAssumption DEF saturating_add, saturate, I64

\* A duration axis: in range, monotone in the real clock even while the wall is frozen,
\* and not below its base.
LEMMA DurationLine ==
    ASSUME NEW b \in I64, NEW o \in Int, NEW m \in Nat,
           NEW t \in Int, NEW u \in Int, t <= u
    PROVE  /\ dur_quit_at(b, o, m, t) \in I64
           /\ dur_quit_at(b, o, m, t) <= dur_quit_at(b, o, m, u)
           /\ b <= dur_quit_at(b, o, m, t)
<1> DEFINE d == elapsed(o, t)
           e == elapsed(o, u)
           n == at_least(1, m)
<1>1. d \in Nat /\ e \in Nat /\ d <= e BY ElapsedRange, ElapsedMonotone, ClockMathAssumption
<1>2. n \in Nat BY DEF at_least
<1>3. /\ dur_quit_at(b, o, m, t) = saturating_add(b, saturate(d * n))
      /\ dur_quit_at(b, o, m, u) = saturating_add(b, saturate(e * n))
  BY DEF dur_quit_at, saturating_mul
<1> HIDE DEF d, e, n
<1>4. d * n \in Nat /\ e * n \in Nat /\ d * n <= e * n BY <1>1, <1>2, ProductMonotone
<1>5. /\ saturating_add(b, saturate(d * n)) \in I64
      /\ saturating_add(b, saturate(d * n)) >= b
      /\ saturating_add(b, saturate(d * n)) <= saturating_add(b, saturate(e * n))
  BY <1>4, SaturatingStep
<1> QED BY <1>3, <1>5

\* At its own origin a line stands at its base.
LEMMA LineStarts ==
    ASSUME NEW b \in 0..I64_MAX, NEW o \in Int, NEW m \in Nat
    PROVE  dur_quit_at(b, o, m, o) = b
<1>1. elapsed(o, o) = 0 /\ at_least(1, m) \in Nat BY ElapsedRange DEF at_least
<1>2. elapsed(o, o) * at_least(1, m) = 0 BY <1>1
<1> QED BY <1>2, ClockMathAssumption DEF dur_quit_at, saturating_mul, saturating_add, saturate

-----------------------------------------------------------------------------
(* The released line: the session's line up to the instant of the release, *)
(* the real rate from there on.                                            *)

\* It stays in range and does not run back.
LEMMA ReleasedLine ==
    ASSUME NEW a \in Anchors, NEW at \in Nat,
           NEW t \in 0..MaxNow, NEW u \in 0..MaxNow, t <= u
    PROVE  /\ released_quit_at(a, at, t) \in I64
           /\ released_quit_at(a, at, t) <= released_quit_at(a, at, u)
<1> DEFINE dur(x) == dur_quit_at(a.c0, a.q0, a.m, x)
<1>1. /\ a.c0 \in I64 /\ a.q0 \in Int /\ a.m \in Nat /\ t \in Int /\ u \in Int /\ at \in Int
      /\ 0 <= t /\ u <= I64_MAX
  BY SessionReleaseAssumption, ClockMathAssumption DEF Anchors
<1>2. /\ dur(t) \in I64 /\ dur(u) \in I64 /\ dur(at) \in I64 /\ dur(t) <= dur(u)
      /\ t <= at => dur(t) <= dur(at)
  BY <1>1, DurationLine
<1> HIDE DEF dur
<1>3. \A x \in {t, u} : released_quit_at(a, at, x) =
          IF at = 0 \/ x < at THEN dur(x) ELSE saturating_add(dur(at), saturating_sub(x, at))
  BY DEF released_quit_at, dur
<1>4. \A x \in {t, u} : ~(at = 0 \/ x < at) =>
          saturating_add(dur(at), saturating_sub(x, at)) =
              IF dur(at) + (x - at) > I64_MAX THEN I64_MAX ELSE dur(at) + (x - at)
  BY <1>1, <1>2, ClockMathAssumption DEF saturating_add, saturating_sub, saturate, I64
<1> QED BY <1>1, <1>2, <1>3, <1>4, ClockMathAssumption DEF I64

\* Up to the instant it is the session's line, whether a call knows the instant or not.
LEMMA BeforeRelease ==
    ASSUME NEW a \in Anchors, NEW at \in Nat, NEW t \in 0..MaxNow, at = 0 \/ t <= at
    PROVE  released_quit_at(a, at, t) = dur_quit_at(a.c0, a.q0, a.m, t)
<1>1. /\ a.c0 \in I64 /\ a.q0 \in Int /\ a.m \in Nat /\ t \in Int
  BY SessionReleaseAssumption, ClockMathAssumption DEF Anchors
<1>2. dur_quit_at(a.c0, a.q0, a.m, t) \in I64 BY <1>1, DurationLine
<1>3. \A d \in I64 : saturating_add(d, saturating_sub(t, t)) = d
  BY <1>1, ClockMathAssumption DEF saturating_add, saturating_sub, saturate, I64
<1> QED BY <1>1, <1>2, <1>3 DEF released_quit_at

\* A session's time is never behind real time.
LEMMA AheadOfReal ==
    ASSUME NEW a \in Anchors, a.q0 <= a.c0, NEW at \in Nat, NEW t \in 0..MaxNow
    PROVE  t <= released_quit_at(a, at, t)
<1> DEFINE n == at_least(1, a.m)
<1>1. /\ a.c0 \in Int /\ a.c0 <= I64_MAX /\ a.q0 \in Nat /\ n \in Nat /\ n >= 1 /\ a.m \in Nat
      /\ a.c0 \in I64 /\ MaxNow \in Int /\ MaxNow <= I64_MAX
  BY SessionReleaseAssumption, ClockMathAssumption DEF Anchors, at_least, I64
<1> HIDE DEF n
<1>2. ASSUME NEW x \in 0..MaxNow PROVE x <= dur_quit_at(a.c0, a.q0, a.m, x)
  <2>1. CASE x <= a.q0
    <3>1. a.c0 <= dur_quit_at(a.c0, a.q0, a.m, x) /\ dur_quit_at(a.c0, a.q0, a.m, x) \in I64
      BY <1>1, DurationLine
    <3> QED BY <1>1, <2>1, <3>1, ClockMathAssumption DEF I64
  <2>2. CASE x > a.q0
    <3> DEFINE d == x - a.q0
               k == n - 1
    <3>1. elapsed(a.q0, x) = d /\ d \in Nat
      BY <1>1, <2>2, ClockMathAssumption DEF elapsed, at_least, saturating_sub, saturate
    <3>2. k \in Nat /\ n = k + 1 BY <1>1
    <3> HIDE DEF k
    <3>3. d * n = d * k + d /\ d * k \in Nat BY <3>1, <3>2
    <3> HIDE DEF d
    <3>4. d * n \in Nat /\ d * n >= d BY <3>1, <3>3
    <3> DEFINE m == d * n
    <3>5. dur_quit_at(a.c0, a.q0, a.m, x) = saturating_add(a.c0, saturate(m))
      BY <3>1 DEF dur_quit_at, saturating_mul, n
    <3>6. m \in Nat /\ m >= d /\ d = x - a.q0 BY <3>4 DEF d
    <3> HIDE DEF m
    <3> QED BY <1>1, <3>5, <3>6, ClockMathAssumption DEF saturating_add, saturate
  <2> QED BY <1>1, <2>1, <2>2
<1>3. CASE at = 0 \/ t < at BY <1>2, <1>3 DEF released_quit_at
<1>4. CASE ~(at = 0 \/ t < at)
  <2>1. at \in 0..MaxNow /\ t >= at BY <1>1, <1>4
  <2> DEFINE d == dur_quit_at(a.c0, a.q0, a.m, at)
  <2>2. d \in I64 /\ at <= d BY <1>1, <1>2, <2>1, DurationLine
  <2>3. released_quit_at(a, at, t) = saturating_add(d, saturating_sub(t, at))
    BY <1>4 DEF released_quit_at
  <2> HIDE DEF d
  <2> QED
    BY <1>1, <2>1, <2>2, <2>3, ClockMathAssumption
    DEF saturating_add, saturating_sub, saturate, I64
<1> QED BY <1>3, <1>4

\* The line of a zeroed anchor is the real clock.
LEMMA ZeroLine ==
    ASSUME NEW at \in Nat, NEW t \in 0..MaxNow
    PROVE  released_quit_at(Zeroes, at, t) = t
<1>1. Zeroes.c0 = 0 /\ Zeroes.q0 = 0 /\ Zeroes.m = 0 /\ MaxNow \in Int /\ MaxNow <= I64_MAX
  BY SessionReleaseAssumption, ClockMathAssumption DEF Zeroes, Anchor
<1>2. \A x \in 0..MaxNow : dur_quit_at(0, 0, 0, x) = x
  <2> TAKE x \in 0..MaxNow
  <2>1. elapsed(0, x) = x /\ at_least(1, 0) = 1 /\ x * 1 = x
    BY <1>1, ClockMathAssumption DEF elapsed, at_least, saturating_sub, saturate
  <2> QED BY <1>1, <2>1, ClockMathAssumption DEF dur_quit_at, saturating_mul, saturating_add, saturate
<1>3. at <= t => at \in 0..MaxNow BY <1>1
<1> QED
  BY <1>1, <1>2, <1>3, ClockMathAssumption DEF released_quit_at, saturating_add, saturating_sub, saturate

\* At rate 1 the released line is the session's, whenever the release came.
LEMMA RateOneLine ==
    ASSUME NEW a \in Anchors, a.m = 1, a.q0 <= a.c0, NEW at \in Nat, a.q0 < at, NEW t \in Nat
    PROVE  released_quit_at(a, at, t) = dur_quit_at(a.c0, a.q0, 1, t)
<1>1. a.c0 \in Nat /\ a.c0 <= I64_MAX /\ a.q0 \in Nat
  BY SessionReleaseAssumption, ClockMathAssumption DEF Anchors, I64
<1>2. \A x \in Nat : dur_quit_at(a.c0, a.q0, 1, x) =
          IF x <= a.q0 THEN a.c0
          ELSE IF a.c0 + (x - a.q0) > I64_MAX THEN I64_MAX ELSE a.c0 + (x - a.q0)
  <2> TAKE x \in Nat
  <2> DEFINE d == elapsed(a.q0, x)
  <2>1. d = IF x <= a.q0 THEN 0 ELSE IF x - a.q0 > I64_MAX THEN I64_MAX ELSE x - a.q0
    BY <1>1, ClockMathAssumption DEF elapsed, at_least, saturating_sub, saturate
  <2>2. d * at_least(1, 1) = d BY <1>1, <2>1, ClockMathAssumption DEF at_least
  <2>3. dur_quit_at(a.c0, a.q0, 1, x) = saturating_add(a.c0, saturate(d))
    BY <2>2 DEF dur_quit_at, saturating_mul
  <2> HIDE DEF d
  <2> QED BY <1>1, <2>1, <2>3, ClockMathAssumption DEF saturating_add, saturate
<1>3. CASE t < at BY <1>3 DEF released_quit_at
<1>4. CASE t >= at
  <2> DEFINE d == dur_quit_at(a.c0, a.q0, 1, at)
             e == dur_quit_at(a.c0, a.q0, 1, t)
  <2>1. d = IF a.c0 + (at - a.q0) > I64_MAX THEN I64_MAX ELSE a.c0 + (at - a.q0) BY <1>1, <1>2
  <2>2. e = IF a.c0 + (t - a.q0) > I64_MAX THEN I64_MAX ELSE a.c0 + (t - a.q0) BY <1>1, <1>2, <1>4
  <2>3. released_quit_at(a, at, t) = saturating_add(d, saturating_sub(t, at))
    BY <1>1, <1>4 DEF released_quit_at
  <2> HIDE DEF d, e
  <2>4. saturating_add(d, saturating_sub(t, at)) = e
    BY <1>1, <1>4, <2>1, <2>2, ClockMathAssumption DEF saturating_add, saturating_sub, saturate
  <2> QED BY <2>3, <2>4 DEF e
<1> QED BY <1>3, <1>4

-----------------------------------------------------------------------------
(* The invariant of the session, its block and its watchers.               *)

\* The next core has not yet zeroed this part of the block.
Unzeroed(field) == next.pc = "waiting" \/ (next.pc = "zero" /\ field \in next.left)

\* The core has marked the end, or is gone.
Over == core \in {"ended", "gone"}

\* The block is the first session's until the next core has taken its part of it over.
CoreInv ==
    /\ next.pc # "waiting" => Over
    /\ core = "running" => ~inOrder
    /\ core \in {"slowed", "ended"} => inOrder
    /\ block.ended => Over
    /\ StillOurs <=> Unzeroed("pid")
    /\ IF Unzeroed("anchor") THEN block.anchor.of = First
       ELSE IF next.pc \in {"zero", "open", "store"} THEN block.anchor = Zeroes
       ELSE block.anchor.of = "B"
    /\ IF Unzeroed("seq") THEN block.seq >= 2 ELSE next.pc \in {"zero", "open"} => block.seq = 0

\* A session never gives less than real time, and no anchor is from a time to come.
Sound(a) ==
    /\ a.of = "0" => a = Zeroes
    /\ a.of = First => a.q0 <= a.c0 /\ a.q0 <= now

AnchorInv ==
    /\ Sound(block.anchor)
    /\ \A p \in Procs : Sound(rel[p].a) /\ Sound(released[p].a)
    /\ \A t \in Threads : Sound(thread[t].a)

\* What another session wrote is never held while the block is still ours.
OwnInv ==
    /\ \A p \in Procs : (rel[p].a.of = "B" => ~StillOurs) /\ released[p].a.of # "B"
    /\ \A t \in Threads : (thread[t].a.of = "B" => ~StillOurs) /\ thread[t].of # "B"

\* A process that nobody has begun to let go of.
Early == {"none", "never", "waiting"}

\* A process is let go of once the session is over, and at an instant after its anchor's.
WatchInv ==
    \A p \in Procs :
        /\ rel[p].pc \notin Early => Over
        /\ rel[p].pc \in Early => rel[p].a = Zeroes /\ rel[p].at = 0 /\ released[p] = NotReleased
        /\ rel[p].pc \in {"publish", "read", "owner"} /\ block.anchor.of = First =>
               block.anchor.q0 < rel[p].at
        /\ rel[p].a.of = First => rel[p].a.q0 < rel[p].at
        /\ released[p].a.of = First => released[p].a.q0 < released[p].at

\* The first session's anchors, in the block and in its processes: one, after an end in order.
Firsts == {a \in {block.anchor} \cup {rel[p].a : p \in Procs} \cup {released[p].a : p \in Procs} :
               a.of = First}

OneAnchor == inOrder => \A a, b \in Firsts : a = b /\ a.m = 1

SInv == TypeOK /\ CoreInv /\ AnchorInv /\ OwnInv /\ WatchInv /\ OneAnchor

-----------------------------------------------------------------------------
(* The invariant of the calls.                                             *)

\* The instant at which a process is released, from the moment it is known, though a call may
\* not have heard of it; 0 before.
ReleaseInstant(p) ==
    IF rel[p].pc \in {"publish", "read", "owner"} THEN rel[p].at ELSE released[p].at

\* The line a call would answer from that held the anchor a and knew the instant.
Line(p, a, t) == released_quit_at(a, ReleaseInstant(p), t)

\* The way of a process from the session's line to its own.
ProcInv(p) ==
    /\ rel[p].pc # "never"
    /\ rel[p].pc = "none" => /\ served[p] = 0 /\ ~detached[p]
                             /\ \A t \in Threads : ProcOf[t] = p => At(t, "idle")
    /\ rel[p].pc = "waiting" => StillOurs
    /\ rel[p].pc \in {"none", "waiting", "publish"} => releaseAt[p] = 0
    /\ rel[p].pc = "publish" => now <= rel[p].at
    /\ rel[p].pc \in {"publish", "read", "owner"} => rel[p].at >= 1 /\ released[p] = NotReleased
    /\ rel[p].pc \in {"read", "owner"} => releaseAt[p] = rel[p].at
    /\ rel[p].pc = "owner" /\ StillOurs => rel[p].a = block.anchor
    /\ rel[p].pc \in {"flag", "done"} /\ StillOurs => released[p].at >= 1
    /\ released[p] # NotReleased => /\ rel[p].pc \in {"flag", "done"}
                                    /\ released[p].at >= 1 /\ released[p].at = releaseAt[p]
    /\ detached[p] /\ released[p] = NotReleased => ~StillOurs
    /\ StillOurs /\ block.anchor.of = First /\ released[p].at # 0 => released[p].a = block.anchor

\* v exceeds no line the process may still be answered from: the block's while it is the
\* session's, the one the process kept, and the real clock if it kept none.
Reached(p, v) ==
    /\ StillOurs /\ block.anchor.of = First => v <= Line(p, block.anchor, now)
    /\ released[p].a.of = First => v <= Line(p, released[p].a, now)
    /\ ~StillOurs /\ released[p].at = 0 => v <= now

\* An anchor that a call read is the one its process keeps, or is about to keep.
Agrees(p, a) ==
    /\ LettingGo(p) \/ block.anchor.of = First => block.anchor = a
    /\ released[p].at # 0 => released[p].a = a

\* What a call would answer with; that it holds an anchor of the session whose block it is; and
\* that the seq it saw is there still.
Reading(t) == Line(ProcOf[t], thread[t].a, thread[t].t)
Held(t) == StillOurs /\ thread[t].a.of = First
Fresh(t) == thread[t].look = block.seq

\* A call at each of its steps.
CallInv(t) ==
    LET c == thread[t]
        p == ProcOf[t]
    IN
    /\ c.t <= now
    /\ c.floor <= served[p]
    /\ Unzeroed("seq") /\ c.pc \in {"fields", "clock", "recheck"} => 2 <= c.look /\ c.look <= block.seq
    /\ c.pc = "after" /\ released[p].at = 0 => ~StillOurs
    /\ c.pc \in {"clock", "recheck"} /\ Held(t) /\ Fresh(t) => Agrees(p, c.a)
    /\ c.pc = "recheck" /\ Held(t) /\ Fresh(t) => Reading(t) >= c.floor
    /\ c.pc \in {"instant", "owner"} /\ Held(t) => Reading(t) >= c.floor /\ Reached(p, Reading(t))
    /\ c.pc = "owner" /\ StillOurs => \/ c.at = ReleaseInstant(p)
                                      \/ c.at = 0 /\ c.t <= ReleaseInstant(p)
    /\ c.pc = "answer" => (c.of # "0" => c.v >= c.floor) /\ Reached(p, c.v)

LineInv ==
    /\ \A p \in Procs : ProcInv(p) /\ served[p] >= 0 /\ Reached(p, served[p])
    /\ \A t \in Threads : CallInv(t)

-----------------------------------------------------------------------------
(* Type correctness.                                                       *)

Blocks == [pid : Owners, seq : Nat, ended : BOOLEAN, anchor : Anchors]
Watchers == [pc : {"none", "never", "waiting", "publish", "read", "owner", "flag", "done"},
             at : Nat, a : Anchors, failures : Nat]
Calls == [pc : {"idle", "releasing", "flag", "look", "fields", "clock", "recheck",
                "instant", "owner", "after", "answer"},
          look : Nat, a : Anchors, t : 0..MaxNow, at : Nat, floor : I64, v : I64,
          of : Owners \cup {"real"}]

LEMMA Types ==
    TypeOK <=>
        /\ now \in 1..MaxNow
        /\ core \in {"running", "slowed", "ended", "gone"}
        /\ next \in [pc : {"waiting", "zero", "open", "store", "close", "pid", "running"},
                     left : SUBSET Fields]
        /\ block \in Blocks /\ rel \in [Procs -> Watchers]
        /\ releaseAt \in [Procs -> Nat] /\ released \in [Procs -> [at : Nat, a : Anchors]]
        /\ detached \in [Procs -> BOOLEAN] /\ thread \in [Threads -> Calls]
        /\ served \in [Procs -> I64] /\ inOrder \in BOOLEAN
  BY DEF TypeOK, Blocks, Watchers, Calls

LEMMA TypesPrimed ==
    (/\ now' \in 1..MaxNow
     /\ core' \in {"running", "slowed", "ended", "gone"}
     /\ next' \in [pc : {"waiting", "zero", "open", "store", "close", "pid", "running"},
                   left : SUBSET Fields]
     /\ block' \in Blocks /\ rel' \in [Procs -> Watchers]
     /\ releaseAt' \in [Procs -> Nat] /\ released' \in [Procs -> [at : Nat, a : Anchors]]
     /\ detached' \in [Procs -> BOOLEAN] /\ thread' \in [Threads -> Calls]
     /\ served' \in [Procs -> I64] /\ inOrder' \in BOOLEAN)
    => TypeOK'
  BY DEF TypeOK, Blocks, Watchers, Calls

LEMMA AnchorTypes ==
    /\ Zeroes \in Anchors
    /\ \A c0 \in I64, q0 \in 0..MaxNow, m \in Nat, of \in Owners : Anchor(c0, q0, m, of) \in Anchors
    /\ NotReleased \in [at : Nat, a : Anchors]
    /\ Idle \in Calls
    /\ 0 \in I64 /\ 0 \in 0..MaxNow /\ 1 \in I64
<1>1. 0 \in I64 /\ 0 \in 0..MaxNow /\ 1 \in I64
  BY ClockMathAssumption, SessionReleaseAssumption DEF I64
<1>2. Zeroes \in Anchors BY <1>1 DEF Zeroes, Anchor, Anchors, Owners
<1>3. \A c0 \in I64, q0 \in 0..MaxNow, m \in Nat, of \in Owners : Anchor(c0, q0, m, of) \in Anchors
  BY DEF Anchor, Anchors
<1>4. NotReleased \in [at : Nat, a : Anchors] BY <1>2 DEF NotReleased
<1>5. Idle \in Calls BY <1>1, <1>2 DEF Idle, Calls, Owners
<1> QED BY <1>1, <1>2, <1>3, <1>4, <1>5

LEMMA InitType == Init => TypeOK
<1> SUFFICES ASSUME Init PROVE TypeOK OBVIOUS
<1>1. block \in Blocks
  BY AnchorTypes, SessionReleaseAssumption, ClockMathAssumption DEF Init, Blocks, Owners, First
<1>2. now \in 1..MaxNow /\ served \in [Procs -> I64]
  BY AnchorTypes, SessionReleaseAssumption DEF Init
<1>3. rel \in [Procs -> Watchers] BY AnchorTypes DEF Init, Watchers
<1>4. next \in [pc : {"waiting", "zero", "open", "store", "close", "pid", "running"},
                 left : SUBSET Fields]
  BY DEF Init
<1>5. thread \in [Threads -> Calls] /\ released \in [Procs -> [at : Nat, a : Anchors]]
  BY AnchorTypes DEF Init
<1> QED BY <1>1, <1>2, <1>3, <1>4, <1>5, Types DEF Init

\* The anchor of a rate change, at the instant it is made.
LEMMA RebasedType ==
    ASSUME TypeOK, NEW m \in Nat
    PROVE  /\ Rebased(m) \in Anchors
           /\ Rebased(m).c0 = dur_quit_at(block.anchor.c0, block.anchor.q0, block.anchor.m, now)
           /\ Rebased(m).q0 = now /\ Rebased(m).m = m /\ Rebased(m).of = First
<1>1. block.anchor \in Anchors /\ now \in 0..MaxNow /\ now \in Int
  BY SessionReleaseAssumption, ClockMathAssumption DEF TypeOK
<1>2. dur_quit_at(block.anchor.c0, block.anchor.q0, block.anchor.m, now) \in I64
  BY <1>1, DurationLine DEF Anchors
<1>3. First \in Owners BY DEF First, Owners
<1> QED BY <1>1, <1>2, <1>3, AnchorTypes DEF Rebased, Anchor

\* The fields of a call at its beginning, and of one that has its answer.
LEMMA CallTypes ==
    ASSUME TypeOK, NEW t \in Threads
    PROVE  /\ thread[t] \in Calls
           /\ ProcOf[t] \in Procs
           /\ \A pc \in {"flag", "releasing", "look", "after"} :
                  /\ Begun(t, pc) \in Calls
                  /\ Begun(t, pc).pc = pc /\ Begun(t, pc).floor = served[ProcOf[t]]
                  /\ Begun(t, pc).a = Zeroes /\ Begun(t, pc).t = 0 /\ Begun(t, pc).of = "0"
           /\ \A v \in I64, of \in Owners \cup {"real"} :
                  /\ Answering(t, v, of) \in Calls
                  /\ Answering(t, v, of).pc = "answer" /\ Answering(t, v, of).floor = thread[t].floor
                  /\ Answering(t, v, of).v = v /\ Answering(t, v, of).of = of
                  /\ Answering(t, v, of).a = Zeroes /\ Answering(t, v, of).t = 0
<1>1. thread[t] \in Calls /\ ProcOf[t] \in Procs /\ served[ProcOf[t]] \in I64
  BY Types, SessionReleaseAssumption
<1>2. Idle \in Calls /\ Idle.a = Zeroes /\ Idle.t = 0 /\ Idle.of = "0" BY AnchorTypes DEF Idle
<1>3. thread[t].floor \in I64 BY <1>1 DEF Calls
<1> HIDE DEF Idle
<1>4. \A pc \in {"flag", "releasing", "look", "after"} :
          /\ Begun(t, pc) \in Calls
          /\ Begun(t, pc).pc = pc /\ Begun(t, pc).floor = served[ProcOf[t]]
          /\ Begun(t, pc).a = Zeroes /\ Begun(t, pc).t = 0 /\ Begun(t, pc).of = "0"
  BY <1>1, <1>2 DEF Begun, Calls
<1>5. \A v \in I64, of \in Owners \cup {"real"} :
          /\ Answering(t, v, of) \in Calls
          /\ Answering(t, v, of).pc = "answer" /\ Answering(t, v, of).floor = thread[t].floor
          /\ Answering(t, v, of).v = v /\ Answering(t, v, of).of = of
          /\ Answering(t, v, of).a = Zeroes /\ Answering(t, v, of).t = 0
  BY <1>2, <1>3 DEF Answering, Calls
<1> QED BY <1>1, <1>4, <1>5

LEMMA CoreTypeStep ==
    ASSUME TypeOK, FirstCore \/ NewCore
    PROVE  TypeOK'
<1>0. block \in Blocks BY Types
<1>1. ASSUME NEW m \in Rates, ChangeRate(m) PROVE TypeOK'
  <2>1. Rebased(m) \in Anchors BY RebasedType, SessionReleaseAssumption
  <2>2. block.seq + 2 \in Nat BY <1>0 DEF Blocks
  <2>3. block' = [block EXCEPT !.anchor = Rebased(m), !.seq = block.seq + 2]
    BY <1>0, <1>1 DEF ChangeRate, Blocks
  <2>4. block' \in Blocks BY <1>0, <2>1, <2>2, <2>3 DEF Blocks
  <2> QED BY <1>1, <2>4, Types, TypesPrimed DEF ChangeRate, process
<1>2. CASE SlowDown
  <2>1. Rebased(1) \in Anchors BY RebasedType
  <2>2. block.seq + 2 \in Nat BY <1>0 DEF Blocks
  <2>3. block' = [block EXCEPT !.anchor = Rebased(1), !.seq = block.seq + 2]
    BY <1>0, <1>2 DEF SlowDown, Blocks
  <2>4. block' \in Blocks BY <1>0, <2>1, <2>2, <2>3 DEF Blocks
  <2> QED BY <1>2, <2>4, Types, TypesPrimed DEF SlowDown, process
<1>3. CASE End
  <2>1. block' \in Blocks BY <1>0, <1>3 DEF End, Blocks
  <2> QED BY <1>3, <2>1, Types, TypesPrimed DEF End, process
<1>4. CASE Exit \/ Kill BY <1>4, Types, TypesPrimed DEF Exit, Kill, process
<1>5. CASE Lock BY <1>5, Types, TypesPrimed DEF Lock, process
<1>6. ASSUME NEW field \in Fields, Zero(field) PROVE TypeOK'
  <2>1. block' \in Blocks
    <3>1. CASE field = "seq" BY <1>0, <1>6, <3>1 DEF Zero, Blocks
    <3>2. CASE field = "anchor" BY <1>0, <1>6, <3>2, AnchorTypes DEF Zero, Blocks
    <3>3. CASE field = "pid" BY <1>0, <1>6, <3>3 DEF Zero, Blocks, Owners
    <3>4. CASE field = "ended" BY <1>0, <1>6, <3>4 DEF Zero, Blocks
    <3> QED BY <3>1, <3>2, <3>3, <3>4 DEF Fields
  <2>2. next' \in [pc : {"waiting", "zero", "open", "store", "close", "pid", "running"},
                   left : SUBSET Fields]
    BY <1>6 DEF Zero, TypeOK
  <2> QED BY <1>6, <2>1, <2>2, Types, TypesPrimed DEF Zero, process
<1>7. CASE OpenAnchor \/ StoreAnchor \/ CloseAnchor \/ WritePid
  <2>1. now \in I64 /\ now \in 0..MaxNow
    BY ClockMathAssumption, SessionReleaseAssumption DEF TypeOK, I64
  <2>2. Anchor(now, now, 1, "B") \in Anchors BY <2>1, AnchorTypes DEF Owners
  <2>3. block' \in Blocks
    BY <1>0, <1>7, <2>2 DEF OpenAnchor, StoreAnchor, CloseAnchor, WritePid, Blocks, Owners
  <2>4. next' \in [pc : {"waiting", "zero", "open", "store", "close", "pid", "running"},
                   left : SUBSET Fields]
    BY <1>7 DEF OpenAnchor, StoreAnchor, CloseAnchor, WritePid, NextCore, TypeOK
  <2> QED
    BY <1>7, <2>3, <2>4, Types, TypesPrimed
    DEF OpenAnchor, StoreAnchor, CloseAnchor, WritePid, NextCore, process
<1> QED BY <1>1, <1>2, <1>3, <1>4, <1>5, <1>6, <1>7 DEF FirstCore, NewCore

LEMMA ReleaseTypeStep ==
    ASSUME TypeOK, NEW p \in Procs, Release(p)
    PROVE  TypeOK'
<1>0. /\ rel \in [Procs -> Watchers] /\ rel[p] \in Watchers /\ block.anchor \in Anchors
      /\ now + Margin \in Nat
  BY Types, SessionReleaseAssumption DEF TypeOK
<1>1. CASE Wake(p) BY <1>0, <1>1, Types, TypesPrimed DEF Wake, Watchers
<1>2. CASE PublishInstant(p) BY <1>0, <1>2, Types, TypesPrimed DEF PublishInstant, Watchers
<1>3. CASE ReadAnchor(p) BY <1>0, <1>3, Types, TypesPrimed DEF ReadAnchor, Watchers
<1>4. CASE CheckOwner(p)
  <2>1. rel' \in [Procs -> Watchers] BY <1>0, <1>4, AnchorTypes DEF CheckOwner, Watchers
  <2>2. released' \in [Procs -> [at : Nat, a : Anchors]]
    BY <1>0, <1>4, Types, TypesPrimed DEF CheckOwner, Watchers
  <2>3. detached' \in [Procs -> BOOLEAN] BY <1>4, Types, TypesPrimed DEF CheckOwner
  <2> QED BY <1>4, <2>1, <2>2, <2>3, Types, TypesPrimed DEF CheckOwner
<1>5. CASE Detach(p)
  <2>1. rel' \in [Procs -> Watchers] BY <1>0, <1>5 DEF Detach, Watchers
  <2>2. detached' \in [Procs -> BOOLEAN] BY <1>5, Types, TypesPrimed DEF Detach
  <2> QED BY <1>5, <2>1, <2>2, Types, TypesPrimed DEF Detach
<1> QED BY <1>1, <1>2, <1>3, <1>4, <1>5 DEF Release

LEMMA BeginTypeStep ==
    ASSUME TypeOK, NEW t \in Threads, Begin(t)
    PROVE  TypeOK'
<1>0. /\ rel \in [Procs -> Watchers] /\ ProcOf[t] \in Procs /\ rel[ProcOf[t]] \in Watchers
      /\ now + Margin \in Nat
  BY Types, CallTypes, SessionReleaseAssumption DEF TypeOK
<1>1. CASE Call(t)
  <2>1. Begun(t, Branch(ProcOf[t])) \in Calls BY CallTypes DEF Branch
  <2> QED BY <1>1, <2>1, Types, TypesPrimed DEF Call, process
<1>2. CASE FirstLookOver(t)
  <2>1. Begun(t, "releasing") \in Calls BY CallTypes
  <2>2. rel' \in [Procs -> Watchers] BY <1>0, <1>2 DEF FirstLookOver, Watchers
  <2>3. detached' \in [Procs -> BOOLEAN] BY <1>2, Types, TypesPrimed DEF FirstLookOver
  <2> QED BY <1>2, <2>1, <2>2, <2>3, Types, TypesPrimed DEF FirstLookOver
<1>3. CASE StartWatcher(t)
  <2>1. Begun(t, "flag") \in Calls BY CallTypes
  <2>2. rel' \in [Procs -> Watchers] BY <1>0, <1>3 DEF StartWatcher, Watchers
  <2> QED BY <1>3, <2>1, <2>2, Types, TypesPrimed DEF StartWatcher
<1>4. CASE StartFails(t)
  <2>1. Begun(t, "flag") \in Calls BY CallTypes
  <2>2. rel' \in [Procs -> Watchers] BY <1>0, <1>4 DEF StartFails, Watchers
  <2> QED BY <1>4, <2>1, <2>2, Types, TypesPrimed DEF StartFails
<1> QED BY <1>1, <1>2, <1>3, <1>4 DEF Begin

LEMMA CallTypeStep ==
    ASSUME TypeOK, NEW t \in Threads, Step(t)
    PROVE  TypeOK'
<1>0. /\ thread \in [Threads -> Calls] /\ thread[t] \in Calls /\ ProcOf[t] \in Procs
      /\ block \in Blocks /\ now \in 0..MaxNow
  BY Types, CallTypes
<1>1. CASE ReleasedHere(t) BY <1>0, <1>1, Types, TypesPrimed DEF ReleasedHere, process, Calls
<1>2. CASE SeesFlag(t) BY <1>0, <1>2, Types, TypesPrimed DEF SeesFlag, Branch, process, Calls
<1>3. CASE Look(t)
  <2>1. /\ thread' = [thread EXCEPT ![t] = [@ EXCEPT !.pc = "fields", !.look = block.seq]]
        /\ block.seq \in Nat
    BY <1>0, <1>3 DEF Look, Calls, Blocks
  <2>2. thread' \in [Threads -> Calls] BY <1>0, <2>1 DEF Calls
  <2> QED BY <1>3, <2>2, Types, TypesPrimed DEF Look, process
<1>4. CASE ReadFields(t)
  <2>1. /\ thread' = [thread EXCEPT ![t] = [@ EXCEPT !.pc = "clock", !.a = block.anchor]]
        /\ block.anchor \in Anchors
    BY <1>0, <1>4 DEF ReadFields, Calls, Blocks
  <2>2. thread' \in [Threads -> Calls] BY <1>0, <2>1 DEF Calls
  <2> QED BY <1>4, <2>2, Types, TypesPrimed DEF ReadFields, process
<1>5. CASE ReadClock(t) BY <1>0, <1>5, Types, TypesPrimed DEF ReadClock, process, Calls
<1>6. CASE Recheck(t)
  <2>1. [Idle EXCEPT !.pc = "look", !.floor = thread[t].floor] \in Calls
    <3> HIDE DEF Idle
    <3> QED BY <1>0, AnchorTypes DEF Calls
  <2>2. [thread[t] EXCEPT !.pc = "instant", !.look = 0] \in Calls BY <1>0 DEF Calls
  <2>3. thread' \in [Threads -> Calls]
    <3> HIDE DEF Idle
    <3> QED BY <1>0, <1>6, <2>1, <2>2 DEF Recheck
  <2> QED BY <1>6, <2>3, Types, TypesPrimed DEF Recheck, process
<1>7. CASE LoadInstant(t) BY <1>0, <1>7, Types, TypesPrimed DEF LoadInstant, process, Calls
<1>8. CASE CheckBlock(t)
  <2>1. /\ thread[t].a \in Anchors /\ thread[t].at \in Nat /\ thread[t].t \in 0..MaxNow
        /\ thread[t].a.of \in Owners
    BY <1>0 DEF Calls, Anchors
  <2>2. released_quit_at(thread[t].a, thread[t].at, thread[t].t) \in I64
    BY <2>1, ReleasedLine, SessionReleaseAssumption, ClockMathAssumption
  <2>3. Answering(t, released_quit_at(thread[t].a, thread[t].at, thread[t].t), thread[t].a.of) \in Calls
    BY <2>1, <2>2, CallTypes
  <2>4. [Idle EXCEPT !.pc = "after", !.floor = thread[t].floor] \in Calls
    <3> HIDE DEF Idle
    <3> QED BY <1>0, AnchorTypes DEF Calls
  <2>5. thread' \in [Threads -> Calls]
    <3> HIDE DEF Idle
    <3> QED BY <1>0, <1>8, <2>3, <2>4 DEF CheckBlock
  <2>6. detached' \in [Procs -> BOOLEAN] BY <1>0, <1>8, Types, TypesPrimed DEF CheckBlock
  <2> QED BY <1>8, <2>5, <2>6, Types, TypesPrimed DEF CheckBlock
<1>9. CASE AnswerAfter(t)
  <2> DEFINE r == released[ProcOf[t]]
  <2>1. r \in [at : Nat, a : Anchors] /\ r.at \in Nat /\ r.a \in Anchors /\ r.a.of \in Owners
    BY <1>0, Types, TypesPrimed DEF Anchors
  <2>2. released_quit_at(r.a, r.at, now) \in I64 /\ now \in I64
    BY <1>0, <2>1, ReleasedLine, SessionReleaseAssumption, ClockMathAssumption DEF I64
  <2>3. /\ Answering(t, now, "real") \in Calls
        /\ Answering(t, released_quit_at(r.a, r.at, now), r.a.of) \in Calls
    BY <2>1, <2>2, CallTypes
  <2>4. thread' = [thread EXCEPT ![t] = IF r = NotReleased THEN Answering(t, now, "real")
                       ELSE Answering(t, released_quit_at(r.a, r.at, now), r.a.of)]
    BY <1>9 DEF AnswerAfter
  <2> HIDE DEF r
  <2>5. thread' \in [Threads -> Calls] BY <1>0, <2>3, <2>4
  <2> QED BY <1>9, <2>5, Types, TypesPrimed DEF AnswerAfter, process
<1>10. CASE Return(t)
  <2>1. thread[t].v \in I64 BY <1>0 DEF Calls
  <2>2. served' \in [Procs -> I64] BY <1>0, <1>10, <2>1, Types, TypesPrimed DEF Return, at_least
  <2>3. thread' \in [Threads -> Calls] BY <1>0, <1>10, AnchorTypes DEF Return
  <2> QED BY <1>10, <2>2, <2>3, Types, TypesPrimed DEF Return, process
<1> QED BY <1>1, <1>2, <1>3, <1>4, <1>5, <1>6, <1>7, <1>8, <1>9, <1>10 DEF Step

LEMMA TypeStep == TypeOK /\ [Next]_vars => TypeOK'
<1> SUFFICES ASSUME TypeOK, [Next]_vars PROVE TypeOK' OBVIOUS
<1>1. CASE UNCHANGED vars BY <1>1, Types, TypesPrimed DEF vars, process
<1>2. CASE Advance
  <2>1. now' \in 1..MaxNow
    BY <1>2, SessionReleaseAssumption, ClockMathAssumption DEF Advance, TypeOK
  <2> QED BY <1>2, <2>1, Types, TypesPrimed DEF Advance, process
<1> QED BY <1>1, <1>2, CoreTypeStep, ReleaseTypeStep, BeginTypeStep, CallTypeStep DEF Next

-----------------------------------------------------------------------------
(* The session: one anchor after its end, and never another's.             *)

LEMMA InitSInv == Init => SInv
<1> SUFFICES ASSUME Init PROVE SInv OBVIOUS
<1>1. TypeOK BY InitType
<1>2. CoreInv BY DEF Init, CoreInv, Over, StillOurs, Unzeroed, Anchor, First
<1>3. block.anchor.of = First /\ block.anchor.c0 = 1 /\ block.anchor.q0 = 1 /\ now = 1
  BY DEF Init, Anchor
<1>4. /\ \A p \in Procs : rel[p].a = Zeroes /\ released[p] = NotReleased /\ rel[p].at = 0
      /\ \A p \in Procs : rel[p].pc = "none"
      /\ \A t \in Threads : thread[t].a = Zeroes /\ thread[t].of = "0"
  BY DEF Init, Idle
<1>5. /\ Zeroes.of = "0" /\ NotReleased.a = Zeroes BY DEF Zeroes, Anchor, NotReleased
<1>6. AnchorInv BY <1>3, <1>4, <1>5 DEF AnchorInv, Sound, First
<1>7. OwnInv BY <1>4, <1>5 DEF OwnInv
<1>8. WatchInv BY <1>4, <1>5 DEF WatchInv, Early, First
<1>9. OneAnchor BY DEF OneAnchor, Init
<1> QED BY <1>1, <1>2, <1>6, <1>7, <1>8, <1>9 DEF SInv

LEMMA ZeroesFacts == Zeroes.of = "0" /\ NotReleased.a = Zeroes /\ NotReleased.at = 0 /\ First = "A"
  BY DEF Zeroes, Anchor, NotReleased, First

\* A rate change moves the anchor to where the session stands.
LEMMA RebasedSound ==
    ASSUME SInv, core = "running", NEW m \in Nat
    PROVE  /\ Rebased(m).q0 = now /\ Rebased(m).q0 <= Rebased(m).c0 /\ Rebased(m).of = First
           /\ Rebased(m).m = m /\ Rebased(m) \in Anchors /\ block.anchor.of = First
<1>1. block.anchor.of = First BY DEF SInv, CoreInv, Unzeroed, Over
<1>2. block.anchor \in Anchors /\ block.anchor.q0 <= block.anchor.c0 /\ now \in 0..MaxNow
  BY <1>1, SessionReleaseAssumption, ClockMathAssumption DEF SInv, TypeOK, AnchorInv, Sound
<1>3. now <= released_quit_at(block.anchor, 0, now) BY <1>2, AheadOfReal
<1>4. released_quit_at(block.anchor, 0, now)
          = dur_quit_at(block.anchor.c0, block.anchor.q0, block.anchor.m, now)
  BY DEF released_quit_at
<1> QED BY <1>1, <1>3, <1>4, RebasedType DEF SInv

\* The first core's steps.
LEMMA FirstCoreSInv ==
    ASSUME SInv, TypeOK', FirstCore
    PROVE  SInv'
<1>0. UNCHANGED <<now, next, rel, released, thread>>
  BY DEF FirstCore, ChangeRate, SlowDown, End, Exit, Kill, process
<1>1. CoreInv'
  <2>1. block \in Blocks BY Types DEF SInv
  <2>2. ASSUME NEW m \in Nat, core = "running",
               block' = [block EXCEPT !.anchor = Rebased(m), !.seq = @ + 2]
        PROVE  /\ block'.pid = block.pid /\ block'.seq = block.seq + 2
               /\ block'.ended = block.ended /\ block'.anchor.of = First
               /\ block.seq \in Nat /\ next.pc = "waiting"
    <3>1. Rebased(m).of = First /\ next.pc = "waiting" BY <2>2, RebasedSound DEF SInv, CoreInv, Over
    <3> QED BY <2>1, <2>2, <3>1 DEF Blocks
  <2>3. ASSUME NEW m \in Rates, ChangeRate(m) PROVE CoreInv'
    <3>1. m \in Nat BY SessionReleaseAssumption
    <3>2. /\ block'.pid = block.pid /\ block'.seq = block.seq + 2
          /\ block'.ended = block.ended /\ block'.anchor.of = First
          /\ block.seq \in Nat /\ next.pc = "waiting" /\ UNCHANGED <<core, next, inOrder>>
      BY <2>2, <2>3, <3>1 DEF ChangeRate
    <3>3. block'.seq >= 2 BY <3>2 DEF SInv, CoreInv, Unzeroed
    <3> QED BY <3>2, <3>3 DEF SInv, CoreInv, Unzeroed, Over, StillOurs
  <2>4. CASE SlowDown
    <3>2. /\ block'.pid = block.pid /\ block'.seq = block.seq + 2
          /\ block'.ended = block.ended /\ block'.anchor.of = First
          /\ block.seq \in Nat /\ next.pc = "waiting" /\ core = "running" /\ core' = "slowed"
          /\ inOrder' = TRUE /\ next' = next
      BY <2>2, <2>4 DEF SlowDown
    <3>3. block'.seq >= 2 BY <3>2 DEF SInv, CoreInv, Unzeroed
    <3>4. ~block.ended BY <3>2 DEF SInv, CoreInv, Over
    <3> QED BY <3>2, <3>3, <3>4 DEF SInv, CoreInv, Unzeroed, Over, StillOurs
  <2>5. CASE End
    <3>1. /\ block'.pid = block.pid /\ block'.seq = block.seq /\ block'.anchor = block.anchor
          /\ core = "slowed" /\ core' = "ended" /\ inOrder' = inOrder /\ next' = next
      BY <2>1, <2>5 DEF End, Blocks
    <3> QED BY <3>1 DEF SInv, CoreInv, Unzeroed, Over, StillOurs
  <2>6. CASE Exit \/ Kill BY <2>6 DEF Exit, Kill, SInv, CoreInv, Unzeroed, Over, StillOurs
  <2> QED BY <2>3, <2>4, <2>5, <2>6 DEF FirstCore
<1>2. \/ block'.anchor = block.anchor
      \/ core = "running" /\ \E m \in Nat : block'.anchor = Rebased(m)
  <2>0. block \in Blocks BY Types DEF SInv
  <2>1. ASSUME NEW m \in Rates, ChangeRate(m)
        PROVE  core = "running" /\ m \in Nat /\ block'.anchor = Rebased(m)
    BY <2>0, <2>1, SessionReleaseAssumption DEF ChangeRate, Blocks
  <2>2. CASE SlowDown BY <2>0, <2>2 DEF SlowDown, Blocks
  <2>3. CASE End \/ Exit \/ Kill BY <2>0, <2>3 DEF End, Exit, Kill, Blocks
  <2> QED BY <2>1, <2>2, <2>3 DEF FirstCore
<1>3. block'.pid = block.pid
  BY Types DEF FirstCore, ChangeRate, SlowDown, End, Exit, Kill, SInv, Blocks
<1>4. AnchorInv'
  <2>1. Sound(block.anchor)'
    <3>1. CASE block'.anchor = block.anchor BY <1>0, <3>1 DEF SInv, AnchorInv, Sound
    <3>2. ASSUME core = "running", NEW m \in Nat, block'.anchor = Rebased(m)
          PROVE  Sound(block.anchor)'
      <4>1. now \in Int BY SessionReleaseAssumption DEF SInv, TypeOK
      <4> QED BY <1>0, <3>2, <4>1, RebasedSound, ZeroesFacts DEF Sound
    <3> QED BY <1>2, <3>1, <3>2
  <2> QED BY <1>0, <2>1 DEF SInv, AnchorInv, Sound
<1>5. OwnInv' BY <1>0, <1>3 DEF SInv, OwnInv, StillOurs
<1>6. WatchInv'
  <2>1. Over => Over' /\ block'.anchor = block.anchor
    BY <1>2 DEF Over, FirstCore, ChangeRate, SlowDown, End, Exit, Kill
  <2>2. CASE Over BY <1>0, <2>1, <2>2 DEF SInv, WatchInv
  <2>3. CASE ~Over
    <3>1. \A p \in Procs : rel'[p].pc \in Early BY <1>0, <2>3 DEF SInv, WatchInv
    <3>2. \A p \in Procs : rel'[p].a = Zeroes /\ rel'[p].at = 0 /\ released'[p] = NotReleased
      BY <1>0, <3>1 DEF SInv, WatchInv
    <3> QED BY <3>1, <3>2, ZeroesFacts DEF WatchInv, Early
  <2> QED BY <2>2, <2>3
<1>7. OneAnchor'
  <2>1. ASSUME NEW m \in Rates, ChangeRate(m) PROVE OneAnchor'
    BY <2>1 DEF ChangeRate, SInv, CoreInv, OneAnchor
  <2>2. CASE SlowDown
    <3>1. core = "running" /\ block'.anchor = Rebased(1) BY <2>2, Types DEF SlowDown, SInv, Blocks
    <3>2. \A p \in Procs : rel'[p].a.of # First /\ released'[p].a.of # First
      BY <1>0, <3>1, ZeroesFacts DEF SInv, WatchInv, Over
    <3>3. \A a \in Firsts' : a = Rebased(1) BY <3>1, <3>2 DEF Firsts
    <3>4. Rebased(1).m = 1 BY <3>1, RebasedSound
    <3> QED BY <3>3, <3>4 DEF OneAnchor
  <2>3. CASE End \/ Exit \/ Kill
    <3>1. inOrder' = inOrder /\ block'.anchor = block.anchor
      BY <2>3, Types DEF End, Exit, Kill, SInv, Blocks
    <3>2. Firsts' = Firsts BY <1>0, <3>1 DEF Firsts
    <3> QED BY <3>1, <3>2 DEF SInv, OneAnchor
  <2> QED BY <2>1, <2>2, <2>3 DEF FirstCore
<1> QED BY <1>1, <1>4, <1>5, <1>6, <1>7 DEF SInv

\* The next core's steps.
LEMMA NewCoreSInv ==
    ASSUME SInv, TypeOK', NewCore
    PROVE  SInv'
<1>0. /\ UNCHANGED <<now, core, inOrder, rel, released, thread>>
      /\ block \in Blocks
  BY Types DEF NewCore, Lock, Zero, OpenAnchor, StoreAnchor, CloseAnchor, WritePid, NextCore,
               process, SInv
<1>1. Over
  BY DEF NewCore, Lock, Zero, OpenAnchor, StoreAnchor, CloseAnchor, WritePid, NextCore, LockFree,
         Over, SInv, CoreInv
<1>2. /\ block'.anchor = block.anchor \/ block'.anchor = Zeroes \/ block'.anchor.of = "B"
      /\ block'.pid = block.pid \/ block'.pid # First
      /\ block'.anchor.of = "B" /\ block'.anchor # block.anchor => block.pid # First
  <2>1. CASE Lock BY <2>1 DEF Lock
  <2>2. ASSUME NEW field \in Fields, Zero(field)
        PROVE /\ block'.anchor = block.anchor \/ block'.anchor = Zeroes
              /\ block'.pid = block.pid \/ block'.pid # First
    <3>1. CASE field = "anchor" \/ field = "pid" BY <1>0, <2>2, <3>1, ZeroesFacts DEF Zero, Blocks
    <3>2. CASE field = "seq" \/ field = "ended" BY <1>0, <2>2, <3>2 DEF Zero, Blocks
    <3> QED BY <3>1, <3>2 DEF Fields
  <2>3. CASE OpenAnchor \/ CloseAnchor \/ WritePid
    BY <1>0, <2>3, ZeroesFacts DEF OpenAnchor, CloseAnchor, WritePid, Blocks
  <2>4. CASE StoreAnchor
    <3>1. block'.anchor.of = "B" /\ block'.pid = block.pid /\ next.pc = "store"
      BY <1>0, <2>4 DEF StoreAnchor, NextCore, Blocks, Anchor
    <3> QED BY <3>1 DEF SInv, CoreInv, Unzeroed, StillOurs
  <2> QED BY <2>1, <2>2, <2>3, <2>4, ZeroesFacts DEF NewCore
<1>3. CoreInv'
  <2>1. CASE Lock BY <1>1, <2>1, <1>0 DEF Lock, SInv, CoreInv, Over, Unzeroed, StillOurs, Fields
  <2>2. ASSUME NEW field \in Fields, Zero(field) PROVE CoreInv'
    <3>0. /\ next.pc = "zero" /\ field \in next.left /\ next'.left = next.left \ {field}
          /\ next.left \subseteq Fields
          /\ next'.pc = IF next.left = {field} THEN "open" ELSE "zero"
      BY <2>2 DEF Zero, SInv, TypeOK
    <3>1. \A f \in Fields : Unzeroed(f)' <=> Unzeroed(f) /\ f # field BY <3>0 DEF Unzeroed
    <3>2. CASE field = "seq"
      <4>1. /\ block'.seq = 0 /\ block'.anchor = block.anchor /\ block'.pid = block.pid
            /\ block'.ended = block.ended
        BY <1>0, <2>2, <3>2 DEF Zero, Blocks
      <4> QED BY <1>0, <1>1, <3>0, <3>1, <3>2, <4>1 DEF SInv, CoreInv, Over, StillOurs, Fields
    <3>3. CASE field = "anchor"
      <4>1. /\ block'.seq = block.seq /\ block'.anchor = Zeroes /\ block'.pid = block.pid
            /\ block'.ended = block.ended
        BY <1>0, <2>2, <3>3 DEF Zero, Blocks
      <4> QED BY <1>0, <1>1, <3>0, <3>1, <3>3, <4>1 DEF SInv, CoreInv, Over, StillOurs, Fields
    <3>4. CASE field = "pid"
      <4>1. /\ block'.seq = block.seq /\ block'.anchor = block.anchor /\ block'.pid = "0"
            /\ block'.ended = block.ended
        BY <1>0, <2>2, <3>4 DEF Zero, Blocks
      <4> QED
        BY <1>0, <1>1, <3>0, <3>1, <3>4, <4>1, ZeroesFacts
        DEF SInv, CoreInv, Over, StillOurs, Fields
    <3>5. CASE field = "ended"
      <4>1. /\ block'.seq = block.seq /\ block'.anchor = block.anchor /\ block'.pid = block.pid
            /\ block'.ended = FALSE
        BY <1>0, <2>2, <3>5 DEF Zero, Blocks
      <4> QED BY <1>0, <1>1, <3>0, <3>1, <3>5, <4>1 DEF SInv, CoreInv, Over, StillOurs, Fields
    <3> QED BY <3>2, <3>3, <3>4, <3>5 DEF Fields
  <2>3. CASE OpenAnchor
    BY <1>0, <1>1, <2>3
    DEF OpenAnchor, NextCore, SInv, CoreInv, Over, StillOurs, Unzeroed, TypeOK, Blocks
  <2>4. CASE StoreAnchor
    BY <1>0, <1>1, <2>4
    DEF StoreAnchor, NextCore, SInv, CoreInv, Over, StillOurs, Unzeroed, TypeOK, Blocks, Anchor
  <2>5. CASE CloseAnchor
    BY <1>0, <1>1, <2>5
    DEF CloseAnchor, NextCore, SInv, CoreInv, Over, StillOurs, Unzeroed, TypeOK, Blocks
  <2>6. CASE WritePid
    BY <1>0, <1>1, <2>6, ZeroesFacts
    DEF WritePid, NextCore, SInv, CoreInv, Over, StillOurs, Unzeroed, TypeOK, Blocks
  <2> QED BY <2>1, <2>2, <2>3, <2>4, <2>5, <2>6 DEF NewCore
<1>4. AnchorInv'
  <2>1. Sound(block.anchor)' BY <1>0, <1>2, ZeroesFacts DEF SInv, AnchorInv, Sound
  <2> QED BY <1>0, <2>1 DEF SInv, AnchorInv, Sound
<1>5. OwnInv' BY <1>0, <1>2 DEF SInv, OwnInv, StillOurs
<1>6. WatchInv' BY <1>0, <1>1, <1>2, ZeroesFacts DEF SInv, WatchInv, Over
<1>7. OneAnchor'
  <2>1. Firsts' \subseteq Firsts BY <1>0, <1>2, ZeroesFacts DEF Firsts
  <2> QED BY <1>0, <2>1 DEF SInv, OneAnchor
<1> QED BY <1>3, <1>4, <1>5, <1>6, <1>7 DEF SInv

\* A step inside a process takes its anchors from the block, or from its own watcher while
\* the block is still the session's.
LEMMA ProcessFrame ==
    ASSUME SInv, TypeOK', UNCHANGED <<core, next, block, inOrder>>, now <= now',
           \A p \in Procs : rel'[p].a = rel[p].a \/ rel'[p].a = Zeroes \/ rel'[p].a = block.anchor,
           \A p \in Procs : \/ released'[p].a = released[p].a
                            \/ released'[p].a = rel[p].a /\ StillOurs,
           \A t \in Threads : \/ thread'[t].a = thread[t].a
                              \/ thread'[t].a = Zeroes \/ thread'[t].a = block.anchor,
           \A t \in Threads : thread'[t].of # "B",
           WatchInv'
    PROVE  SInv'
<1>1. CoreInv' BY DEF SInv, CoreInv, Over, StillOurs, Unzeroed
<1>2. \A a \in Anchors : Sound(a) => Sound(a)'
  <2>1. now \in Int /\ now' \in Int /\ \A a \in Anchors : a.q0 \in Int
    BY SessionReleaseAssumption, ClockMathAssumption DEF SInv, TypeOK, Anchors
  <2> QED BY <2>1 DEF Sound
<1>3. /\ block.anchor \in Anchors /\ \A p \in Procs : rel[p].a \in Anchors /\ released[p].a \in Anchors
      /\ \A t \in Threads : thread[t].a \in Anchors
  BY DEF SInv, TypeOK
<1>4. Sound(Zeroes) BY ZeroesFacts DEF Sound
<1>5. AnchorInv'
  <2>1. Sound(block.anchor)' BY <1>2, <1>3 DEF SInv, AnchorInv, Sound
  <2>2. ASSUME NEW p \in Procs PROVE Sound(rel[p].a)' /\ Sound(released[p].a)'
    <3>1. \E a \in Anchors : a = rel'[p].a /\ Sound(a)
      BY <1>3, <1>4, AnchorTypes DEF SInv, AnchorInv
    <3>2. \E a \in Anchors : a = released'[p].a /\ Sound(a) BY <1>3 DEF SInv, AnchorInv
    <3> QED BY <1>2, <3>1, <3>2 DEF Sound
  <2>3. ASSUME NEW t \in Threads PROVE Sound(thread[t].a)'
    <3>1. \E a \in Anchors : a = thread'[t].a /\ Sound(a)
      BY <1>3, <1>4, AnchorTypes DEF SInv, AnchorInv
    <3> QED BY <1>2, <3>1 DEF Sound
  <2> QED BY <2>1, <2>2, <2>3 DEF AnchorInv
<1>6. block.anchor.of = "B" => ~StillOurs BY ZeroesFacts DEF SInv, CoreInv, Unzeroed, First
<1>7. OwnInv' BY <1>6, ZeroesFacts DEF SInv, OwnInv, StillOurs
<1>8. Firsts' \subseteq Firsts BY ZeroesFacts DEF Firsts
<1>9. OneAnchor' BY <1>8 DEF SInv, OneAnchor
<1> QED BY <1>1, <1>5, <1>7, <1>9 DEF SInv

\* What the first look of a process takes for the end is the end.
LEMMA OverWhenSeen ==
    ASSUME SInv, SessionOver
    PROVE  Over
  BY DEF SInv, CoreInv, SessionOver, Over, Unzeroed

\* The watcher, or the thread that does its work.
LEMMA ReleaseSInv ==
    ASSUME SInv, TypeOK', NEW p \in Procs, Release(p)
    PROVE  SInv'
<1>0. /\ UNCHANGED <<now, core, next, block, inOrder, thread>>
      /\ rel[p].pc \notin {"none", "never"}
      /\ now \in Int /\ rel \in [Procs -> Watchers] /\ rel[p] \in Watchers
      /\ released \in [Procs -> [at : Nat, a : Anchors]]
  BY Types, SessionReleaseAssumption
  DEF Release, Wake, PublishInstant, ReadAnchor, CheckOwner, Detach, RelAt, SInv, TypeOK
<1>1. CASE Wake(p)
  <2>1. /\ rel' = [rel EXCEPT ![p] = [@ EXCEPT !.pc = "publish", !.at = now + Margin]]
        /\ released' = released /\ core = "gone" /\ rel[p].pc = "waiting"
    BY <1>0, <1>1 DEF Wake, RelAt, Watchers
  <2>2. /\ rel'[p].pc = "publish" /\ rel'[p].at = now + Margin /\ rel'[p].a = Zeroes
        /\ released[p] = NotReleased
        /\ \A q \in Procs \ {p} : rel'[q] = rel[q]
    BY <1>0, <2>1 DEF Watchers, SInv, WatchInv, Early
  <2>3. block.anchor.of = First => block.anchor.q0 < now + Margin
    BY <1>0, SessionReleaseAssumption, ClockMathAssumption
    DEF SInv, AnchorInv, Sound, TypeOK, Anchors
  <2>4. WatchInv' BY <1>0, <2>1, <2>2, <2>3, ZeroesFacts DEF SInv, WatchInv, Over, Early
  <2>5. \A q \in Procs : rel'[q].a = rel[q].a BY <2>1, <2>2 DEF SInv, WatchInv, Early
  <2> QED BY <1>0, <2>1, <2>4, <2>5, ProcessFrame DEF SInv, OwnInv
<1>2. CASE PublishInstant(p)
  <2>1. /\ \A q \in Procs : rel'[q].a = rel[q].a /\ rel'[q].at = rel[q].at
        /\ released' = released /\ rel[p].pc = "publish" /\ rel'[p].pc = "read"
        /\ \A q \in Procs \ {p} : rel'[q] = rel[q]
    BY <1>0, <1>2 DEF PublishInstant, RelAt, Watchers
  <2>2. WatchInv' BY <1>0, <2>1 DEF SInv, WatchInv, Over, Early
  <2> QED BY <1>0, <2>1, <2>2, ProcessFrame DEF SInv, OwnInv
<1>3. CASE ReadAnchor(p)
  <2>1. /\ rel'[p].a = block.anchor /\ rel'[p].at = rel[p].at
        /\ released' = released /\ rel[p].pc = "read" /\ rel'[p].pc = "owner"
        /\ \A q \in Procs \ {p} : rel'[q] = rel[q]
    BY <1>0, <1>3 DEF ReadAnchor, RelAt, Watchers
  <2>2. WatchInv' BY <1>0, <2>1 DEF SInv, WatchInv, Over, Early
  <2>3. \A q \in Procs : rel'[q].a = rel[q].a \/ rel'[q].a = block.anchor BY <2>1
  <2> QED BY <1>0, <2>1, <2>2, <2>3, ProcessFrame DEF SInv, OwnInv
<1>4. CASE CheckOwner(p)
  <2>1. /\ rel'[p].a = Zeroes /\ rel[p].pc = "owner" /\ rel'[p].pc = "flag"
        /\ \A q \in Procs \ {p} : rel'[q] = rel[q] /\ released'[q] = released[q]
        /\ \/ released'[p] = released[p]
           \/ StillOurs /\ released'[p] = [at |-> rel[p].at, a |-> rel[p].a]
    BY <1>0, <1>4 DEF CheckOwner, RelAt, Watchers
  <2>2. WatchInv' BY <1>0, <2>1, ZeroesFacts DEF SInv, WatchInv, Over, Early
  <2>3. \A q \in Procs : rel'[q].a = rel[q].a \/ rel'[q].a = Zeroes BY <2>1
  <2>4. \A q \in Procs : \/ released'[q].a = released[q].a
                         \/ released'[q].a = rel[q].a /\ StillOurs
    BY <2>1
  <2> QED BY <1>0, <2>2, <2>3, <2>4, ProcessFrame DEF SInv, OwnInv
<1>5. CASE Detach(p)
  <2>1. /\ \A q \in Procs : rel'[q].a = rel[q].a /\ rel'[q].at = rel[q].at
        /\ released' = released /\ rel[p].pc = "flag" /\ rel'[p].pc = "done"
        /\ \A q \in Procs \ {p} : rel'[q] = rel[q]
    BY <1>0, <1>5 DEF Detach, RelAt, Watchers
  <2>2. WatchInv' BY <1>0, <2>1 DEF SInv, WatchInv, Over, Early
  <2> QED BY <1>0, <2>1, <2>2, ProcessFrame DEF SInv, OwnInv
<1> QED BY <1>1, <1>2, <1>3, <1>4, <1>5 DEF Release

\* The beginning of a call.
LEMMA BeginSInv ==
    ASSUME SInv, TypeOK', NEW t \in Threads, Begin(t)
    PROVE  SInv'
<1> DEFINE p == ProcOf[t]
<1>0. /\ UNCHANGED <<now, core, next, block, inOrder, released>>
      /\ now \in Int /\ rel \in [Procs -> Watchers] /\ p \in Procs /\ rel[p] \in Watchers
      /\ thread \in [Threads -> Calls]
  BY Types, CallTypes, SessionReleaseAssumption
  DEF Begin, Call, FirstLookOver, StartWatcher, StartFails, process, SInv, TypeOK
<1>1. \A q \in Threads : /\ thread'[q].a = thread[q].a \/ thread'[q].a = Zeroes
                         /\ thread'[q].of # "B"
  <2>1. \E pc \in {"flag", "releasing", "look", "after"} :
            thread' = [thread EXCEPT ![t] = Begun(t, pc)]
    BY DEF Begin, Call, FirstLookOver, StartWatcher, StartFails, Branch
  <2>2. \A pc \in {"flag", "releasing", "look", "after"} :
            Begun(t, pc).a = Zeroes /\ Begun(t, pc).of = "0"
    BY CallTypes DEF SInv
  <2> QED BY <1>0, <2>1, <2>2 DEF SInv, OwnInv
<1>2. CASE Call(t)
  <2>1. rel' = rel BY <1>2 DEF Call, process
  <2>2. WatchInv' BY <1>0, <2>1 DEF SInv, WatchInv, Over
  <2> QED BY <1>0, <1>1, <2>1, <2>2, ProcessFrame
<1>3. CASE FirstLookOver(t)
  <2>1. /\ rel' = [rel EXCEPT ![p] = [@ EXCEPT !.pc = "publish", !.at = now + Margin]]
        /\ rel[p].pc = "none"
    BY <1>0, <1>3 DEF FirstLookOver, RelAt, Watchers
  <2>2. /\ rel'[p].pc = "publish" /\ rel'[p].at = now + Margin /\ rel'[p].a = Zeroes
        /\ released[p] = NotReleased /\ rel[p].a = Zeroes
        /\ \A q \in Procs \ {p} : rel'[q] = rel[q]
    BY <1>0, <2>1 DEF Watchers, SInv, WatchInv, Early
  <2>3. block.anchor.of = First => block.anchor.q0 < now + Margin
    BY <1>0, SessionReleaseAssumption, ClockMathAssumption
    DEF SInv, AnchorInv, Sound, TypeOK, Anchors
  <2>4. Over BY <1>3, OverWhenSeen DEF FirstLookOver
  <2>5. WatchInv' BY <1>0, <2>1, <2>2, <2>3, <2>4, ZeroesFacts DEF SInv, WatchInv, Over, Early
  <2>6. \A q \in Procs : rel'[q].a = rel[q].a BY <2>2
  <2> QED BY <1>0, <1>1, <2>5, <2>6, ProcessFrame
<1>4. CASE StartWatcher(t) \/ StartFails(t)
  <2>1. /\ \A q \in Procs : rel'[q].a = rel[q].a /\ rel'[q].at = rel[q].at
        /\ rel[p].pc = "none" /\ rel'[p].pc \in Early
        /\ \A q \in Procs \ {p} : rel'[q] = rel[q]
    BY <1>0, <1>4 DEF StartWatcher, StartFails, RelAt, Watchers, Early
  <2>2. WatchInv' BY <1>0, <2>1 DEF SInv, WatchInv, Over, Early
  <2> QED BY <1>0, <1>1, <2>1, <2>2, ProcessFrame
<1> QED BY <1>2, <1>3, <1>4 DEF Begin

\* The steps of a call.
LEMMA StepSInv ==
    ASSUME SInv, TypeOK', NEW t \in Threads, Step(t)
    PROVE  SInv'
<1>0. /\ UNCHANGED <<now, core, next, block, inOrder, released, rel>>
      /\ now \in Int /\ thread \in [Threads -> Calls] /\ thread[t] \in Calls
  BY Types, SessionReleaseAssumption
  DEF Step, ReleasedHere, SeesFlag, Look, ReadFields, ReadClock, Recheck, LoadInstant,
      CheckBlock, AnswerAfter, Return, process, SInv, TypeOK
<1>1. /\ \A q \in Threads \ {t} : thread'[q] = thread[q]
      /\ thread'[t].a = thread[t].a \/ thread'[t].a = Zeroes \/ thread'[t].a = block.anchor
      /\ thread'[t].of # "B"
  <2>0. thread[t].of # "B" /\ Idle.a = Zeroes /\ Idle.of = "0" BY DEF SInv, OwnInv, Idle
  <2> HIDE DEF Idle
  <2>6. \A pc \in {"look", "after"} : /\ [Idle EXCEPT !.pc = pc, !.floor = thread[t].floor].a = Zeroes
                                     /\ [Idle EXCEPT !.pc = pc, !.floor = thread[t].floor].of = "0"
    BY <2>0, AnchorTypes DEF Calls
  <2>1. CASE ReleasedHere(t) \/ SeesFlag(t) \/ Look(t) \/ ReadFields(t) \/ ReadClock(t)
             \/ LoadInstant(t)
    BY <1>0, <2>0, <2>1 DEF ReleasedHere, SeesFlag, Look, ReadFields, ReadClock, LoadInstant, Calls
  <2>2. CASE Recheck(t)
    <3>1. \/ thread' = [thread EXCEPT ![t] = [thread[t] EXCEPT !.pc = "instant", !.look = 0]]
          \/ thread' = [thread EXCEPT ![t] = [Idle EXCEPT !.pc = "look", !.floor = thread[t].floor]]
      BY <1>0, <2>2 DEF Recheck
    <3>2. \A c \in Calls : /\ [c EXCEPT !.pc = "instant", !.look = 0].a = c.a
                           /\ [c EXCEPT !.pc = "instant", !.look = 0].of = c.of
      BY DEF Calls
    <3> QED BY <1>0, <2>0, <2>6, <3>1, <3>2
  <2>3. CASE CheckBlock(t)
    <3> DEFINE v == released_quit_at(thread[t].a, thread[t].at, thread[t].t)
    <3>1. /\ thread[t].a \in Anchors /\ thread[t].at \in Nat /\ thread[t].t \in 0..MaxNow
          /\ thread[t].a.of \in Owners
      BY <1>0 DEF Calls, Anchors
    <3>2. v \in I64 BY <3>1, ReleasedLine, SessionReleaseAssumption, ClockMathAssumption
    <3> HIDE DEF v
    <3>3. /\ Answering(t, v, thread[t].a.of).of = thread[t].a.of
          /\ Answering(t, v, thread[t].a.of).a = Zeroes
      BY <3>1, <3>2, CallTypes DEF SInv
    <3>4. \/ StillOurs /\ thread' = [thread EXCEPT ![t] = Answering(t, v, thread[t].a.of)]
          \/ thread' = [thread EXCEPT ![t] = [Idle EXCEPT !.pc = "after", !.floor = thread[t].floor]]
      BY <2>3 DEF CheckBlock, v
    <3>5. StillOurs => thread[t].a.of # "B" BY DEF SInv, OwnInv
    <3> QED BY <1>0, <2>6, <3>3, <3>4, <3>5
  <2>4. CASE AnswerAfter(t)
    <3> DEFINE r == released[ProcOf[t]]
               v == released_quit_at(r.a, r.at, now)
    <3>1. r.a \in Anchors /\ r.at \in Nat /\ r.a.of \in Owners /\ r.a.of # "B" /\ now \in 0..MaxNow
      BY CallTypes, Types DEF SInv, OwnInv, Anchors
    <3>2. v \in I64 /\ now \in I64
      BY <3>1, ReleasedLine, SessionReleaseAssumption, ClockMathAssumption DEF I64
    <3>3. \/ thread' = [thread EXCEPT ![t] = Answering(t, now, "real")]
          \/ thread' = [thread EXCEPT ![t] = Answering(t, v, r.a.of)]
      BY <2>4 DEF AnswerAfter
    <3> HIDE DEF v, r
    <3>4. /\ Answering(t, now, "real").of = "real" /\ Answering(t, now, "real").a = Zeroes
          /\ Answering(t, v, r.a.of).of = r.a.of /\ Answering(t, v, r.a.of).a = Zeroes
      BY <3>1, <3>2, CallTypes DEF SInv
    <3> QED BY <1>0, <3>1, <3>3, <3>4
  <2>5. CASE Return(t) BY <1>0, <2>0, <2>5 DEF Return
  <2> QED BY <2>1, <2>2, <2>3, <2>4, <2>5 DEF Step
<1>2. WatchInv' BY <1>0 DEF SInv, WatchInv, Over
<1> QED BY <1>0, <1>1, <1>2, ProcessFrame DEF SInv, OwnInv

LEMMA SInvStep == SInv /\ [Next]_vars => SInv'
<1> SUFFICES ASSUME SInv, [Next]_vars PROVE SInv' OBVIOUS
<1>0. TypeOK' BY TypeStep DEF SInv
<1>1. CASE UNCHANGED vars
  <2>1. UNCHANGED <<now, core, next, block, inOrder, released, rel, thread>> BY <1>1 DEF vars
  <2>2. WatchInv' /\ now <= now' BY <2>1, SessionReleaseAssumption DEF SInv, WatchInv, Over, TypeOK
  <2> QED BY <1>0, <2>1, <2>2, ProcessFrame DEF SInv, OwnInv
<1>2. CASE Advance
  <2>1. UNCHANGED <<core, next, block, inOrder, released, rel, thread>> BY <1>2 DEF Advance, process
  <2>2. WatchInv' /\ now <= now'
    BY <1>2, <2>1, SessionReleaseAssumption DEF Advance, SInv, WatchInv, Over, TypeOK
  <2> QED BY <1>0, <2>1, <2>2, ProcessFrame DEF SInv, OwnInv
<1>3. CASE FirstCore BY <1>0, <1>3, FirstCoreSInv
<1>4. CASE NewCore BY <1>0, <1>4, NewCoreSInv
<1>5. ASSUME NEW p \in Procs, Release(p) PROVE SInv' BY <1>0, <1>5, ReleaseSInv
<1>6. ASSUME NEW t \in Threads, Begin(t) \/ Step(t) PROVE SInv' BY <1>0, <1>6, BeginSInv, StepSInv
<1> QED BY <1>1, <1>2, <1>3, <1>4, <1>5, <1>6 DEF Next

\* What holds of a state of which SInv holds.
LEMMA SInvSays == SInv => NeverAnothersTime /\ OneLineAfterTheEnd
<1> SUFFICES ASSUME SInv PROVE NeverAnothersTime /\ OneLineAfterTheEnd OBVIOUS
<1>1. NeverAnothersTime BY DEF SInv, OwnInv, NeverAnothersTime
<1>2. OneLineAfterTheEnd
  <2> SUFFICES ASSUME NEW p \in Procs, NEW q \in Procs, inOrder,
                      released[p].a.of = First, released[q].a.of = First,
                      NEW t \in 1..MaxNow + Margin
               PROVE  released_quit_at(released[p].a, released[p].at, t)
                          = released_quit_at(released[q].a, released[q].at, t)
    BY DEF OneLineAfterTheEnd
  <2>1. released[p].a = released[q].a /\ released[p].a.m = 1 BY DEF SInv, OneAnchor, Firsts
  <2>2. /\ released[p].a \in Anchors /\ released[p].a.q0 <= released[p].a.c0
        /\ released[p].at \in Nat /\ released[q].at \in Nat
        /\ released[p].a.q0 < released[p].at /\ released[q].a.q0 < released[q].at
    BY DEF SInv, TypeOK, AnchorInv, Sound, WatchInv
  <2>3. t \in Nat BY SessionReleaseAssumption, ClockMathAssumption
  <2> QED BY <2>1, <2>2, <2>3, RateOneLine
<1> QED BY <1>1, <1>2

LEMMA SessionSound == Spec => []SInv
  BY InitSInv, SInvStep, PTL DEF Spec

\* No process is answered with another session's time, wherever the next core's writes fall
\* among the steps of its calls, and although it meets the very seq it saw before.
THEOREM OwnTimeOnly == Spec => []NeverAnothersTime
  BY SessionSound, SInvSays, PTL

\* After an end in order every process stays on the one line, whenever its watcher woke.
THEOREM OneLine == Spec => []OneLineAfterTheEnd
  BY SessionSound, SInvSays, PTL

-----------------------------------------------------------------------------
(* What a step keeps of the lines a call may be answered from.             *)

\* A line in one statement: its range, its direction, real time, the time before its instant.
LEMMA Lines ==
    ASSUME NEW a \in Anchors, NEW at \in Nat, NEW t \in 0..MaxNow
    PROVE  /\ released_quit_at(a, at, t) \in I64
           /\ \A u \in 0..MaxNow : t <= u => released_quit_at(a, at, t) <= released_quit_at(a, at, u)
           /\ a.q0 <= a.c0 => t <= released_quit_at(a, at, t)
           /\ at = 0 \/ t <= at => released_quit_at(a, at, t) = released_quit_at(a, 0, t)
<1>1. released_quit_at(a, at, t) \in I64
  <2>1. t <= t BY SessionReleaseAssumption
  <2> QED BY <2>1, ReleasedLine
<1>2. ASSUME NEW u \in 0..MaxNow, t <= u
      PROVE  released_quit_at(a, at, t) <= released_quit_at(a, at, u)
  BY <1>2, ReleasedLine
<1>3. ASSUME a.q0 <= a.c0 PROVE t <= released_quit_at(a, at, t) BY <1>3, AheadOfReal
<1>4. ASSUME at = 0 \/ t <= at PROVE released_quit_at(a, at, t) = released_quit_at(a, 0, t)
  <2>1. released_quit_at(a, at, t) = dur_quit_at(a.c0, a.q0, a.m, t) BY <1>4, BeforeRelease
  <2>2. released_quit_at(a, 0, t) = dur_quit_at(a.c0, a.q0, a.m, t) BY BeforeRelease
  <2> QED BY <2>1, <2>2
<1> QED BY <1>1, <1>2, <1>3, <1>4

LEMMA InstantType ==
    ASSUME TypeOK, NEW p \in Procs
    PROVE  ReleaseInstant(p) \in Nat
  BY DEF TypeOK, ReleaseInstant

\* Time, as the types have it.
LEMMA Clocks ==
    /\ TypeOK => now \in 0..MaxNow /\ now \in Int
    /\ TypeOK' => now' \in 0..MaxNow /\ now' \in Int
    /\ \A x \in 0..MaxNow : x \in Int
    /\ \A x \in I64 : x \in Int
  BY SessionReleaseAssumption, ClockMathAssumption DEF TypeOK, I64

\* What a step keeps of the lines a process is answered from.
Kept(p) ==
    /\ now <= now' /\ served[p] <= served'[p]
    /\ StillOurs' => StillOurs
    /\ \A v \in I64 : Reached(p, v) /\ (rel[p].pc = "none" => v <= now) => Reached(p, v)'
    /\ StillOurs' => \/ ReleaseInstant(p)' = ReleaseInstant(p)
                     \/ rel[p].pc = "none"
                     \/ ReleaseInstant(p) = 0 /\ now <= ReleaseInstant(p)'
    /\ released'[p].at = 0 => released[p].at = 0
    /\ Unzeroed("seq")' => Unzeroed("seq") /\ block.seq <= block'.seq
    /\ StillOurs' => \/ block'.seq = block.seq
                     \/ Unzeroed("seq") /\ (block'.seq = 0 \/ block'.seq > block.seq)
    /\ StillOurs' /\ block'.seq = block.seq /\ rel[p].pc # "none" =>
           \A a \in Anchors : a.of = First /\ Agrees(p, a) => Agrees(p, a)'

\* A step that leaves the block's anchor and its owner, and the process's own, alone.
LEMMA SameLines ==
    ASSUME SInv, TypeOK', NEW p \in Procs,
           UNCHANGED <<block.anchor, block.pid, block.seq, released[p], ReleaseInstant(p)>>,
           now <= now', served[p] <= served'[p],
           LettingGo(p)' => LettingGo(p) \/ rel[p].pc = "none",
           Unzeroed("seq")' => Unzeroed("seq")
    PROVE  Kept(p)
<1>0. /\ now \in 0..MaxNow /\ now' \in 0..MaxNow /\ ReleaseInstant(p) \in Nat
      /\ block.anchor \in Anchors /\ released[p].a \in Anchors /\ now \in Int /\ now' \in Int
      /\ block.seq \in Int
  BY Clocks, InstantType DEF SInv, TypeOK
<1>1. /\ Line(p, block.anchor, now) <= released_quit_at(block.anchor, ReleaseInstant(p), now')
      /\ Line(p, released[p].a, now) <= released_quit_at(released[p].a, ReleaseInstant(p), now')
      /\ Line(p, block.anchor, now) \in Int
      /\ Line(p, released[p].a, now) \in Int
      /\ released_quit_at(block.anchor, ReleaseInstant(p), now') \in Int
      /\ released_quit_at(released[p].a, ReleaseInstant(p), now') \in Int
  BY <1>0, Lines, Clocks DEF Line
<1>2. StillOurs' <=> StillOurs BY DEF StillOurs
<1>3. ASSUME NEW v \in I64, Reached(p, v) PROVE Reached(p, v)'
  BY <1>0, <1>1, <1>2, <1>3, Clocks DEF Reached, Line
<1>4. ASSUME NEW a \in Anchors, rel[p].pc # "none", Agrees(p, a) PROVE Agrees(p, a)'
  BY <1>4 DEF Agrees
<1> QED BY <1>0, <1>2, <1>3, <1>4 DEF Kept

\* The instant of a release is set to one no clock read so far has reached.
LEMMA InstantSet ==
    ASSUME SInv, TypeOK', NEW p \in Procs,
           UNCHANGED <<block, next, released[p], served, now>>,
           ReleaseInstant(p) = 0, now <= ReleaseInstant(p)',
           LettingGo(p)' => LettingGo(p) \/ rel[p].pc = "none"
    PROVE  Kept(p)
<1>0. /\ now \in 0..MaxNow /\ ReleaseInstant(p) \in Nat
      /\ block.anchor \in Anchors /\ released[p].a \in Anchors /\ now \in Int
      /\ block.seq \in Int /\ served[p] \in Int
  BY Clocks, InstantType DEF SInv, TypeOK
<1>1. ReleaseInstant(p)' \in Nat BY DEF TypeOK, ReleaseInstant
<1>2. /\ released_quit_at(block.anchor, ReleaseInstant(p)', now) = Line(p, block.anchor, now)
      /\ released_quit_at(released[p].a, ReleaseInstant(p)', now) = Line(p, released[p].a, now)
  BY <1>0, <1>1, Lines DEF Line
<1>3. StillOurs' <=> StillOurs BY DEF StillOurs
<1>4. ASSUME NEW v \in I64, Reached(p, v) PROVE Reached(p, v)' BY <1>2, <1>3, <1>4 DEF Reached, Line
<1>5. ASSUME NEW a \in Anchors, rel[p].pc # "none", Agrees(p, a) PROVE Agrees(p, a)'
  BY <1>5 DEF Agrees
<1> QED BY <1>0, <1>3, <1>4, <1>5 DEF Kept, Unzeroed

\* A rate change leaves the line where it stands.
LEMMA RateKeepsLine ==
    ASSUME SInv, LineInv, TypeOK', NEW p \in Procs, core = "running", NEW m \in Nat,
           block' = [block EXCEPT !.anchor = Rebased(m), !.seq = @ + 2],
           UNCHANGED <<now, next, process, served>>
    PROVE  Kept(p)
<1>0. /\ now \in 0..MaxNow /\ now \in Int /\ block.anchor \in Anchors /\ block \in Blocks
      /\ block.seq \in Nat /\ served[p] \in Int
  BY Clocks, Types DEF SInv, TypeOK
<1>1. /\ block'.anchor = Rebased(m) /\ block'.pid = block.pid /\ block'.seq = block.seq + 2
      /\ rel' = rel /\ released' = released
  BY <1>0 DEF Blocks, process
<1>2. /\ rel[p].pc \in Early /\ released[p] = NotReleased /\ StillOurs
      /\ next.pc = "waiting"
  BY DEF SInv, CoreInv, WatchInv, Over, Unzeroed
<1>3. ReleaseInstant(p) = 0 /\ ReleaseInstant(p)' = 0 /\ StillOurs'
  BY <1>1, <1>2, ZeroesFacts DEF ReleaseInstant, Early, StillOurs
<1>4. released_quit_at(Rebased(m), 0, now) = released_quit_at(block.anchor, 0, now)
  <2>1. /\ released_quit_at(Rebased(m), 0, now)
              = dur_quit_at(Rebased(m).c0, Rebased(m).q0, Rebased(m).m, now)
        /\ released_quit_at(block.anchor, 0, now)
              = dur_quit_at(block.anchor.c0, block.anchor.q0, block.anchor.m, now)
    BY DEF released_quit_at
  <2>2. /\ Rebased(m).c0 = dur_quit_at(block.anchor.c0, block.anchor.q0, block.anchor.m, now)
        /\ Rebased(m).c0 \in I64 /\ Rebased(m).q0 = now /\ Rebased(m).m = m
    BY RebasedType DEF SInv, Anchors
  <2>4. Rebased(m).c0 \in 0..I64_MAX BY <1>0, <2>2, RebasedSound, ClockMathAssumption DEF I64
  <2>3. dur_quit_at(Rebased(m).c0, now, m, now) = Rebased(m).c0 BY <1>0, <2>2, <2>4, LineStarts
  <2> QED BY <2>1, <2>2, <2>3
<1>5. block.anchor.of = First BY RebasedSound
<1>6. ASSUME NEW v \in I64, Reached(p, v) PROVE Reached(p, v)'
  BY <1>1, <1>2, <1>3, <1>4, <1>5, <1>6, ZeroesFacts DEF Reached, Line
<1>7. Unzeroed("seq") /\ block'.seq > block.seq /\ block'.seq # block.seq
  BY <1>0, <1>1, <1>2 DEF Unzeroed
<1> QED BY <1>0, <1>1, <1>2, <1>3, <1>6, <1>7 DEF Kept

\* The first core: a rate change, and its end.
LEMMA FirstCoreKept ==
    ASSUME SInv, LineInv, TypeOK', FirstCore, NEW p \in Procs
    PROVE  Kept(p)
<1>0. /\ now \in Int /\ block \in Blocks /\ served[p] \in Int
      /\ UNCHANGED <<now, next, process, served>>
  BY Clocks, Types DEF SInv, TypeOK, FirstCore, ChangeRate, SlowDown, End, Exit, Kill
<1>1. ASSUME NEW m \in Rates, ChangeRate(m) PROVE Kept(p)
  <2>1. m \in Nat BY SessionReleaseAssumption
  <2> QED BY <1>0, <1>1, <2>1, RateKeepsLine DEF ChangeRate
<1>2. CASE SlowDown BY <1>0, <1>2, RateKeepsLine DEF SlowDown
<1>3. CASE End \/ Exit \/ Kill
  <2>1. /\ UNCHANGED <<block.anchor, block.pid, block.seq, released[p]>>
        /\ rel' = rel /\ released' = released
    BY <1>0, <1>3 DEF End, Exit, Kill, Blocks, process
  <2>2. ReleaseInstant(p)' = ReleaseInstant(p) BY <2>1 DEF ReleaseInstant
  <2>3. /\ now <= now' /\ served[p] <= served'[p] /\ (LettingGo(p)' => LettingGo(p))
        /\ (Unzeroed("seq")' => Unzeroed("seq"))
    BY <1>0, <2>1 DEF LettingGo, Unzeroed
  <2> QED BY <2>1, <2>2, <2>3, SameLines
<1> QED BY <1>1, <1>2, <1>3 DEF FirstCore

\* The next core, which waits while a process is being let go.
LEMMA NewCoreKept ==
    ASSUME SInv, LineInv, TypeOK', NewCore, ~ReclaimOvertakes, NEW p \in Procs
    PROVE  Kept(p)
<1>0. /\ now \in Int /\ block \in Blocks /\ block.seq \in Nat /\ served[p] \in Int
      /\ UNCHANGED <<now, process, served, rel, released>>
      /\ ProcInv(p)
  BY Clocks, Types
  DEF SInv, TypeOK, LineInv, NewCore, Lock, Zero, OpenAnchor, StoreAnchor, CloseAnchor, WritePid,
      NextCore, process
<1>1. /\ ReleaseInstant(p)' = ReleaseInstant(p)
      /\ now <= now' /\ served[p] <= served'[p] /\ (LettingGo(p)' <=> LettingGo(p))
  BY <1>0 DEF ReleaseInstant, LettingGo
<1>2. CASE Lock
  <2>1. block' = block BY <1>2 DEF Lock
  <2>2. Unzeroed("seq")' => Unzeroed("seq") BY <1>2 DEF Lock, Unzeroed
  <2> QED BY <1>0, <1>1, <2>1, <2>2, SameLines
<1>3. ASSUME NEW field \in Fields, Zero(field) PROVE Kept(p)
  <2>0. /\ next.pc = "zero" /\ field \in next.left /\ next'.left = next.left \ {field}
        /\ next'.pc = IF next.left = {field} THEN "open" ELSE "zero"
        /\ ~LettingGo(p)
    BY <1>3 DEF Zero, MayReclaim, SInv, TypeOK
  <2>1. \A f \in Fields : Unzeroed(f)' <=> Unzeroed(f) /\ f # field BY <2>0 DEF Unzeroed
  <2>2. CASE field = "ended"
    <3>1. UNCHANGED <<block.anchor, block.pid, block.seq>> BY <1>0, <1>3, <2>2 DEF Zero, Blocks
    <3> QED BY <1>0, <1>1, <2>1, <3>1, SameLines DEF Fields
  <2>3. CASE field = "seq"
    <3>1. UNCHANGED <<block.anchor, block.pid>> /\ block'.seq = 0
      BY <1>0, <1>3, <2>3 DEF Zero, Blocks
    <3>2. StillOurs' <=> StillOurs BY <3>1 DEF StillOurs
    <3>3. ASSUME NEW v \in I64, Reached(p, v) PROVE Reached(p, v)'
      BY <1>0, <1>1, <3>1, <3>2, <3>3 DEF Reached, Line
    <3>4. Unzeroed("seq") /\ ~Unzeroed("seq")' /\ block.seq >= 2
      BY <2>0, <2>1, <2>3 DEF Unzeroed, SInv, CoreInv, Fields
    <3> QED BY <1>0, <1>1, <3>1, <3>2, <3>3, <3>4 DEF Kept
  <2>4. CASE field = "anchor"
    <3>1. UNCHANGED <<block.seq, block.pid>> /\ block'.anchor = Zeroes
      BY <1>0, <1>3, <2>4 DEF Zero, Blocks
    <3>2. StillOurs' <=> StillOurs BY <3>1 DEF StillOurs
    <3>3. ASSUME NEW v \in I64, Reached(p, v) PROVE Reached(p, v)'
      BY <1>0, <1>1, <3>1, <3>2, <3>3, ZeroesFacts DEF Reached, Line
    <3>4. ASSUME NEW a \in Anchors, Agrees(p, a) PROVE Agrees(p, a)'
      BY <1>0, <1>1, <2>0, <3>1, <3>4, ZeroesFacts DEF Agrees
    <3>5. Unzeroed("seq")' => Unzeroed("seq") BY <2>1 DEF Fields
    <3> QED BY <1>0, <1>1, <3>1, <3>2, <3>3, <3>4, <3>5 DEF Kept
  <2>5. CASE field = "pid"
    <3>1. UNCHANGED <<block.seq, block.anchor>> /\ ~StillOurs'
      BY <1>0, <1>3, <2>5, ZeroesFacts DEF Zero, Blocks, StillOurs
    <3>2. StillOurs BY <2>0, <2>5 DEF SInv, CoreInv, Unzeroed
    <3>3. rel[p].pc = "none" \/ released[p].at >= 1
      BY <1>0, <2>0, <3>2 DEF ProcInv, LettingGo, SInv, TypeOK
    <3>4. released[p].at \in Nat /\ now \in Int BY <1>0 DEF SInv, TypeOK
    <3>5. ASSUME NEW v \in I64, Reached(p, v), rel[p].pc = "none" => v <= now
          PROVE  Reached(p, v)'
      BY <1>0, <1>1, <3>1, <3>3, <3>4, <3>5 DEF Reached, Line
    <3>6. Unzeroed("seq")' => Unzeroed("seq") BY <2>1 DEF Fields
    <3> QED BY <1>0, <1>1, <3>1, <3>5, <3>6 DEF Kept
  <2> QED BY <2>2, <2>3, <2>4, <2>5 DEF Fields
<1>4. CASE OpenAnchor \/ StoreAnchor \/ CloseAnchor \/ WritePid
  <2>1. /\ next.pc \in {"open", "store", "close", "pid"}
        /\ next'.pc \in {"store", "close", "pid", "running"}
    BY <1>4 DEF OpenAnchor, StoreAnchor, CloseAnchor, WritePid, NextCore, SInv, TypeOK
  <2>2. ~StillOurs BY <2>1 DEF SInv, CoreInv, Unzeroed
  <2>3. ~StillOurs'
    BY <1>0, <1>4, <2>2, ZeroesFacts
    DEF OpenAnchor, StoreAnchor, CloseAnchor, WritePid, StillOurs, Blocks
  <2>4. ASSUME NEW v \in I64, Reached(p, v) PROVE Reached(p, v)'
    BY <1>0, <1>1, <2>2, <2>3, <2>4 DEF Reached, Line
  <2>5. ~Unzeroed("seq")' BY <2>1 DEF Unzeroed
  <2> QED BY <1>0, <1>1, <2>2, <2>3, <2>4, <2>5 DEF Kept
<1> QED BY <1>2, <1>3, <1>4 DEF NewCore

\* The release of a process.
LEMMA ReleaseKept ==
    ASSUME SInv, LineInv, TypeOK', NEW q \in Procs, Release(q), NEW p \in Procs
    PROVE  Kept(p)
<1>0. /\ now \in Int /\ block \in Blocks /\ block.seq \in Int /\ served[p] \in Int
      /\ UNCHANGED <<now, next, block, served, thread>>
      /\ rel \in [Procs -> Watchers] /\ rel[q] \in Watchers
      /\ released \in [Procs -> [at : Nat, a : Anchors]]
      /\ ProcInv(q)
      /\ now <= now' /\ served[p] <= served'[p] /\ (Unzeroed("seq")' => Unzeroed("seq"))
  BY Clocks, Types
  DEF SInv, TypeOK, LineInv, Release, Wake, PublishInstant, ReadAnchor, CheckOwner, Detach, Unzeroed
<1>1. CASE p # q
  <2>1. rel'[p] = rel[p] /\ released'[p] = released[p]
    BY <1>0, <1>1 DEF Release, Wake, PublishInstant, ReadAnchor, CheckOwner, Detach
  <2>2. ReleaseInstant(p)' = ReleaseInstant(p) /\ (LettingGo(p)' <=> LettingGo(p))
    BY <2>1 DEF ReleaseInstant, LettingGo
  <2> QED BY <1>0, <2>1, <2>2, SameLines
<1>2. CASE p = q /\ Wake(q)
  <2>1. /\ rel[p].pc = "waiting" /\ rel'[p].pc = "publish" /\ rel'[p].at = now + Margin
        /\ released' = released
    BY <1>0, <1>2 DEF Wake, RelAt, Watchers
  <2>2. /\ released[p].at = 0 /\ now <= now + Margin
    BY <1>0, <2>1, ZeroesFacts, SessionReleaseAssumption DEF SInv, WatchInv, Early
  <2>3. /\ ReleaseInstant(p) = 0 /\ ReleaseInstant(p)' = now + Margin
        /\ LettingGo(p)
    BY <2>1, <2>2 DEF ReleaseInstant, LettingGo
  <2> QED BY <1>0, <2>1, <2>2, <2>3, InstantSet
<1>3. CASE p = q /\ (PublishInstant(q) \/ ReadAnchor(q) \/ Detach(q))
  <2>1. /\ released' = released /\ rel'[p].at = rel[p].at
        /\ \/ rel[p].pc \in {"publish", "read"} /\ rel'[p].pc \in {"read", "owner"}
           \/ rel[p].pc = "flag" /\ rel'[p].pc = "done"
    BY <1>0, <1>3 DEF PublishInstant, ReadAnchor, Detach, RelAt, Watchers
  <2>2. ReleaseInstant(p)' = ReleaseInstant(p) /\ (LettingGo(p)' => LettingGo(p))
    BY <2>1 DEF ReleaseInstant, LettingGo
  <2> QED BY <1>0, <2>1, <2>2, SameLines
<1>4. CASE p = q /\ CheckOwner(q)
  <2>1. /\ rel[p].pc = "owner" /\ rel'[p].pc = "flag"
        /\ StillOurs => released'[p] = [at |-> rel[p].at, a |-> rel[p].a]
        /\ ~StillOurs => released'[p] = released[p]
    BY <1>0, <1>4 DEF CheckOwner, RelAt, Watchers
  <2>2. /\ released[p].at = 0 /\ rel[p].at >= 1 /\ LettingGo(p)
        /\ StillOurs => rel[p].a = block.anchor
        /\ released[p] = NotReleased
    BY <1>0, <1>4, <2>1, ZeroesFacts DEF ProcInv, LettingGo
  <2>3. StillOurs' <=> StillOurs BY <1>0 DEF StillOurs
  <2>4. CASE StillOurs
    <3>1. /\ ReleaseInstant(p)' = ReleaseInstant(p)
          /\ released'[p].a = block.anchor /\ released'[p].at # 0
      BY <1>0, <2>1, <2>2, <2>4 DEF ReleaseInstant, Watchers
    <3>2. ASSUME NEW v \in I64, Reached(p, v) PROVE Reached(p, v)'
      BY <1>0, <2>3, <2>4, <3>1, <3>2 DEF Reached, Line
    <3>3. ASSUME NEW a \in Anchors, Agrees(p, a) PROVE Agrees(p, a)'
      BY <1>0, <2>2, <3>1, <3>3 DEF Agrees
    <3> QED BY <1>0, <2>3, <2>4, <3>1, <3>2, <3>3 DEF Kept
  <2>5. CASE ~StillOurs
    <3>1. released'[p] = released[p] BY <2>1, <2>5
    <3>2. ASSUME NEW v \in I64, Reached(p, v) PROVE Reached(p, v)'
      BY <1>0, <2>2, <2>3, <2>5, <3>1, <3>2, ZeroesFacts DEF Reached, Line
    <3> QED BY <1>0, <2>3, <2>5, <3>1, <3>2 DEF Kept
  <2> QED BY <2>4, <2>5
<1> QED BY <1>1, <1>2, <1>3, <1>4 DEF Release

\* A call begins.
LEMMA BeginKept ==
    ASSUME SInv, LineInv, TypeOK', MaxFailures = 0, NEW t \in Threads, Begin(t), NEW p \in Procs
    PROVE  Kept(p)
<1> DEFINE q == ProcOf[t]
<1>0. /\ now \in Int /\ block \in Blocks /\ served[p] \in Int
      /\ UNCHANGED <<now, next, block, served, released>>
      /\ rel \in [Procs -> Watchers] /\ rel[q] \in Watchers /\ q \in Procs
      /\ now <= now' /\ served[p] <= served'[p] /\ (Unzeroed("seq")' => Unzeroed("seq"))
  BY Clocks, Types, CallTypes
  DEF SInv, TypeOK, Begin, Call, FirstLookOver, StartWatcher, StartFails, process, Unzeroed
<1>1. ~StartFails(t) BY <1>0 DEF StartFails, Watchers
<1>2. CASE p # q \/ Call(t)
  <2>1. rel'[p] = rel[p] BY <1>0, <1>1, <1>2 DEF Begin, Call, FirstLookOver, StartWatcher, process
  <2>2. ReleaseInstant(p)' = ReleaseInstant(p) /\ (LettingGo(p)' <=> LettingGo(p))
    BY <1>0, <2>1 DEF ReleaseInstant, LettingGo
  <2> QED BY <1>0, <2>1, <2>2, SameLines
<1>3. CASE p = q /\ FirstLookOver(t)
  <2>1. /\ rel[p].pc = "none" /\ rel'[p].pc = "publish" /\ rel'[p].at = now + Margin
    BY <1>0, <1>3 DEF FirstLookOver, RelAt, Watchers
  <2>2. /\ released[p].at = 0 /\ now <= now + Margin
    BY <1>0, <2>1, ZeroesFacts, SessionReleaseAssumption DEF SInv, WatchInv, Early
  <2>3. ReleaseInstant(p) = 0 /\ ReleaseInstant(p)' = now + Margin BY <2>1, <2>2 DEF ReleaseInstant
  <2> QED BY <1>0, <2>1, <2>2, <2>3, InstantSet
<1>4. CASE p = q /\ StartWatcher(t)
  <2>1. rel[p].pc = "none" /\ rel'[p].pc = "waiting" BY <1>0, <1>4 DEF StartWatcher, RelAt, Watchers
  <2>2. ReleaseInstant(p)' = ReleaseInstant(p) BY <1>0, <2>1 DEF ReleaseInstant
  <2> QED BY <1>0, <2>1, <2>2, SameLines
<1> QED BY <1>1, <1>2, <1>3, <1>4 DEF Begin

\* Real time, and the steps of a call.
LEMMA StepKept ==
    ASSUME SInv, LineInv, TypeOK', NEW p \in Procs, Advance \/ UNCHANGED vars \/ \E t \in Threads : Step(t)
    PROVE  Kept(p)
<1>0. /\ now \in Int /\ block \in Blocks /\ served \in [Procs -> I64] /\ served[p] \in Int
  BY Clocks, Types DEF SInv
<1>3. /\ UNCHANGED <<next, block, rel, released>>
      /\ now' = now \/ now' = now + 1
  BY DEF Advance, vars, Step, ReleasedHere, SeesFlag, Look, ReadFields, ReadClock, Recheck,
         LoadInstant, CheckBlock, AnswerAfter, Return, process
<1>4. now <= now' BY <1>0, <1>3
<1>1. served[p] <= served'[p]
  <2>1. CASE \E t \in Threads : Return(t)
    <3> PICK t \in Threads : Return(t) BY <2>1
    <3>1. thread[t].v \in Int /\ ProcOf[t] \in Procs BY Clocks, CallTypes DEF SInv, TypeOK
    <3> QED BY <1>0, <3>1 DEF Return, at_least
  <2>2. CASE ~\E t \in Threads : Return(t)
    <3>1. served' = served
      BY <2>2 DEF Advance, vars, Step, ReleasedHere, SeesFlag, Look, ReadFields, ReadClock,
          Recheck, LoadInstant, CheckBlock, AnswerAfter
    <3> QED BY <1>0, <3>1
  <2> QED BY <2>1, <2>2
<1>2. /\ ReleaseInstant(p)' = ReleaseInstant(p) /\ (LettingGo(p)' <=> LettingGo(p))
      /\ (Unzeroed("seq")' <=> Unzeroed("seq"))
  BY <1>3 DEF ReleaseInstant, LettingGo, Unzeroed
<1> QED BY <1>0, <1>1, <1>2, <1>3, <1>4, SameLines

LEMMA EveryStepKeeps ==
    ASSUME SInv, LineInv, [Next]_vars, ~ReclaimOvertakes, MaxFailures = 0, NEW p \in Procs
    PROVE  Kept(p)
<1>1. TypeOK' BY TypeStep DEF SInv
<1> QED BY <1>1, FirstCoreKept, NewCoreKept, ReleaseKept, BeginKept, StepKept DEF Next

-----------------------------------------------------------------------------
(* A process on its way from the session's line to its own.                *)

\* What a step that leaves a process's release alone keeps of it.
LEMMA ProcSame ==
    ASSUME SInv, TypeOK', NEW p \in Procs, ProcInv(p),
           UNCHANGED <<rel[p], released[p], releaseAt[p]>>,
           detached'[p] => detached[p] \/ (~StillOurs /\ rel[p].pc # "none"),
           StillOurs' => StillOurs,
           rel[p].pc = "waiting" /\ StillOurs => StillOurs',
           rel[p].pc = "publish" => now' <= rel[p].at,
           rel[p].pc = "none" => /\ served'[p] = served[p]
                                 /\ \A t \in Threads : ProcOf[t] = p => thread'[t] = thread[t],
           \/ block'.anchor = block.anchor
           \/ block'.anchor.of # First /\ ~LettingGo(p)
           \/ ~StillOurs'
           \/ rel[p].pc \in Early
    PROVE  ProcInv(p)'
<1>1. /\ rel[p].pc = "owner" => LettingGo(p)
      /\ rel[p].pc \in Early => rel[p].pc # "owner" /\ released[p] = NotReleased
  BY DEF LettingGo, Early, SInv, WatchInv
<1>2. rel[p].pc = "none" => served'[p] = 0 /\ ~detached'[p]
                           /\ \A t \in Threads : ProcOf[t] = p => At(t, "idle")'
  BY DEF ProcInv, At
<1>3. detached'[p] /\ released[p] = NotReleased => ~StillOurs' BY DEF ProcInv
<1>4. /\ rel[p].pc = "owner" /\ StillOurs' => rel[p].a = block'.anchor
      /\ StillOurs' /\ block'.anchor.of = First /\ released[p].at # 0 => released[p].a = block'.anchor
  BY <1>1, ZeroesFacts DEF ProcInv
<1> QED BY <1>2, <1>3, <1>4 DEF ProcInv

LEMMA CoreProc ==
    ASSUME SInv, LineInv, TypeOK', ~ReclaimOvertakes, FirstCore \/ NewCore, NEW p \in Procs
    PROVE  ProcInv(p)'
<1>0. /\ UNCHANGED <<now, rel, releaseAt, released, detached, thread, served>>
      /\ block \in Blocks /\ ProcInv(p)
  BY Types
  DEF SInv, LineInv, FirstCore, ChangeRate, SlowDown, End, Exit, Kill, NewCore, Lock, Zero, OpenAnchor,
      StoreAnchor, CloseAnchor, WritePid, NextCore, process
<1>1. rel[p].pc = "publish" => now' <= rel[p].at BY <1>0 DEF ProcInv
<1>2. /\ StillOurs' => StillOurs
      /\ rel[p].pc = "waiting" /\ StillOurs => StillOurs'
      /\ \/ block'.anchor = block.anchor
         \/ block'.anchor.of # First /\ ~LettingGo(p)
         \/ ~StillOurs'
         \/ rel[p].pc \in Early
  <2>1. CASE FirstCore
    <3>1. block'.pid = block.pid
      BY <1>0, <2>1 DEF FirstCore, ChangeRate, SlowDown, End, Exit, Kill, Blocks
    <3>2. block'.anchor = block.anchor \/ core = "running"
      BY <1>0, <2>1 DEF FirstCore, ChangeRate, SlowDown, End, Exit, Kill, Blocks
    <3>3. core = "running" => rel[p].pc \in Early BY DEF SInv, WatchInv, Over
    <3> QED BY <3>1, <3>2, <3>3 DEF StillOurs
  <2>2. CASE Lock BY <2>2 DEF Lock, StillOurs
  <2>3. ASSUME NEW field \in Fields, Zero(field)
        PROVE  /\ StillOurs' => StillOurs
               /\ rel[p].pc = "waiting" /\ StillOurs => StillOurs'
               /\ block'.anchor = block.anchor \/ (block'.anchor.of # First /\ ~LettingGo(p))
    <3>1. ~LettingGo(p) /\ rel[p].pc # "waiting" BY <2>3 DEF Zero, MayReclaim, LettingGo
    <3>2. CASE field = "pid"
      <4>1. block'.anchor = block.anchor /\ block'.pid = "0" BY <1>0, <2>3, <3>2 DEF Zero, Blocks
      <4> QED BY <3>1, <4>1, ZeroesFacts DEF StillOurs
    <3>3. CASE field = "anchor"
      <4>1. block'.anchor = Zeroes /\ block'.pid = block.pid BY <1>0, <2>3, <3>3 DEF Zero, Blocks
      <4> QED BY <3>1, <4>1, ZeroesFacts DEF StillOurs
    <3>4. CASE field = "seq" \/ field = "ended"
      <4>1. block'.anchor = block.anchor /\ block'.pid = block.pid
        BY <1>0, <2>3, <3>4 DEF Zero, Blocks
      <4> QED BY <4>1 DEF StillOurs
    <3> QED BY <3>2, <3>3, <3>4 DEF Fields
  <2>4. CASE OpenAnchor \/ StoreAnchor \/ CloseAnchor \/ WritePid
    <3>1. ~StillOurs
      BY <2>4 DEF OpenAnchor, StoreAnchor, CloseAnchor, WritePid, NextCore, SInv, CoreInv, Unzeroed
    <3>2. ~StillOurs'
      BY <1>0, <2>4, <3>1, ZeroesFacts
      DEF OpenAnchor, StoreAnchor, CloseAnchor, WritePid, StillOurs, Blocks
    <3> QED BY <3>1, <3>2
  <2> QED BY <2>1, <2>2, <2>3, <2>4 DEF NewCore
<1> QED BY <1>0, <1>1, <1>2, ProcSame

LEMMA ReleaseProc ==
    ASSUME SInv, LineInv, TypeOK', NEW q \in Procs, Release(q), NEW p \in Procs
    PROVE  ProcInv(p)'
<1>0. /\ UNCHANGED <<now, next, block, served, thread>> /\ block.seq \in Int
      /\ rel \in [Procs -> Watchers] /\ rel[q] \in Watchers /\ rel[q].at \in Nat
      /\ released \in [Procs -> [at : Nat, a : Anchors]] /\ releaseAt \in [Procs -> Nat]
      /\ detached \in [Procs -> BOOLEAN] /\ now \in Int /\ now >= 1
      /\ ProcInv(q) /\ ProcInv(p)
  BY Clocks, Types
  DEF SInv, TypeOK, LineInv, Release, Wake, PublishInstant, ReadAnchor, CheckOwner, Detach
<1>1. StillOurs' <=> StillOurs BY <1>0 DEF StillOurs
<1>2. CASE p # q
  <2>1. UNCHANGED <<rel[p], released[p], releaseAt[p], detached[p]>>
    BY <1>0, <1>2 DEF Release, Wake, PublishInstant, ReadAnchor, CheckOwner, Detach
  <2>2. rel[p].pc = "publish" => now' <= rel[p].at BY <1>0 DEF ProcInv
  <2> QED BY <1>0, <1>1, <2>1, <2>2, ProcSame
<1>3. CASE p = q /\ Wake(q)
  <2>1. /\ rel[p].pc = "waiting" /\ rel'[p].pc = "publish" /\ rel'[p].at = now + Margin
        /\ UNCHANGED <<releaseAt, released, detached>> /\ released[p] = NotReleased
    BY <1>0, <1>3 DEF Wake, RelAt, Watchers, SInv, WatchInv, Early
  <2>2. now <= now + Margin /\ now + Margin >= 1 BY <1>0, SessionReleaseAssumption
  <2> QED BY <1>0, <1>1, <2>1, <2>2, ZeroesFacts DEF ProcInv
<1>4. CASE p = q /\ PublishInstant(q)
  <2>1. /\ rel[p].pc = "publish" /\ rel'[p].pc = "read" /\ rel'[p].at = rel[p].at
        /\ releaseAt'[p] = rel[p].at
        /\ UNCHANGED <<released, detached>>
    BY <1>0, <1>4 DEF PublishInstant, RelAt, Watchers
  <2> QED BY <1>0, <1>1, <2>1, ZeroesFacts DEF ProcInv
<1>5. CASE p = q /\ ReadAnchor(q)
  <2>1. /\ rel[p].pc = "read" /\ rel'[p].pc = "owner" /\ rel'[p].at = rel[p].at
        /\ rel'[p].a = block.anchor
        /\ UNCHANGED <<released, detached, releaseAt>>
    BY <1>0, <1>5 DEF ReadAnchor, RelAt, Watchers
  <2> QED BY <1>0, <1>1, <2>1, ZeroesFacts DEF ProcInv
<1>6. CASE p = q /\ CheckOwner(q)
  <2>1. /\ rel[p].pc = "owner" /\ rel'[p].pc = "flag"
        /\ StillOurs => released'[p] = [at |-> rel[p].at, a |-> rel[p].a]
        /\ ~StillOurs => released'[p] = released[p]
        /\ releaseAt' = releaseAt
    BY <1>0, <1>6 DEF CheckOwner, RelAt, Watchers
  <2>2. /\ rel[p].at >= 1 /\ released[p] = NotReleased /\ releaseAt[p] = rel[p].at
        /\ StillOurs => rel[p].a = block.anchor
    BY <1>0, <1>6, <2>1 DEF ProcInv
  <2>3. CASE StillOurs
    <3>1. /\ released'[p].at = rel[p].at /\ released'[p].a = block.anchor /\ rel[p].at # 0
          /\ released'[p] # NotReleased
      BY <1>0, <2>1, <2>2, <2>3, ZeroesFacts
    <3> QED BY <1>0, <1>1, <2>1, <2>2, <2>3, <3>1 DEF ProcInv
  <2>4. CASE ~StillOurs BY <1>0, <1>1, <2>1, <2>2, <2>4, ZeroesFacts DEF ProcInv
  <2> QED BY <2>3, <2>4
<1>7. CASE p = q /\ Detach(q)
  <2>1. /\ rel[p].pc = "flag" /\ rel'[p].pc = "done"
        /\ UNCHANGED <<released, releaseAt>>
    BY <1>0, <1>7 DEF Detach, RelAt, Watchers
  <2> QED BY <1>0, <1>1, <2>1, ZeroesFacts DEF ProcInv
<1> QED BY <1>2, <1>3, <1>4, <1>5, <1>6, <1>7 DEF Release

LEMMA BeginProc ==
    ASSUME SInv, LineInv, TypeOK', MaxFailures = 0, NEW t \in Threads, Begin(t), NEW p \in Procs
    PROVE  ProcInv(p)'
<1> DEFINE q == ProcOf[t]
<1>0. /\ UNCHANGED <<now, next, block, served, released, releaseAt>>
      /\ rel \in [Procs -> Watchers] /\ rel[q] \in Watchers /\ q \in Procs
      /\ detached \in [Procs -> BOOLEAN] /\ now \in Int /\ now >= 1 /\ thread \in [Threads -> Calls]
      /\ ProcInv(p)
  BY Clocks, Types, CallTypes
  DEF SInv, TypeOK, LineInv, Begin, Call, FirstLookOver, StartWatcher, StartFails, process
<1>1. /\ StillOurs' <=> StillOurs
      /\ ~StartFails(t)
      /\ \A u \in Threads : ProcOf[u] # q => thread'[u] = thread[u]
  BY <1>0 DEF StillOurs, StartFails, Begin, Call, FirstLookOver, StartWatcher, Watchers
<1>2. CASE p # q
  <2>1. UNCHANGED <<rel[p], detached[p]>>
    BY <1>0, <1>1, <1>2 DEF Begin, Call, FirstLookOver, StartWatcher, process
  <2>2. rel[p].pc = "publish" => now' <= rel[p].at BY <1>0 DEF ProcInv
  <2> QED BY <1>0, <1>1, <1>2, <2>1, <2>2, ProcSame
<1>3. CASE p = q /\ Call(t)
  <2>1. UNCHANGED <<rel, detached>> /\ rel[p].pc # "none" BY <1>3 DEF Call, process, RelAt
  <2>2. rel[p].pc = "publish" => now' <= rel[p].at BY <1>0 DEF ProcInv
  <2> QED BY <1>0, <1>1, <2>1, <2>2, ProcSame
<1>4. CASE p = q /\ FirstLookOver(t)
  <2>1. /\ rel[p].pc = "none" /\ rel'[p].pc = "publish" /\ rel'[p].at = now + Margin
        /\ released[p] = NotReleased
        /\ detached'[p] => detached[p] \/ ~StillOurs
    BY <1>0, <1>4 DEF FirstLookOver, RelAt, Watchers, SInv, WatchInv, Early
  <2>2. now <= now + Margin /\ now + Margin >= 1 BY <1>0, SessionReleaseAssumption
  <2> QED BY <1>0, <1>1, <2>1, <2>2, ZeroesFacts DEF ProcInv
<1>5. CASE p = q /\ StartWatcher(t)
  <2>1. /\ rel[p].pc = "none" /\ rel'[p].pc = "waiting" /\ StillOurs
        /\ released[p] = NotReleased /\ detached' = detached
    BY <1>0, <1>5 DEF StartWatcher, RelAt, Watchers, SInv, WatchInv, Early, SessionOver
  <2> QED BY <1>0, <1>1, <2>1, ZeroesFacts DEF ProcInv
<1> QED BY <1>1, <1>2, <1>3, <1>4, <1>5 DEF Begin

LEMMA StepProc ==
    ASSUME SInv, LineInv, TypeOK', NEW p \in Procs, Advance \/ UNCHANGED vars \/ \E t \in Threads : Step(t)
    PROVE  ProcInv(p)'
<1>0. /\ UNCHANGED <<next, block, rel, releaseAt, released>>
      /\ ProcInv(p)
  BY DEF LineInv, Advance, vars, Step, ReleasedHere, SeesFlag, Look, ReadFields, ReadClock, Recheck,
         LoadInstant, CheckBlock, AnswerAfter, Return, process
<1>1. StillOurs' <=> StillOurs BY <1>0 DEF StillOurs
<1>2. CASE Advance \/ UNCHANGED vars
  <2>1. UNCHANGED <<detached, served, thread>> BY <1>2 DEF Advance, vars, process
  <2>2. rel[p].pc = "publish" => now' <= rel[p].at
    BY <1>0, <1>2, Clocks DEF Advance, vars, ProcInv, SInv, TypeOK
  <2> QED BY <1>0, <1>1, <2>1, <2>2, ProcSame
<1>3. ASSUME NEW t \in Threads, Step(t) PROVE ProcInv(p)'
  <2> DEFINE q == ProcOf[t]
  <2>1. ~At(t, "idle")
    BY <1>3 DEF Step, ReleasedHere, SeesFlag, Look, ReadFields, ReadClock, Recheck,
                LoadInstant, CheckBlock, AnswerAfter, Return, At
  <2>2. rel[p].pc = "none" => p # q BY <1>0, <2>1 DEF ProcInv
  <2>3. /\ now' = now
        /\ \A u \in Threads : ProcOf[u] # q => thread'[u] = thread[u]
        /\ p # q => served'[p] = served[p]
        /\ detached'[p] => detached[p] \/ (~StillOurs /\ p = q)
    <3>0. /\ thread \in [Threads -> Calls] /\ served \in [Procs -> I64]
          /\ detached \in [Procs -> BOOLEAN] /\ q \in Procs
      BY Types, CallTypes DEF SInv
    <3>1. CASE CheckBlock(t) BY <3>0, <3>1 DEF CheckBlock
    <3>2. CASE Return(t) BY <3>0, <3>2 DEF Return, process
    <3>3. CASE ReleasedHere(t) \/ SeesFlag(t) \/ Look(t) \/ ReadFields(t) \/ ReadClock(t)
               \/ Recheck(t) \/ LoadInstant(t) \/ AnswerAfter(t)
      <4>1. UNCHANGED <<now, served, detached>>
        BY <3>3 DEF ReleasedHere, SeesFlag, Look, ReadFields, ReadClock, Recheck,
                    LoadInstant, AnswerAfter, process
      <4>2. \A u \in Threads : ProcOf[u] # q => thread'[u] = thread[u]
        BY <3>0, <3>3 DEF ReleasedHere, SeesFlag, Look, ReadFields, ReadClock, Recheck,
                    LoadInstant, AnswerAfter
      <4> QED BY <4>1, <4>2
    <3> QED BY <1>3, <3>1, <3>2, <3>3 DEF Step
  <2>4. /\ rel[p].pc = "publish" => now' <= rel[p].at
        /\ rel[p].pc = "none" => /\ served'[p] = served[p]
                                 /\ \A u \in Threads : ProcOf[u] = p => thread'[u] = thread[u]
        /\ detached'[p] => detached[p] \/ (~StillOurs /\ rel[p].pc # "none")
    BY <1>0, <2>2, <2>3 DEF ProcInv
  <2> QED BY <1>0, <1>1, <2>4, ProcSame
<1> QED BY <1>2, <1>3

LEMMA EveryStepProc ==
    ASSUME SInv, LineInv, [Next]_vars, ~ReclaimOvertakes, MaxFailures = 0, NEW p \in Procs
    PROVE  ProcInv(p)'
<1>1. TypeOK' BY TypeStep DEF SInv
<1> QED BY <1>1, CoreProc, ReleaseProc, BeginProc, StepProc DEF Next

-----------------------------------------------------------------------------
(* The calls.                                                              *)

\* A call that takes no step.
LEMMA CallKept ==
    ASSUME SInv, TypeOK', NEW t \in Threads, thread'[t] = thread[t],
           ProcInv(ProcOf[t]), CallInv(t), Kept(ProcOf[t])
    PROVE  CallInv(t)'
<1> DEFINE c == thread[t]
           p == ProcOf[t]
<1>0. /\ c \in Calls /\ p \in Procs /\ c.a \in Anchors /\ c.t \in 0..MaxNow /\ c.v \in I64
      /\ c.t \in Int /\ c.floor \in Int /\ c.look \in Int /\ now \in Int /\ now' \in Int
      /\ served[p] \in Int /\ served'[p] \in Int /\ block.seq \in Int /\ block'.seq \in Int
      /\ ReleaseInstant(p) \in Nat /\ ReleaseInstant(p)' \in Nat
      /\ Reading(t) \in I64
  <2>1. /\ c \in Calls /\ p \in Procs /\ c.a \in Anchors /\ c.t \in 0..MaxNow /\ c.v \in I64
        /\ c.t \in Int /\ c.floor \in Int /\ c.look \in Int /\ now \in Int /\ now' \in Int
        /\ served[p] \in Int /\ served'[p] \in Int /\ block.seq \in Int /\ block'.seq \in Int
        /\ ReleaseInstant(p) \in Nat
    BY Clocks, CallTypes, InstantType DEF SInv, TypeOK, Calls
  <2>2. ReleaseInstant(p)' \in Nat BY <2>1 DEF TypeOK, ReleaseInstant
  <2>3. Reading(t) \in I64 BY <2>1, Lines DEF Reading, Line
  <2> QED BY <2>1, <2>2, <2>3
<1>1. /\ now <= now' /\ served[p] <= served'[p] /\ (StillOurs' => StillOurs)
      /\ (Held(t)' => Held(t))
  BY DEF Kept, Held
<1>2. c.t <= now' /\ c.floor <= served'[p] BY <1>0, <1>1 DEF CallInv
<1>3. /\ Unzeroed("seq")' /\ c.pc \in {"fields", "clock", "recheck"} =>
             2 <= c.look /\ c.look <= block'.seq
      /\ StillOurs' /\ c.pc \in {"fields", "clock", "recheck"} /\ Fresh(t)' =>
             Fresh(t) /\ block'.seq = block.seq
  BY <1>0 DEF Kept, CallInv, Fresh
<1>4. c.pc # "idle" => rel[p].pc # "none" BY DEF ProcInv, At
<1>5. c.pc # "idle" => \A v \in I64 : Reached(p, v) => Reached(p, v)' BY <1>4 DEF Kept
<1>6. c.pc # "idle" /\ Held(t)' => Reading(t)' = Reading(t)
  <2> SUFFICES ASSUME c.pc # "idle", Held(t)' PROVE Reading(t)' = Reading(t) OBVIOUS
  <2>1. \/ ReleaseInstant(p)' = ReleaseInstant(p)
        \/ ReleaseInstant(p) = 0 /\ now <= ReleaseInstant(p)'
    BY <1>4 DEF Kept, Held
  <2>2. Reading(t)' = released_quit_at(c.a, ReleaseInstant(p)', c.t) BY DEF Reading, Line
  <2>3. Reading(t) = released_quit_at(c.a, ReleaseInstant(p), c.t) BY DEF Reading, Line
  <2>4. c.t <= now BY DEF CallInv
  <2>5. ReleaseInstant(p) = 0 /\ now <= ReleaseInstant(p)' => c.t <= ReleaseInstant(p)'
    BY <1>0, <2>4
  <2> QED BY <1>0, <2>1, <2>2, <2>3, <2>5, Lines
<1>7. c.pc = "after" /\ released'[p].at = 0 => ~StillOurs' BY DEF Kept, CallInv
<1>8. c.pc \in {"clock", "recheck"} /\ Held(t)' /\ Fresh(t)' => Agrees(p, c.a)'
  <2> SUFFICES ASSUME c.pc \in {"clock", "recheck"}, Held(t)', Fresh(t)' PROVE Agrees(p, c.a)'
    OBVIOUS
  <2>1. /\ StillOurs' /\ c.a.of = First /\ Held(t) /\ Fresh(t) /\ block'.seq = block.seq
    BY <1>1, <1>3 DEF Held
  <2>2. Agrees(p, c.a) BY <2>1 DEF CallInv
  <2> QED BY <1>0, <1>4, <2>1, <2>2 DEF Kept
<1>9. c.pc = "recheck" /\ Held(t)' /\ Fresh(t)' => Reading(t)' >= c.floor
  BY <1>1, <1>3, <1>6 DEF CallInv, Held
<1>10. c.pc \in {"instant", "owner"} /\ Held(t)' => Reading(t)' >= c.floor /\ Reached(p, Reading(t))'
  <2> SUFFICES ASSUME c.pc \in {"instant", "owner"}, Held(t)'
               PROVE  Reading(t)' >= c.floor /\ Reached(p, Reading(t))'
    OBVIOUS
  <2>1. Reading(t) >= c.floor /\ Reached(p, Reading(t)) /\ Reading(t)' = Reading(t)
    BY <1>1, <1>6 DEF CallInv
  <2>2. PICK v \in I64 : v = Reading(t) BY <1>0
  <2>3. Reached(p, v)' BY <1>5, <2>1, <2>2
  <2>4. v = Reading(t)' BY <2>1, <2>2
  <2>5. Reached(p, Reading(t))' BY <2>3, <2>4 DEF Reached, Line
  <2> QED BY <2>1, <2>5
<1>11. c.pc = "owner" /\ StillOurs' => \/ c.at = ReleaseInstant(p)'
                                       \/ c.at = 0 /\ c.t <= ReleaseInstant(p)'
  BY <1>0, <1>1, <1>4 DEF Kept, CallInv
<1>12. c.pc = "answer" => (c.of # "0" => c.v >= c.floor) /\ Reached(p, c.v)'
  BY <1>0, <1>5 DEF CallInv
<1> QED BY <1>2, <1>3, <1>7, <1>8, <1>9, <1>10, <1>11, <1>12 DEF CallInv

\* A call begins.
LEMMA CallBegun ==
    ASSUME SInv, LineInv, TypeOK', NEW t \in Threads, Begin(t)
    PROVE  CallInv(t)'
<1> DEFINE p == ProcOf[t]
<1>0. /\ UNCHANGED <<now, next, block, served, released>>
      /\ p \in Procs /\ ProcInv(p) /\ thread \in [Threads -> Calls] /\ now \in Int /\ now >= 1
      /\ served[p] \in Int
  BY Types, CallTypes, Clocks
  DEF SInv, TypeOK, LineInv, Begin, Call, FirstLookOver, StartWatcher, StartFails, process
<1>1. PICK pc \in {"flag", "releasing", "look", "after"} :
          /\ thread' = [thread EXCEPT ![t] = Begun(t, pc)]
          /\ pc = "after" => detached[p]
  BY DEF Begin, Call, FirstLookOver, StartWatcher, StartFails, Branch
<1>2. /\ thread'[t].pc = pc /\ thread'[t].floor = served[p] /\ thread'[t].t = 0
  BY <1>0, <1>1, CallTypes DEF SInv
<1>3. pc = "after" /\ released'[p].at = 0 => ~StillOurs'
  <2>1. released[p].at = 0 => released[p] = NotReleased BY <1>0 DEF ProcInv
  <2> QED BY <1>0, <1>1, <2>1 DEF ProcInv, StillOurs
<1> QED BY <1>0, <1>2, <1>3 DEF CallInv

\* What every line a process may still be answered from has reached: the clock.
LEMMA ClockReached ==
    ASSUME SInv, NEW p \in Procs, NEW v \in I64, v <= now
    PROVE  Reached(p, v)
<1>0. /\ now \in 0..MaxNow /\ now \in Int /\ ReleaseInstant(p) \in Nat /\ v \in Int
      /\ block.anchor \in Anchors /\ released[p].a \in Anchors
  BY Clocks, InstantType DEF SInv, TypeOK
<1>1. /\ block.anchor.of = First => now <= Line(p, block.anchor, now)
      /\ released[p].a.of = First => now <= Line(p, released[p].a, now)
  BY <1>0, Lines DEF SInv, AnchorInv, Sound, Line
<1>2. Line(p, block.anchor, now) \in Int /\ Line(p, released[p].a, now) \in Int
  BY <1>0, Lines, Clocks DEF Line
<1> QED BY <1>0, <1>1, <1>2 DEF Reached

\* The steps of a call that read nothing but the flag, or nothing at all.
LEMMA CallBranches ==
    ASSUME SInv, LineInv, TypeOK', NEW t \in Threads, ReleasedHere(t) \/ SeesFlag(t) \/ Return(t)
    PROVE  CallInv(t)'
<1> DEFINE p == ProcOf[t]
<1>0. /\ UNCHANGED <<now, block, released>> /\ thread \in [Threads -> Calls] /\ thread[t] \in Calls
      /\ p \in Procs /\ ProcInv(p) /\ CallInv(t) /\ now \in Int /\ now >= 1 /\ thread[t].floor \in Int
      /\ served \in [Procs -> I64] /\ served[p] \in Int /\ served[p] >= 0
      /\ thread[t].v \in Int
  BY Types, CallTypes, Clocks
  DEF SInv, TypeOK, LineInv, ReleasedHere, SeesFlag, Return, process
<1>1. CASE ReleasedHere(t)
  <2>1. /\ thread'[t].pc = "flag" /\ thread'[t].floor = thread[t].floor
        /\ thread'[t].t = thread[t].t /\ served' = served
    BY <1>0, <1>1 DEF ReleasedHere, Calls
  <2> QED BY <1>0, <2>1 DEF CallInv
<1>2. CASE SeesFlag(t)
  <2>1. /\ thread'[t].pc = Branch(p) /\ thread'[t].floor = thread[t].floor
        /\ thread'[t].t = thread[t].t /\ served' = served
    BY <1>0, <1>2 DEF SeesFlag, Calls
  <2>2. released[p].at = 0 => released[p] = NotReleased BY <1>0 DEF ProcInv
  <2>3. Branch(p) = "after" /\ released'[p].at = 0 => ~StillOurs'
    BY <1>0, <2>2 DEF ProcInv, StillOurs, Branch
  <2>4. Branch(p) \in {"after", "look"} BY DEF Branch
  <2> QED BY <1>0, <2>1, <2>3, <2>4 DEF CallInv
<1>3. CASE Return(t)
  <2>1. thread'[t].pc = "idle" /\ thread'[t].floor = 0 /\ thread'[t].t = 0
    BY <1>0, <1>3 DEF Return, Idle
  <2>2. served'[p] = at_least(served[p], thread[t].v) BY <1>0, <1>3 DEF Return
  <2>3. 0 <= served'[p] BY <1>0, <2>2 DEF at_least
  <2> QED BY <1>0, <2>1, <2>3 DEF CallInv
<1> QED BY <1>1, <1>2, <1>3

\* What the steps of a call leave as it is.
LEMMA CallFrame ==
    ASSUME SInv, LineInv, NEW t \in Threads, Step(t), ~Return(t)
    PROVE  LET c == thread[t]
               p == ProcOf[t]
           IN
           /\ UNCHANGED <<now, next, block, rel, releaseAt, released, served>>
           /\ thread \in [Threads -> Calls] /\ c \in Calls /\ p \in Procs
           /\ ProcInv(p) /\ CallInv(t) /\ Reached(p, served[p]) /\ served[p] \in I64
           /\ now \in 0..MaxNow /\ now \in Int /\ block.anchor \in Anchors /\ block.seq \in Int
           /\ c.t \in 0..MaxNow /\ c.t \in Int /\ c.floor \in Int /\ c.look \in Int /\ c.at \in Nat
           /\ c.a \in Anchors /\ c.t <= now /\ c.floor <= served[p] /\ served[p] \in Int
           /\ ReleaseInstant(p) \in Nat /\ released[p].a \in Anchors
           /\ (StillOurs' <=> StillOurs) /\ (Unzeroed("seq")' <=> Unzeroed("seq"))
           /\ ReleaseInstant(p)' = ReleaseInstant(p)
           /\ rel[p].pc # "none"
<1>1. UNCHANGED <<now, next, block, rel, releaseAt, released, served>>
  BY DEF Step, ReleasedHere, SeesFlag, Look, ReadFields, ReadClock, Recheck,
         LoadInstant, CheckBlock, AnswerAfter, process
<1>2. /\ thread \in [Threads -> Calls] /\ thread[t] \in Calls /\ ProcOf[t] \in Procs
      /\ ProcInv(ProcOf[t]) /\ CallInv(t)
      /\ Reached(ProcOf[t], served[ProcOf[t]]) /\ served[ProcOf[t]] \in I64
  BY Types, CallTypes DEF SInv, LineInv
<1>3. /\ now \in 0..MaxNow /\ now \in Int /\ block.anchor \in Anchors /\ block.seq \in Int
      /\ thread[t].t \in 0..MaxNow /\ thread[t].floor \in Int /\ thread[t].look \in Int
      /\ thread[t].at \in Nat /\ thread[t].a \in Anchors
      /\ ReleaseInstant(ProcOf[t]) \in Nat /\ released[ProcOf[t]].a \in Anchors
  BY <1>2, Clocks, InstantType DEF SInv, TypeOK, Calls
<1>4. thread[t].t \in Int /\ served[ProcOf[t]] \in Int BY <1>2, <1>3, Clocks
<1>5. thread[t].t <= now /\ thread[t].floor <= served[ProcOf[t]] BY <1>2 DEF CallInv
<1>6. /\ (StillOurs' <=> StillOurs) /\ (Unzeroed("seq")' <=> Unzeroed("seq"))
      /\ ReleaseInstant(ProcOf[t])' = ReleaseInstant(ProcOf[t])
  BY <1>1 DEF StillOurs, Unzeroed, ReleaseInstant
<1>7. rel[ProcOf[t]].pc # "none"
  BY <1>2 DEF ProcInv, At, Step, ReleasedHere, SeesFlag, Look, ReadFields, ReadClock, Recheck,
         LoadInstant, CheckBlock, AnswerAfter
<1> QED BY <1>1, <1>2, <1>3, <1>4, <1>5, <1>6, <1>7

\* The block and the clock are read.
LEMMA CallReads ==
    ASSUME SInv, LineInv, TypeOK', NEW t \in Threads, Look(t) \/ ReadFields(t) \/ ReadClock(t)
    PROVE  CallInv(t)'
<1> DEFINE c == thread[t]
           p == ProcOf[t]
<1>0. /\ UNCHANGED <<now, next, block, rel, releaseAt, released, served>>
      /\ thread \in [Threads -> Calls] /\ c \in Calls /\ p \in Procs
      /\ ProcInv(p) /\ CallInv(t) /\ Reached(p, served[p]) /\ served[p] \in I64
      /\ now \in 0..MaxNow /\ now \in Int /\ block.anchor \in Anchors /\ block.seq \in Int
      /\ c.t \in 0..MaxNow /\ c.t \in Int /\ c.floor \in Int /\ c.look \in Int
      /\ c.a \in Anchors /\ c.t <= now /\ c.floor <= served[p] /\ served[p] \in Int
      /\ ReleaseInstant(p) \in Nat /\ released[p].a \in Anchors
      /\ (StillOurs' <=> StillOurs) /\ (Unzeroed("seq")' <=> Unzeroed("seq"))
      /\ ReleaseInstant(p)' = ReleaseInstant(p)
      /\ rel[p].pc # "none"
  <2>1. Step(t) /\ ~Return(t) BY DEF Step, Look, ReadFields, ReadClock, Return, At
  <2> QED BY <2>1, CallFrame
<1>1. CASE Look(t)
  <2>1. /\ thread'[t].pc = "fields" /\ thread'[t].look = block.seq /\ thread'[t].t = c.t
        /\ thread'[t].floor = c.floor
    BY <1>0, <1>1 DEF Look, Calls
  <2>2. Unzeroed("seq") => block.seq >= 2 BY DEF SInv, CoreInv
  <2> QED BY <1>0, <2>1, <2>2 DEF CallInv
<1>2. CASE ReadFields(t)
  <2>1. /\ thread'[t].pc = "clock" /\ thread'[t].look = c.look /\ thread'[t].t = c.t
        /\ thread'[t].floor = c.floor /\ thread'[t].a = block.anchor /\ c.pc = "fields"
    BY <1>0, <1>2 DEF ReadFields, Calls, At
  <2>2. Unzeroed("seq") => 2 <= c.look /\ c.look <= block.seq BY <1>0, <2>1 DEF CallInv
  <2>3. StillOurs /\ block.anchor.of = First => Agrees(p, block.anchor) BY <1>0 DEF Agrees, ProcInv
  <2>4. Held(t)' => Agrees(p, thread[t].a)' BY <1>0, <2>1, <2>3 DEF Held, Agrees, LettingGo, RelAt
  <2> QED BY <1>0, <2>1, <2>2, <2>4 DEF CallInv
<1>3. CASE ReadClock(t)
  <2>1. /\ thread'[t].pc = "recheck" /\ thread'[t].look = c.look /\ thread'[t].t = now
        /\ thread'[t].floor = c.floor /\ thread'[t].a = c.a /\ c.pc = "clock"
    BY <1>0, <1>3 DEF ReadClock, Calls, At
  <2>2. Unzeroed("seq") => 2 <= c.look /\ c.look <= block.seq BY <1>0, <2>1 DEF CallInv
  <2>3. (Held(t)' <=> Held(t)) /\ (Fresh(t)' <=> Fresh(t)) BY <1>0, <2>1 DEF Held, Fresh
  <2>4. Held(t) /\ Fresh(t) => Agrees(p, c.a) BY <1>0, <2>1 DEF CallInv
  <2>5. Held(t) /\ Fresh(t) => Agrees(p, thread[t].a)'
    BY <1>0, <2>1, <2>4 DEF Agrees, LettingGo, RelAt
  <2>6. Held(t) /\ Fresh(t) => served[p] <= Line(p, c.a, now)
    <3> SUFFICES ASSUME Held(t), Fresh(t) PROVE served[p] <= Line(p, c.a, now) OBVIOUS
    <3>1. CASE block.anchor.of = First BY <1>0, <2>4, <3>1 DEF Agrees, Reached, Held
    <3>2. CASE block.anchor.of # First
      <4>1. ~LettingGo(p) BY <2>4, <3>2 DEF Agrees, Held
      <4>2. rel[p].pc = "done" BY <1>0, <4>1 DEF ProcInv, LettingGo, SInv, TypeOK
      <4>3. released[p].at >= 1 BY <1>0, <4>2 DEF ProcInv, Held
      <4>4. released[p].a = c.a /\ c.a.of = First BY <2>4, <4>3 DEF Agrees, Held
      <4> QED BY <1>0, <4>4 DEF Reached
    <3> QED BY <3>1, <3>2
  <2>7. Line(p, c.a, now) \in Int BY <1>0, Lines, Clocks DEF Line
  <2>8. Reading(t)' = Line(p, c.a, now) BY <1>0, <2>1 DEF Reading, Line
  <2>9. Held(t)' /\ Fresh(t)' => Reading(t)' >= c.floor BY <1>0, <2>3, <2>6, <2>7, <2>8
  <2> QED BY <1>0, <2>1, <2>2, <2>3, <2>5, <2>9 DEF CallInv
<1> QED BY <1>1, <1>2, <1>3

\* The seq again, and the instant.
LEMMA CallChecks ==
    ASSUME SInv, LineInv, TypeOK', NEW t \in Threads, Recheck(t) \/ LoadInstant(t)
    PROVE  CallInv(t)'
<1> DEFINE c == thread[t]
           p == ProcOf[t]
<1>0. /\ UNCHANGED <<now, next, block, rel, releaseAt, released, served>>
      /\ thread \in [Threads -> Calls] /\ c \in Calls /\ p \in Procs
      /\ ProcInv(p) /\ CallInv(t)
      /\ now \in 0..MaxNow /\ now \in Int /\ block.anchor \in Anchors /\ block.seq \in Int
      /\ c.t \in 0..MaxNow /\ c.t \in Int /\ c.floor \in Int /\ c.look \in Int
      /\ c.a \in Anchors /\ c.t <= now /\ c.floor <= served[p] /\ served[p] \in Int
      /\ ReleaseInstant(p) \in Nat /\ released[p].a \in Anchors
      /\ (StillOurs' <=> StillOurs) /\ (Unzeroed("seq")' <=> Unzeroed("seq"))
      /\ ReleaseInstant(p)' = ReleaseInstant(p)
      /\ rel[p].pc # "none"
  <2>1. Step(t) /\ ~Return(t) BY DEF Step, Recheck, LoadInstant, Return, At
  <2> QED BY <2>1, CallFrame
<1>1. CASE Recheck(t)
  <2>1. CASE c.look = block.seq
    <3>1. /\ thread'[t].pc = "instant" /\ thread'[t].t = c.t
          /\ thread'[t].floor = c.floor /\ thread'[t].a = c.a /\ c.pc = "recheck"
      BY <1>0, <1>1, <2>1 DEF Recheck, Calls, At
    <3>2. (Held(t)' <=> Held(t)) /\ Reading(t)' = Reading(t) /\ Fresh(t)
      BY <1>0, <2>1, <3>1 DEF Held, Fresh, Reading, Line
    <3>3. Held(t) => Agrees(p, c.a) /\ Reading(t) >= c.floor BY <1>0, <3>1, <3>2 DEF CallInv
    <3>4. Reading(t) <= Line(p, c.a, now) /\ Reading(t) \in Int /\ Line(p, c.a, now) \in Int
      BY <1>0, Lines, Clocks DEF Reading, Line
    <3>5. released[p].a.of = First => released[p].at # 0 BY <1>0, ZeroesFacts DEF ProcInv
    <3>6. Held(t) => Reached(p, Reading(t)) BY <1>0, <3>3, <3>4, <3>5 DEF Reached, Agrees, Held
    <3>7. Held(t) => Reached(p, Reading(t))' BY <1>0, <3>2, <3>6 DEF Reached, Line
    <3> QED BY <1>0, <3>1, <3>2, <3>3, <3>7 DEF CallInv
  <2>2. CASE c.look # block.seq
    <3>1. thread'[t] = [Idle EXCEPT !.pc = "look", !.floor = c.floor]
      BY <1>0, <1>1, <2>2 DEF Recheck
    <3>2. thread'[t].pc = "look" /\ thread'[t].t = 0 /\ thread'[t].floor = c.floor BY <3>1 DEF Idle
    <3> QED BY <1>0, <3>2 DEF CallInv
  <2> QED BY <2>1, <2>2
<1>2. CASE LoadInstant(t)
  <2>1. /\ thread'[t].pc = "owner" /\ thread'[t].t = c.t /\ thread'[t].at = releaseAt[p]
        /\ thread'[t].floor = c.floor /\ thread'[t].a = c.a /\ c.pc = "instant"
    BY <1>0, <1>2 DEF LoadInstant, Calls, At
  <2>2. (Held(t)' <=> Held(t)) /\ Reading(t)' = Reading(t) BY <1>0, <2>1 DEF Held, Reading, Line
  <2>3. Held(t) => Reached(p, Reading(t)) /\ Reading(t) >= c.floor BY <1>0, <2>1 DEF CallInv
  <2>4. Held(t) => Reached(p, Reading(t))' BY <1>0, <2>2, <2>3 DEF Reached, Line
  <2>5. StillOurs => \/ releaseAt[p] = ReleaseInstant(p)
                     \/ releaseAt[p] = 0 /\ c.t <= ReleaseInstant(p)
    <3>1. CASE rel[p].pc = "waiting"
      BY <1>0, <3>1, ZeroesFacts DEF ProcInv, ReleaseInstant, SInv, WatchInv, Early
    <3>2. CASE rel[p].pc = "publish"
      <4>1. rel[p].at \in Int BY <1>0 DEF SInv, TypeOK
      <4> QED BY <1>0, <3>2, <4>1 DEF ProcInv, ReleaseInstant
    <3>3. CASE rel[p].pc \in {"read", "owner"} BY <1>0, <3>3 DEF ProcInv, ReleaseInstant
    <3>4. CASE rel[p].pc \in {"flag", "done"}
      <4>1. StillOurs => released[p].at >= 1 BY <1>0, <3>4 DEF ProcInv
      <4>2. StillOurs => released[p] # NotReleased BY <4>1, ZeroesFacts
      <4> QED BY <1>0, <3>4, <4>2 DEF ProcInv, ReleaseInstant
    <3> QED BY <1>0, <3>1, <3>2, <3>3, <3>4 DEF ProcInv, SInv, TypeOK
  <2> QED BY <1>0, <2>1, <2>2, <2>3, <2>4, <2>5 DEF CallInv
<1> QED BY <1>1, <1>2

\* The answer.
LEMMA CallAnswers ==
    ASSUME SInv, LineInv, TypeOK', NEW t \in Threads, CheckBlock(t) \/ AnswerAfter(t)
    PROVE  CallInv(t)'
<1> DEFINE c == thread[t]
           p == ProcOf[t]
           r == released[p]
<1>0. /\ UNCHANGED <<now, next, block, rel, releaseAt, released, served>>
      /\ thread \in [Threads -> Calls] /\ c \in Calls /\ p \in Procs
      /\ ProcInv(p) /\ CallInv(t) /\ Reached(p, served[p])
      /\ now \in 0..MaxNow /\ now \in Int /\ block.anchor \in Anchors
      /\ c.t \in 0..MaxNow /\ c.t \in Int /\ c.floor \in Int /\ c.at \in Nat
      /\ c.a \in Anchors /\ c.t <= now /\ c.floor <= served[p] /\ served[p] \in Int
      /\ ReleaseInstant(p) \in Nat /\ r.a \in Anchors
      /\ (StillOurs' <=> StillOurs)
      /\ ReleaseInstant(p)' = ReleaseInstant(p)
      /\ rel[p].pc # "none"
  <2>1. Step(t) /\ ~Return(t) BY DEF Step, CheckBlock, AnswerAfter, Return, At
  <2> QED BY <2>1, CallFrame
<1>1. r.at \in Nat /\ r.a.of \in Owners /\ c.a.of \in Owners /\ r.a.of # "B"
  BY <1>0 DEF SInv, TypeOK, OwnInv, Anchors
\* An answer that is as it should be leaves the call as it should be.
<1>2. ASSUME NEW v \in I64, NEW of \in Owners \cup {"real"},
             thread'[t] = Answering(t, v, of),
             of # "0" => v >= c.floor, Reached(p, v)
      PROVE  CallInv(t)'
  <2>1. /\ thread'[t].pc = "answer" /\ thread'[t].v = v /\ thread'[t].of = of
        /\ thread'[t].floor = c.floor /\ thread'[t].t = 0
    BY <1>2, CallTypes DEF SInv
  <2>2. Reached(p, v)' BY <1>0, <1>2 DEF Reached, Line
  <2>3. Reached(p, thread[t].v)' BY <2>1, <2>2 DEF Reached, Line
  <2> QED BY <1>0, <1>2, <2>1, <2>3 DEF CallInv
<1>3. CASE CheckBlock(t) /\ StillOurs
  <2> DEFINE v == released_quit_at(c.a, c.at, c.t)
  <2>1. thread'[t] = Answering(t, v, c.a.of) /\ c.pc = "owner" /\ v \in I64
    BY <1>0, <1>3, Lines DEF CheckBlock, At
  <2>2. c.a.of # "B" BY <1>3 DEF SInv, OwnInv
  <2>3. CASE c.a.of = "0"
    <3>1. c.a = Zeroes BY <2>3 DEF SInv, AnchorInv, Sound
    <3>2. v = c.t BY <1>0, <3>1, ZeroLine
    <3>3. Reached(p, v) BY <1>0, <2>1, <3>2, ClockReached
    <3> HIDE DEF v
    <3> QED BY <1>1, <1>2, <2>1, <2>3, <3>3
  <2>4. CASE c.a.of = First
    <3>1. /\ Held(t) /\ Reading(t) >= c.floor /\ Reached(p, Reading(t))
          /\ \/ c.at = ReleaseInstant(p)
             \/ c.at = 0 /\ c.t <= ReleaseInstant(p)
      BY <1>0, <1>3, <2>1, <2>4 DEF CallInv, Held
    <3>2. v = Reading(t) BY <1>0, <3>1, Lines DEF Reading, Line
    <3> HIDE DEF v
    <3>3. v >= c.floor /\ Reached(p, v) BY <3>1, <3>2
    <3> QED BY <1>1, <1>2, <2>1, <3>3
  <2> QED BY <1>1, <2>2, <2>3, <2>4, ZeroesFacts DEF Owners
<1>4. CASE CheckBlock(t) /\ ~StillOurs
  <2>1. thread'[t] = [Idle EXCEPT !.pc = "after", !.floor = c.floor] BY <1>0, <1>4 DEF CheckBlock
  <2>2. thread'[t].pc = "after" /\ thread'[t].t = 0 /\ thread'[t].floor = c.floor BY <2>1 DEF Idle
  <2> QED BY <1>0, <1>4, <2>2 DEF CallInv
<1>5. CASE AnswerAfter(t) /\ r = NotReleased
  <2>1. thread'[t] = Answering(t, now, "real") /\ c.pc = "after" /\ now \in I64
    BY <1>0, <1>5, SessionReleaseAssumption, ClockMathAssumption DEF AnswerAfter, At, I64
  <2>2. ~StillOurs /\ r.at = 0 BY <1>0, <1>5, <2>1, ZeroesFacts DEF CallInv
  <2>3. served[p] <= now BY <1>0, <2>2 DEF Reached
  <2>4. Reached(p, now) BY <1>0, <2>1, ClockReached
  <2>5. now >= c.floor BY <1>0, <2>3
  <2>6. PICK v \in I64 : v = now BY <2>1
  <2> QED BY <1>2, <2>1, <2>4, <2>5, <2>6
<1>6. CASE AnswerAfter(t) /\ r # NotReleased
  <2> DEFINE v == released_quit_at(r.a, r.at, now)
  <2>1. thread'[t] = Answering(t, v, r.a.of) /\ v \in I64 /\ v \in Int
    BY <1>0, <1>1, <1>6, Lines, Clocks DEF AnswerAfter
  <2>2. r.at >= 1 /\ ReleaseInstant(p) = r.at BY <1>0, <1>6 DEF ProcInv, ReleaseInstant
  <2>3. v = Line(p, r.a, now) BY <2>2 DEF Line
  <2>4. CASE r.a.of = "0"
    <3>1. r.a = Zeroes BY <1>0, <2>4 DEF SInv, AnchorInv, Sound
    <3>2. v = now BY <1>0, <1>1, <3>1, ZeroLine
    <3>3. Reached(p, v) BY <1>0, <2>1, <3>2, ClockReached
    <3> HIDE DEF v
    <3> QED BY <1>1, <1>2, <2>1, <2>4, <3>3
  <2>5. CASE r.a.of = First
    <3>1. v >= c.floor
      <4>1. served[p] <= v BY <1>0, <2>3, <2>5 DEF Reached
      <4> QED BY <1>0, <2>1, <4>1
    <3>2. StillOurs /\ block.anchor.of = First => r.a = block.anchor BY <1>0, <2>2 DEF ProcInv
    <3> HIDE DEF v
    <3>3. v <= v BY <2>1
    <3>4. Reached(p, v) BY <2>2, <2>3, <3>2, <3>3 DEF Reached
    <3> QED BY <1>1, <1>2, <2>1, <3>1, <3>4
  <2> QED BY <1>1, <2>4, <2>5, ZeroesFacts DEF Owners
<1> QED BY <1>3, <1>4, <1>5, <1>6

-----------------------------------------------------------------------------
(* The calls' invariant is kept, and what it says.                         *)

LEMMA InitLineInv == Init => LineInv
<1> SUFFICES ASSUME Init PROVE LineInv OBVIOUS
<1>0. SInv BY InitSInv
<1>1. /\ now = 1 /\ now \in Int /\ block.seq = 2 /\ StillOurs
      /\ \A p \in Procs : /\ rel[p].pc = "none" /\ served[p] = 0 /\ ~detached[p]
                          /\ releaseAt[p] = 0 /\ released[p] = NotReleased
      /\ \A t \in Threads : thread[t] = Idle /\ thread[t].pc = "idle" /\ thread[t].t = 0
                            /\ thread[t].floor = 0
  BY DEF Init, Idle, StillOurs
<1>2. ASSUME NEW p \in Procs PROVE ProcInv(p) /\ Reached(p, served[p])
  <2>1. Reached(p, 0) BY <1>0, <1>1, AnchorTypes, ClockReached
  <2> QED BY <1>1, <2>1, ZeroesFacts DEF ProcInv, At
<1>3. ASSUME NEW t \in Threads PROVE CallInv(t) BY <1>1, SessionReleaseAssumption DEF CallInv
<1> QED BY <1>1, <1>2, <1>3 DEF LineInv

LEMMA LineInvStep ==
    ASSUME ~ReclaimOvertakes, MaxFailures = 0
    PROVE  SInv /\ LineInv /\ [Next]_vars => LineInv'
<1> SUFFICES ASSUME SInv, LineInv, [Next]_vars PROVE LineInv' OBVIOUS
<1>0. TypeOK' BY TypeStep DEF SInv
<1>1. \A p \in Procs : Kept(p) /\ ProcInv(p)' BY EveryStepKeeps, EveryStepProc
<1>2. ASSUME NEW p \in Procs PROVE served'[p] >= 0 /\ Reached(p, served[p])'
  <2>1. /\ served[p] \in I64 /\ served[p] \in Int /\ served'[p] \in Int /\ served[p] >= 0
        /\ Reached(p, served[p]) /\ ProcInv(p) /\ now \in Int /\ now >= 1 /\ Kept(p)
    BY <1>0, <1>1, Clocks DEF SInv, TypeOK, LineInv
  <2>2. served'[p] >= 0 BY <2>1 DEF Kept
  <2>3. \/ served'[p] = served[p]
        \/ \E t \in Threads : /\ ProcOf[t] = p /\ thread[t].pc = "answer"
                              /\ served'[p] = thread[t].v
    <3>1. CASE \E t \in Threads : Return(t)
      <4> PICK t \in Threads : Return(t) BY <3>1
      <4>1. served' = [served EXCEPT ![ProcOf[t]] = at_least(served[ProcOf[t]], thread[t].v)]
        BY DEF Return
      <4>2. served \in [Procs -> I64] BY DEF SInv, TypeOK
      <4>3. thread[t].pc = "answer" BY DEF Return, At
      <4> QED BY <4>1, <4>2, <4>3 DEF at_least
    <3>2. CASE ~\E t \in Threads : Return(t)
      BY <3>2 DEF Next, vars, Advance, FirstCore, ChangeRate, SlowDown, End, Exit, Kill, NewCore, Lock,
          Zero, OpenAnchor, StoreAnchor, CloseAnchor, WritePid, NextCore, Release, Wake,
          PublishInstant, ReadAnchor, CheckOwner, Detach, Begin, Call, FirstLookOver,
          StartWatcher, StartFails, Step, ReleasedHere, SeesFlag, Look, ReadFields, ReadClock,
          Recheck, LoadInstant, CheckBlock, AnswerAfter
    <3> QED BY <3>1, <3>2
  <2>4. \A v \in I64 : Reached(p, v) /\ (rel[p].pc = "none" => v <= now) => Reached(p, v)'
    BY <2>1 DEF Kept
  <2>5. \E v \in I64 : v = served'[p] /\ Reached(p, v)'
    <3>1. CASE served'[p] = served[p]
      <4>1. rel[p].pc = "none" => served[p] <= now BY <2>1 DEF ProcInv
      <4> QED BY <2>1, <2>4, <3>1, <4>1
    <3>2. ASSUME NEW t \in Threads, ProcOf[t] = p, thread[t].pc = "answer",
                 served'[p] = thread[t].v
          PROVE  \E v \in I64 : v = served'[p] /\ Reached(p, v)'
      <4>1. thread[t].v \in I64 BY DEF SInv, TypeOK
      <4>2. Reached(p, thread[t].v) BY <3>2 DEF LineInv, CallInv
      <4>3. rel[p].pc # "none" BY <2>1, <3>2 DEF ProcInv, At
      <4> QED BY <2>4, <3>2, <4>1, <4>2, <4>3
    <3> QED BY <2>3, <3>1, <3>2
  <2>6. Reached(p, served[p])' BY <2>5 DEF Reached, Line
  <2> QED BY <2>2, <2>6
<1>3. ASSUME NEW t \in Threads PROVE CallInv(t)'
  <2>1. CASE thread'[t] = thread[t]
    <3>1. ProcOf[t] \in Procs /\ ProcInv(ProcOf[t]) /\ CallInv(t)
      BY SessionReleaseAssumption DEF LineInv
    <3> QED BY <1>0, <1>1, <2>1, <3>1, CallKept
  <2>2. CASE thread'[t] # thread[t]
    <3>0. thread \in [Threads -> Calls] BY Types DEF SInv
    <3>1. Begin(t) \/ Step(t)
      <4>1. \/ thread' = thread
            \/ \E u \in Threads : Begin(u) \/ Step(u)
        BY DEF Next, vars, Advance, FirstCore, ChangeRate, SlowDown, End, Exit, Kill, NewCore, Lock,
            Zero, OpenAnchor, StoreAnchor, CloseAnchor, WritePid, NextCore, Release, Wake,
            PublishInstant, ReadAnchor, CheckOwner, Detach
      <4>2. \A u \in Threads : Begin(u) \/ Step(u) => \A w \in Threads \ {u} : thread'[w] = thread[w]
        BY <3>0 DEF Begin, Call, FirstLookOver, StartWatcher, StartFails, Step, ReleasedHere,
            SeesFlag, Look, ReadFields, ReadClock, Recheck, LoadInstant, CheckBlock,
            AnswerAfter, Return
      <4> QED BY <2>2, <4>1, <4>2
    <3> QED BY <1>0, <3>1, CallBegun, CallBranches, CallReads, CallChecks, CallAnswers DEF Step
  <2> QED BY <2>1, <2>2
<1> QED BY <1>1, <1>2, <1>3 DEF LineInv

LEMMA LineInvSays == SInv /\ LineInv => DurationsGoOn
  BY DEF SInv, LineInv, CallInv, DurationsGoOn, NeverRunsBack, At

\* The durations of a process go on, in range, through the end of the session and the next
\* one's start: whatever the rate, however its calls interleave, whenever the core is killed,
\* if the next core waits until the processes are let go and every watcher starts.
THEOREM DurationsNeverRunBack ==
    ASSUME ~ReclaimOvertakes, MaxFailures = 0
    PROVE  Spec => []DurationsGoOn
<1>1. Init => SInv /\ LineInv BY InitSInv, InitLineInv
<1>2. SInv /\ LineInv /\ [Next]_vars => SInv' /\ LineInv' BY SInvStep, LineInvStep
<1>3. Spec => [](SInv /\ LineInv) BY <1>1, <1>2, PTL DEF Spec
<1> QED BY <1>3, LineInvSays, PTL
=============================================================================
