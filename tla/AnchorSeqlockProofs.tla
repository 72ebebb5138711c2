------------------------- MODULE AnchorSeqlockProofs -------------------------
(***************************************************************************)
(* Proofs about what a detour does for one call.  About AnchorSeqlock, for *)
(* every set of readers, rates and jumps, every width of the integers and  *)
(* every length of run; about DetourCalls, for every rate, length and      *)
(* timer, however deep the application's code and the waits nest.          *)
(*                                                                         *)
(* NeverRunsBack compares an answer with another thread's earlier answer,  *)
(* so it is not inductive: what carries it is that every answer given, or  *)
(* computed and not yet given, stays below the reading the block would     *)
(* give now, and below the base a rate change has already computed.        *)
(*                                                                         *)
(* DurationsAreTheSession, the refinement of SessionAxis by the QUIT and   *)
(* by the QPC axis, follows step by step from that and from AxisInv.       *)
(*                                                                         *)
(* DetoursAreTransparent rests on how the frames stand on one another: on  *)
(* which of them have a flag to put back, so that exactly the family of    *)
(* the running call has its flag up, outside alertable waits; and on what  *)
(* each frame's argument is of the call it runs for.                       *)
(***************************************************************************)
EXTENDS MCHookCalls, TLAPS, SequenceTheorems, WellFoundedInduction

-----------------------------------------------------------------------------
(* What the projections guarantee for every width of the integers and      *)
(* every clamp: they stay in range, they do not run back as the real clock *)
(* advances, and they never answer below their own base.                   *)

\* Real time since an anchor is a natural number, whatever the clock says, and an
\* anchor whose origin lies ahead of the clock counts as just written (`.max(0)`).
LEMMA ElapsedRange ==
    ASSUME NEW o \in Int, NEW t \in Int
    PROVE  /\ elapsed(o, t) \in 0..I64_MAX
           /\ t <= o => elapsed(o, t) = 0
  BY ClockMathAssumption DEF elapsed, at_least, saturating_sub, saturate

\* Real time since an anchor does not run back.
LEMMA ElapsedMonotone ==
    ASSUME NEW o \in Int, NEW t \in Int, NEW u \in Int, t <= u
    PROVE  elapsed(o, t) <= elapsed(o, u)
  BY ClockMathAssumption DEF elapsed, at_least, saturating_sub, saturate

\* A longer stretch of real time at one rate is a longer stretch of fake time.
LEMMA ProductMonotone ==
    ASSUME NEW d \in Nat, NEW e \in Nat, NEW m \in Nat, d <= e
    PROVE  d * m \in Nat /\ e * m \in Nat /\ d * m <= e * m
<1> DEFINE k == e - d
<1>1. k \in Nat /\ e = d + k BY DEF k
<1> HIDE DEF k
<1>2. k * m \in Nat /\ d * m \in Nat BY <1>1
<1>3. e * m = d * m + k * m BY <1>1
<1> QED BY <1>2, <1>3

\* A saturating step of a line: in range, monotone in the product, and not below the base.
LEMMA SaturatingStep ==
    ASSUME NEW b \in I64, NEW p \in Nat, NEW q \in Nat, p <= q
    PROVE  /\ saturating_add(b, saturate(p)) \in I64
           /\ saturating_add(b, saturate(p)) >= b
           /\ saturating_add(b, saturate(p)) <= saturating_add(b, saturate(q))
  BY ClockMathAssumption DEF saturating_add, saturate, I64

\* The fake wall: clamped at both ends, monotone in the real clock, and not below a base
\* the session could have written.
LEMMA WallLine ==
    ASSUME NEW b \in I64, NEW o \in Int, NEW m \in Nat,
           NEW t \in Int, NEW u \in Int, t <= u
    PROVE  /\ fake_wall_at(b, o, t, m) \in 0..FAKE_WALL_MAX
           /\ fake_wall_at(b, o, t, m) <= fake_wall_at(b, o, u, m)
           /\ b <= FAKE_WALL_MAX => b <= fake_wall_at(b, o, t, m)
<1> DEFINE d == elapsed(o, t)
           e == elapsed(o, u)
<1>1. d \in Nat /\ e \in Nat /\ d <= e BY ElapsedRange, ElapsedMonotone, ClockMathAssumption
<1> HIDE DEF d, e
<1>2. d * m \in Nat /\ e * m \in Nat /\ d * m <= e * m BY <1>1, ProductMonotone
<1> DEFINE v == saturating_add(b, saturate(d * m))
           w == saturating_add(b, saturate(e * m))
<1>3. v \in I64 /\ v >= b /\ v <= w /\ w \in I64 BY <1>2, SaturatingStep
<1>4. /\ fake_wall_at(b, o, t, m) = at_most(FAKE_WALL_MAX, at_least(0, v))
      /\ fake_wall_at(b, o, u, m) = at_most(FAKE_WALL_MAX, at_least(0, w))
  BY DEF fake_wall_at, saturating_mul, d, e, v, w
<1> HIDE DEF v, w
<1> QED BY <1>3, <1>4, ClockMathAssumption DEF at_most, at_least, I64

\* A duration axis: in range, monotone in the real clock even while the wall is frozen,
\* and not below its base.
LEMMA DurationLine ==
    ASSUME NEW b \in I64, NEW o \in Int, NEW m \in Nat,
           NEW t \in Int, NEW u \in Int, t <= u
    PROVE  /\ dur_quit_at(b, o, m, t) \in I64
           /\ dur_quit_at(b, o, m, t) <= dur_quit_at(b, o, m, u)
           /\ b <= dur_quit_at(b, o, m, t)
<1> DEFINE d == elapsed(o, t)
           e == elapsed(o, u)
           n == at_least(1, m)
<1>1. d \in Nat /\ e \in Nat /\ d <= e BY ElapsedRange, ElapsedMonotone, ClockMathAssumption
<1>2. n \in Nat BY DEF at_least
<1>3. /\ dur_quit_at(b, o, m, t) = saturating_add(b, saturate(d * n))
      /\ dur_quit_at(b, o, m, u) = saturating_add(b, saturate(e * n))
  BY DEF dur_quit_at, saturating_mul
<1> HIDE DEF d, e, n
<1>4. d * n \in Nat /\ e * n \in Nat /\ d * n <= e * n BY <1>1, <1>2, ProductMonotone
<1>5. /\ saturating_add(b, saturate(d * n)) \in I64
      /\ saturating_add(b, saturate(d * n)) >= b
      /\ saturating_add(b, saturate(d * n)) <= saturating_add(b, saturate(e * n))
  BY <1>4, SaturatingStep
<1> QED BY <1>3, <1>5

\* One more unit of real time is one more unit of the axis times the rate, up to the end
\* of the range.
LEMMA LineTicks ==
    ASSUME NEW b \in 0..I64_MAX, NEW o \in Nat, NEW m \in Nat, NEW t \in Nat,
           o <= t, t + 1 <= I64_MAX
    PROVE  dur_quit_at(b, o, m, t + 1) = at_most(I64_MAX, dur_quit_at(b, o, m, t) + at_least(1, m))
<1> DEFINE n == at_least(1, m)
           p == (t - o) * n
<1>1. elapsed(o, t) = t - o /\ elapsed(o, t + 1) = t + 1 - o
  BY ClockMathAssumption DEF elapsed, at_least, saturating_sub, saturate
<1>2. n \in Nat /\ t - o \in Nat BY DEF at_least
<1> HIDE DEF n
<1>3. p \in Nat /\ (t + 1 - o) * n = p + n BY <1>2, ProductMonotone
<1> HIDE DEF p
<1>4. /\ dur_quit_at(b, o, m, t) = saturating_add(b, saturate(p))
      /\ dur_quit_at(b, o, m, t + 1) = saturating_add(b, saturate(p + n))
  BY <1>1, <1>3 DEF dur_quit_at, saturating_mul, n, p
<1>5. saturating_add(b, saturate(p + n)) = at_most(I64_MAX, saturating_add(b, saturate(p)) + n)
  BY <1>2, <1>3, ClockMathAssumption DEF saturating_add, saturate, at_most
<1> QED BY <1>4, <1>5 DEF n

\* At its own origin a line stands at its base.
LEMMA LineStarts ==
    ASSUME NEW b \in 0..I64_MAX, NEW o \in Int, NEW m \in Nat
    PROVE  dur_quit_at(b, o, m, o) = b
<1>1. elapsed(o, o) = 0 /\ at_least(1, m) \in Nat BY ElapsedRange DEF at_least
<1>2. elapsed(o, o) * at_least(1, m) = 0 BY <1>1
<1> QED BY <1>2, ClockMathAssumption DEF dur_quit_at, saturating_mul, saturating_add, saturate

-----------------------------------------------------------------------------
(* The inductive invariant.                                                *)

\* The reading the block gives now.
Reading(ax) == Line(ax, base[ax], origin[ax], rate, Clock(ax))

\* The rate change has frozen this axis: its new base is computed.
Frozen(ax) == /\ stage \in RebaseStages \ {"read_quit"}
              /\ ax = "qpc" => stage # "read_qpc"

\* ... and stored.
BaseStored(ax) ==
    stage \in CASE ax = "wall" -> {"a_real", "dur_quit_c0", "dur_qpc_c0", "dur_q0",
                                   "dur_qpc_q0", "multiplier", "close"}
                [] ax = "quit" -> {"dur_qpc_c0", "dur_q0", "dur_qpc_q0", "multiplier", "close"}
                [] OTHER       -> {"dur_q0", "dur_qpc_q0", "multiplier", "close"}

CeilingOf(ax) == IF ax = "wall" THEN FAKE_WALL_MAX ELSE I64_MAX

CoreInv ==
    /\ plain <= precise
    /\ dead => stage = "idle"
    /\ ~dead => (stage \in OpenStages <=> seq % 2 = 1)
    /\ stuck # 0 => dead
    /\ stage \in {"jump_open"} \cup JumpStages => pend.m = rate
    /\ \A ax \in Axes : /\ base[ax] \in 0..CeilingOf(ax)
                        /\ pend.base[ax] \in 0..CeilingOf(ax)
                        /\ BaseStored(ax) => base[ax] = pend.base[ax]

\* A reader past its first look.
Inside(r) == rd[r].pc \notin {"idle", "look"}

\* What it has read is what the block holds.
Fresh(r) == rd[r].asis \/ rd[r].look = seq

ReaderInv(r) ==
    /\ rd[r].mark <= epoch
    /\ rd[r].asis => dead /\ rd[r].pc # "recheck"
    /\ Inside(r) /\ ~rd[r].asis => rd[r].look % 2 = 0 /\ rd[r].look <= seq
    /\ Inside(r) /\ Fresh(r) /\ rd[r].pc # "answer" =>
           /\ rd[r].pc # "base" => rd[r].b = base[rd[r].ax]
           /\ rd[r].pc \notin {"base", "origin"} => rd[r].o = origin[rd[r].ax]
           /\ rd[r].pc \notin {"base", "origin", "rate"} => rd[r].m = rate
           /\ rd[r].pc = "recheck" => rd[r].t <= Clock(rd[r].ax)

\* A value the axis has reached: neither the block nor the write under way is below it.
Reached(ax, v) == /\ v <= Reading(ax)
                  /\ Frozen(ax) => v <= pend.base[ax]

AnswersInv(r) ==
    /\ rd[r].pc # "idle" /\ Comparable(r) => rd[r].floor <= served[rd[r].ax]
    /\ At(r, "recheck") /\ Comparable(r) /\ rd[r].look = seq => Value(r) >= rd[r].floor
    /\ At(r, "answer") /\ Comparable(r) => Value(r) >= rd[r].floor /\ Reached(rd[r].ax, Value(r))

\* While a jump is open no reader has passed its first look in this epoch.
JumpInv ==
    stage \in JumpStages =>
        /\ served["wall"] = 0
        /\ \A r \in Readers : rd[r].ax = "wall" /\ rd[r].mark = epoch => ~Inside(r)

IInv ==
    /\ TypeOK /\ CoreInv /\ JumpInv
    /\ \A ax \in Axes : Reached(ax, served[ax])
    /\ \A r \in Readers : ReaderInv(r) /\ AnswersInv(r)
-----------------------------------------------------------------------------
(* Facts about the axes.                                                   *)

\* A line stays in range, does not run back as its clock advances, and does not answer
\* below its base.
LEMMA LineFacts ==
    ASSUME NEW ax \in Axes, NEW b \in I64, NEW o \in Int, NEW m \in Nat,
           NEW t \in Int, NEW u \in Int, t <= u
    PROVE  /\ Line(ax, b, o, m, t) \in I64
           /\ Line(ax, b, o, m, t) <= Line(ax, b, o, m, u)
           /\ b \in 0..CeilingOf(ax) => b <= Line(ax, b, o, m, t)
           /\ b \in 0..CeilingOf(ax) => Line(ax, b, o, m, t) \in 0..CeilingOf(ax)
<1>1. CASE ax = "wall"
  <2>1. /\ fake_wall_at(b, o, t, m) \in 0..FAKE_WALL_MAX
        /\ fake_wall_at(b, o, t, m) <= fake_wall_at(b, o, u, m)
        /\ b <= FAKE_WALL_MAX => b <= fake_wall_at(b, o, t, m)
    BY WallLine
  <2> QED BY <1>1, <2>1, ClockMathAssumption DEF Line, CeilingOf, I64
<1>2. CASE ax # "wall"
  <2>1. /\ dur_quit_at(b, o, m, t) \in I64
        /\ dur_quit_at(b, o, m, t) <= dur_quit_at(b, o, m, u)
        /\ b <= dur_quit_at(b, o, m, t)
    BY DurationLine
  <2> QED BY <1>2, <2>1, ClockMathAssumption DEF Line, CeilingOf, I64
<1> QED BY <1>1, <1>2

-----------------------------------------------------------------------------
(* Type correctness.                                                       *)

\* A call that has just begun, field by field.
LEMMA BegunFacts ==
    ASSUME NEW ax \in Axes, NEW mark \in Nat, NEW floor \in I64
    PROVE  /\ Begun(ax, mark, floor) \in Call_
           /\ Begun(ax, mark, floor).pc = "look"
           /\ Begun(ax, mark, floor).ax = ax
           /\ Begun(ax, mark, floor).mark = mark
           /\ Begun(ax, mark, floor).floor = floor
<1>1. 0 \in I64 /\ 0 \in 0..MaxNow BY ClockMathAssumption, AnchorSeqlockAssumption DEF I64
<1>2. Idle \in Call_ BY <1>1 DEF Idle, Call_, Axes
<1> HIDE DEF Idle
<1> QED BY <1>2 DEF Begun, Call_

LEMMA BegunInside ==
    ASSUME NEW ax, NEW mark, NEW floor
    PROVE  ~Begun(ax, mark, floor).asis
  BY DEF Begun, Idle

LEMMA TypeInit == Init => TypeOK
<1> SUFFICES ASSUME Init PROVE TypeOK OBVIOUS
<1> USE ClockMathAssumption, AnchorSeqlockAssumption DEF Init
<1>1. base \in [Axes -> I64] /\ origin \in [Axes -> 0..MaxNow] /\ rate \in Nat BY DEF Axes, I64
<1>2. pend \in Anchors BY <1>1 DEF Anchors
<1>3. Idle \in Call_ BY DEF Idle, Call_, Axes, I64
<1>4. rd \in [Readers -> Call_] /\ served \in [Axes -> I64] BY <1>3 DEF I64
<1>5. precise \in 1..MaxNow /\ plain \in 0..MaxNow OBVIOUS
<1>6. seq \in Nat /\ stage = "idle" /\ stuck \in Nat /\ epoch \in Nat OBVIOUS
<1>7. dead \in BOOLEAN OBVIOUS
<1> HIDE DEF Init
<1> QED BY <1>1, <1>2, <1>4, <1>5, <1>6, <1>7 DEF TypeOK

LEMMA TypeStep == TypeOK /\ [Next]_vars => TypeOK'
<1> SUFFICES ASSUME TypeOK, [Next]_vars PROVE TypeOK' OBVIOUS
<1> USE ClockMathAssumption, AnchorSeqlockAssumption DEF TypeOK
<1>1. CASE Advance \/ TimerInterrupt BY <1>1 DEF Advance, TimerInterrupt, block, core, history
<1>2. ASSUME NEW m \in Rates, OpenRebase(m) PROVE TypeOK'
  BY <1>2 DEF OpenRebase, CoreAt, clocks, history, Anchors, OpenStages, RebaseStages
<1>3. CASE ReadQuit
  <2> DEFINE w == Line("wall", base["wall"], origin["wall"], rate, precise)
             q == Line("quit", base["quit"], origin["quit"], rate, precise)
  <2>1. w \in I64 /\ q \in I64 BY LineFacts DEF Axes
  <2>2. pend' = [pend EXCEPT !.base = [@ EXCEPT !["wall"] = w, !["quit"] = q],
                             !.origin = [@ EXCEPT !["wall"] = precise, !["quit"] = precise]]
    BY <1>3 DEF ReadQuit
  <2> HIDE DEF w, q
  <2> DEFINE pb == [pend.base EXCEPT !["wall"] = w, !["quit"] = q]
             po == [pend.origin EXCEPT !["wall"] = precise, !["quit"] = precise]
  <2>3. /\ pend.base \in [Axes -> I64] /\ pend.origin \in [Axes -> 0..MaxNow]
        /\ precise \in 0..MaxNow
    BY DEF Anchors
  <2>4. pb \in [Axes -> I64] /\ po \in [Axes -> 0..MaxNow] BY <2>1, <2>3
  <2>5. pend' = [pend EXCEPT !.base = pb, !.origin = po] BY <2>2
  <2> HIDE DEF pb, po
  <2>6. pend' \in Anchors BY <2>4, <2>5 DEF Anchors
  <2> QED BY <1>3, <2>6 DEF ReadQuit, CoreAt, clocks, block, history, OpenStages, RebaseStages
<1>4. CASE ReadQpc
  <2> DEFINE c == Line("qpc", base["qpc"], origin["qpc"], rate, precise)
  <2>1. c \in I64 BY LineFacts DEF Axes
  <2>2. pend' = [pend EXCEPT !.base["qpc"] = c, !.origin["qpc"] = precise] BY <1>4 DEF ReadQpc
  <2> HIDE DEF c
  <2> DEFINE pb == [pend.base EXCEPT !["qpc"] = c]
             po == [pend.origin EXCEPT !["qpc"] = precise]
  <2>3. /\ pend.base \in [Axes -> I64] /\ pend.origin \in [Axes -> 0..MaxNow]
        /\ precise \in 0..MaxNow
    BY DEF Anchors
  <2>4. pb \in [Axes -> I64] /\ po \in [Axes -> 0..MaxNow] BY <2>1, <2>3
  <2>5. pend' = [pend EXCEPT !.base = pb, !.origin = po] BY <2>2
  <2> HIDE DEF pb, po
  <2>6. pend' \in Anchors BY <2>4, <2>5 DEF Anchors
  <2> QED BY <1>4, <2>6 DEF ReadQpc, CoreAt, clocks, block, history, OpenStages, RebaseStages
<1>5. CASE RebaseStores \/ JumpStores
  BY <1>5 DEF RebaseStores, JumpStores, StoreBase, StoreOrigin, StoreRate, CoreAt, clocks,
              history, Anchors, Axes, OpenStages, RebaseStages, JumpStages
<1>6. CASE CloseRebase BY <1>6 DEF CloseRebase, CoreAt, clocks, history
<1>7. ASSUME NEW to \in 0..FAKE_WALL_MAX, PrepareJump(to) PROVE TypeOK'
  BY <1>7 DEF PrepareJump, CoreAt, clocks, block, history, Anchors, Axes, I64
<1>8. CASE OpenJump \/ CloseJump
  BY <1>8 DEF OpenJump, CloseJump, CoreAt, clocks, OpenStages, JumpStages, Axes, I64
<1>9. CASE Kill BY <1>9 DEF Kill, clocks, block, history, Anchors
<1>10. ASSUME NEW r \in Readers, ReaderStep(r) PROVE TypeOK'
  <2>1. ASSUME NEW ax \in Channels, Call(r, ax) PROVE TypeOK'
    <3>1. Begun(ax, epoch, served[ax]) \in Call_ BY BegunFacts
    <3> QED BY <2>1, <3>1 DEF Call, clocks, block, core, history
  <2>2. CASE LookEven(r) \/ LookKnownStuck(r)
    BY <2>2 DEF LookEven, LookKnownStuck, At, clocks, block, core, history, Call_
  <2>3. CASE GiveUp(r)
    <3>1. [rd[r] EXCEPT !.pc = "base", !.look = seq, !.asis = TRUE] \in Call_
      BY ZenonT(60) DEF Call_
    <3>2. rd' = [rd EXCEPT ![r] = [rd[r] EXCEPT !.pc = "base", !.look = seq, !.asis = TRUE]]
      BY <2>3 DEF GiveUp
    <3>3. rd' \in [Readers -> Call_] BY <3>1, <3>2
    <3> QED BY <2>3, <3>3 DEF GiveUp, clocks, block, core, history
  <2>4. CASE ReadBase(r) \/ ReadOrigin(r) \/ ReadRate(r)
    BY <2>4 DEF ReadBase, ReadOrigin, ReadRate, At, clocks, block, core, history, Call_
  <2>5. CASE ReadClock(r)
    <3>1. Clock(rd[r].ax) \in 0..MaxNow BY DEF Clock
    <3> DEFINE next == IF rd[r].asis THEN "answer" ELSE "recheck"
    <3>2. [rd[r] EXCEPT !.pc = next, !.t = Clock(rd[r].ax)] \in Call_ BY ZenonT(60), <3>1 DEF Call_
    <3>3. rd' = [rd EXCEPT ![r] = [rd[r] EXCEPT !.pc = next, !.t = Clock(rd[r].ax)]]
      BY <2>5 DEF ReadClock
    <3>4. rd' \in [Readers -> Call_] BY <3>2, <3>3
    <3> QED BY <2>5, <3>4 DEF ReadClock, clocks, block, core, history
  <2>6. CASE Recheck(r)
    <3>1. /\ Begun(rd[r].ax, rd[r].mark, rd[r].floor) \in Call_
          /\ [rd[r] EXCEPT !.pc = "answer"] \in Call_
      BY SMTT(60), BegunFacts DEF Call_
    <3> QED BY <2>6, <3>1 DEF Recheck, clocks, block, core, history
  <2>7. CASE Return(r)
    <3>1. Value(r) \in I64 BY LineFacts DEF Value, Call_
    <3> QED
      BY <2>7, <3>1 DEF Return, Comparable, Idle, At, clocks, block, core, Call_, Axes, I64,
                        at_least
  <2> QED BY <1>10, <2>1, <2>2, <2>3, <2>4, <2>5, <2>6, <2>7 DEF ReaderStep
<1>11. CASE UNCHANGED vars BY <1>11 DEF vars
<1>12. ASSUME NEW shift \in JumpShifts, JumpStep(shift) PROVE TypeOK' BY <1>7, <1>12 DEF JumpStep
<1>13. ASSUME NEW to \in JumpTargets, PrepareJump(to) PROVE TypeOK' BY <1>7, <1>13
<1> QED
  BY <1>1, <1>2, <1>3, <1>4, <1>5, <1>6, <1>8, <1>9, <1>10, <1>11, <1>12, <1>13
  DEF Next, CoreStep

\* The variables keep their types in every run, of any length and at any width.
THEOREM TypeCorrect == Spec => []TypeOK
  BY TypeInit, TypeStep, PTL DEF Spec

-----------------------------------------------------------------------------
(* The inductive invariant is inductive.                                   *)

\* What every later lemma needs to know of the readings.
LEMMA ReadingFacts ==
    ASSUME TypeOK, CoreInv, NEW ax \in Axes
    PROVE  /\ Reading(ax) \in 0..CeilingOf(ax)
           /\ base[ax] <= Reading(ax)
           /\ Clock(ax) \in 0..MaxNow /\ Clock(ax) <= precise
           /\ Reading(ax) <= Line(ax, base[ax], origin[ax], rate, precise)
<1>1. Clock(ax) \in 0..MaxNow /\ Clock(ax) <= precise /\ precise \in Int
  BY AnchorSeqlockAssumption, ClockMathAssumption DEF TypeOK, CoreInv, Clock
<1>2. /\ base[ax] \in I64 /\ origin[ax] \in Int /\ rate \in Nat
      /\ base[ax] \in 0..CeilingOf(ax)
  BY AnchorSeqlockAssumption, ClockMathAssumption DEF TypeOK, CoreInv
<1> QED BY <1>1, <1>2, LineFacts, AnchorSeqlockAssumption, ClockMathAssumption DEF Reading

\* The same of the next state.
LEMMA ReadingPrimed ==
    ASSUME TypeOK', CoreInv', NEW ax \in Axes
    PROVE  /\ Reading(ax)' \in 0..CeilingOf(ax)'
           /\ base'[ax] <= Reading(ax)'
<1>1. Clock(ax)' \in Int BY AnchorSeqlockAssumption, ClockMathAssumption DEF TypeOK, Clock
<1>2. /\ base'[ax] \in I64 /\ origin'[ax] \in Int /\ rate' \in Nat
      /\ base'[ax] \in 0..CeilingOf(ax)
  BY AnchorSeqlockAssumption, ClockMathAssumption DEF TypeOK, CoreInv, CeilingOf
<1>3. Reading(ax)' = Line(ax, base'[ax], origin'[ax], rate', Clock(ax)') BY DEF Reading
<1> QED BY <1>1, <1>2, <1>3, LineFacts DEF CeilingOf

\* While a write is open no reader holds fresh fields: seq is odd, and a look is even.
LEMMA NoneFresh ==
    ASSUME TypeOK, CoreInv, ~dead, stage \in OpenStages,
           NEW r \in Readers, ReaderInv(r), Inside(r)
    PROVE  ~rd[r].asis /\ rd[r].look # seq
  BY DEF CoreInv, ReaderInv

\* An answer is a value of its axis.
LEMMA ValueType ==
    ASSUME TypeOK, NEW r \in Readers
    PROVE  Value(r) \in I64 /\ rd[r].ax \in Axes /\ rd[r].floor \in I64 /\ rd[r].look \in Nat
           /\ rd[r].mark \in Nat
<1>1. rd[r] \in Call_ BY DEF TypeOK
<1>2. /\ rd[r].b \in I64 /\ rd[r].o \in Int /\ rd[r].m \in Nat /\ rd[r].t \in Int
      /\ rd[r].ax \in Axes /\ rd[r].floor \in I64 /\ rd[r].look \in Nat /\ rd[r].mark \in Nat
  BY <1>1, AnchorSeqlockAssumption, ClockMathAssumption DEF Call_
<1>3. Value(r) \in I64 BY <1>2, LineFacts DEF Value
<1> QED BY <1>2, <1>3

\* Which stages hold a write open.
LEMMA OpenParity ==
    /\ "idle" \notin OpenStages /\ "jump_open" \notin OpenStages
    /\ "idle" \notin JumpStages /\ "jump_open" \notin JumpStages
    /\ RebaseStages \subseteq OpenStages /\ JumpStages \subseteq OpenStages
    /\ RebaseStages \cap JumpStages = {}
    /\ "read_quit" \in RebaseStages
    /\ \A n \in Nat : n % 2 \in {0, 1} /\ (n % 2 = 0 <=> (n + 1) % 2 = 1)
  BY DEF OpenStages, RebaseStages, JumpStages

LEMMA InitIInv == Init => IInv
<1> SUFFICES ASSUME Init PROVE IInv OBVIOUS
<1>1. TypeOK BY TypeInit
<1>2. CoreInv
  BY AnchorSeqlockAssumption, ClockMathAssumption
  DEF Init, CoreInv, OpenStages, RebaseStages, JumpStages, CeilingOf, Axes, BaseStored
<1>3. JumpInv BY DEF Init, JumpInv, JumpStages
<1>4. ASSUME NEW ax \in Axes PROVE Reached(ax, served[ax])
  <2>1. served[ax] = 0 /\ ~Frozen(ax) BY DEF Init, Frozen, RebaseStages
  <2>2. Reading(ax) >= 0 BY <1>1, <1>2, ReadingFacts, ClockMathAssumption DEF CeilingOf
  <2> QED BY <2>1, <2>2 DEF Reached
<1>5. ASSUME NEW r \in Readers PROVE ReaderInv(r) /\ AnswersInv(r)
  <2>1. rd[r].pc = "idle" /\ rd[r].mark = 0 /\ epoch = 0 /\ ~rd[r].asis BY DEF Init, Idle
  <2> QED BY <2>1 DEF ReaderInv, AnswersInv, Inside, At
<1> QED BY <1>1, <1>2, <1>3, <1>4, <1>5 DEF IInv

\* Real time advances: every reading moves forward with it.
LEMMA ClockStep ==
    ASSUME IInv, TypeOK', Advance \/ TimerInterrupt
    PROVE  IInv'
<1>1. /\ precise <= precise' /\ plain <= plain' /\ plain' <= precise'
      /\ UNCHANGED <<block, core, rd, stuck, history>>
  BY AnchorSeqlockAssumption, ClockMathAssumption
  DEF IInv, TypeOK, CoreInv, Advance, TimerInterrupt
<1>2. CoreInv' /\ JumpInv'
  BY <1>1 DEF IInv, CoreInv, JumpInv, block, core, history, Inside, BaseStored, CeilingOf
<1>3. ASSUME NEW ax \in Axes, NEW v \in I64, Reached(ax, v) PROVE Reached(ax, v)'
  <2>1. /\ Clock(ax) \in Int /\ Clock(ax)' \in Int /\ Clock(ax) <= Clock(ax)'
    BY <1>1, AnchorSeqlockAssumption, ClockMathAssumption DEF IInv, TypeOK, Clock
  <2>2. base[ax] \in I64 /\ origin[ax] \in Int /\ rate \in Nat
    BY AnchorSeqlockAssumption, ClockMathAssumption DEF IInv, TypeOK
  <2>3. Reading(ax) <= Reading(ax)' /\ Reading(ax) \in I64 /\ Reading(ax)' \in I64
    BY <1>1, <2>1, <2>2, LineFacts DEF Reading, block
  <2> QED BY <1>1, <1>3, <2>3, ClockMathAssumption DEF Reached, Frozen, core, I64
<1>4. \A ax \in Axes : Reached(ax, served[ax])' BY <1>1, <1>3 DEF IInv, TypeOK, history
<1>5. ASSUME NEW r \in Readers PROVE ReaderInv(r)' /\ AnswersInv(r)'
  <2>1. ReaderInv(r)'
    <3>1. Clock(rd[r].ax) <= Clock(rd[r].ax)' BY <1>1 DEF Clock
    <3>2. Clock(rd[r].ax) \in Int /\ Clock(rd[r].ax)' \in Int /\ rd[r].t \in Int
      BY AnchorSeqlockAssumption, ClockMathAssumption DEF IInv, TypeOK, Clock, Call_
    <3>3. /\ (rd[r].t <= Clock(rd[r].ax)) => (rd[r].t <= Clock(rd[r].ax)') BY <3>1, <3>2
    <3> QED BY <1>1, <3>3 DEF IInv, ReaderInv, Inside, Fresh, block, core, history
  <2>2. AnswersInv(r)'
    <3>1. Reached(rd[r].ax, Value(r)) => Reached(rd[r].ax, Value(r))'
      BY <1>1, <1>3, ValueType DEF IInv, Value
    <3> QED BY <1>1, <3>1 DEF IInv, AnswersInv, At, Comparable, Value, block, core, history
  <2> QED BY <2>1, <2>2
<1> QED BY <1>2, <1>4, <1>5 DEF IInv

\* A step of the core that leaves readers, clocks and history alone keeps the invariant if
\* it keeps the core's part, every axis keeps what it has reached, and a reader's fields
\* stay as fresh as they were.
LEMMA CoreFrame ==
    ASSUME IInv, TypeOK', CoreInv', JumpInv',
           UNCHANGED <<clocks, rd, history>>,
           \A ax \in Axes : \A v \in I64 :
               (ax = "wall" => stage \notin JumpStages) /\ Reached(ax, v) => Reached(ax, v)',
           stage \in JumpStages => Reached("wall", 0)',
           \A r \in Readers : ReaderInv(r)',
           \A r \in Readers : Inside(r) /\ Fresh(r)' => Fresh(r)
    PROVE  IInv'
<1>1. \A ax \in Axes : Reached(ax, served[ax])' BY DEF IInv, TypeOK, JumpInv, history
<1>2. ASSUME NEW r \in Readers PROVE AnswersInv(r)'
  <2>1. Value(r)' = Value(r) /\ Comparable(r)' = Comparable(r) /\ rd[r]' = rd[r]
    BY DEF Value, Comparable, history
  <2>2. ASSUME At(r, "answer"), Comparable(r) PROVE Reached(rd[r].ax, Value(r))'
    <3>1. rd[r].ax = "wall" => stage \notin JumpStages
      BY <2>2 DEF IInv, JumpInv, Comparable, Inside, At
    <3>2. Reached(rd[r].ax, Value(r)) BY <2>2 DEF IInv, AnswersInv
    <3>3. \A ax \in Axes : \A v \in I64 : rd[r].ax = ax /\ Value(r) = v => Reached(ax, v)'
      BY <3>1, <3>2
    <3> QED BY <2>1, <3>3, ValueType DEF IInv
  <2>3. At(r, "recheck") /\ rd[r].look = seq' => rd[r].look = seq
    BY DEF IInv, ReaderInv, Inside, Fresh, At
  <2> QED BY <2>1, <2>2, <2>3 DEF IInv, AnswersInv, At, history
<1> QED BY <1>1, <1>2 DEF IInv

\* Opening a rebase turns seq odd: nothing a reader holds is fresh any more.
LEMMA OpenRebaseStep ==
    ASSUME IInv, TypeOK', NEW m \in Rates, OpenRebase(m)
    PROVE  IInv'
<1>1. /\ ~dead /\ stage = "idle" /\ stage' = "read_quit" /\ seq' = seq + 1
      /\ pend'.base = base
      /\ UNCHANGED <<clocks, base, origin, rate, dead, rd, stuck, history>>
  BY DEF OpenRebase, CoreAt
<1>2. CoreInv' BY <1>1, OpenParity DEF IInv, TypeOK, CoreInv, BaseStored, clocks, CeilingOf
<1>3. stage \notin JumpStages /\ JumpInv' BY <1>1 DEF JumpInv, JumpStages
<1>4. \A ax \in Axes : \A v \in I64 : Reached(ax, v) => Reached(ax, v)'
  BY <1>1 DEF Reached, Reading, Frozen, Clock, clocks
<1>5. ASSUME NEW r \in Readers PROVE ReaderInv(r)' /\ (Inside(r) => ~Fresh(r)')
  <2>1. rd[r].look \in Nat /\ seq \in Nat BY ValueType DEF IInv, TypeOK
  <2>2. Inside(r) => ~rd[r].asis /\ rd[r].look <= seq BY <1>1 DEF IInv, ReaderInv
  <2>3. Inside(r) => ~Fresh(r)' /\ rd[r].look <= seq' BY <1>1, <2>1, <2>2 DEF Fresh
  <2> QED BY <1>1, <2>2, <2>3 DEF IInv, ReaderInv, Inside, history
<1> QED BY <1>1, <1>2, <1>3, <1>4, <1>5, CoreFrame DEF history

\* A step while a write is open leaves no reader fresh, whatever it stores.
LEMMA OpenFrame ==
    ASSUME IInv, ~dead, stage \in OpenStages, UNCHANGED <<seq, rd, dead, history>>,
           NEW r \in Readers
    PROVE  ReaderInv(r)' /\ (Inside(r) => ~Fresh(r)')
<1>1. Inside(r) => ~rd[r].asis /\ rd[r].look # seq BY NoneFresh DEF IInv
<1> QED BY <1>1 DEF IInv, ReaderInv, Inside, Fresh, history

\* The freeze: the base computed for an axis is where the axis stands on the precise
\* clock, at or past every answer.
LEMMA ReadQuitStep ==
    ASSUME IInv, TypeOK', ReadQuit
    PROVE  IInv'
<1>1. /\ ~dead /\ stage = "read_quit" /\ stage' = "read_qpc"
      /\ UNCHANGED <<clocks, block, dead, rd, stuck, history>>
  BY DEF ReadQuit, CoreAt
<1>2. stage \in OpenStages /\ stage \notin JumpStages /\ stage' \in OpenStages
      /\ stage' \notin JumpStages
  BY <1>1 DEF OpenStages, RebaseStages, JumpStages
<1>3. \A ax \in Axes : pend'.base[ax] =
          IF ax = "qpc" THEN pend.base[ax] ELSE Line(ax, base[ax], origin[ax], rate, precise)
  BY DEF ReadQuit, IInv, TypeOK, Anchors, Axes
<1>4. \A ax \in Axes : Line(ax, base[ax], origin[ax], rate, precise) \in 0..CeilingOf(ax)
  <2> TAKE ax \in Axes
  <2>1. /\ base[ax] \in I64 /\ origin[ax] \in Int /\ rate \in Nat /\ precise \in Int
        /\ base[ax] \in 0..CeilingOf(ax)
    BY AnchorSeqlockAssumption, ClockMathAssumption DEF IInv, TypeOK, CoreInv
  <2> QED BY <2>1, LineFacts
<1>5. CoreInv'
  BY <1>1, <1>2, <1>3, <1>4
  DEF IInv, CoreInv, BaseStored, clocks, block, CeilingOf, JumpStages
<1>6. JumpInv' BY <1>2 DEF JumpInv
<1>7. ASSUME NEW ax \in Axes, NEW v \in I64, Reached(ax, v) PROVE Reached(ax, v)'
  <2>1. Reading(ax)' = Reading(ax) BY <1>1 DEF Reading, Clock, clocks, block
  <2>2. Frozen(ax)' => ax # "qpc" BY <1>1 DEF Frozen
  <2>3. v <= Reading(ax) /\ Reading(ax) \in Int /\ v \in Int
    BY <1>7, ReadingFacts, AnchorSeqlockAssumption, ClockMathAssumption
    DEF IInv, Reached, CeilingOf, I64
  <2>4. Reading(ax) <= Line(ax, base[ax], origin[ax], rate, precise)
        /\ Line(ax, base[ax], origin[ax], rate, precise) \in Int
    BY <1>4, ReadingFacts DEF IInv
  <2>5. v <= Line(ax, base[ax], origin[ax], rate, precise) BY <2>3, <2>4
  <2> QED BY <1>3, <2>1, <2>2, <2>3, <2>5 DEF Reached
<1>8. \A r \in Readers : ReaderInv(r)' /\ (Inside(r) => ~Fresh(r)')
  BY <1>1, <1>2, OpenFrame DEF block
<1> QED BY <1>1, <1>2, <1>5, <1>6, <1>7, <1>8, CoreFrame

LEMMA ReadQpcStep ==
    ASSUME IInv, TypeOK', ReadQpc
    PROVE  IInv'
<1>1. /\ ~dead /\ stage = "read_qpc" /\ stage' = "a_fake"
      /\ UNCHANGED <<clocks, block, dead, rd, stuck, history>>
  BY DEF ReadQpc, CoreAt
<1>2. stage \in OpenStages /\ stage \notin JumpStages /\ stage' \in OpenStages
      /\ stage' \notin JumpStages
  BY <1>1 DEF OpenStages, RebaseStages, JumpStages
<1>3. \A ax \in Axes : pend'.base[ax] =
          IF ax = "qpc" THEN Reading("qpc") ELSE pend.base[ax]
  BY DEF ReadQpc, IInv, TypeOK, Anchors, Axes, Reading, Clock
<1>4. \A ax \in Axes : pend'.base[ax] \in 0..CeilingOf(ax) BY <1>3, ReadingFacts DEF IInv, CoreInv
<1>5. CoreInv'
  BY <1>1, <1>2, <1>4 DEF IInv, CoreInv, BaseStored, clocks, block, CeilingOf, JumpStages
<1>6. JumpInv' BY <1>2 DEF JumpInv
<1>7. ASSUME NEW ax \in Axes, NEW v \in I64, Reached(ax, v) PROVE Reached(ax, v)'
  <2>1. Reading(ax)' = Reading(ax) BY <1>1 DEF Reading, Clock, clocks, block
  <2>2. ax # "qpc" => Frozen(ax) BY <1>1 DEF Frozen, RebaseStages
  <2> QED BY <1>3, <1>7, <2>1, <2>2 DEF Reached
<1>8. \A r \in Readers : ReaderInv(r)' /\ (Inside(r) => ~Fresh(r)')
  BY <1>1, <1>2, OpenFrame DEF block
<1> QED BY <1>1, <1>2, <1>5, <1>6, <1>7, <1>8, CoreFrame

\* A store of the rebase: an axis whose line it disturbs already has its new base, so even
\* a torn anchor reads at or past every answer.
LEMMA RebaseStoreFrame ==
    ASSUME IInv, TypeOK', ~dead, CoreInv',
           stage \in RebaseStages \ {"read_quit", "read_qpc"},
           stage' \in RebaseStages \ {"read_quit", "read_qpc"},
           UNCHANGED <<clocks, seq, pend, dead, rd, stuck, history>>,
           \A ax \in Axes : \/ base'[ax] = pend.base[ax]
                            \/ UNCHANGED <<base[ax], origin[ax], rate>>
    PROVE  IInv'
<1>1. stage \in OpenStages /\ stage \notin JumpStages /\ stage' \notin JumpStages BY OpenParity
<1>2. JumpInv' BY <1>1 DEF JumpInv
<1>3. ASSUME NEW ax \in Axes, NEW v \in I64, Reached(ax, v) PROVE Reached(ax, v)'
  <2>1. Frozen(ax) /\ v <= pend.base[ax] /\ v <= Reading(ax) BY <1>3 DEF Frozen, Reached
  <2>2. CASE base'[ax] = pend.base[ax]
    <3>1. base'[ax] <= Reading(ax)' /\ Reading(ax)' \in 0..CeilingOf(ax)' BY ReadingPrimed
    <3>2. base'[ax] \in 0..CeilingOf(ax)' BY DEF CoreInv
    <3>3. v <= Reading(ax)' BY <2>1, <2>2, <3>1, <3>2, ClockMathAssumption DEF CeilingOf, I64
    <3> QED BY <2>1, <3>3 DEF Reached
  <2>3. CASE UNCHANGED <<base[ax], origin[ax], rate>>
    BY <2>1, <2>3 DEF Reached, Reading, Clock, clocks
  <2> QED BY <2>2, <2>3
<1>4. \A r \in Readers : ReaderInv(r)' /\ (Inside(r) => ~Fresh(r)') BY <1>1, OpenFrame
<1> QED BY <1>1, <1>2, <1>3, <1>4, CoreFrame

LEMMA RebaseStoresStep ==
    ASSUME IInv, TypeOK', RebaseStores
    PROVE  IInv'
<1>1. /\ ~dead /\ UNCHANGED <<clocks, seq, pend, dead, rd, stuck, history>>
      /\ stage \in RebaseStages \ {"read_quit", "read_qpc"}
      /\ stage' \in RebaseStages \ {"read_quit", "read_qpc"}
  BY DEF RebaseStores, StoreBase, StoreOrigin, StoreRate, CoreAt, RebaseStages
<1>2. \A ax \in Axes : \/ base'[ax] = pend.base[ax]
                       \/ UNCHANGED <<base[ax], origin[ax], rate>>
  BY DEF RebaseStores, StoreBase, StoreOrigin, StoreRate, CoreAt, IInv, TypeOK, CoreInv,
         BaseStored, Axes
<1>3. \A ax \in Axes : base'[ax] \in {base[ax], pend.base[ax]}
  BY DEF RebaseStores, StoreBase, StoreOrigin, StoreRate, IInv, TypeOK, Axes
<1>4. \A ax \in Axes : BaseStored(ax)' => base'[ax] = pend.base[ax]
  BY DEF RebaseStores, StoreBase, StoreOrigin, StoreRate, CoreAt, IInv, TypeOK, CoreInv,
         BaseStored, Axes
<1>5. CoreInv'
  <2>1. stage \in OpenStages /\ stage' \in OpenStages /\ stage' \notin JumpStages
        /\ stage' # "jump_open"
    BY <1>1, OpenParity
  <2> QED BY <1>1, <1>3, <1>4, <2>1 DEF IInv, CoreInv, clocks, CeilingOf
<1> QED BY <1>1, <1>2, <1>5, RebaseStoreFrame

LEMMA CloseRebaseStep ==
    ASSUME IInv, TypeOK', CloseRebase
    PROVE  IInv'
<1>1. /\ ~dead /\ stage = "close" /\ stage' = "idle" /\ seq' = seq + 1
      /\ UNCHANGED <<clocks, base, origin, rate, pend, dead, rd, stuck, history>>
  BY DEF CloseRebase, CoreAt
<1>2. stage \in OpenStages /\ stage \notin JumpStages
  BY <1>1 DEF OpenStages, RebaseStages, JumpStages
<1>3. CoreInv'
  <2>1. seq \in Nat /\ seq % 2 = 1 BY <1>1, <1>2 DEF IInv, TypeOK, CoreInv
  <2>2. ~(seq' % 2 = 1) /\ ~(stage' \in OpenStages) BY <1>1, <2>1, OpenParity
  <2>3. \A ax \in Axes : ~BaseStored(ax)' BY <1>1 DEF BaseStored
  <2> QED BY <1>1, <2>2, <2>3, OpenParity DEF IInv, CoreInv, clocks, CeilingOf
<1>4. JumpInv' BY <1>1 DEF JumpInv, JumpStages
<1>5. \A ax \in Axes : \A v \in I64 : Reached(ax, v) => Reached(ax, v)'
  BY <1>1 DEF Reached, Reading, Frozen, Clock, clocks, RebaseStages
<1>6. ASSUME NEW r \in Readers PROVE ReaderInv(r)' /\ (Inside(r) => ~Fresh(r)')
  <2>1. rd[r].look \in Nat /\ seq \in Nat BY ValueType DEF IInv, TypeOK
  <2>2. Inside(r) => ~rd[r].asis /\ rd[r].look <= seq BY <1>1 DEF IInv, ReaderInv
  <2>3. Inside(r) => ~Fresh(r)' /\ rd[r].look <= seq' BY <1>1, <2>1, <2>2 DEF Fresh
  <2> QED BY <1>1, <2>2, <2>3 DEF IInv, ReaderInv, Inside, history
<1> QED BY <1>1, <1>2, <1>3, <1>4, <1>5, <1>6, CoreFrame DEF history

LEMMA PrepareJumpStep ==
    ASSUME IInv, TypeOK', NEW to \in 0..FAKE_WALL_MAX, PrepareJump(to)
    PROVE  IInv'
<1>1. /\ ~dead /\ stage = "idle" /\ stage' = "jump_open" /\ pend'.m = rate
      /\ \A ax \in Axes : pend'.base[ax] = IF ax = "wall" THEN to ELSE base[ax]
      /\ UNCHANGED <<clocks, block, dead, rd, stuck, history>>
  BY DEF PrepareJump, CoreAt, IInv, TypeOK, Axes
<1>2. CoreInv' BY <1>1, OpenParity DEF IInv, CoreInv, BaseStored, clocks, block, CeilingOf
<1>3. stage \notin JumpStages /\ JumpInv' BY <1>1 DEF JumpInv, JumpStages
<1>4. \A ax \in Axes : \A v \in I64 : Reached(ax, v) => Reached(ax, v)'
  BY <1>1 DEF Reached, Reading, Frozen, Clock, clocks, block, RebaseStages
<1>5. \A r \in Readers : ReaderInv(r)' /\ Fresh(r)' = Fresh(r)
  BY <1>1 DEF IInv, ReaderInv, Inside, Fresh, Clock, clocks, block, history
<1> QED BY <1>1, <1>2, <1>3, <1>4, <1>5, CoreFrame

\* Opening or closing a jump: a new epoch, which no call in progress belongs to.
LEMMA EpochStep ==
    ASSUME IInv, TypeOK', OpenJump \/ CloseJump
    PROVE  IInv'
<1>1. /\ ~dead /\ stage \in {"jump_open", "jump_close"} /\ stage' \in {"idle", "jump_a_fake"}
      /\ stage = "jump_open" <=> stage' = "jump_a_fake"
      /\ seq' = seq + 1 /\ epoch' = epoch + 1
      /\ \A ax \in Axes : served'[ax] = IF ax = "wall" THEN 0 ELSE served[ax]
      /\ UNCHANGED <<clocks, base, origin, rate, pend, dead, rd, stuck>>
  BY DEF OpenJump, CloseJump, CoreAt, IInv, TypeOK
<1>2. CoreInv'
  <2>1. stage \in OpenStages <=> stage' \notin OpenStages
    BY <1>1 DEF OpenStages, RebaseStages, JumpStages
  <2> QED
    BY <1>1, <2>1, OpenParity DEF IInv, TypeOK, CoreInv, BaseStored, clocks, CeilingOf,
                                JumpStages
<1>3. ASSUME NEW r \in Readers PROVE rd[r].mark # epoch' /\ rd[r].mark <= epoch'
  BY <1>1, <1>3, ValueType DEF IInv, ReaderInv, TypeOK
<1>4. JumpInv' BY <1>1, <1>3 DEF JumpInv, Axes
<1>5. \A ax \in Axes : Reading(ax)' = Reading(ax) /\ ~Frozen(ax)' /\ ~Frozen(ax)
  BY <1>1 DEF Reading, Clock, clocks, Frozen, RebaseStages
<1>6. ASSUME NEW ax \in Axes PROVE Reached(ax, served[ax])'
  <2>1. Reading(ax) >= 0 BY ReadingFacts, ClockMathAssumption DEF IInv, CeilingOf
  <2> QED BY <1>1, <1>5, <2>1 DEF IInv, Reached
<1>7. ASSUME NEW r \in Readers PROVE ReaderInv(r)' /\ AnswersInv(r)'
  <2>1. /\ rd[r].look \in Nat /\ seq \in Nat /\ rd[r].ax \in Axes BY ValueType DEF IInv, TypeOK
  <2>2. Inside(r) => ~rd[r].asis /\ rd[r].look <= seq BY <1>1 DEF IInv, ReaderInv
  <2>3. Inside(r) => ~Fresh(r)' /\ rd[r].look <= seq' BY <1>1, <2>1, <2>2 DEF Fresh
  <2>4. ReaderInv(r)' BY <1>1, <1>3, <2>2, <2>3 DEF IInv, ReaderInv, Inside
  <2>5. Comparable(r)' => rd[r].ax # "wall" /\ Comparable(r)
    <3>1. rd'[r] = rd[r] BY <1>1
    <3>2. rd[r].mark # epoch' BY <1>3
    <3> QED BY <3>1, <3>2 DEF Comparable
  <2>6. ~(At(r, "recheck") /\ rd[r].look = seq') BY <1>1, <2>3 DEF Fresh, At, Inside
  <2>7. Value(r)' = Value(r) BY <1>1 DEF Value
  <2>8. Reached(rd[r].ax, Value(r)) => Reached(rd[r].ax, Value(r))'
    BY <1>1, <1>5, <2>1, <2>7 DEF Reached
  <2> QED BY <1>1, <2>1, <2>4, <2>5, <2>6, <2>7, <2>8 DEF IInv, AnswersInv, At
<1> QED BY <1>2, <1>4, <1>6, <1>7 DEF IInv

LEMMA JumpStoresStep ==
    ASSUME IInv, TypeOK', JumpStores
    PROVE  IInv'
<1>1. /\ ~dead /\ stage \in JumpStages /\ stage' \in JumpStages
      /\ UNCHANGED <<clocks, seq, pend, dead, rd, stuck, history>>
  BY DEF JumpStores, StoreBase, StoreOrigin, StoreRate, CoreAt, JumpStages
<1>2. /\ \A ax \in Axes : base'[ax] \in {base[ax], pend.base[ax]}
      /\ \A ax \in Axes : ax # "wall" => UNCHANGED <<base[ax], origin[ax], rate>>
  BY OpenParity DEF JumpStores, StoreBase, StoreOrigin, StoreRate, CoreAt, JumpStages,
         IInv, TypeOK, CoreInv, Axes
<1>3. stage \in OpenStages /\ stage' \in OpenStages BY <1>1, OpenParity
<1>4. CoreInv'
  <2>1. rate' = pend.m BY <1>1 DEF JumpStores, StoreBase, StoreOrigin, StoreRate, IInv, CoreInv
  <2> QED
    BY <1>1, <1>2, <1>3, <2>1
    DEF IInv, CoreInv, BaseStored, clocks, CeilingOf, JumpStages
<1>5. JumpInv' BY <1>1 DEF IInv, JumpInv, history, Inside
<1>6. \A ax \in Axes : \A v \in I64 :
          (ax = "wall" => stage \notin JumpStages) /\ Reached(ax, v) => Reached(ax, v)'
  BY <1>1, <1>2, OpenParity DEF Reached, Reading, Clock, clocks, Frozen
<1>7. Reached("wall", 0)'
  <2>1. Reading("wall")' >= 0 BY <1>4, ReadingPrimed, ClockMathAssumption DEF CeilingOf, Axes
  <2> QED BY <1>1, <2>1, OpenParity DEF Reached, Frozen
<1>8. \A r \in Readers : ReaderInv(r)' /\ (Inside(r) => ~Fresh(r)') BY <1>1, <1>3, OpenFrame
<1> QED BY <1>1, <1>4, <1>5, <1>6, <1>7, <1>8, CoreFrame

LEMMA KillStep ==
    ASSUME IInv, TypeOK', Kill
    PROVE  IInv'
<1>1. /\ ~dead /\ dead' /\ stage' = "idle" /\ pend'.base = base
      /\ UNCHANGED <<clocks, block, rd, stuck, history>>
  BY DEF Kill
<1>2. CoreInv'
  <2>1. \A ax \in Axes : base[ax] \in 0..CeilingOf(ax) /\ ~BaseStored(ax)'
    BY <1>1 DEF IInv, CoreInv, BaseStored
  <2>2. plain <= precise BY DEF IInv, CoreInv
  <2> QED BY <1>1, <2>1, <2>2, OpenParity DEF CoreInv, clocks, block, CeilingOf
<1>3. JumpInv' BY <1>1 DEF JumpInv, JumpStages
<1>4. \A ax \in Axes : \A v \in I64 : Reached(ax, v) => Reached(ax, v)'
  BY <1>1 DEF Reached, Reading, Frozen, Clock, clocks, block, RebaseStages
<1>5. \A r \in Readers : ReaderInv(r)' /\ Fresh(r)' = Fresh(r)
  BY <1>1 DEF IInv, ReaderInv, Inside, Fresh, Clock, clocks, block, history
<1>6. Reached("wall", 0)'
  <2>1. Reading("wall")' >= 0 BY <1>2, ReadingPrimed, ClockMathAssumption DEF CeilingOf, Axes
  <2> QED BY <1>1, <2>1 DEF Reached, Frozen, RebaseStages
<1> QED BY <1>1, <1>2, <1>3, <1>4, <1>5, <1>6, CoreFrame

-----------------------------------------------------------------------------
(* The reader's steps.                                                     *)

\* A step of one reader that answers nothing keeps the invariant if its own part holds
\* after it, and it does not slip past its first look while a jump is open.
LEMMA ReaderFrame ==
    ASSUME IInv, TypeOK', NEW r \in Readers,
           UNCHANGED <<clocks, block, core, history>>, stuck' # 0 => dead,
           \A q \in Readers \ {r} : rd'[q] = rd[q],
           ReaderInv(r)', AnswersInv(r)',
           Inside(r)' => \/ Inside(r) /\ rd'[r].ax = rd[r].ax /\ rd'[r].mark = rd[r].mark
                         \/ stage \notin JumpStages
    PROVE  IInv'
<1>1. CoreInv' BY DEF IInv, CoreInv, BaseStored, clocks, block, core, CeilingOf
<1>2. JumpInv' BY DEF IInv, JumpInv, Inside, core, history
<1>3. \A ax \in Axes : \A v \in I64 : Reached(ax, v)' = Reached(ax, v)
  BY DEF Reached, Reading, Frozen, Clock, clocks, block, core
<1>4. \A ax \in Axes : Reached(ax, served[ax])' BY <1>3 DEF IInv, TypeOK, history
<1>5. ASSUME NEW q \in Readers \ {r} PROVE ReaderInv(q)' /\ AnswersInv(q)'
  <2>1. rd'[q] = rd[q] OBVIOUS
  <2>2. ReaderInv(q)'
    BY <2>1 DEF IInv, ReaderInv, Inside, Fresh, Clock, clocks, block, core, history
  <2>3. Value(q)' = Value(q) /\ Comparable(q)' = Comparable(q)
    BY <2>1 DEF Value, Comparable, history
  <2>4. Reached(rd[q].ax, Value(q))' = Reached(rd[q].ax, Value(q))
    BY <2>1, <2>3 DEF Reached, Reading, Frozen, Clock, clocks, block, core
  <2>5. AnswersInv(q)' BY <2>1, <2>3, <2>4 DEF IInv, AnswersInv, At, block, history
  <2> QED BY <2>2, <2>5
<1> QED BY <1>1, <1>2, <1>4, <1>5 DEF IInv

\* With the fields of the block and a clock just read, a reader's value is the reading.
LEMMA FreshValue ==
    ASSUME NEW r \in Readers,
           rd[r].b = base[rd[r].ax], rd[r].o = origin[rd[r].ax], rd[r].m = rate,
           rd[r].t = Clock(rd[r].ax)
    PROVE  Value(r) = Reading(rd[r].ax)
  BY DEF Value, Reading

LEMMA CallStep ==
    ASSUME IInv, TypeOK', NEW r \in Readers, NEW ax \in Channels, Call(r, ax)
    PROVE  IInv'
<1>1. /\ rd'[r] = Begun(ax, epoch, served[ax])
      /\ \A q \in Readers \ {r} : rd'[q] = rd[q]
      /\ UNCHANGED <<clocks, block, core, stuck, history>>
  BY DEF Call, IInv, TypeOK, history
<1>2. /\ rd'[r].pc = "look" /\ rd'[r].ax = ax /\ rd'[r].mark = epoch
      /\ rd'[r].floor = served[ax]
      /\ ~rd'[r].asis
  BY <1>1, BegunInside, BegunFacts, AnchorSeqlockAssumption DEF IInv, TypeOK
<1>3. ax \in Axes /\ served[ax] \in I64 /\ epoch \in Nat BY AnchorSeqlockAssumption DEF IInv, TypeOK
<1>4. ReaderInv(r)' BY <1>1, <1>2, <1>3 DEF ReaderInv, Inside, history
<1>5. AnswersInv(r)'
  <2>1. served'[ax] >= rd'[r].floor BY <1>1, <1>2, <1>3, ClockMathAssumption DEF history, I64
  <2> QED BY <1>2, <2>1 DEF AnswersInv, At
<1>6. stuck' # 0 => dead BY <1>1 DEF IInv, CoreInv
<1> QED BY <1>1, <1>2, <1>4, <1>5, <1>6, ReaderFrame DEF Inside

\* The first look.  An open write is taken as it stands only when its core is gone.
LEMMA LookStep ==
    ASSUME IInv, TypeOK', ~WriterMayStall, NEW r \in Readers,
           LookEven(r) \/ LookKnownStuck(r) \/ GiveUp(r)
    PROVE  IInv'
<1>1. /\ rd[r].pc = "look"
      /\ rd'[r].pc = "base" /\ rd'[r].look = seq
      /\ rd'[r].ax = rd[r].ax /\ rd'[r].mark = rd[r].mark /\ rd'[r].floor = rd[r].floor
      /\ \A q \in Readers \ {r} : rd'[q] = rd[q]
      /\ UNCHANGED <<clocks, block, core, history>>
  BY DEF LookEven, LookKnownStuck, GiveUp, At, IInv, TypeOK, Call_
<1>2. \/ dead
      \/ seq % 2 = 0 /\ (rd'[r].asis => rd[r].asis)
  <2>1. CASE LookEven(r) BY <2>1 DEF LookEven, IInv, TypeOK, Call_
  <2>2. CASE LookKnownStuck(r)
    <3>1. stuck = seq /\ seq % 2 = 1 /\ seq \in Nat BY <2>2 DEF LookKnownStuck, IInv, TypeOK
    <3>2. stuck # 0 BY <3>1
    <3> QED BY <3>2 DEF IInv, CoreInv
  <2>3. CASE GiveUp(r) BY <2>3 DEF GiveUp
  <2> QED BY <2>1, <2>2, <2>3
<1>3. stuck' # 0 => dead BY DEF LookEven, LookKnownStuck, GiveUp, IInv, CoreInv
<1>4. stage \notin JumpStages BY <1>2, OpenParity DEF IInv, CoreInv
<1>5. ReaderInv(r)'
  <2>1. rd'[r].asis => dead BY <1>2 DEF IInv, ReaderInv
  <2>2. rd'[r].asis \/ seq % 2 = 0
    <3>1. CASE LookEven(r) BY <3>1 DEF LookEven
    <3>2. CASE LookKnownStuck(r) \/ GiveUp(r)
      BY <3>2 DEF LookKnownStuck, GiveUp, IInv, TypeOK, Call_
    <3> QED BY <3>1, <3>2
  <2> QED BY <1>1, <2>1, <2>2 DEF IInv, ReaderInv, TypeOK, Inside, block, core, history
<1>6. AnswersInv(r)' BY <1>1 DEF IInv, AnswersInv, At, Comparable, history
<1> QED BY <1>1, <1>3, <1>4, <1>5, <1>6, ReaderFrame

\* The fields, one load at a time: fresh as long as seq has not moved.
LEMMA FieldStep ==
    ASSUME IInv, TypeOK', NEW r \in Readers, ReadBase(r) \/ ReadOrigin(r) \/ ReadRate(r)
    PROVE  IInv'
<1>1. /\ rd[r].pc \in {"base", "origin", "rate"} /\ rd'[r].pc \in {"origin", "rate", "clock"}
      /\ rd'[r].look = rd[r].look /\ rd'[r].asis = rd[r].asis
      /\ rd'[r].ax = rd[r].ax /\ rd'[r].mark = rd[r].mark /\ rd'[r].floor = rd[r].floor
      /\ \A q \in Readers \ {r} : rd'[q] = rd[q]
      /\ UNCHANGED <<clocks, block, core, stuck, history>>
  BY DEF ReadBase, ReadOrigin, ReadRate, At, IInv, TypeOK, Call_, history
<1>2. \/ /\ rd[r].pc = "base" /\ rd'[r].pc = "origin" /\ rd'[r].b = base[rd[r].ax]
      \/ /\ rd[r].pc = "origin" /\ rd'[r].pc = "rate" /\ rd'[r].o = origin[rd[r].ax]
         /\ rd'[r].b = rd[r].b
      \/ /\ rd[r].pc = "rate" /\ rd'[r].pc = "clock" /\ rd'[r].m = rate
         /\ rd'[r].b = rd[r].b /\ rd'[r].o = rd[r].o
  BY DEF ReadBase, ReadOrigin, ReadRate, At, IInv, TypeOK, Call_
<1>3. ReaderInv(r)'
  <2>1. Fresh(r)' = Fresh(r) BY <1>1 DEF Fresh, block
  <2>2. Fresh(r) => /\ rd[r].pc # "base" => rd[r].b = base[rd[r].ax]
                    /\ rd[r].pc = "rate" => rd[r].o = origin[rd[r].ax]
    BY <1>1 DEF IInv, ReaderInv, Inside
  <2>3. Fresh(r) => /\ rd'[r].b = base[rd[r].ax]
                    /\ rd'[r].pc # "origin" => rd'[r].o = origin[rd[r].ax]
                    /\ rd'[r].pc = "clock" => rd'[r].m = rate
    BY <1>2, <2>2
  <2>4. /\ rd[r].mark <= epoch /\ (rd[r].asis => dead)
        /\ ~rd[r].asis => rd[r].look % 2 = 0 /\ rd[r].look <= seq
    BY <1>1 DEF IInv, ReaderInv, Inside
  <2>5. /\ rd'[r].mark <= epoch' /\ (rd'[r].asis => dead' /\ rd'[r].pc # "recheck")
        /\ ~rd'[r].asis => rd'[r].look % 2 = 0 /\ rd'[r].look <= seq'
    BY <1>1, <2>4 DEF block, core, history
  <2>6. /\ rd'[r].ax = rd[r].ax /\ rd'[r].pc \in {"origin", "rate", "clock"}
        /\ UNCHANGED block
    BY <1>1
  <2> QED BY <2>1, <2>3, <2>5, <2>6 DEF ReaderInv, Inside, block
<1>4. AnswersInv(r)' BY <1>1 DEF IInv, AnswersInv, At, Comparable, history
<1>5. Inside(r) /\ (stuck' # 0 => dead) BY <1>1 DEF Inside, IInv, CoreInv
<1> QED BY <1>1, <1>3, <1>4, <1>5, ReaderFrame

\* The clock, inside the window: the value of a fresh reader is the reading itself.
LEMMA ReadClockStep ==
    ASSUME IInv, TypeOK', NEW r \in Readers, ReadClock(r)
    PROVE  IInv'
<1>1. /\ rd[r].pc = "clock" /\ rd'[r].t = Clock(rd[r].ax)
      /\ rd'[r].b = rd[r].b /\ rd'[r].o = rd[r].o /\ rd'[r].m = rd[r].m
      /\ rd'[r].look = rd[r].look /\ rd'[r].asis = rd[r].asis
      /\ rd'[r].ax = rd[r].ax /\ rd'[r].mark = rd[r].mark /\ rd'[r].floor = rd[r].floor
      /\ \A q \in Readers \ {r} : rd'[q] = rd[q]
      /\ UNCHANGED <<clocks, block, core, stuck, history>>
  BY DEF ReadClock, At, IInv, TypeOK, Call_, history
<1>2. \/ rd'[r].pc = "answer" /\ rd[r].asis
      \/ rd'[r].pc = "recheck" /\ ~rd[r].asis
  BY DEF ReadClock, IInv, TypeOK, Call_
<1>3. Fresh(r) => /\ rd[r].b = base[rd[r].ax] /\ rd[r].o = origin[rd[r].ax] /\ rd[r].m = rate
  BY <1>1 DEF IInv, ReaderInv, Inside
<1>4. Fresh(r) => Value(r)' = Reading(rd[r].ax) BY <1>1, <1>3 DEF Value, Reading
<1>5. ReaderInv(r)'
  <2>1. Clock(rd[r].ax) \in Int /\ Clock(rd[r].ax)' = Clock(rd[r].ax)
    BY <1>1, AnchorSeqlockAssumption, ClockMathAssumption DEF IInv, TypeOK, Clock, clocks
  <2> QED
    BY <1>1, <1>2, <1>3, <2>1
    DEF IInv, ReaderInv, Inside, Fresh, block, core, history
<1>6. AnswersInv(r)'
  <2>1. rd[r].ax \in Axes /\ rd[r].floor \in I64 BY ValueType DEF IInv
  <2>2. /\ served[rd[r].ax] \in Int /\ rd[r].floor \in Int
        /\ Reading(rd[r].ax) \in Int
        /\ Comparable(r) => rd[r].floor <= served[rd[r].ax]
        /\ Reached(rd[r].ax, served[rd[r].ax])
    BY <1>1, <2>1, ReadingFacts, ClockMathAssumption
    DEF IInv, TypeOK, AnswersInv, I64, CeilingOf
  <2>3. Comparable(r) => rd[r].floor <= Reading(rd[r].ax) BY <2>2 DEF Reached
  <2>4. Fresh(r) /\ Comparable(r) => Value(r)' >= rd[r].floor BY <1>4, <2>2, <2>3
  <2>5. rd'[r].pc = "answer" => Fresh(r) /\ Reached(rd[r].ax, Reading(rd[r].ax))'
    <3>1. SUFFICES ASSUME rd'[r].pc = "answer" PROVE Fresh(r) /\ Reached(rd[r].ax, Reading(rd[r].ax))'
      OBVIOUS
    <3>2. Fresh(r) /\ dead /\ stage = "idle" BY <1>2, <3>1 DEF Fresh, IInv, ReaderInv, CoreInv
    <3>3. Reading(rd[r].ax)' = Reading(rd[r].ax) /\ ~Frozen(rd[r].ax)'
      BY <1>1, <3>2 DEF Reading, Clock, Frozen, RebaseStages, clocks, block, core
    <3> QED BY <1>1, <2>2, <3>2, <3>3 DEF Reached
  <2>6. Comparable(r)' = Comparable(r) /\ seq' = seq BY <1>1 DEF Comparable, history, block
  <2>7. At(r, "recheck")' /\ rd'[r].look = seq' => Fresh(r) BY <1>1, <2>6 DEF Fresh
  <2>8. At(r, "answer")' => Reached(rd[r].ax, Value(r))'
    BY <1>1, <1>4, <2>5, <2>2 DEF At, Reached, Reading, Clock, clocks, block
  <2> QED BY <1>1, <2>2, <2>4, <2>5, <2>6, <2>7, <2>8 DEF AnswersInv, At, history
<1>7. Inside(r) /\ (stuck' # 0 => dead) BY <1>1 DEF Inside, IInv, CoreInv
<1> QED BY <1>1, <1>5, <1>6, <1>7, ReaderFrame

\* The second look.  The same even seq as the first: no write is open, and what was read
\* is the anchor in force.
LEMMA RecheckStep ==
    ASSUME IInv, TypeOK', NEW r \in Readers, Recheck(r)
    PROVE  IInv'
<1>1. /\ rd[r].pc = "recheck" /\ ~rd[r].asis
      /\ \A q \in Readers \ {r} : rd'[q] = rd[q]
      /\ UNCHANGED <<clocks, block, core, stuck, history>>
  BY DEF Recheck, At, IInv, ReaderInv, history
<1>2. stuck' # 0 => dead BY <1>1 DEF IInv, CoreInv
<1>3. CASE rd[r].look # seq
  <2>1. rd'[r] = Begun(rd[r].ax, rd[r].mark, rd[r].floor) BY <1>3 DEF Recheck, IInv, TypeOK
  <2>2. /\ rd'[r].pc = "look" /\ rd'[r].ax = rd[r].ax /\ rd'[r].mark = rd[r].mark
        /\ rd'[r].floor = rd[r].floor /\ ~rd'[r].asis
    BY <2>1, BegunFacts, BegunInside, ValueType DEF IInv
  <2>3. ReaderInv(r)' /\ AnswersInv(r)' /\ ~Inside(r)'
    BY <1>1, <2>2 DEF IInv, ReaderInv, AnswersInv, Inside, At, Comparable, history
  <2> QED BY <1>1, <1>2, <2>3, ReaderFrame
<1>4. CASE rd[r].look = seq
  <2>1. /\ rd'[r].pc = "answer" /\ rd'[r].ax = rd[r].ax /\ rd'[r].mark = rd[r].mark
        /\ rd'[r].floor = rd[r].floor /\ rd'[r].look = rd[r].look
        /\ rd'[r].b = rd[r].b /\ rd'[r].o = rd[r].o /\ rd'[r].m = rd[r].m
        /\ rd'[r].t = rd[r].t
    BY <1>4 DEF Recheck, IInv, TypeOK, Call_
  <2>2. rd'[r].asis <=> rd[r].asis BY <1>4 DEF Recheck, IInv, TypeOK, Call_
  <2>3. ReaderInv(r)' BY <1>1, <2>1, <2>2 DEF IInv, ReaderInv, Inside, block, core, history
  <2>4. Value(r)' = Value(r) /\ Comparable(r)' = Comparable(r)
    BY <1>1, <2>1 DEF Value, Comparable, history
  <2>5. ~Frozen(rd[r].ax)'
    <3>1. seq % 2 = 0 BY <1>1, <1>4 DEF IInv, ReaderInv, Inside
    <3>2. stage \notin OpenStages BY <3>1, OpenParity DEF IInv, CoreInv
    <3> QED BY <1>1, <3>2, OpenParity DEF Frozen, core
  <2>6. Value(r) <= Reading(rd[r].ax)
    <3>1. /\ rd[r].b = base[rd[r].ax] /\ rd[r].o = origin[rd[r].ax] /\ rd[r].m = rate
          /\ rd[r].t <= Clock(rd[r].ax)
      BY <1>1, <1>4 DEF IInv, ReaderInv, Inside, Fresh
    <3>2. rd[r].ax \in Axes /\ rd[r].t \in Int
      BY ValueType, AnchorSeqlockAssumption, ClockMathAssumption DEF IInv, TypeOK, Call_
    <3>3. /\ base[rd[r].ax] \in I64 /\ origin[rd[r].ax] \in Int /\ rate \in Nat
          /\ Clock(rd[r].ax) \in Int
      BY <3>2, AnchorSeqlockAssumption, ClockMathAssumption DEF IInv, TypeOK, Clock
    <3> QED BY <3>1, <3>2, <3>3, LineFacts DEF Value, Reading
  <2>7. Reached(rd[r].ax, Value(r))'
    BY <1>1, <2>1, <2>4, <2>5, <2>6 DEF Reached, Reading, Clock, clocks, block
  <2>8. AnswersInv(r)' BY <1>1, <1>4, <2>1, <2>4, <2>7 DEF IInv, AnswersInv, At, history
  <2>9. Inside(r) BY <1>1 DEF Inside
  <2> QED BY <1>1, <1>2, <2>1, <2>3, <2>8, <2>9, ReaderFrame
<1> QED BY <1>3, <1>4

\* The answer joins the history, which only grows.
LEMMA ReturnStep ==
    ASSUME IInv, TypeOK', NEW r \in Readers, Return(r)
    PROVE  IInv'
<1> DEFINE a == rd[r].ax
           v == Value(r)
<1>1. /\ rd[r].pc = "answer" /\ rd'[r] = Idle
      /\ \A q \in Readers \ {r} : rd'[q] = rd[q]
      /\ UNCHANGED <<clocks, block, core, stuck, epoch>>
  BY DEF Return, At, IInv, TypeOK
<1>2. a \in Axes /\ v \in I64 /\ v \in Int /\ \A ax \in Axes : served[ax] \in Int
  BY ValueType, ClockMathAssumption DEF IInv, TypeOK, I64
<1>3. \A ax \in Axes :
          served'[ax] = IF ax = a /\ Comparable(r) THEN at_least(served[a], v) ELSE served[ax]
  BY DEF Return, IInv, TypeOK
<1> HIDE DEF a, v
<1>4. \A ax \in Axes : served[ax] <= served'[ax] /\ served'[ax] \in Int BY <1>2, <1>3 DEF at_least
<1>5. \A ax \in Axes : \A w \in I64 : Reached(ax, w)' = Reached(ax, w)
  BY <1>1 DEF Reached, Reading, Frozen, Clock, clocks, block, core
<1>6. ASSUME NEW ax \in Axes PROVE Reached(ax, served[ax])'
  <2>1. Reached(ax, served[ax]) /\ served[ax] \in I64 /\ served'[ax] \in I64 BY DEF IInv, TypeOK
  <2>2. Comparable(r) => Reached(a, v) BY <1>1 DEF IInv, AnswersInv, At, a, v
  <2>3. served'[ax] = served[ax] \/ (ax = a /\ served'[ax] = v /\ Comparable(r))
    BY <1>2, <1>3 DEF at_least
  <2>4. Reached(ax, served'[ax]) BY <2>1, <2>2, <2>3
  <2>5. \A w \in I64 : w = served'[ax] => Reached(ax, served[ax])'
    BY <1>1, <2>1, <2>4 DEF Reached, Reading, Frozen, Clock, clocks, block, core
  <2> QED BY <2>1, <2>5
<1>7. CoreInv' BY <1>1 DEF IInv, CoreInv, BaseStored, clocks, block, core, CeilingOf
<1>8. JumpInv'
  <2>1. stage \in JumpStages => ~(a = "wall" /\ Comparable(r))
    BY <1>1 DEF IInv, JumpInv, Comparable, Inside, a
  <2>2. stage \in JumpStages => served'["wall"] = 0 BY <1>3, <2>1 DEF IInv, JumpInv, Axes
  <2>3. rd'[r].ax # "wall" BY <1>1 DEF Idle
  <2> QED BY <1>1, <2>2, <2>3 DEF IInv, JumpInv, Inside, core
<1>9. ASSUME NEW q \in Readers PROVE ReaderInv(q)' /\ AnswersInv(q)'
  <2>1. CASE q = r
    <3>1. rd'[q].pc = "idle" /\ rd'[q].mark = 0 /\ ~rd'[q].asis /\ epoch' \in Nat
      BY <1>1, <2>1 DEF Idle, IInv, TypeOK
    <3> QED BY <3>1 DEF ReaderInv, AnswersInv, Inside, At
  <2>2. CASE q # r
    <3>1. rd'[q] = rd[q] BY <1>1, <2>2
    <3>2. ReaderInv(q)' BY <1>1, <3>1 DEF IInv, ReaderInv, Inside, Fresh, Clock, clocks, block, core
    <3>3. Value(q)' = Value(q) /\ Comparable(q)' = Comparable(q) BY <1>1, <3>1 DEF Value, Comparable
    <3>4. Reached(rd[q].ax, Value(q))' = Reached(rd[q].ax, Value(q))
      BY <1>1, <3>1, <3>3 DEF Reached, Reading, Frozen, Clock, clocks, block, core
    <3>5. rd[q].ax \in Axes /\ rd[q].floor \in Int BY ValueType, ClockMathAssumption DEF IInv, I64
    <3>6. rd[q].floor <= served[rd[q].ax] => rd[q].floor <= served'[rd[q].ax] BY <1>2, <1>4, <3>5
    <3>7. AnswersInv(q)' BY <1>1, <3>1, <3>3, <3>4, <3>6 DEF IInv, AnswersInv, At, block
    <3> QED BY <3>2, <3>7
  <2> QED BY <2>1, <2>2
<1> QED BY <1>6, <1>7, <1>8, <1>9 DEF IInv

-----------------------------------------------------------------------------
LEMMA StepIInv ==
    ASSUME IInv, [Next]_vars, ~WriterMayStall
    PROVE  IInv'
<1>1. TypeOK' BY TypeStep DEF IInv
<1>2. CASE UNCHANGED vars
  BY <1>2 DEF vars, IInv, TypeOK, CoreInv, JumpInv, Reached, Reading, Frozen, BaseStored,
              Clock, ReaderInv, AnswersInv, Inside, Fresh, At, Comparable, Value, CeilingOf
<1>3. CASE CoreStep
  <2>1. \A to \in JumpTargets : PrepareJump(to) => IInv'
    BY <1>1, PrepareJumpStep, AnchorSeqlockAssumption
  <2>2. \A shift \in JumpShifts : JumpStep(shift) => IInv' BY <1>1, PrepareJumpStep DEF JumpStep
  <2> QED
    BY <1>1, <1>3, <2>1, <2>2, OpenRebaseStep, ReadQuitStep, ReadQpcStep, RebaseStoresStep,
       CloseRebaseStep, EpochStep, JumpStoresStep DEF CoreStep
<1>4. ASSUME NEW r \in Readers, ReaderStep(r) PROVE IInv'
  BY <1>1, <1>4, CallStep, LookStep, FieldStep, ReadClockStep, RecheckStep, ReturnStep
  DEF ReaderStep
<1> QED BY <1>1, <1>2, <1>3, <1>4, ClockStep, KillStep DEF Next

\* No axis runs back for any thread of the target: not across a rate change, however its
\* stores interleave with the loads, and not after a core killed between any two of them.
\* It holds for any readers, rates, jumps and widths, as long as the bound a reader waits
\* for (SEQLOCK_READ_TRIES) outlasts a write of a living core.
THEOREM NoAxisRunsBack ==
    ASSUME ~WriterMayStall
    PROVE  Spec => []NeverRunsBack
<1>1. Init => IInv BY InitIInv
<1>2. IInv /\ [Next]_vars => IInv' BY StepIInv
<1>3. IInv => NeverRunsBack BY DEF IInv, AnswersInv, NeverRunsBack
<1> QED BY <1>1, <1>2, <1>3, PTL DEF Spec

-----------------------------------------------------------------------------
(* The two duration axes implement SessionAxis.  Beside IInv that takes:   *)
(* the rate is one of the session's, an origin is never ahead of the       *)
(* clock, and what a rate change has stored is what it computed.           *)

\* The rate change has stored this axis's origin.
OriginStored(ax) ==
    stage \in CASE ax = "wall" -> {"dur_quit_c0", "dur_qpc_c0", "dur_q0", "dur_qpc_q0",
                                   "multiplier", "close"}
                [] ax = "quit" -> {"dur_qpc_q0", "multiplier", "close"}
                [] OTHER       -> {"multiplier", "close"}

AxisInv ==
    /\ rate \in Rates /\ pend.m \in Rates
    /\ stage = "close" => rate = pend.m
    /\ \A ax \in Axes : /\ origin[ax] <= precise /\ pend.origin[ax] <= precise
                        /\ OriginStored(ax) => origin[ax] = pend.origin[ax]
                        /\ served[ax] >= 0
    /\ \A r \in Readers : rd[r].floor >= 0

LEMMA InitAxisInv == Init => AxisInv
<1> SUFFICES ASSUME Init PROVE AxisInv OBVIOUS
<1>1. /\ rate \in Rates /\ pend.m \in Rates /\ stage = "idle"
      /\ \A ax \in Axes : origin[ax] <= precise /\ pend.origin[ax] <= precise /\ served[ax] >= 0
  BY DEF Init
<1>2. \A r \in Readers : rd[r].floor >= 0 BY DEF Init, Idle
<1>3. \A ax \in Axes : ~OriginStored(ax) BY <1>1 DEF OriginStored, Axes
<1> QED BY <1>1, <1>2, <1>3 DEF AxisInv

\* A step of the block alone.
LEMMA AxisFrame ==
    ASSUME AxisInv, UNCHANGED <<precise, rd, served>>,
           rate' \in Rates, pend'.m \in Rates, stage' = "close" => rate' = pend'.m,
           \A ax \in Axes : /\ origin'[ax] <= precise /\ pend'.origin[ax] <= precise
                            /\ OriginStored(ax)' => origin'[ax] = pend'.origin[ax]
    PROVE  AxisInv'
  BY DEF AxisInv

LEMMA AxisCoreStep ==
    ASSUME IInv, AxisInv, CoreStep
    PROVE  AxisInv'
<1>0. pend \in Anchors /\ precise \in Int
  BY AnchorSeqlockAssumption, ClockMathAssumption DEF IInv, TypeOK
<1>1. ASSUME NEW m \in Rates, OpenRebase(m) PROVE AxisInv'
  <2>1. /\ UNCHANGED <<precise, rd, served, rate, origin>> /\ stage' = "read_quit"
        /\ pend'.m = m /\ pend'.origin = origin
    BY <1>1 DEF OpenRebase, clocks, history
  <2>2. \A ax \in Axes : ~OriginStored(ax)' BY <2>1 DEF OriginStored, Axes
  <2> QED BY <2>1, <2>2, AxisFrame DEF AxisInv
<1>2. CASE ReadQuit \/ ReadQpc
  <2>1. /\ UNCHANGED <<precise, rd, served, rate, origin>>
        /\ stage' \in {"read_qpc", "a_fake"}
    BY <1>2 DEF ReadQuit, ReadQpc, clocks, history, block
  <2>2. /\ pend'.m = pend.m
        /\ \A ax \in Axes : pend'.origin[ax] = pend.origin[ax] \/ pend'.origin[ax] = precise
    <3>1. CASE ReadQuit BY <1>0, <3>1 DEF ReadQuit, Anchors, Axes
    <3>2. CASE ReadQpc BY <1>0, <3>2 DEF ReadQpc, Anchors, Axes
    <3> QED BY <1>2, <3>1, <3>2
  <2>3. \A ax \in Axes : ~OriginStored(ax)' BY <2>1 DEF OriginStored, Axes
  <2>4. rate' \in Rates /\ pend'.m \in Rates /\ stage' # "close" BY <2>1, <2>2 DEF AxisInv
  <2>5. \A ax \in Axes : origin'[ax] <= precise /\ pend'.origin[ax] <= precise
    BY <1>0, <2>1, <2>2 DEF AxisInv
  <2> QED BY <2>1, <2>3, <2>4, <2>5, AxisFrame
<1>3. CASE RebaseStores
  <2>1. UNCHANGED <<precise, rd, served, pend>>
    BY <1>3 DEF RebaseStores, StoreBase, StoreOrigin, StoreRate, clocks, history
  <2>2. rate' \in Rates /\ (stage' = "close" => rate' = pend.m)
    BY <1>3 DEF RebaseStores, StoreBase, StoreOrigin, StoreRate, AxisInv
  <2>3. \A ax \in Axes : origin'[ax] = origin[ax] \/ origin'[ax] = pend.origin[ax]
    BY <1>3 DEF RebaseStores, StoreBase, StoreOrigin, StoreRate, IInv, TypeOK, Axes
  <2>4. \A ax \in Axes : OriginStored(ax)' => origin'[ax] = pend.origin[ax]
    BY <1>3 DEF RebaseStores, StoreBase, StoreOrigin, StoreRate, CoreAt, IInv, TypeOK,
                AxisInv, OriginStored, Axes
  <2> QED BY <2>1, <2>2, <2>3, <2>4, AxisFrame DEF AxisInv
<1>4. CASE CloseRebase
  <2>1. UNCHANGED <<precise, rd, served, rate, origin, pend>> /\ stage' = "idle"
    BY <1>4 DEF CloseRebase, clocks, history
  <2>2. \A ax \in Axes : ~OriginStored(ax)' BY <2>1 DEF OriginStored, Axes
  <2> QED BY <2>1, <2>2, AxisFrame DEF AxisInv
<1>5. ASSUME NEW to, PrepareJump(to) PROVE AxisInv'
  <2>1. UNCHANGED <<precise, rd, served, rate, origin>> /\ stage' = "jump_open"
    BY <1>5 DEF PrepareJump, clocks, history, block
  <2>2. /\ pend'.m = rate
        /\ \A ax \in Axes : pend'.origin[ax] = origin[ax] \/ pend'.origin[ax] = precise
    BY <1>5 DEF PrepareJump, IInv, TypeOK, Axes
  <2>3. \A ax \in Axes : ~OriginStored(ax)' BY <2>1 DEF OriginStored, Axes
  <2> QED BY <1>0, <2>1, <2>2, <2>3, AxisFrame DEF AxisInv
<1>6. CASE OpenJump \/ CloseJump
  <2>1. /\ UNCHANGED <<precise, rd, rate, origin, pend>> /\ stage' \in {"jump_a_fake", "idle"}
    BY <1>6 DEF OpenJump, CloseJump, clocks
  <2>2. \A ax \in Axes : served'[ax] = served[ax] \/ served'[ax] = 0
    BY <1>6 DEF OpenJump, CloseJump, IInv, TypeOK
  <2>3. \A ax \in Axes : ~OriginStored(ax)' BY <2>1 DEF OriginStored, Axes
  <2> QED BY <2>1, <2>2, <2>3 DEF AxisInv
<1>7. CASE JumpStores
  <2>1. /\ UNCHANGED <<precise, rd, served, pend>>
        /\ stage' \in {"jump_a_real", "jump_multiplier", "jump_close"}
        /\ rate' \in {rate, pend.m}
    BY <1>7 DEF JumpStores, StoreBase, StoreOrigin, StoreRate, clocks, history
  <2>2. \A ax \in Axes : origin'[ax] = origin[ax] \/ origin'[ax] = pend.origin[ax]
    BY <1>7 DEF JumpStores, StoreBase, StoreOrigin, StoreRate, IInv, TypeOK, Axes
  <2>3. \A ax \in Axes : ~OriginStored(ax)' BY <2>1 DEF OriginStored, Axes
  <2> QED BY <2>1, <2>2, <2>3, AxisFrame DEF AxisInv
<1> QED BY <1>1, <1>2, <1>3, <1>4, <1>5, <1>6, <1>7 DEF CoreStep, JumpStep

LEMMA AxisReaderStep ==
    ASSUME IInv, AxisInv, NEW r \in Readers, ReaderStep(r)
    PROVE  AxisInv'
<1>1. /\ UNCHANGED <<precise, rate, origin, pend, stage>>
  BY DEF ReaderStep, Call, LookEven, LookKnownStuck, GiveUp, ReadBase, ReadOrigin, ReadRate,
         ReadClock, Recheck, Return, clocks, block, core, history
<1>2. \A q \in Readers : rd'[q].floor >= 0
  <2>1. ASSUME NEW ax \in Channels, Call(r, ax) PROVE \A q \in Readers : rd'[q].floor >= 0
    <3>1. ax \in Axes /\ served[ax] \in I64 /\ served[ax] >= 0 /\ epoch \in Nat
      BY AnchorSeqlockAssumption DEF IInv, TypeOK, AxisInv
    <3>2. Begun(ax, epoch, served[ax]).floor >= 0 BY <3>1, BegunFacts
    <3> QED BY <2>1, <3>2 DEF Call, IInv, TypeOK, AxisInv
  <2>2. CASE LookEven(r) \/ LookKnownStuck(r) \/ GiveUp(r) \/ ReadBase(r) \/ ReadOrigin(r)
             \/ ReadRate(r) \/ ReadClock(r)
    <3>0. rd \in [Readers -> Call_] BY DEF IInv, TypeOK
    <3>1. \A q \in Readers : rd'[q].floor = rd[q].floor
      <4>1. CASE LookEven(r) \/ LookKnownStuck(r) \/ GiveUp(r)
        BY <3>0, <4>1 DEF LookEven, LookKnownStuck, GiveUp, Call_
      <4>2. CASE ReadBase(r) \/ ReadOrigin(r) \/ ReadRate(r) \/ ReadClock(r)
        BY <3>0, <4>2 DEF ReadBase, ReadOrigin, ReadRate, ReadClock, Call_
      <4> QED BY <2>2, <4>1, <4>2
    <3> QED BY <3>1 DEF AxisInv
  <2>3. CASE Recheck(r)
    <3>1. Begun(rd[r].ax, rd[r].mark, rd[r].floor).floor = rd[r].floor
      BY ValueType, BegunFacts DEF IInv
    <3>2. \A q \in Readers : rd'[q].floor = rd[q].floor
      BY <2>3, <3>1 DEF Recheck, IInv, TypeOK, Call_
    <3> QED BY <3>2 DEF AxisInv
  <2>4. CASE Return(r) BY <2>4 DEF Return, Idle, IInv, TypeOK, AxisInv
  <2> QED BY <2>1, <2>2, <2>3, <2>4 DEF ReaderStep
<1>3. \A ax \in Axes : served'[ax] >= 0
  <2>1. CASE UNCHANGED served BY <2>1 DEF AxisInv
  <2>2. CASE Return(r)
    <3>1. Value(r) \in Int /\ \A ax \in Axes : served[ax] \in Int /\ served[ax] >= 0
      BY ValueType, ClockMathAssumption DEF IInv, TypeOK, AxisInv, I64
    <3>2. \A ax \in Axes : served'[ax] \in {served[ax], at_least(served[ax], Value(r))}
      BY <2>2 DEF Return, IInv, TypeOK
    <3> QED BY <3>1, <3>2 DEF at_least
  <2> QED
    BY <2>1, <2>2 DEF ReaderStep, Call, LookEven, LookKnownStuck, GiveUp, ReadBase,
                      ReadOrigin, ReadRate, ReadClock, Recheck, history
<1> QED BY <1>1, <1>2, <1>3 DEF AxisInv, OriginStored

LEMMA StepAxisInv ==
    ASSUME IInv, AxisInv, [Next]_vars
    PROVE  AxisInv'
<1>1. CASE UNCHANGED vars BY <1>1 DEF vars, AxisInv, OriginStored
<1>2. CASE Advance \/ TimerInterrupt
  <2>1. /\ UNCHANGED <<rate, origin, pend, stage, served, rd>>
        /\ precise' \in {precise, precise + 1}
    BY <1>2 DEF Advance, TimerInterrupt, block, core, history
  <2>2. /\ precise \in Int /\ pend \in Anchors
        /\ \A ax \in Axes : origin[ax] \in Int /\ pend.origin[ax] \in Int
    BY AnchorSeqlockAssumption, ClockMathAssumption DEF IInv, TypeOK, Anchors
  <2>3. \A ax \in Axes : origin[ax] <= precise' /\ pend.origin[ax] <= precise'
    BY <2>1, <2>2 DEF AxisInv
  <2> QED BY <2>1, <2>3 DEF AxisInv, OriginStored
<1>3. CASE Kill
  <2>1. /\ UNCHANGED <<precise, rd, served, rate, origin>> /\ stage' = "idle"
        /\ pend'.m = rate /\ pend'.origin = origin
    BY <1>3 DEF Kill, clocks, history, block
  <2>2. \A ax \in Axes : ~OriginStored(ax)' BY <2>1 DEF OriginStored, Axes
  <2> QED BY <2>1, <2>2, AxisFrame DEF AxisInv
<1> QED BY <1>1, <1>2, <1>3, AxisCoreStep, AxisReaderStep DEF Next

-----------------------------------------------------------------------------
(* The steps of SessionAxis, seen on one of the duration axes.             *)

Durations == {"quit", "qpc"}

\* The rate change in progress holds this axis in its own fields.
Held(ax) == ~dead /\ Frozen(ax)

Speed(ax) == TrueAnchor(ax).m

StandsAt(ax) == UNCHANGED <<TrueAxis(ax), Speed(ax), dead, served[ax], Pending(ax)>>

Ticks(ax) ==
    /\ TrueAxis(ax)' = at_most(I64_MAX, TrueAxis(ax) + at_least(1, Speed(ax)))
    /\ UNCHANGED <<Speed(ax), dead, served[ax], Pending(ax)>>

ChangesRate(ax) ==
    /\ ~dead /\ Speed(ax)' \in Rates
    /\ UNCHANGED <<TrueAxis(ax), dead, served[ax], Pending(ax)>>

Dies(ax) ==
    /\ ~dead /\ dead'
    /\ Speed(ax)' \in Rates /\ TrueAxis(ax)' \in served[ax]..I64_MAX
    /\ UNCHANGED <<served[ax], Pending(ax)>>

BeginsAt(ax, r) ==
    /\ Pending(ax)[r] = -1
    /\ Pending(ax)' = [Pending(ax) EXCEPT ![r] = served[ax]]
    /\ UNCHANGED <<TrueAxis(ax), Speed(ax), dead, served[ax]>>

Answers(ax, r) ==
    /\ Pending(ax)[r] # -1
    /\ \E v \in Pending(ax)[r]..TrueAxis(ax) :
           served[ax]' = IF v > served[ax] THEN v ELSE served[ax]
    /\ Pending(ax)' = [Pending(ax) EXCEPT ![r] = -1]
    /\ UNCHANGED <<TrueAxis(ax), Speed(ax), dead>>

AxisMoves(ax) ==
    \/ StandsAt(ax) \/ Ticks(ax) \/ ChangesRate(ax) \/ Dies(ax)
    \/ \E r \in Readers : BeginsAt(ax, r) \/ Answers(ax, r)

\* Where an axis truly stands, and its speed.
LEMMA TrueAxisIs ==
    ASSUME NEW ax \in Durations
    PROVE  /\ TrueAxis(ax) = IF Held(ax)
                             THEN dur_quit_at(pend.base[ax], pend.origin[ax], pend.m, precise)
                             ELSE dur_quit_at(base[ax], origin[ax], rate, precise)
           /\ TrueAxis(ax)' = IF Held(ax)'
                              THEN dur_quit_at(pend'.base[ax], pend'.origin[ax], pend'.m, precise')
                              ELSE dur_quit_at(base'[ax], origin'[ax], rate', precise')
           /\ Speed(ax) = IF Held(ax) THEN pend.m ELSE rate
           /\ Speed(ax)' = IF Held(ax)' THEN pend'.m ELSE rate'
  BY DEF TrueAxis, TrueAnchor, Speed, Held, Frozen, Line, Durations

\* The anchor in force is one of the session's.
LEMMA AnchorTypes ==
    ASSUME IInv, AxisInv, NEW ax \in Durations
    PROVE  /\ ax \in Axes /\ ax # "wall"
           /\ base[ax] \in 0..I64_MAX /\ origin[ax] \in Nat /\ rate \in Nat /\ origin[ax] <= precise
           /\ pend.base[ax] \in 0..I64_MAX /\ pend.origin[ax] \in Nat /\ pend.m \in Nat
           /\ pend.origin[ax] <= precise
           /\ precise \in Nat
           /\ served[ax] \in 0..I64_MAX
<1>1. ax \in Axes /\ ax # "wall" BY DEF Durations, Axes
<1>2. base[ax] \in 0..I64_MAX /\ pend.base[ax] \in 0..I64_MAX BY <1>1 DEF IInv, CoreInv, CeilingOf
<1>3. /\ origin[ax] \in Nat /\ pend.origin[ax] \in Nat /\ pend.m \in Nat
      /\ rate \in Nat /\ precise \in Nat
  BY <1>1, AnchorSeqlockAssumption, ClockMathAssumption DEF IInv, TypeOK, Anchors
<1>4. served[ax] \in 0..I64_MAX BY <1>1, ClockMathAssumption DEF IInv, TypeOK, AxisInv, I64
<1> QED BY <1>1, <1>2, <1>3, <1>4 DEF AxisInv

\* Where an axis stands is in range, and nowhere below what has been reached.
LEMMA TrueAxisFacts ==
    ASSUME IInv, AxisInv, NEW ax \in Durations
    PROVE  /\ TrueAxis(ax) \in 0..I64_MAX
           /\ dur_quit_at(base[ax], origin[ax], rate, precise) \in 0..I64_MAX
           /\ \A v \in I64 : Reached(ax, v) =>
                  /\ v <= TrueAxis(ax)
                  /\ v <= dur_quit_at(base[ax], origin[ax], rate, precise)
<1> DEFINE now == dur_quit_at(base[ax], origin[ax], rate, precise)
           held == dur_quit_at(pend.base[ax], pend.origin[ax], pend.m, precise)
<1>1. base[ax] \in I64 /\ pend.base[ax] \in I64 BY AnchorTypes, ClockMathAssumption DEF I64
<1>2. now \in I64 /\ base[ax] <= now /\ held \in I64 /\ pend.base[ax] <= held
  BY <1>1, AnchorTypes, DurationLine
<1>3. TrueAxis(ax) = IF Held(ax) THEN held ELSE now BY TrueAxisIs
<1>4. Reading(ax) \in Int /\ Reading(ax) <= now
  <2>1. ax \in Axes /\ ax # "wall" BY AnchorTypes
  <2>2. /\ Reading(ax) \in 0..CeilingOf(ax)
        /\ Reading(ax) <= Line(ax, base[ax], origin[ax], rate, precise)
    BY <2>1, ReadingFacts DEF IInv
  <2> QED BY <2>1, <2>2, ClockMathAssumption DEF CeilingOf, Line
<1> HIDE DEF now, held
<1>5. now \in 0..I64_MAX /\ held \in 0..I64_MAX BY <1>2, AnchorTypes, ClockMathAssumption DEF I64
<1>6. ASSUME NEW v \in I64, Reached(ax, v) PROVE v <= now /\ v <= TrueAxis(ax)
  <2>1. v \in Int /\ v <= Reading(ax) /\ (Held(ax) => v <= pend.base[ax])
    BY <1>6, ClockMathAssumption DEF Reached, Held, I64
  <2>2. v <= now BY <1>4, <1>5, <2>1
  <2>3. Held(ax) => v <= held BY <1>2, <1>5, <2>1, AnchorTypes
  <2> QED BY <1>3, <2>2, <2>3
<1> QED BY <1>3, <1>5, <1>6 DEF now

\* The anchor in force is the same: the axis and its speed stand.
LEMMA SameAnchor ==
    ASSUME NEW ax \in Durations, precise' = precise, Held(ax)' <=> Held(ax),
           Held(ax) => /\ pend'.base[ax] = pend.base[ax] /\ pend'.origin[ax] = pend.origin[ax]
                       /\ pend'.m = pend.m,
           ~Held(ax) => base'[ax] = base[ax] /\ origin'[ax] = origin[ax] /\ rate' = rate
    PROVE  UNCHANGED <<TrueAxis(ax), Speed(ax)>>
  BY TrueAxisIs

\* The calls in progress are the same.
LEMMA SameCalls ==
    ASSUME NEW ax,
           \A q \in Readers : /\ rd'[q].pc = "idle" <=> rd[q].pc = "idle"
                              /\ rd'[q].ax = rd[q].ax /\ rd'[q].floor = rd[q].floor
    PROVE  Pending(ax)' = Pending(ax)
  BY DEF Pending, At

\* Where the core stands when an axis is held in the rate change's own fields.
LEMMA HeldStages ==
    /\ \A ax \in Durations : Held(ax) <=>
           ~dead /\ stage \in {"a_fake", "a_real", "dur_quit_c0", "dur_qpc_c0", "dur_q0",
                               "dur_qpc_q0", "multiplier", "close"}
                            \cup (IF ax = "quit" THEN {"read_qpc"} ELSE {})
    /\ \A ax \in Durations : Held(ax)' <=>
           ~dead' /\ stage' \in {"a_fake", "a_real", "dur_quit_c0", "dur_qpc_c0", "dur_q0",
                                 "dur_qpc_q0", "multiplier", "close"}
                              \cup (IF ax = "quit" THEN {"read_qpc"} ELSE {})
  BY DEF Held, Frozen, RebaseStages, Durations

LEMMA ClockMoves ==
    ASSUME IInv, AxisInv, NEW ax \in Durations, Advance \/ TimerInterrupt
    PROVE  AxisMoves(ax)
<1>1. UNCHANGED <<block, core, rd, history>> BY DEF Advance, TimerInterrupt
<1>2. /\ UNCHANGED <<base, origin, rate, pend, dead, served, stage>>
      /\ Pending(ax)' = Pending(ax) /\ (Held(ax)' <=> Held(ax))
  BY <1>1, SameCalls DEF block, core, history, Held, Frozen
<1>3. CASE TimerInterrupt
  <2>1. precise' = precise BY <1>3 DEF TimerInterrupt
  <2>2. UNCHANGED <<TrueAxis(ax), Speed(ax)>> BY <1>2, <2>1, SameAnchor
  <2> QED BY <1>2, <2>2 DEF AxisMoves, StandsAt
<1>4. CASE Advance
  <2>1. precise' = precise + 1 /\ precise + 1 <= I64_MAX
    BY <1>4, AnchorTypes, AnchorSeqlockAssumption, ClockMathAssumption DEF Advance
  <2>2. Speed(ax)' = Speed(ax) BY <1>2, TrueAxisIs
  <2>3. CASE Held(ax)
    <3>1. TrueAxis(ax)' = dur_quit_at(pend.base[ax], pend.origin[ax], pend.m, precise + 1)
      BY <1>2, <2>1, <2>3, TrueAxisIs
    <3>2. TrueAxis(ax) = dur_quit_at(pend.base[ax], pend.origin[ax], pend.m, precise)
          /\ Speed(ax) = pend.m
      BY <2>3, TrueAxisIs
    <3> QED BY <1>2, <2>1, <2>2, <3>1, <3>2, AnchorTypes, LineTicks DEF AxisMoves, Ticks
  <2>4. CASE ~Held(ax)
    <3>1. TrueAxis(ax)' = dur_quit_at(base[ax], origin[ax], rate, precise + 1)
      BY <1>2, <2>1, <2>4, TrueAxisIs
    <3>2. TrueAxis(ax) = dur_quit_at(base[ax], origin[ax], rate, precise)
          /\ Speed(ax) = rate
      BY <2>4, TrueAxisIs
    <3> QED BY <1>2, <2>1, <2>2, <3>1, <3>2, AnchorTypes, LineTicks DEF AxisMoves, Ticks
  <2> QED BY <2>3, <2>4
<1> QED BY <1>3, <1>4

LEMMA CoreMoves ==
    ASSUME IInv, AxisInv, NEW ax \in Durations, CoreStep
    PROVE  AxisMoves(ax)
<1>0. /\ ax \in Axes /\ ax # "wall" /\ ax \in {"quit", "qpc"}
      /\ pend \in Anchors
  BY AnchorTypes DEF Durations, IInv, TypeOK
<1>1. /\ UNCHANGED <<precise, dead, rd>> /\ ~dead /\ served'[ax] = served[ax]
  BY <1>0 DEF CoreStep, OpenRebase, ReadQuit, ReadQpc, RebaseStores, CloseRebase, PrepareJump,
              JumpStep, OpenJump, JumpStores, CloseJump, StoreBase, StoreOrigin, StoreRate,
              CoreAt, clocks, history, IInv, TypeOK
<1>2. Pending(ax)' = Pending(ax) BY <1>1, SameCalls
<1>3. SUFFICES /\ TrueAxis(ax)' = TrueAxis(ax)
               /\ Speed(ax)' = Speed(ax) \/ Speed(ax)' \in Rates
  BY <1>1, <1>2 DEF AxisMoves, StandsAt, ChangesRate
<1>4. ASSUME NEW m \in Rates, OpenRebase(m) PROVE UNCHANGED <<TrueAxis(ax), Speed(ax)>>
  <2>1. stage = "idle" /\ stage' = "read_quit" /\ UNCHANGED <<base, origin, rate>>
    BY <1>4 DEF OpenRebase, CoreAt
  <2>2. ~Held(ax) /\ ~Held(ax)' BY <2>1, <1>0, HeldStages
  <2> QED BY <1>1, <2>1, <2>2, SameAnchor
<1>5. CASE ReadQuit
  <2>1. stage = "read_quit" /\ stage' = "read_qpc" /\ UNCHANGED <<base, origin, rate>>
    BY <1>5 DEF ReadQuit, CoreAt, block
  <2>2. ~Held(ax) BY <2>1, <1>0, HeldStages
  <2>3. CASE ax = "quit"
    <3>1. Held(ax)' BY <1>1, <2>1, <2>3, HeldStages
    <3>2. pend'.base[ax] = dur_quit_at(base[ax], origin[ax], rate, precise)
          /\ pend'.origin[ax] = precise /\ pend'.m = pend.m
      BY <1>0, <1>5, <2>3 DEF ReadQuit, Anchors, Axes, Line
    <3>3. TrueAxis(ax) = dur_quit_at(base[ax], origin[ax], rate, precise) BY <2>2, TrueAxisIs
    <3>4. /\ TrueAxis(ax)' = dur_quit_at(TrueAxis(ax), precise, pend.m, precise)
          /\ Speed(ax)' = pend.m
      BY <1>1, <3>1, <3>2, <3>3, TrueAxisIs
    <3>5. TrueAxis(ax)' = TrueAxis(ax) BY <3>4, TrueAxisFacts, AnchorTypes, LineStarts
    <3> QED BY <3>4, <3>5 DEF AxisInv
  <2>4. CASE ax = "qpc"
    <3>1. ~Held(ax)' BY <2>1, <2>4, HeldStages
    <3> QED BY <1>1, <2>1, <2>2, <3>1, SameAnchor
  <2> QED BY <1>0, <2>3, <2>4
<1>6. CASE ReadQpc
  <2>1. stage = "read_qpc" /\ stage' = "a_fake" /\ UNCHANGED <<base, origin, rate>>
    BY <1>6 DEF ReadQpc, CoreAt, block
  <2>2. Held(ax)' BY <1>1, <2>1, HeldStages
  <2>3. CASE ax = "quit"
    <3>1. Held(ax) BY <1>1, <2>1, <2>3, HeldStages
    <3>2. /\ pend'.base[ax] = pend.base[ax] /\ pend'.origin[ax] = pend.origin[ax]
          /\ pend'.m = pend.m
      BY <1>0, <1>6, <2>3 DEF ReadQpc, Anchors, Axes
    <3> QED BY <1>1, <2>2, <3>1, <3>2, SameAnchor
  <2>4. CASE ax = "qpc"
    <3>1. ~Held(ax) BY <2>1, <2>4, HeldStages
    <3>2. pend'.base[ax] = dur_quit_at(base[ax], origin[ax], rate, precise)
          /\ pend'.origin[ax] = precise /\ pend'.m = pend.m
      BY <1>0, <1>6, <2>4 DEF ReadQpc, Anchors, Axes, Line
    <3>3. TrueAxis(ax) = dur_quit_at(base[ax], origin[ax], rate, precise) BY <3>1, TrueAxisIs
    <3>4. /\ TrueAxis(ax)' = dur_quit_at(TrueAxis(ax), precise, pend.m, precise)
          /\ Speed(ax)' = pend.m
      BY <1>1, <2>2, <3>2, <3>3, TrueAxisIs
    <3>5. TrueAxis(ax)' = TrueAxis(ax) BY <3>4, TrueAxisFacts, AnchorTypes, LineStarts
    <3> QED BY <3>4, <3>5 DEF AxisInv
  <2> QED BY <1>0, <2>3, <2>4
<1>7. CASE RebaseStores
  <2>1. pend' = pend BY <1>7 DEF RebaseStores, StoreBase, StoreOrigin, StoreRate
  <2>2. Held(ax) /\ Held(ax)'
    BY <1>1, <1>7, HeldStages DEF RebaseStores, StoreBase, StoreOrigin, StoreRate, CoreAt
  <2> QED BY <1>1, <2>1, <2>2, SameAnchor
<1>8. CASE CloseRebase
  <2>1. stage = "close" /\ stage' = "idle" /\ UNCHANGED <<base, origin, rate>>
    BY <1>8 DEF CloseRebase, CoreAt
  <2>2. Held(ax) /\ ~Held(ax)' BY <1>1, <2>1, <1>0, HeldStages
  <2>3. base[ax] = pend.base[ax] BY <1>0, <2>1 DEF IInv, CoreInv, BaseStored
  <2>4. origin[ax] = pend.origin[ax] /\ rate = pend.m BY <1>0, <2>1 DEF AxisInv, OriginStored
  <2> QED BY <1>1, <2>1, <2>2, <2>3, <2>4, TrueAxisIs
<1>9. CASE \/ \E to \in JumpTargets : PrepareJump(to)
           \/ \E shift \in JumpShifts : JumpStep(shift)
           \/ OpenJump \/ JumpStores \/ CloseJump
  <2>1. base'[ax] = base[ax] /\ origin'[ax] = origin[ax]
    BY <1>0, <1>9 DEF PrepareJump, JumpStep, OpenJump, CloseJump, JumpStores, StoreBase,
                      StoreOrigin, StoreRate, block, IInv, TypeOK
  <2>2. rate' = rate
    BY <1>9 DEF PrepareJump, JumpStep, OpenJump, CloseJump, JumpStores, StoreBase,
                StoreOrigin, StoreRate, block, IInv, CoreInv, JumpStages, CoreAt
  <2>3. ~Held(ax) /\ ~Held(ax)'
    BY <1>0, <1>9, HeldStages DEF PrepareJump, JumpStep, OpenJump, CloseJump, JumpStores,
                      StoreBase, StoreOrigin, StoreRate, CoreAt
  <2> QED BY <1>1, <2>1, <2>2, <2>3, SameAnchor
<1> QED BY <1>4, <1>5, <1>6, <1>7, <1>8, <1>9 DEF CoreStep

LEMMA KillMoves ==
    ASSUME IInv, AxisInv, NEW ax \in Durations, Kill
    PROVE  AxisMoves(ax)
<1>1. /\ ~dead /\ dead' /\ UNCHANGED <<precise, base, origin, rate, rd, served>>
  BY DEF Kill, clocks, block, history
<1>2. Pending(ax)' = Pending(ax) BY <1>1, SameCalls
<1>3. /\ TrueAxis(ax)' = dur_quit_at(base[ax], origin[ax], rate, precise)
      /\ Speed(ax)' = rate
  BY <1>1, TrueAxisIs DEF Held
<1>4. Reached(ax, served[ax]) /\ served[ax] \in I64
  BY AnchorTypes, ClockMathAssumption DEF IInv, I64
<1>5. TrueAxis(ax)' \in served[ax]..I64_MAX
  BY <1>3, <1>4, TrueAxisFacts, AnchorTypes, ClockMathAssumption
<1> QED BY <1>1, <1>2, <1>3, <1>5 DEF AxisMoves, Dies, AxisInv

LEMMA ReaderMoves ==
    ASSUME IInv, AxisInv, NEW ax \in Durations, NEW r \in Readers, ReaderStep(r)
    PROVE  AxisMoves(ax)
<1>1. UNCHANGED <<clocks, block, core, epoch>>
  BY DEF ReaderStep, Call, LookEven, LookKnownStuck, GiveUp, ReadBase, ReadOrigin, ReadRate,
         ReadClock, Recheck, Return, history
<1>2. UNCHANGED <<TrueAxis(ax), Speed(ax), dead>>
  <2>1. Held(ax)' <=> Held(ax) BY <1>1 DEF Held, Frozen, core
  <2> QED BY <1>1, <2>1, SameAnchor DEF clocks, block, core
<1>3. rd \in [Readers -> Call_] /\ ax \in Axes /\ ax # "wall" BY AnchorTypes DEF IInv, TypeOK
<1>4. ASSUME NEW c \in Channels, Call(r, c) PROVE AxisMoves(ax)
  <2>1. /\ rd[r].pc = "idle" /\ served' = served
        /\ rd' = [rd EXCEPT ![r] = Begun(c, epoch, served[c])]
    BY <1>4 DEF Call, At, history
  <2>2. /\ Begun(c, epoch, served[c]).pc = "look" /\ Begun(c, epoch, served[c]).ax = c
        /\ Begun(c, epoch, served[c]).floor = served[c]
    BY AnchorSeqlockAssumption, BegunFacts DEF IInv, TypeOK
  <2>3. /\ rd'[r].pc = "look" /\ rd'[r].ax = c /\ rd'[r].floor = served[c]
        /\ \A q \in Readers \ {r} : rd'[q] = rd[q]
    BY <1>3, <2>1, <2>2
  <2>4. Pending(ax)[r] = -1 BY <2>1 DEF Pending, At
  <2>5. CASE c = ax
    <3>1. Pending(ax)' = [Pending(ax) EXCEPT ![r] = served[ax]] BY <2>3, <2>5 DEF Pending, At
    <3> QED BY <1>2, <2>1, <2>4, <3>1 DEF AxisMoves, BeginsAt
  <2>6. CASE c # ax
    <3>1. Pending(ax)' = Pending(ax) BY <2>1, <2>3, <2>6 DEF Pending, At
    <3> QED BY <1>2, <2>1, <3>1 DEF AxisMoves, StandsAt
  <2> QED BY <2>5, <2>6
<1>5. CASE LookEven(r) \/ LookKnownStuck(r) \/ GiveUp(r) \/ ReadBase(r) \/ ReadOrigin(r)
           \/ ReadRate(r) \/ ReadClock(r)
  <2>1. /\ served' = served
        /\ \A q \in Readers : /\ rd'[q].pc = "idle" <=> rd[q].pc = "idle"
                              /\ rd'[q].ax = rd[q].ax /\ rd'[q].floor = rd[q].floor
    <3>1. CASE LookEven(r) \/ LookKnownStuck(r) \/ GiveUp(r)
      BY <1>3, <3>1 DEF LookEven, LookKnownStuck, GiveUp, At, history, Call_
    <3>2. CASE ReadBase(r) \/ ReadOrigin(r) \/ ReadRate(r) \/ ReadClock(r)
      BY <1>3, <3>2 DEF ReadBase, ReadOrigin, ReadRate, ReadClock, At, history, Call_
    <3> QED BY <1>5, <3>1, <3>2
  <2>2. Pending(ax)' = Pending(ax) BY <2>1, SameCalls
  <2> QED BY <1>2, <2>1, <2>2 DEF AxisMoves, StandsAt
<1>6. CASE Recheck(r)
  <2>1. /\ Begun(rd[r].ax, rd[r].mark, rd[r].floor).pc = "look"
        /\ Begun(rd[r].ax, rd[r].mark, rd[r].floor).ax = rd[r].ax
        /\ Begun(rd[r].ax, rd[r].mark, rd[r].floor).floor = rd[r].floor
    BY ValueType, BegunFacts DEF IInv
  <2>2. /\ served' = served
        /\ \A q \in Readers : /\ rd'[q].pc = "idle" <=> rd[q].pc = "idle"
                              /\ rd'[q].ax = rd[q].ax /\ rd'[q].floor = rd[q].floor
    BY <1>3, <1>6, <2>1 DEF Recheck, At, history, Call_
  <2>3. Pending(ax)' = Pending(ax) BY <2>2, SameCalls
  <2> QED BY <1>2, <2>2, <2>3 DEF AxisMoves, StandsAt
<1>7. CASE Return(r)
  <2>1. /\ rd[r].pc = "answer" /\ rd'[r].pc = "idle"
        /\ \A q \in Readers \ {r} : rd'[q] = rd[q]
    BY <1>3, <1>7 DEF Return, At, Idle
  <2>2. CASE rd[r].ax # ax
    <3>1. Pending(ax)' = Pending(ax) BY <2>1, <2>2 DEF Pending, At
    <3>2. served'[ax] = served[ax] BY <1>3, <1>7, <2>2, ValueType DEF Return, IInv, TypeOK
    <3> QED BY <1>2, <3>1, <3>2 DEF AxisMoves, StandsAt
  <2>3. CASE rd[r].ax = ax
    <3>1. Pending(ax)[r] = rd[r].floor BY <2>1, <2>3 DEF Pending, At
    <3>2. Pending(ax)' = [Pending(ax) EXCEPT ![r] = -1] BY <2>1 DEF Pending, At
    <3>3. Comparable(r) BY <1>3, <2>3 DEF Comparable
    <3>4. /\ rd[r].floor \in Int /\ rd[r].floor >= 0 /\ Value(r) \in I64 /\ Value(r) \in Int
      BY ValueType, ClockMathAssumption DEF IInv, AxisInv, I64
    <3>5. Value(r) >= rd[r].floor /\ Reached(ax, Value(r))
      BY <2>1, <2>3, <3>3 DEF IInv, AnswersInv, At
    <3>6. Value(r) \in rd[r].floor..TrueAxis(ax) BY <3>4, <3>5, TrueAxisFacts, ClockMathAssumption
    <3>7. served'[ax] = at_least(served[ax], Value(r))
      BY <1>3, <1>7, <2>3, <3>3 DEF Return, IInv, TypeOK
    <3>8. served'[ax] = IF Value(r) > served[ax] THEN Value(r) ELSE served[ax]
      BY <3>4, <3>7, AnchorTypes, ClockMathAssumption DEF at_least
    <3>9. Pending(ax)[r] # -1 BY <3>1, <3>4
    <3>10. \E v \in Pending(ax)[r]..TrueAxis(ax) :
               served'[ax] = IF v > served[ax] THEN v ELSE served[ax]
      BY <3>1, <3>6, <3>8
    <3> QED BY <1>2, <3>2, <3>9, <3>10 DEF AxisMoves, Answers
  <2> QED BY <2>2, <2>3
<1> QED BY <1>4, <1>5, <1>6, <1>7 DEF ReaderStep

LEMMA AxisStep ==
    ASSUME IInv, AxisInv, [Next]_vars, NEW ax \in Durations
    PROVE  AxisMoves(ax)
<1>1. CASE UNCHANGED vars
  <2>1. UNCHANGED <<rd, served, dead>> BY <1>1 DEF vars
  <2>2. Pending(ax)' = Pending(ax) BY <2>1, SameCalls
  <2>3. Held(ax)' <=> Held(ax) BY <1>1 DEF vars, Held, Frozen
  <2>4. UNCHANGED <<TrueAxis(ax), Speed(ax)>> BY <1>1, <2>3, SameAnchor DEF vars
  <2> QED BY <2>1, <2>2, <2>4 DEF AxisMoves, StandsAt
<1> QED BY <1>1, ClockMoves, CoreMoves, KillMoves, ReaderMoves DEF Next

LEMMA AxisInit ==
    ASSUME Init, NEW ax \in Durations
    PROVE  /\ TrueAxis(ax) \in 0..I64_MAX
           /\ Speed(ax) \in Rates
           /\ ~dead
           /\ served[ax] = 0
           /\ Pending(ax) = [r \in Readers |-> -1]
<1>1. TrueAxis(ax) \in 0..I64_MAX BY InitIInv, InitAxisInv, TrueAxisFacts
<1>2. Speed(ax) \in Rates BY TrueAxisIs, InitAxisInv DEF AxisInv
<1>3. \A r \in Readers : rd[r].pc = "idle" BY DEF Init, Idle
<1>4. Pending(ax) = [r \in Readers |-> -1] BY <1>3 DEF Pending, At
<1> QED BY <1>1, <1>2, <1>4 DEF Init, Durations, Axes

LEMMA QuitStep ==
    ASSUME IInv, AxisInv, [Next]_vars
    PROVE  [Quit!Next]_Quit!axisVars
<1>1. AxisMoves("quit") BY AxisStep DEF Durations
<1> QED
  BY <1>1 DEF AxisMoves, StandsAt, Ticks, ChangesRate, Dies, BeginsAt, Answers, Speed, at_most,
      at_least, Quit!Next, Quit!axisVars, Quit!Tick, Quit!Die, Quit!ChangeRate, Quit!Begin,
      Quit!Answer, Quit!Top, Quit!Faster, Quit!NoCall

LEMMA QpcStep ==
    ASSUME IInv, AxisInv, [Next]_vars
    PROVE  [Qpc!Next]_Qpc!axisVars
<1>1. AxisMoves("qpc") BY AxisStep DEF Durations
<1> QED
  BY <1>1 DEF AxisMoves, StandsAt, Ticks, ChangesRate, Dies, BeginsAt, Answers, Speed, at_most,
      at_least, Qpc!Next, Qpc!axisVars, Qpc!Tick, Qpc!Die, Qpc!ChangeRate, Qpc!Begin,
      Qpc!Answer, Qpc!Top, Qpc!Faster, Qpc!NoCall

\* Each duration axis, as its readers see it through the block and the seqlock, is the
\* integral of the rate (SessionAxis): real time drives it, a rate change leaves it where it
\* stands, a core killed half-way through one leaves it nowhere below an answer, and every
\* answer is a value it has reached and not below one given before the call.
THEOREM AxesImplementTheSession ==
    ASSUME ~WriterMayStall
    PROVE  Spec => DurationsAreTheSession
<1>1. Init => IInv /\ AxisInv BY InitIInv, InitAxisInv
<1>2. IInv /\ AxisInv /\ [Next]_vars => IInv' /\ AxisInv' BY StepIInv, StepAxisInv
<1>3. Init => Quit!Init BY AxisInit DEF Durations, Speed, Quit!Init, Quit!NoCall
<1>4. Init => Qpc!Init BY AxisInit DEF Durations, Speed, Qpc!Init, Qpc!NoCall
<1>5. IInv /\ AxisInv /\ [Next]_vars => [Quit!Next]_Quit!axisVars BY QuitStep
<1>6. IInv /\ AxisInv /\ [Next]_vars => [Qpc!Next]_Qpc!axisVars BY QpcStep
<1> QED
  BY <1>1, <1>2, <1>3, <1>4, <1>5, <1>6, PTL
  DEF Spec, DurationsAreTheSession, QuitIsTheSessionAxis, QpcIsTheSessionAxis,
      Quit!Spec, Qpc!Spec

-----------------------------------------------------------------------------
(* The detours of one thread: the inductive invariant.                     *)

Args == [n : Int, period : Int]
CallRecords ==
    [export : Exports, arg : Args, counted : Seq(Exports), floors : Nat, dues : Nat, apart : Nat,
     m : Int, now : Int, whole : BOOLEAN]
AppFrames    == [at : {"app"}, call : CallRecords \cup {NoCall}]
DetourFrames == [at : {"detour"}, pc : {"enter", "rate", "forward", "return"}, export : Exports,
                 alertable : BOOLEAN, arg : Args, was : {"none", "down"}]
KernelFrames == [at : {"kernel"}, export : Exports, alertable : BOOLEAN, arg : Args, was : {"none", "up"}]
Frames       == AppFrames \cup DetourFrames \cup KernelFrames
Threads      == [loader : BOOLEAN, scaled : BOOLEAN, m : Nat, lands : BOOLEAN]

CallTypes ==
    /\ stack \in Seq(Frames) /\ Len(stack) >= 1 /\ stack[1].at = "app"
    /\ flag \in [Families -> BOOLEAN] /\ storage \in BOOLEAN /\ over \in BOOLEAN /\ thread \in Threads

\* How a frame stands on the one below it: application code runs at the bottom and in alertable waits,
\* a detour runs for a call or for Windows' code of the detour before, the wait for the detour of its
\* export; and all but the last frame are held in a call.
Stands(i) ==
    /\ stack[i].at = "app" =>
          /\ i > 1 => stack[i - 1].at = "kernel" /\ stack[i - 1].alertable
          /\ i < Len(stack) => stack[i].call # NoCall
          /\ stack[i].call \in CallRecords => stack[i].call.arg \in Asks(stack[i].call.export)
    /\ stack[i].at = "detour" =>
          /\ i > 1 /\ stack[i - 1].at \in {"app", "detour"}
          /\ stack[i - 1].at = "app" => stack[i - 1].call \in CallRecords /\ stack[i - 1].call.export = stack[i].export
          /\ stack[i - 1].at = "detour" => stack[i].export \in Leads(stack[i - 1].export)
          /\ i < Len(stack) => stack[i].pc = "return"
    /\ stack[i].at = "kernel" =>
          /\ i > 1 /\ stack[i - 1].at = "detour" /\ "kernel" \in Leads(stack[i].export)
          /\ stack[i - 1].export = stack[i].export /\ stack[i - 1].alertable = stack[i].alertable
    /\ stack[i].at # "app" /\ stack[i].alertable => stack[i].export \in Alertables
ShapeInv == \A i \in 1..Len(stack) : Stands(i)

\* The application frame that frame i runs for is a.
RunsFor(a, i) == a \in 1..i /\ stack[a].at = "app" /\ \A j \in (a + 1)..i : stack[j].at # "app"
OwnerInv == \A i \in 1..Len(stack) : \E a \in 1..i : RunsFor(a, i)

\* Which frames have a flag to put back: the first detour of a call, once it has entered, and an
\* alertable wait.
First(i) == stack[i - 1].at = "app"
Keeps(i) ==
    /\ stack[i].at = "detour" =>
          (stack[i].was = "down" <=> storage /\ stack[i].export # "SetTimer" /\ First(i) /\ stack[i].pc # "enter")
    /\ stack[i].at = "kernel" => (stack[i].was = "up" <=> storage /\ stack[i].alertable)
KeepInv == \A i \in 1..Len(stack) : Keeps(i)

\* Which flag stands: the family's of the call that runs, past its first detour's entry and outside an
\* alertable wait.
FlagInv ==
    \A f \in Families : flag[f] <=>
        /\ storage /\ Top.at # "app" /\ Family(Top.export) = f
        /\ Top.at = "detour" => ~First(Len(stack)) \/ Top.pc # "enter"
        /\ Top.at = "kernel" => ~Top.alertable

\* What a call has come to when its length is converted, in the unit of the kernel.
InKernelUnits(e, arg) == IF e \in Sleeps THEN Handed("SleepEx", "NtDelayExecution", arg) ELSE arg
Sound(call, got) ==
    /\ call.counted \in {<< >>, <<call.export>>}
    /\ AsItCame(call, got) \/ IsTheAsked(call, got)
    /\ storage /\ ~over /\ call.whole => call.counted = <<call.export>> /\ IsTheAsked(call, got)
    /\ ~storage /\ call.export # "SetTimer" => call.counted = << >> /\ AsItCame(call, got)
    /\ ~storage /\ ~over /\ ~thread.loader /\ call.export # "SetTimer" => call.apart > 0
    /\ ~thread.scaled /\ got.n < 0 /\ call.arg.n < 0 => AsItCame(call, got)

\* Before that: not yet counted, and counted.
Untouched(call, frame) ==
    call.counted = << >> /\ call.floors = 0 /\ call.dues = 0 /\ call.apart = 0 /\ frame.arg = call.arg
Counted(call, frame) ==
    /\ call.counted \in {<< >>, <<call.export>>} /\ (~over => call.counted = <<call.export>>)
    /\ call.floors = 0 /\ call.dues = 0 /\ frame.arg = call.arg /\ storage

Taken(call, frame, first) ==
    /\ Family(frame.export) = Family(call.export)
    /\ IF frame.at = "detour" /\ frame.pc = "enter" /\ first THEN Untouched(call, frame)
       ELSE IF frame.at = "detour" /\ frame.pc = "rate" THEN first /\ Counted(call, frame)
       ELSE Sound(call, InKernelUnits(frame.export, frame.arg))
TakenInv == \A i \in 1..Len(stack), a \in 1..Len(stack) : a < i /\ RunsFor(a, i) => Taken(stack[a].call, stack[i], i = a + 1)

DetourInv == CallTypes /\ ShapeInv /\ OwnerInv /\ KeepInv /\ FlagInv /\ TakenInv

-----------------------------------------------------------------------------
(* The arithmetic: what the kernel gets is the length asked, divided once. *)

LEMMA DivIs ==
    ASSUME NEW n \in Nat, NEW m \in Nat \ {0}
    PROVE  /\ n \div m \in Nat /\ n \div m <= n
           /\ (n \div m) * m <= n /\ n < (n \div m + 1) * m
           /\ m = 1 => n \div m = n
  OBVIOUS

LEMMA TimesMonotone ==
    ASSUME NEW q \in Nat, NEW k \in Nat, NEW m \in Nat, q <= k
    PROVE  q * m <= k * m
  OBVIOUS

\* What is asked of each kind of call.
LEMMA AskedCases ==
    ASSUME NEW call, NEW got
    PROVE  /\ call.export \in Sleeps => IsTheAsked(call, got) = SleepAsAsked(call.arg.n, call.m, call.floors > 0, got)
           /\ call.export = "NtDelayExecution" =>
                 IsTheAsked(call, got) = IF call.arg.n <= 0 THEN DelayAsAsked(call.arg.n, call.m, call.floors > 0, got)
                                         ELSE DeadlineAsAsked(call, call.arg.n, call.m, got)
           /\ call.export \in Settable =>
                 IsTheAsked(call, got) = (TimerAsAsked(call, call.arg.n, call.m, got) /\ PeriodAsAsked(call.arg.period, call.floors > 0, got))
           /\ call.export = "SetTimer" => IsTheAsked(call, got) = ElapseAsAsked(call.arg.n, call.m, call.floors > 0, got)
           /\ call.export \in Objects => IsTheAsked(call, got) = (got = call.arg)
  BY DEF IsTheAsked, Sleeps, Settable, Objects

LEMMA SleepIsAsked ==
    ASSUME NEW call \in CallRecords, call.export \in Sleeps, call.arg.n \in 0..INFINITE_MS,
           NEW m \in Nat \ {0}, call.m = m, call.floors > 0 <=> wait_hit_floor(call.arg.n, m),
           NEW got, got = InKernelUnits(call.export, [call.arg EXCEPT !.n = scale_wait(call.arg.n, m)])
    PROVE  /\ IsTheAsked(call, got)
           /\ m = 1 => AsItCame(call, got)
           /\ ~(call.arg.n < 0)
<1> DEFINE n == call.arg.n  x == scale_wait(n, m)
<1>0. n \in Nat /\ n \in Int /\ n <= INFINITE_MS /\ INFINITE_MS \in Nat \ {0} /\ call.arg \in Args /\ TICKS_PER_MS \in Nat \ {0}
  BY DetourCallsAssumption, ClockMathAssumption DEF CallRecords
<1>1. at_least(1, m) = m BY DEF at_least
<1>2. n \div m \in Nat /\ n \div m <= n /\ (n \div m) * m <= n /\ n < (n \div m + 1) * m /\ (m = 1 => n \div m = n)
  BY <1>0, DivIs
<1>3. CASE n \in {0, INFINITE_MS}
  <2>1. x = n BY <1>3 DEF scale_wait
  <2>2. [call.arg EXCEPT !.n = x] = call.arg BY <1>0, <2>1 DEF Args
  <2>3. got = [call.arg EXCEPT !.n = IF n = INFINITE_MS THEN Forever ELSE -(n * TICKS_PER_MS)]
    BY <2>2 DEF InKernelUnits, Handed
  <2>4. got.n = IF n = INFINITE_MS THEN Forever ELSE -(n * TICKS_PER_MS) BY <1>0, <2>3 DEF Args
  <2>5. AsItCame(call, got) BY <2>2 DEF AsItCame, InKernelUnits
  <2>6. n = 0 => got.n = 0 BY <1>0, <1>3, <2>4
  <2>7. SleepAsAsked(n, m, call.floors > 0, got) BY <1>3, <2>4, <2>6 DEF SleepAsAsked
  <2> QED BY <1>0, <2>5, <2>7, AskedCases
<1>4. CASE n \notin {0, INFINITE_MS}
  <2>0. n \in 1..INFINITE_MS /\ n # INFINITE_MS /\ n < INFINITE_MS BY <1>0, <1>4
  <2>1. x = at_least(1, n \div m) BY <1>1, <1>4 DEF scale_wait, MIN_SCALED_WAIT_MS
  <2>8. x \in 1..n /\ x # INFINITE_MS BY <1>0, <1>2, <2>0, <2>1 DEF at_least
  <2> DEFINE a == [call.arg EXCEPT !.n = x]
  <2>2. a \in Args /\ a.n = x BY <1>0, <2>8 DEF Args
  <2>3. got.n = -(x * TICKS_PER_MS)
    <3> HIDE DEF x
    <3>1. got = [a EXCEPT !.n = -(x * TICKS_PER_MS)]
      <4>1. got = Handed("SleepEx", "NtDelayExecution", a) BY DEF InKernelUnits, x
      <4> QED BY <2>2, <2>8, <4>1 DEF Handed
    <3>2. -(x * TICKS_PER_MS) \in Int BY <1>0, <2>8
    <3> QED BY <2>2, <3>1, <3>2 DEF Args
  <2>4. call.floors > 0 <=> n \div m < 1 BY <1>1, <1>4 DEF wait_hit_floor, MIN_SCALED_WAIT_MS
  <2>5. IF call.floors > 0 THEN x = 1 /\ n < m ELSE Divided(x, n, m)
    <3>1. CASE call.floors > 0
      <4>1. n \div m = 0 BY <1>2, <2>4, <3>1
      <4>2. n < m
        <5>1. (0 + 1) * m = m OBVIOUS
        <5>2. n < (0 + 1) * m BY <1>2, <4>1
        <5> QED BY <5>1, <5>2
      <4> QED BY <2>1, <3>1, <4>1, <4>2 DEF at_least
    <3>2. CASE ~(call.floors > 0)
      <4>1. x = n \div m BY <1>2, <2>1, <2>4, <3>2 DEF at_least
      <4> QED BY <1>2, <3>2, <4>1 DEF Divided
    <3> QED BY <3>1, <3>2
  <2>6. IsTheAsked(call, got)
    <3> HIDE DEF x
    <3>1. SleepAsAsked(n, m, call.floors > 0, got) BY <1>4, <2>8, <2>3, <2>5 DEF SleepAsAsked
    <3> QED BY <3>1, AskedCases
  <2>7. ASSUME m = 1 PROVE AsItCame(call, got)
    <3>1. x = n BY <1>2, <2>0, <2>1, <2>7 DEF at_least
    <3>2. [call.arg EXCEPT !.n = x] = call.arg BY <1>0, <3>1 DEF Args
    <3> QED BY <3>2 DEF AsItCame, InKernelUnits
  <2> QED BY <1>0, <2>6, <2>7
<1> QED BY <1>3, <1>4

LEMMA DelayIsAsked ==
    ASSUME NEW call \in CallRecords, call.export = "NtDelayExecution", call.arg.n <= 0,
           NEW m \in Nat \ {0}, call.m = m, call.floors > 0 <=> delay_hit_floor(call.arg.n, m),
           NEW got, got = [call.arg EXCEPT !.n = scale_delay_interval(call.arg.n, m)]
    PROVE  /\ IsTheAsked(call, got)
           /\ m = 1 => AsItCame(call, got)
<1> DEFINE n == call.arg.n  k == MIN_SCALED_DELAY_TICKS  q == (-n) \div m  x == scale_delay_interval(n, m)
<1>0. n \in Int /\ call.arg \in Args /\ k \in Nat \ {0} /\ -n \in Nat
  BY ClockMathAssumption DEF CallRecords, Args, MIN_SCALED_DELAY_TICKS, MIN_SCALED_WAIT_MS
<1>1. at_least(1, m) = m BY DEF at_least
<1>2. q \in Nat /\ q <= -n /\ q * m <= -n /\ -n < (q + 1) * m /\ (m = 1 => q = -n) BY <1>0, DivIs
<1>3. x = IF n < 0 THEN at_most(at_least(-k, n), -q) ELSE n
  BY <1>0, <1>1 DEF scale_delay_interval, Toward0
<1>4. call.floors > 0 <=> n < 0 /\ m > 1 /\ q < k
  <2>1. delay_hit_floor(n, m) <=> n < 0 /\ m > 1 /\ -q > -k BY DEF delay_hit_floor, Toward0
  <2> QED BY <1>0, <1>2, <2>1
<1> HIDE DEF k, x, q
<1>5. x \in Int BY <1>0, <1>2, <1>3 DEF at_most, at_least
<1>6. got.n = x BY <1>0, <1>5 DEF Args, x
<1>7. CASE call.floors > 0
  <2>1. n < 0 /\ m > 1 /\ q < k BY <1>4, <1>7
  <2>2. x = at_least(-k, n) /\ -x \in {-n, k} /\ x >= n
    BY <1>0, <1>2, <1>3, <2>1 DEF at_most, at_least
  <2>3. -x * m > -n
    <3>1. CASE -x = k
      <4>1. (q + 1) * m <= k * m BY <1>0, <1>2, <2>1, TimesMonotone
      <4>2. -n < (q + 1) * m /\ (q + 1) * m \in Int /\ k * m \in Int /\ -n \in Int BY <1>0, <1>2
      <4>3. -n < k * m
        <5> DEFINE u == (q + 1) * m  v == k * m
        <5>1. u \in Int /\ v \in Int /\ u <= v /\ -n < u BY <4>1, <4>2
        <5> HIDE DEF u, v
        <5>2. -n < v BY <4>2, <5>1
        <5> QED BY <5>2 DEF v
      <4>4. -(k * m) = -k * m /\ -x * m = k * m BY <1>0, <1>5, <3>1
      <4> QED BY <4>3, <4>4
    <3>2. CASE -x = -n
      <4>1. -n \in Nat \ {0} /\ m > 1 BY <1>0, <2>1
      <4>2. \A a \in Nat \ {0} : a * m > a
        <5>1. ASSUME NEW a \in Nat \ {0} PROVE a * m > a
          <6>1. m \in Nat /\ m >= 2 /\ 2 * a <= m * a /\ 2 * a = a + a BY <2>1, TimesMonotone
          <6>2. m * a = a * m /\ a * m \in Nat OBVIOUS
          <6> QED BY <6>1, <6>2
        <5> QED BY <5>1
      <4>3. (-n) * m > -n BY <4>1, <4>2
      <4>4. x = n BY <1>0, <1>5, <3>2
      <4>5. -x * m = (-n) * m BY <1>0, <4>4
      <4> QED BY <4>3, <4>5
    <3> QED BY <2>2, <3>1, <3>2
  <2>4. IsTheAsked(call, got)
    <3>1. DelayAsAsked(n, m, TRUE, got) BY <1>6, <2>2, <2>3 DEF DelayAsAsked, k
    <3> QED BY <1>7, <3>1, AskedCases DEF DelayAsAsked
  <2> QED BY <1>7, <2>1, <2>4
<1>8. CASE ~(call.floors > 0)
  <2>1. -x = q
    <3>1. CASE n = 0 BY <1>0, <1>2, <1>3, <3>1
    <3>2. CASE n < 0 /\ m = 1 BY <1>0, <1>2, <1>3, <3>2 DEF at_most, at_least
    <3>3. CASE n < 0 /\ m > 1 BY <1>0, <1>2, <1>3, <1>4, <1>8, <3>3 DEF at_most, at_least
    <3> QED BY <1>0, <3>1, <3>2, <3>3
  <2>2. Divided(-got.n, -n, m) BY <1>2, <1>6, <2>1 DEF Divided
  <2>3. IsTheAsked(call, got) BY <1>8, <2>2, AskedCases DEF DelayAsAsked
  <2>4. ASSUME m = 1 PROVE got = call.arg
    <3>1. x = n BY <1>0, <1>2, <1>5, <2>1, <2>4
    <3> QED BY <1>0, <3>1 DEF Args, x
  <2> QED BY <2>3, <2>4 DEF AsItCame, Sleeps
<1> QED BY <1>7, <1>8

LEMMA DeadlineIsAsked ==
    ASSUME NEW call \in CallRecords, call.export = "NtDelayExecution", call.arg.n > 0, call.dues = 1,
           NEW m \in Nat, call.m = at_least(1, m), NEW now \in Nat, call.now = now,
           NEW got, got = [call.arg EXCEPT !.n = scale_delay_deadline(call.arg.n, now, m)]
    PROVE  IsTheAsked(call, got) /\ ~(call.arg.n < 0)
<1> DEFINE n == call.arg.n  x == scale_delay_deadline(n, now, m)  l == at_least(1, m)  q == (n - now) \div l
<1>0. n \in Int /\ call.arg \in Args /\ l \in Nat \ {0} BY DEF CallRecords, Args, at_least
<1>1. x = IF n <= now THEN PAST_DEADLINE ELSE IF q = 0 THEN PAST_DEADLINE ELSE -q
  <2>1. scale_timer_due(n, now, m, 1) = IF n <= now THEN 0 ELSE -q BY <1>0 DEF scale_timer_due
  <2>2. q \in Int BY <1>0
  <2> HIDE DEF q, l
  <2>3. -q = 0 <=> q = 0 BY <2>2
  <2> QED BY <1>0, <2>1, <2>3 DEF scale_delay_deadline
<1>2. CASE n <= now
  <2>1. x = 1 BY <1>1, <1>2 DEF PAST_DEADLINE
  <2>2. got.n = 1 BY <1>0, <2>1 DEF Args
  <2>3. n - now < l BY <1>0, <1>2
  <2> QED
    <3>1. DeadlineAsAsked(call, n, l, got) BY <2>2, <2>3 DEF DeadlineAsAsked, PAST_DEADLINE
    <3> QED BY <1>0, <3>1, AskedCases
<1>3. CASE n > now
  <2>1. q \in Nat /\ q * l <= n - now /\ n - now < (q + 1) * l BY <1>0, <1>3, DivIs
  <2> HIDE DEF q, l, x
  <2>2. CASE q = 0
    <3>1. x = 1
      <4>1. ~(n <= now) BY <1>0, <1>3
      <4> QED BY <1>1, <2>2, <4>1 DEF PAST_DEADLINE
    <3>2. got.n = 1 BY <1>0, <3>1 DEF Args, x
    <3>3. n - now < l BY <1>0, <2>1, <2>2
    <3>4. DeadlineAsAsked(call, n, l, got) BY <3>2, <3>3 DEF DeadlineAsAsked, PAST_DEADLINE
    <3> QED BY <1>0, <1>3, <3>4, AskedCases DEF l
  <2>3. CASE q # 0
    <3>1. x = -q BY <1>0, <1>1, <1>3, <2>1, <2>3
    <3>2. got.n = -q BY <1>0, <2>1, <3>1 DEF Args, x
    <3>3. got.n < 0 /\ got.n # 1 /\ -got.n = q BY <2>1, <2>3, <3>2
    <3>4. Divided(-got.n, n - now, l) BY <2>1, <3>3 DEF Divided
    <3>5. DeadlineAsAsked(call, n, l, got) BY <3>3, <3>4 DEF DeadlineAsAsked, PAST_DEADLINE
    <3> QED BY <1>0, <1>3, <3>5, AskedCases DEF l
  <2> QED BY <2>1, <2>2, <2>3
<1> QED BY <1>0, <1>2, <1>3

LEMMA TimerIsAsked ==
    ASSUME NEW call \in CallRecords, call.export \in Settable, thread \in Threads,
           call.m = (IF call.arg.n < 0 THEN RelativeRate ELSE at_least(1, thread.m)),
           NEW now \in Nat, call.now = now, call.dues = (IF call.arg.n >= 0 THEN 1 ELSE 0),
           call.floors > 0 <=> timer_period_hit_floor(call.arg.period, RelativeRate),
           NEW got, got = [call.arg EXCEPT !.n = scale_timer_due(call.arg.n, now, thread.m, RelativeRate),
                                           !.period = scale_timer_period(call.arg.period, RelativeRate)]
    PROVE  /\ IsTheAsked(call, got)
           /\ ~thread.scaled /\ call.arg.n < 0 => AsItCame(call, got)
<1> DEFINE n == call.arg.n  p == call.arg.period  r == RelativeRate  l == at_least(1, thread.m)
           x == scale_timer_due(n, now, thread.m, r)  y == scale_timer_period(p, r)
<1>0. n \in Int /\ p \in Int /\ call.arg \in Args /\ l \in Nat \ {0} /\ r \in Nat \ {0} /\ (~thread.scaled => r = 1)
  BY DEF CallRecords, Args, at_least, RelativeRate, Threads
<1>1. at_least(1, r) = r BY <1>0 DEF at_least
<1>2. x = IF n < 0 THEN -((-n) \div r) ELSE IF n <= now THEN 0 ELSE -((n - now) \div l)
  BY <1>1 DEF scale_timer_due, Toward0
<1>3. y = IF p <= 0 THEN p ELSE at_least(1, p \div r) BY <1>1 DEF scale_timer_period
<1>4. call.floors > 0 <=> p > 0 /\ p \div r < 1 BY <1>1 DEF timer_period_hit_floor
<1> HIDE DEF x, y, l, r
<1>5. IF n < 0 THEN x \in Int /\ Divided(-x, -n, r) ELSE IF n <= now THEN x = 0 ELSE x \in Int /\ Divided(-x, n - now, l)
  <2>1. CASE n < 0
    <3> DEFINE q == (-n) \div r
    <3>1. q \in Nat /\ q * r <= -n /\ -n < (q + 1) * r BY <1>0, <2>1, DivIs
    <3>2. x = -q BY <1>2, <2>1
    <3> HIDE DEF q
    <3>3. x \in Int /\ -x = q BY <3>1, <3>2
    <3> QED BY <2>1, <3>1, <3>3 DEF Divided
  <2>2. CASE n >= 0 /\ n <= now BY <1>0, <1>2, <2>2
  <2>3. CASE n >= 0 /\ n > now
    <3> DEFINE q == (n - now) \div l
    <3>1. q \in Nat /\ q * l <= n - now /\ n - now < (q + 1) * l BY <1>0, <2>3, DivIs
    <3>2. x = -q BY <1>0, <1>2, <2>3
    <3> HIDE DEF q
    <3>3. x \in Int /\ -x = q BY <3>1, <3>2
    <3> QED BY <1>0, <2>3, <3>1, <3>3 DEF Divided
  <2> QED BY <1>0, <2>1, <2>2, <2>3
<1>6. /\ y \in Int
      /\ IF p <= 0 THEN y = p ELSE IF call.floors > 0 THEN y = 1 /\ p < r ELSE y > 0 /\ Divided(y, p, r)
  <2>1. CASE p <= 0 BY <1>0, <1>3, <2>1
  <2>2. CASE p > 0
    <3> DEFINE q == p \div r
    <3>1. q \in Nat /\ q * r <= p /\ p < (q + 1) * r BY <1>0, <2>2, DivIs
    <3>2. y = at_least(1, q) /\ (call.floors > 0 <=> q < 1) BY <1>0, <1>3, <1>4, <2>2
    <3> HIDE DEF q
    <3>3. CASE q = 0 BY <1>0, <2>2, <3>1, <3>2, <3>3 DEF at_least
    <3>4. CASE q # 0
      <4>1. y = q /\ ~(call.floors > 0) /\ q > 0 BY <3>1, <3>2, <3>4 DEF at_least
      <4>2. Divided(y, p, r) BY <3>1, <4>1 DEF Divided
      <4> QED BY <1>0, <2>2, <3>1, <4>1, <4>2
    <3> QED BY <3>3, <3>4
  <2> QED BY <1>0, <2>1, <2>2
<1>7. x \in Int BY <1>0, <1>5
<1>8. got = [n |-> x, period |-> y] BY <1>0, <1>6, <1>7 DEF Args, x, y, r
<1>9. got.n = x /\ got.period = y
  <2>1. [n |-> x, period |-> y].n = x /\ [n |-> x, period |-> y].period = y OBVIOUS
  <2> QED BY <1>8, <2>1
<1>10. /\ call.m = (IF n < 0 THEN r ELSE l) /\ call.dues = (IF n >= 0 THEN 1 ELSE 0)
       /\ call.export \notin Sleeps /\ call.export # "NtDelayExecution"
  BY DEF r, l, Settable, Sleeps
<1>11. IsTheAsked(call, got)
  <2>1. TimerAsAsked(call, n, call.m, got) BY <1>0, <1>5, <1>9, <1>10 DEF TimerAsAsked
  <2>2. PeriodAsAsked(p, call.floors > 0, got) BY <1>6, <1>9 DEF PeriodAsAsked, r
  <2> QED BY <2>1, <2>2, AskedCases
<1>12. ASSUME ~thread.scaled, n < 0 PROVE AsItCame(call, got)
  <2>1. r = 1 BY <1>0, <1>12
  <2>2. x = n
    <3>1. (-n) \div 1 = -n BY <1>0, <1>12, DivIs
    <3> QED BY <1>0, <1>2, <1>12, <2>1, <3>1
  <2>3. y = p
    <3>1. CASE p > 0
      <4>1. p \div 1 = p BY <1>0, <3>1, DivIs
      <4> QED BY <1>0, <1>3, <2>1, <3>1, <4>1 DEF at_least
    <3> QED BY <1>0, <1>3, <3>1
  <2>4. call.arg = [n |-> n, period |-> p] BY <1>0 DEF Args
  <2> QED BY <1>8, <1>10, <2>2, <2>3, <2>4 DEF AsItCame
<1> QED BY <1>11, <1>12

LEMMA ElapseIsAsked ==
    ASSUME NEW call \in CallRecords, call.export = "SetTimer", call.arg.n \in Nat,
           NEW m \in Nat \ {0}, call.m = m, call.floors > 0 <=> timer_elapse_hit_floor(call.arg.n, m),
           NEW got, got = [call.arg EXCEPT !.n = scale_timer_elapse(call.arg.n, m)]
    PROVE  IsTheAsked(call, got) /\ ~(call.arg.n < 0)
<1> DEFINE n == call.arg.n  q == n \div m
<1>0. n \in Nat /\ call.arg \in Args /\ at_least(1, m) = m BY DEF CallRecords, at_least
<1>1. q \in Nat /\ q * m <= n /\ n < (q + 1) * m BY <1>0, DivIs
<1>2. scale_timer_elapse(n, m) = q BY <1>0 DEF scale_timer_elapse
<1> HIDE DEF q
<1>3. got.n = q BY <1>0, <1>1, <1>2 DEF Args
<1>4. Divided(got.n, n, m) BY <1>1, <1>3 DEF Divided
<1>5. call.floors > 0 <=> n >= USER_TIMER_MINIMUM_MS /\ got.n < USER_TIMER_MINIMUM_MS
  BY <1>2, <1>3 DEF timer_elapse_hit_floor
<1>6. ElapseAsAsked(n, m, call.floors > 0, got) BY <1>4, <1>5 DEF ElapseAsAsked
<1> QED BY <1>0, <1>6, AskedCases

-----------------------------------------------------------------------------
(* The stack.                                                              *)

\* A frame is of the kind it says.
LEMMA FrameIs ==
    ASSUME NEW x \in Frames
    PROVE  /\ x.at \in {"app", "detour", "kernel"}
           /\ x.at = "app" => x \in AppFrames
           /\ x.at = "detour" => x \in DetourFrames
           /\ x.at = "kernel" => x \in KernelFrames
<1>1. CASE x \in AppFrames BY <1>1 DEF AppFrames
<1>2. CASE x \in DetourFrames BY <1>2 DEF DetourFrames
<1>3. CASE x \in KernelFrames BY <1>3 DEF KernelFrames
<1> QED BY <1>1, <1>2, <1>3 DEF Frames

\* What stands in each place of it.
LEMMA StackIs ==
    ASSUME CallTypes
    PROVE  /\ Len(stack) \in Nat \ {0} /\ DOMAIN stack = 1..Len(stack) /\ Top = stack[Len(stack)] /\ Top \in Frames
           /\ \A i \in 1..Len(stack) :
                /\ stack[i] \in Frames /\ stack[i].at \in {"app", "detour", "kernel"}
                /\ stack[i].at = "app" => stack[i] \in AppFrames /\ (stack[i].call # NoCall => stack[i].call \in CallRecords)
                /\ stack[i].at = "detour" => stack[i] \in DetourFrames
                /\ stack[i].at = "kernel" => stack[i] \in KernelFrames
<1>1. Len(stack) \in Nat \ {0} /\ DOMAIN stack = 1..Len(stack) /\ Top = stack[Len(stack)]
  BY LenProperties DEF CallTypes, Top
<1>2. \A i \in 1..Len(stack) : stack[i] \in Frames BY ElementOfSeq DEF CallTypes
<1>3. Top \in Frames BY <1>1, <1>2
<1>4. \A x \in AppFrames : x.call # NoCall => x.call \in CallRecords BY DEF AppFrames
<1> QED BY <1>1, <1>2, <1>3, <1>4, FrameIs

\* No call and a call.
LEMMA CallIs ==
    NoCall \notin CallRecords
<1>1. \A c \in CallRecords : c.export \in Exports BY DEF CallRecords
<1>2. NoCall.export = "none" /\ "none" \notin Exports
  BY DEF NoCall, Exports, Sleeps, Objects, Settable
<1> QED BY <1>1, <1>2

\* A frame runs for one application frame.
LEMMA RunsForOne ==
    ASSUME CallTypes, NEW i \in 1..Len(stack), NEW a, NEW b, RunsFor(a, i), RunsFor(b, i)
    PROVE  a = b
<1>1. a \in 1..i /\ b \in 1..i /\ i \in Nat /\ a \in Int /\ b \in Int BY StackIs DEF RunsFor
<1>2. ~(a < b) BY <1>1 DEF RunsFor
<1>3. ~(b < a) BY <1>1 DEF RunsFor
<1> QED BY <1>1, <1>2, <1>3

\* The application frame that is asked of is below the detour or the wait on top, and in a call.
LEMMA OwnerIs ==
    ASSUME CallTypes, ShapeInv, OwnerInv, Top.at # "app"
    PROVE  /\ AppFrame \in 1..Len(stack) /\ AppFrame < Len(stack) /\ RunsFor(AppFrame, Len(stack))
           /\ \A a : RunsFor(a, Len(stack)) => a = AppFrame
           /\ stack[AppFrame] \in AppFrames /\ stack[AppFrame].at = "app" /\ Asked = stack[AppFrame].call
           /\ Asked \in CallRecords /\ Asked.arg \in Asks(Asked.export)
<1> DEFINE n == Len(stack)
           P(i) == stack[i].at = "app" /\ \A j \in (i + 1)..n : stack[j].at # "app"
<1>1. n \in Nat \ {0} /\ n \in 1..n /\ Top = stack[n] BY StackIs
<1>2. PICK a \in 1..n : RunsFor(a, n) BY <1>1 DEF OwnerInv
<1>3. \E i \in 1..n : P(i) BY <1>2 DEF RunsFor
<1>4. AppFrame = CHOOSE i \in 1..n : P(i) BY DEF AppFrame
<1>5. AppFrame \in 1..n /\ P(AppFrame)
  <2> HIDE DEF P
  <2> QED BY <1>3, <1>4
<1>6. RunsFor(AppFrame, n) /\ AppFrame < n BY <1>1, <1>5 DEF RunsFor
<1>7. \A b : RunsFor(b, n) => b = AppFrame BY <1>1, <1>6, RunsForOne
<1>8. stack[AppFrame] \in AppFrames /\ stack[AppFrame].call # NoCall
  BY <1>5, <1>6, StackIs DEF ShapeInv, Stands
<1>9. Asked \in CallRecords /\ Asked.arg \in Asks(Asked.export)
  BY <1>5, <1>8, StackIs DEF ShapeInv, Stands, Asked
<1> QED BY <1>5, <1>6, <1>7, <1>8, <1>9 DEF Asked

\* A detour goes on: it and its call are all that changes.
LEMMA GoesIs ==
    ASSUME CallTypes, ShapeInv, OwnerInv, Top.at = "detour",
           NEW frame \in DetourFrames, NEW call \in CallRecords, Goes(frame, call)
    PROVE  /\ stack' \in Seq(Frames) /\ Len(stack') = Len(stack)
           /\ stack'[Len(stack)] = frame /\ stack'[AppFrame] = [at |-> "app", call |-> call]
           /\ \A i \in 1..Len(stack) : i \notin {AppFrame, Len(stack)} => stack'[i] = stack[i]
           /\ \A i \in 1..Len(stack) : stack'[i].at = stack[i].at
           /\ stack'[1].at = "app"
<1> DEFINE n == Len(stack)  a == AppFrame  s == [stack EXCEPT ![n] = frame]
           top == [s[a] EXCEPT !.call = call]
<1>1. n \in Nat \ {0} /\ n \in 1..n /\ Top = stack[n] /\ stack \in Seq(Frames) /\ 1 \in 1..n /\ frame \in Frames
  BY StackIs DEF CallTypes, Frames
<1>2. a \in 1..n /\ a < n /\ a # n /\ stack[a] \in AppFrames /\ stack[a].at = "app" BY OwnerIs
<1>3. s \in Seq(Frames) /\ Len(s) = n /\ \A j \in 1..n : s[j] = IF j = n THEN frame ELSE stack[j]
  BY <1>1, ExceptSeq
<1>4. s[a] = stack[a] BY <1>2, <1>3
<1>5. top = [at |-> "app", call |-> call] /\ top \in AppFrames /\ top \in Frames
  BY <1>2, <1>4 DEF AppFrames, Frames
<1>6. stack' = [s EXCEPT ![a] = top] BY DEF Goes
<1> HIDE DEF s, top, a, n
<1>7. /\ stack' \in Seq(Frames) /\ Len(stack') = n
      /\ \A j \in 1..n : stack'[j] = IF j = a THEN top ELSE s[j]
  BY <1>2, <1>3, <1>5, <1>6, ExceptSeq
<1>8. \A j \in 1..n : stack'[j] = IF j = a THEN top ELSE IF j = n THEN frame ELSE stack[j]
  BY <1>3, <1>7
<1>9. top.at = "app" /\ frame.at = "detour" BY <1>5 DEF DetourFrames
<1>10. \A i \in 1..n : stack'[i].at = stack[i].at BY <1>1, <1>2, <1>8, <1>9
<1>11. stack'[n] = frame /\ stack'[a] = top BY <1>1, <1>2, <1>8
<1>12. stack'[1].at = "app" BY <1>1, <1>10 DEF CallTypes
<1> QED BY <1>5, <1>7, <1>8, <1>10, <1>11, <1>12 DEF a, n

\* The frames stand as they did.
LEMMA GoesShape ==
    ASSUME CallTypes, ShapeInv, OwnerInv, Top.at = "detour",
           NEW frame \in DetourFrames, NEW call \in CallRecords, Goes(frame, call),
           frame.export = Top.export, frame.alertable = Top.alertable,
           call.export = Asked.export, call.arg = Asked.arg
    PROVE  /\ ShapeInv' /\ OwnerInv'
           /\ \A a, i \in 1..Len(stack) : RunsFor(a, i)' <=> RunsFor(a, i)
<1> DEFINE n == Len(stack)  o == AppFrame
<1>0. n \in Nat \ {0} /\ Top = stack[n] /\ n \in 1..n /\ frame.at = "detour"
  BY StackIs DEF DetourFrames
<1>1. /\ o \in 1..n /\ o < n /\ stack[o].at = "app" /\ Asked = stack[o].call
      /\ Asked \in CallRecords /\ Asked.arg \in Asks(Asked.export)
  BY OwnerIs
<1>2. /\ Len(stack') = n /\ stack'[n] = frame /\ stack'[o] = [at |-> "app", call |-> call]
      /\ \A i \in 1..n : i \notin {o, n} => stack'[i] = stack[i]
      /\ \A i \in 1..n : stack'[i].at = stack[i].at
  BY GoesIs
<1> HIDE DEF o
<1>3. \A a, i \in 1..n : RunsFor(a, i)' <=> RunsFor(a, i) BY <1>2 DEF RunsFor
<1>4. OwnerInv' BY <1>2, <1>3 DEF OwnerInv
<1>5. stack'[o].call = call /\ call # NoCall BY <1>2, CallIs
<1>6. ASSUME NEW i \in 1..n PROVE Stands(i)'
  <2>1. Stands(i) BY DEF ShapeInv
  <2>2. CASE i = o
    <3>1. i > 1 => stack'[i - 1] = stack[i - 1] BY <1>0, <1>1, <1>2, <2>2
    <3> QED BY <1>0, <1>1, <1>2, <1>5, <2>1, <2>2, <3>1 DEF Stands
  <2>3. CASE i = n
    <3>1. i > 1 => i - 1 \in 1..n /\ (i - 1 # o => stack'[i - 1] = stack[i - 1])
      BY <1>0, <1>1, <1>2, <2>3
    <3>2. stack'[i] = frame BY <1>2, <2>3
    <3>3. i > 1 /\ i - 1 = o => stack'[i - 1].at = "app" /\ stack'[i - 1].call = call BY <1>2, <1>5
    <3> QED BY <1>0, <1>1, <1>2, <2>1, <2>3, <3>1, <3>2, <3>3 DEF Stands
  <2>4. CASE i \notin {o, n}
    <3>1. stack'[i] = stack[i] BY <1>2, <2>4
    <3>2. i > 1 => i - 1 \in 1..n /\ i - 1 # n /\ (i - 1 # o => stack'[i - 1] = stack[i - 1])
      BY <1>0, <1>1, <1>2, <2>4
    <3>3. i - 1 = o => /\ stack'[i - 1].at = "app" /\ stack'[i - 1].call = call
                       /\ stack[i - 1].at = "app" /\ stack[i - 1].call = Asked
      BY <1>1, <1>2, <1>5
    <3> QED BY <1>0, <1>1, <1>2, <2>1, <2>4, <3>1, <3>2, <3>3 DEF Stands
  <2> QED BY <2>2, <2>3, <2>4
<1>7. ShapeInv' BY <1>2, <1>6 DEF ShapeInv
<1> QED BY <1>3, <1>4, <1>7

\* What the calls have come to stays, if it does for the frames of this one.
LEMMA GoesTaken ==
    ASSUME CallTypes, ShapeInv, OwnerInv, TakenInv, Top.at = "detour", UNCHANGED <<storage, thread, over>>,
           NEW frame \in DetourFrames, NEW call \in CallRecords, Goes(frame, call),
           frame.export = Top.export, frame.alertable = Top.alertable,
           call.export = Asked.export, call.arg = Asked.arg,
           Taken(call, frame, Len(stack) = AppFrame + 1),
           \A i \in (AppFrame + 1)..(Len(stack) - 1) : Taken(call, stack[i], i = AppFrame + 1)
    PROVE  TakenInv'
<1> DEFINE n == Len(stack)  o == AppFrame
<1>0. n \in Nat \ {0} /\ Top = stack[n] /\ n \in 1..n BY StackIs
<1>1. o \in 1..n /\ o < n /\ RunsFor(o, n) /\ stack[o].at = "app" /\ \A a : RunsFor(a, n) => a = o
  BY OwnerIs
<1>2. /\ Len(stack') = n /\ stack'[n] = frame /\ stack'[o] = [at |-> "app", call |-> call]
      /\ \A i \in 1..n : i \notin {o, n} => stack'[i] = stack[i]
  BY GoesIs
<1>3. \A a, i \in 1..n : RunsFor(a, i)' <=> RunsFor(a, i) BY GoesShape
<1> HIDE DEF o
<1>4. ASSUME NEW i \in 1..n, NEW a \in 1..n, a < i, RunsFor(a, i)
      PROVE  Taken(stack'[a].call, stack'[i], i = a + 1)
  <2>1. CASE i = n
    <3>1. a = o BY <1>1, <1>4, <2>1
    <3>2. stack'[a].call = call /\ stack'[i] = frame BY <1>2, <2>1, <3>1
    <3> QED BY <2>1, <3>1, <3>2 DEF o
  <2>2. CASE i # n /\ a = o
    <3>1. i # o /\ stack'[i] = stack[i] /\ stack'[a].call = call /\ i \in (o + 1)..(n - 1)
      BY <1>0, <1>1, <1>2, <1>4, <2>2
    <3>2. Taken(call, stack[i], i = o + 1) BY <3>1 DEF o
    <3> QED BY <2>2, <3>1, <3>2
  <2>3. CASE i # n /\ a # o
    <3>1. a \in 1..n /\ a # n /\ stack'[a] = stack[a] BY <1>0, <1>2, <1>4, <2>3
    <3>2. i # o
      <4>1. i \in (a + 1)..i BY <1>0, <1>4
      <4>2. stack[i].at # "app" BY <1>4, <4>1 DEF RunsFor
      <4> QED BY <1>1, <4>2
    <3>3. stack'[i] = stack[i] BY <1>2, <2>3, <3>2
    <3>4. Taken(stack[a].call, stack[i], i = a + 1) BY <1>4 DEF TakenInv
    <3> QED BY <3>1, <3>3, <3>4
  <2> QED BY <2>1, <2>2, <2>3
<1>5. ASSUME NEW i \in 1..n, NEW a \in 1..n, a < i, RunsFor(a, i)'
      PROVE  Taken(stack[a].call, stack[i], i = a + 1)'
  <2>1. Taken(stack'[a].call, stack'[i], i = a + 1) BY <1>3, <1>4, <1>5
  <2> QED BY <2>1 DEF Taken, Untouched, Counted, Sound, IsTheAsked, PeriodAsAsked, RelativeRate
<1> QED BY <1>2, <1>5 DEF TakenInv

\* A frame more: what was below the last stands as it did.
LEMMA PushKeeps ==
    ASSUME CallTypes, ShapeInv, OwnerInv, KeepInv, TakenInv, UNCHANGED <<storage, thread, over>>,
           NEW n \in Nat, Len(stack) = n,
           stack' \in Seq(Frames), Len(stack') = n + 1,
           \A i \in 1..n : i # n => stack'[i] = stack[i],
           stack'[n].at = stack[n].at,
           Stands(n)', Stands(n + 1)', Keeps(n)', Keeps(n + 1)',
           \A i \in {n, n + 1} : \A a \in 1..n :
                a < i /\ RunsFor(a, i)' => Taken(stack'[a].call, stack'[i], i = a + 1)
    PROVE  stack'[1].at = "app" /\ ShapeInv' /\ OwnerInv' /\ KeepInv' /\ TakenInv'
<1>0. n \in Nat \ {0} /\ 1 \in 1..n /\ n \in 1..n
  <2>1. n \in Nat \ {0} BY StackIs
  <2> QED BY <2>1
<1>1. \A i \in 1..n : stack'[i].at = stack[i].at OBVIOUS
<1>2. \A a, i \in 1..n : RunsFor(a, i)' <=> RunsFor(a, i) BY <1>0, <1>1 DEF RunsFor
<1>3. stack'[1].at = "app" BY <1>0, <1>1 DEF CallTypes
<1>4. OwnerInv'
  <2>1. ASSUME NEW i \in 1..n PROVE \E a \in 1..i : RunsFor(a, i)'
    <3>1. PICK a \in 1..i : RunsFor(a, i) BY DEF OwnerInv
    <3>2. a \in 1..n BY <1>0
    <3> QED BY <1>2, <3>1, <3>2
  <2>2. \E a \in 1..(n + 1) : RunsFor(a, n + 1)'
    <3>1. CASE stack'[n + 1].at = "app"
      <4>1. RunsFor(n + 1, n + 1)' BY <1>0, <3>1 DEF RunsFor
      <4> QED BY <1>0, <4>1
    <3>2. CASE stack'[n + 1].at # "app"
      <4>1. PICK a \in 1..n : RunsFor(a, n)' BY <1>0, <2>1
      <4>2. \A j \in (a + 1)..(n + 1) : j = n + 1 \/ j \in (a + 1)..n BY <1>0
      <4>3. RunsFor(a, n + 1)' BY <1>0, <3>2, <4>1, <4>2 DEF RunsFor
      <4> QED BY <1>0, <4>3
    <3> QED BY <3>1, <3>2
  <2>3. \A i \in 1..(n + 1) : i \in 1..n \/ i = n + 1 BY <1>0
  <2> QED BY <2>1, <2>2, <2>3 DEF OwnerInv
<1>5. ASSUME NEW i \in 1..n, i # n PROVE Stands(i)' /\ Keeps(i)'
  <2>1. stack'[i] = stack[i] /\ (i > 1 => i - 1 \in 1..n /\ stack'[i - 1] = stack[i - 1]) /\ i < n /\ i < n + 1
    BY <1>0, <1>5
  <2>2. Stands(i) /\ Keeps(i) BY DEF ShapeInv, KeepInv
  <2>3. Stands(i)' BY <2>1, <2>2 DEF Stands
  <2>4. Keeps(i)'
    <3>1. i > 1 \/ stack[i].at = "app" BY <1>0 DEF CallTypes
    <3> QED BY <2>1, <2>2, <3>1 DEF Keeps, First
  <2> QED BY <2>3, <2>4
<1>6. \A i \in 1..(n + 1) : (i \in 1..n /\ i # n) \/ i = n \/ i = n + 1 BY <1>0
<1>7. ShapeInv' /\ KeepInv'
  <2>1. \A i \in 1..(n + 1) : Stands(i)' /\ Keeps(i)' BY <1>5, <1>6
  <2> QED BY <2>1 DEF ShapeInv, KeepInv
<1>8. ASSUME NEW i \in 1..(n + 1), NEW a \in 1..(n + 1), a < i, RunsFor(a, i)'
      PROVE  Taken(stack'[a].call, stack'[i], i = a + 1)
  <2>1. a \in 1..n BY <1>0, <1>8
  <2>2. CASE i \in {n, n + 1} BY <1>8, <2>1, <2>2
  <2>3. CASE i \in 1..n /\ i # n
    <3>1. RunsFor(a, i) /\ a # n /\ stack'[a] = stack[a] /\ stack'[i] = stack[i]
      BY <1>0, <1>2, <1>8, <2>1, <2>3
    <3>2. Taken(stack[a].call, stack[i], i = a + 1) BY <1>8, <2>1, <2>3, <3>1 DEF TakenInv
    <3> QED BY <3>1, <3>2
  <2> QED BY <1>6, <2>2, <2>3
<1>9. TakenInv'
  <2>1. ASSUME NEW i \in 1..(n + 1), NEW a \in 1..(n + 1), a < i, RunsFor(a, i)'
        PROVE  Taken(stack[a].call, stack[i], i = a + 1)'
    <3>1. Taken(stack'[a].call, stack'[i], i = a + 1) BY <1>8, <2>1
    <3> QED BY <3>1 DEF Taken, Untouched, Counted, Sound, IsTheAsked, PeriodAsAsked, RelativeRate
  <2> QED BY <2>1 DEF TakenInv
<1> QED BY <1>3, <1>4, <1>7, <1>9

\* Frames less: what stays stands as it did, and an application frame is out of its call.
LEMMA PopKeeps ==
    ASSUME CallTypes, ShapeInv, OwnerInv, KeepInv, TakenInv, UNCHANGED <<storage, thread, over>>,
           NEW k \in 1..Len(stack), k < Len(stack), stack' \in Seq(Frames), Len(stack') = k,
           \A i \in 1..k : i # k => stack'[i] = stack[i],
           \/ stack'[k] = stack[k]
           \/ stack[k].at = "app" /\ stack'[k] = [at |-> "app", call |-> NoCall]
    PROVE  stack'[1].at = "app" /\ ShapeInv' /\ OwnerInv' /\ KeepInv' /\ TakenInv'
<1> DEFINE n == Len(stack)
<1>0. n \in Nat \ {0} /\ k \in Nat /\ 1 \in 1..k /\ 1..k \subseteq 1..n /\ k \in 1..k BY StackIs
<1>1. \A i \in 1..k : stack'[i].at = stack[i].at OBVIOUS
<1>2. \A a, i \in 1..k : RunsFor(a, i)' <=> RunsFor(a, i) BY <1>0, <1>1 DEF RunsFor
<1>3. stack'[1].at = "app" BY <1>0, <1>1 DEF CallTypes
<1>4. OwnerInv'
  <2>1. ASSUME NEW i \in 1..k PROVE \E a \in 1..i : RunsFor(a, i)'
    <3>1. PICK a \in 1..i : RunsFor(a, i) BY <1>0 DEF OwnerInv
    <3>2. a \in 1..k BY <1>0
    <3> QED BY <1>2, <3>1, <3>2
  <2> QED BY <2>1 DEF OwnerInv
<1>5. ASSUME NEW i \in 1..k PROVE Stands(i)' /\ Keeps(i)'
  <2>1. Stands(i) /\ Keeps(i) /\ i \in 1..n BY <1>0 DEF ShapeInv, KeepInv
  <2>2. i > 1 => i - 1 \in 1..k /\ i - 1 # k /\ stack'[i - 1] = stack[i - 1] BY <1>0
  <2>3. i < k => i < n /\ stack'[i] = stack[i] BY <1>0
  <2>4. CASE stack'[i] = stack[i]
    <3>1. Stands(i)' BY <1>0, <2>1, <2>2, <2>3, <2>4 DEF Stands
    <3>2. stack[i].at # "app" => i > 1 BY <1>0, <2>1 DEF Stands, CallTypes
    <3>3. stack[i].at # "app" => (First(i)' <=> First(i)) BY <2>2, <3>2 DEF First
    <3>4. Keeps(i)' BY <2>1, <2>4, <3>3, StackIs DEF Keeps
    <3> QED BY <3>1, <3>4
  <2>5. CASE stack'[i] # stack[i]
    <3>1. i = k /\ stack[i].at = "app" /\ stack'[i].at = "app" /\ stack'[i].call = NoCall BY <2>5
    <3>2. Stands(i)' BY <1>0, <2>1, <2>2, <3>1, CallIs DEF Stands
    <3> QED BY <3>1, <3>2 DEF Keeps
  <2> QED BY <2>4, <2>5
<1>6. ShapeInv' /\ KeepInv' BY <1>5 DEF ShapeInv, KeepInv
<1>7. ASSUME NEW i \in 1..k, NEW a \in 1..k, a < i, RunsFor(a, i)'
      PROVE  Taken(stack[a].call, stack[i], i = a + 1)'
  <2>1. RunsFor(a, i) /\ a # k /\ stack'[a] = stack[a] BY <1>0, <1>2, <1>7
  <2>2. stack'[i] = stack[i]
    <3>1. i \in (a + 1)..i BY <1>0, <1>7
    <3>2. stack[i].at # "app" BY <2>1, <3>1 DEF RunsFor
    <3> QED BY <3>2
  <2>3. Taken(stack[a].call, stack[i], i = a + 1) BY <1>0, <1>7, <2>1 DEF TakenInv
  <2>4. Taken(stack'[a].call, stack'[i], i = a + 1) BY <2>1, <2>2, <2>3
  <2> QED BY <2>4 DEF Taken, Untouched, Counted, Sound, IsTheAsked, PeriodAsAsked, RelativeRate
<1>8. TakenInv' BY <1>7 DEF TakenInv
<1> QED BY <1>3, <1>4, <1>6, <1>8

-----------------------------------------------------------------------------
(* The exports.                                                            *)

\* Whose family an export is of, and where Windows' own code leads from it.
LEMMA ExportIs ==
    ASSUME NEW e \in Exports
    PROVE  /\ e # "SetTimer" <=> Family(e) \in Families
           /\ Family(e) = "scaling" <=> e \in Sleeps \cup {"NtDelayExecution"}
           /\ Family(e) = "observing" <=> e \in Objects
           /\ Family(e) = "timer" <=> e \in Settable
           /\ "kernel" \in Leads(e) => e \notin Sleeps /\ (e \in Alertables => Lowers(e))
           /\ \A to \in Leads(e) : to # "kernel" =>
                /\ to \in Exports /\ to # "SetTimer" /\ Family(to) = Family(e) /\ e # "SetTimer"
                /\ e \in Alertables => to \in Alertables
                /\ e \in Sleeps <=> to \in Sleeps \cup {"NtDelayExecution"}
                /\ to = "NtDelayExecution" <=> e = "SleepEx"
<1>1. /\ e \in {"Sleep", "SleepEx"} \cup {"WaitForSingleObject", "WaitForSingleObjectEx", "WSAWaitForMultipleEvents", "WaitForMultipleObjectsEx"}
         \cup {"SetWaitableTimer", "SetWaitableTimerEx", "SetThreadpoolTimer", "SetThreadpoolTimerEx"} \cup {"NtDelayExecution", "SetTimer"}
  BY DEF Exports, Sleeps, Objects, Settable
<1>2. CASE e \in {"Sleep", "SleepEx", "NtDelayExecution"}
  BY <1>2 DEF Family, Families, Leads, Lowers, Exports, Sleeps, Objects, Settable, Alertables
<1>3. CASE e \in Objects
  BY <1>3 DEF Family, Families, Leads, Lowers, Exports, Sleeps, Objects, Settable, Alertables
<1>4. CASE e \in Settable
  BY <1>4 DEF Family, Families, Leads, Lowers, Exports, Sleeps, Objects, Settable, Alertables
<1>5. CASE e = "SetTimer"
  BY <1>5 DEF Family, Families, Leads, Lowers, Exports, Sleeps, Objects, Settable, Alertables
<1> QED BY <1>1, <1>2, <1>3, <1>4, <1>5 DEF Objects, Settable

\* What may be asked of an export.
LEMMA AsksAre ==
    ASSUME NEW e \in Exports, NEW arg \in Asks(e)
    PROVE  /\ arg \in Args
           /\ e \in Sleeps \cup Objects => arg.n \in 0..INFINITE_MS
           /\ e = "SetTimer" => arg.n \in Nat
<1>0. /\ INFINITE_MS \in Nat /\ Milliseconds \subseteq 0..INFINITE_MS /\ Delays \subseteq Int
      /\ TimerArgs \subseteq Args /\ Elapses \subseteq Nat
  BY DetourCallsAssumption DEF Args
<1>1. Milliseconds \subseteq Int /\ Elapses \subseteq Int BY <1>0
<1>2. ASSUME NEW S, S \subseteq Int, NEW a \in [n : S, period : {0}] PROVE a \in Args /\ a.n \in S
  <2>1. a = [n |-> a.n, period |-> a.period] /\ a.n \in S /\ a.period \in {0} BY <1>2
  <2>2. a.n \in Int /\ a.period \in Int
    <3>1. a.n \in Int BY <1>2, <2>1, Zenon
    <3>2. a.period = 0 BY <2>1
    <3> QED BY <3>1, <3>2
  <2> QED BY <2>1, <2>2 DEF Args
<1>3. /\ e \in Sleeps \cup Objects => Asks(e) = [n : Milliseconds, period : {0}] /\ e # "SetTimer"
      /\ e = "NtDelayExecution" => Asks(e) = [n : Delays, period : {0}] /\ e # "SetTimer" /\ e \notin Sleeps \cup Objects
      /\ e \in Settable => Asks(e) = TimerArgs /\ e # "SetTimer" /\ e \notin Sleeps \cup Objects
      /\ e = "SetTimer" => Asks(e) = [n : Elapses, period : {0}] /\ e \notin Sleeps \cup Objects
  BY DEF Asks, Sleeps, Objects, Settable
<1>4. e \in Sleeps \cup Objects \/ e = "NtDelayExecution" \/ e \in Settable \/ e = "SetTimer"
  BY DEF Exports
<1>5. CASE e \in Sleeps \cup Objects
  <2>1. arg \in [n : Milliseconds, period : {0}] /\ e # "SetTimer" BY <1>3, <1>5
  <2>2. arg \in Args /\ arg.n \in Milliseconds BY <1>1, <1>2, <2>1
  <2> QED BY <1>0, <2>1, <2>2
<1>6. CASE e = "NtDelayExecution"
  <2>1. arg \in [n : Delays, period : {0}] /\ e # "SetTimer" /\ e \notin Sleeps \cup Objects
    BY <1>3, <1>6
  <2> QED BY <1>0, <1>2, <2>1
<1>7. CASE e \in Settable BY <1>0, <1>3, <1>7
<1>8. CASE e = "SetTimer"
  <2>1. arg \in [n : Elapses, period : {0}] /\ e \notin Sleeps \cup Objects BY <1>3, <1>8
  <2>2. arg \in Args /\ arg.n \in Elapses BY <1>1, <1>2, <2>1
  <2> QED BY <1>0, <2>1, <2>2
<1> QED BY <1>4, <1>5, <1>6, <1>7, <1>8

\* An argument on its way down is the same length for the kernel.
LEMMA HandedIs ==
    ASSUME NEW e \in Exports, NEW to \in Leads(e), to # "kernel", NEW arg \in Args
    PROVE  Handed(e, to, arg) \in Args /\ InKernelUnits(to, Handed(e, to, arg)) = InKernelUnits(e, arg)
<1>1. CASE to = "NtDelayExecution"
  <2>1. e = "SleepEx" /\ e \in Sleeps /\ to \notin Sleeps BY <1>1, ExportIs DEF Sleeps
  <2>2. TICKS_PER_MS \in Nat /\ Forever \in Int /\ arg.n \in Int /\ arg.n * TICKS_PER_MS \in Int
    BY ClockMathAssumption DEF Forever, Args
  <2>3. Handed(e, to, arg) \in Args BY <1>1, <2>2 DEF Handed, Args
  <2> QED BY <1>1, <2>1, <2>3 DEF InKernelUnits
<1>2. CASE to # "NtDelayExecution"
  <2>1. Handed(e, to, arg) = arg BY <1>2 DEF Handed
  <2>2. e \in Sleeps <=> to \in Sleeps BY <1>2, ExportIs
  <2>3. e \in Sleeps => arg = arg OBVIOUS
  <2> QED BY <2>1, <2>2 DEF InKernelUnits
<1> QED BY <1>1, <1>2

\* The frame on top of a call is its first one where nothing stands between.
LEMMA FirstIs ==
    ASSUME CallTypes, ShapeInv, OwnerInv, Top.at # "app"
    PROVE  /\ Len(stack) > 1
           /\ First(Len(stack)) <=> Len(stack) = AppFrame + 1
           /\ First(Len(stack)) => Asked.export = Top.export
<1>1. /\ AppFrame \in 1..Len(stack) /\ AppFrame < Len(stack) /\ RunsFor(AppFrame, Len(stack))
      /\ stack[AppFrame].at = "app" /\ Asked = stack[AppFrame].call /\ Asked \in CallRecords
  BY OwnerIs
<1>2. Len(stack) \in Nat \ {0} /\ Top = stack[Len(stack)] /\ Top.at \in {"detour", "kernel"}
  <2>1. Len(stack) \in Nat \ {0} /\ Top = stack[Len(stack)] /\ Top \in Frames BY StackIs
  <2> QED BY <2>1, FrameIs
<1>3. ASSUME First(Len(stack)) PROVE Len(stack) = AppFrame + 1
  <2>1. Len(stack) - 1 \in AppFrame..Len(stack) /\ stack[Len(stack) - 1].at = "app"
    BY <1>1, <1>2, <1>3 DEF First
  <2>2. Len(stack) - 1 \notin (AppFrame + 1)..Len(stack) BY <2>1, <1>1 DEF RunsFor
  <2> QED BY <1>1, <1>2, <2>1, <2>2
<1>4. ASSUME Len(stack) = AppFrame + 1 PROVE First(Len(stack)) /\ Asked.export = Top.export
  <2>1. Len(stack) - 1 = AppFrame /\ Len(stack) \in 1..Len(stack) BY <1>1, <1>2, <1>4
  <2>2. Stands(Len(stack)) BY <2>1 DEF ShapeInv
  <2> QED BY <1>1, <1>2, <2>1, <2>2 DEF First, Stands
<1> QED BY <1>1, <1>2, <1>3, <1>4

\* What is known of the frame on top.
LEMMA TopIs ==
    ASSUME DetourInv, Top.at # "app"
    PROVE  /\ Taken(Asked, Top, Len(stack) = AppFrame + 1)
           /\ Stands(Len(stack)) /\ Keeps(Len(stack))
           /\ \A i \in (AppFrame + 1)..(Len(stack) - 1) :
                /\ stack[i] \in DetourFrames /\ stack[i].pc = "return"
                /\ Taken(Asked, stack[i], i = AppFrame + 1)
<1> DEFINE n == Len(stack)  o == AppFrame
<1>0. CallTypes /\ ShapeInv /\ OwnerInv /\ KeepInv /\ TakenInv BY DEF DetourInv
<1>1. n \in Nat \ {0} /\ n \in 1..n /\ Top = stack[n] BY <1>0, StackIs
<1>2. o \in 1..n /\ o < n /\ RunsFor(o, n) /\ Asked = stack[o].call BY <1>0, OwnerIs
<1>3. Taken(Asked, Top, n = o + 1) /\ Stands(n) /\ Keeps(n)
  BY <1>0, <1>1, <1>2 DEF TakenInv, ShapeInv, KeepInv
<1>4. ASSUME NEW i \in (o + 1)..(n - 1)
      PROVE  stack[i] \in DetourFrames /\ stack[i].pc = "return" /\ Taken(Asked, stack[i], i = o + 1)
  <2>1. i \in 1..n /\ i < n /\ o < i /\ i + 1 \in 1..n /\ RunsFor(o, i) BY <1>1, <1>2 DEF RunsFor
  <2>2. Taken(Asked, stack[i], i = o + 1) BY <1>0, <1>2, <2>1 DEF TakenInv
  <2>3. Stands(i) /\ Stands(i + 1) BY <1>0, <2>1 DEF ShapeInv
  <2>4. stack[i].at # "app" /\ stack[i + 1].at # "app" BY <1>1, <1>2, <2>1 DEF RunsFor
  <2>5. stack[i + 1].at \in {"detour", "kernel"} /\ i + 1 - 1 = i BY <1>0, <2>1, <2>4, StackIs
  <2>6. stack[i].at = "detour" BY <2>3, <2>4, <2>5 DEF Stands
  <2> QED BY <1>0, <2>1, <2>2, <2>3, <2>6, StackIs DEF Stands
<1> QED BY <1>3, <1>4

-----------------------------------------------------------------------------
(* The steps of a detour on top.                                           *)

\* Of the frames that keep a flag only the one on top has changed.
LEMMA GoesKeep ==
    ASSUME CallTypes, ShapeInv, OwnerInv, KeepInv, Top.at = "detour", UNCHANGED storage,
           NEW frame \in DetourFrames, NEW call \in CallRecords, Goes(frame, call),
           frame.was = "down" <=> storage /\ frame.export # "SetTimer" /\ First(Len(stack)) /\ frame.pc # "enter"
    PROVE  KeepInv'
<1> DEFINE n == Len(stack)  o == AppFrame
<1>0. n \in Nat \ {0} /\ n \in 1..n /\ frame.at = "detour" BY StackIs DEF DetourFrames
<1>1. o \in 1..n /\ o < n /\ stack[o].at = "app" BY OwnerIs
<1>2. /\ Len(stack') = n /\ stack'[n] = frame /\ stack'[o] = [at |-> "app", call |-> call]
      /\ \A i \in 1..n : i \notin {o, n} => stack'[i] = stack[i]
      /\ \A i \in 1..n : stack'[i].at = stack[i].at
  BY GoesIs
<1>3. n > 1 /\ n - 1 \in 1..n BY <1>0, <1>1
<1> HIDE DEF o
<1>4. ASSUME NEW i \in 1..n PROVE Keeps(i)'
  <2>1. Keeps(i) BY DEF KeepInv
  <2>2. CASE i = n
    <3>1. stack'[i] = frame /\ stack'[i - 1].at = stack[i - 1].at BY <1>2, <1>3, <2>2
    <3>2. First(i)' <=> First(n) BY <2>2, <3>1 DEF First
    <3> QED BY <1>0, <3>1, <3>2 DEF Keeps
  <2>3. CASE i = o BY <1>2, <2>3 DEF Keeps
  <2>4. CASE i \notin {o, n}
    <3>1. stack'[i] = stack[i] BY <1>2, <2>4
    <3>2. stack[i].at # "app" => i - 1 \in 1..n BY <1>0 DEF CallTypes
    <3>3. stack[i].at # "app" => (First(i)' <=> First(i)) BY <1>2, <3>2 DEF First
    <3>4. stack[i].at \in {"detour", "kernel"} => stack[i].at # "app" OBVIOUS
    <3> QED BY <2>1, <3>1, <3>3, <3>4 DEF Keeps
  <2> QED BY <2>2, <2>3, <2>4
<1> QED BY <1>2, <1>4 DEF KeepInv

\* Which flag stands once the detour on top is in the family's call.
LEMMA GoesFlag ==
    ASSUME CallTypes, ShapeInv, OwnerInv, Top.at = "detour", UNCHANGED storage,
           NEW frame \in DetourFrames, NEW call \in CallRecords, Goes(frame, call),
           frame.pc # "enter", \A f \in Families : flag'[f] <=> storage /\ Family(frame.export) = f
    PROVE  FlagInv'
<1>1. /\ Len(stack') = Len(stack) /\ stack'[Len(stack)] = frame /\ frame.at = "detour"
  BY GoesIs DEF DetourFrames
<1>2. Top' = frame BY <1>1 DEF Top
<1> QED BY <1>1, <1>2 DEF FlagInv

\* All of it together.
LEMMA GoesInv ==
    ASSUME DetourInv, Top.at = "detour", UNCHANGED <<storage, thread, over>>, flag' \in [Families -> BOOLEAN],
           NEW frame \in DetourFrames, NEW call \in CallRecords, Goes(frame, call),
           frame.export = Top.export, frame.alertable = Top.alertable,
           call.export = Asked.export, call.arg = Asked.arg, frame.pc # "enter",
           frame.was = "down" <=> storage /\ frame.export # "SetTimer" /\ First(Len(stack)),
           Taken(call, frame, First(Len(stack))),
           call = Asked \/ First(Len(stack)) \/ \A i \in (AppFrame + 1)..(Len(stack) - 1) : Taken(call, stack[i], i = AppFrame + 1),
           \A f \in Families : flag'[f] <=> storage /\ Family(frame.export) = f
    PROVE  DetourInv'
<1>1. CallTypes /\ ShapeInv /\ OwnerInv /\ KeepInv /\ FlagInv /\ TakenInv BY DEF DetourInv
<1>2. First(Len(stack)) <=> Len(stack) = AppFrame + 1 BY <1>1, FirstIs
<1>3. /\ stack' \in Seq(Frames) /\ Len(stack') = Len(stack) /\ stack'[1].at = "app" BY <1>1, GoesIs
<1>4. CallTypes' BY <1>1, <1>3 DEF CallTypes
<1>5. ShapeInv' /\ OwnerInv' BY <1>1, GoesShape
<1>6. KeepInv' BY <1>1, GoesKeep
<1>7. FlagInv' BY <1>1, GoesFlag
<1>8. \A i \in (AppFrame + 1)..(Len(stack) - 1) : Taken(call, stack[i], i = AppFrame + 1)
  <2>1. First(Len(stack)) => (AppFrame + 1)..(Len(stack) - 1) = {}
    <3>1. Len(stack) \in Nat /\ AppFrame \in 1..Len(stack) BY <1>1, StackIs, OwnerIs
    <3> QED BY <1>2, <3>1
  <2>2. \A i \in (AppFrame + 1)..(Len(stack) - 1) : Taken(Asked, stack[i], i = AppFrame + 1)
    BY TopIs
  <2> QED BY <2>1, <2>2
<1>9. Taken(call, frame, Len(stack) = AppFrame + 1) BY <1>2 DEF Taken
<1>10. TakenInv' BY <1>1, <1>8, <1>9, GoesTaken
<1> QED BY <1>4, <1>5, <1>6, <1>7, <1>10 DEF DetourInv

\* A call that is told apart once more is what it was otherwise.
LEMMA ApartIs ==
    ASSUME NEW call \in CallRecords, NEW got
    PROVE  /\ [call EXCEPT !.apart = @ + 1] \in CallRecords
           /\ [call EXCEPT !.apart = @ + 1].export = call.export /\ [call EXCEPT !.apart = @ + 1].arg = call.arg
           /\ [call EXCEPT !.apart = @ + 1].apart = call.apart + 1 /\ [call EXCEPT !.apart = @ + 1].counted = call.counted
           /\ Sound(call, got) => Sound([call EXCEPT !.apart = @ + 1], got)
<1> DEFINE c == [call EXCEPT !.apart = @ + 1]
<1>1. /\ c \in CallRecords /\ c.export = call.export /\ c.arg = call.arg /\ c.apart = call.apart + 1
      /\ c.counted = call.counted /\ c.floors = call.floors /\ c.dues = call.dues /\ c.m = call.m
      /\ c.now = call.now /\ c.whole = call.whole /\ call.apart \in Nat
  BY DEF CallRecords
<1> HIDE DEF c
<1>2. AsItCame(c, got) <=> AsItCame(call, got) BY <1>1 DEF AsItCame
<1>3. IsTheAsked(c, got) <=> IsTheAsked(call, got)
  <2>1. DeadlineAsAsked(c, call.arg.n, call.m, got) <=> DeadlineAsAsked(call, call.arg.n, call.m, got)
    BY <1>1 DEF DeadlineAsAsked
  <2>2. TimerAsAsked(c, call.arg.n, call.m, got) <=> TimerAsAsked(call, call.arg.n, call.m, got)
    BY <1>1 DEF TimerAsAsked
  <2>3. call.export \in Exports BY DEF CallRecords
  <2> QED BY <1>1, <2>1, <2>2, <2>3, AskedCases DEF Exports
<1>4. Sound(call, got) => Sound(c, got) BY <1>1, <1>2, <1>3 DEF Sound
<1> QED BY <1>1, <1>4 DEF c

\* A call that is counted once is what it was otherwise.
LEMMA CountsIs ==
    ASSUME NEW call \in CallRecords, call.counted = << >>, over \in BOOLEAN
    PROVE  /\ Counts(call, call.export) \in CallRecords
           /\ Counts(call, call.export).counted = IF over THEN << >> ELSE <<call.export>>
           /\ Counts(call, call.export).export = call.export /\ Counts(call, call.export).arg = call.arg
           /\ Counts(call, call.export).floors = call.floors /\ Counts(call, call.export).dues = call.dues
           /\ Counts(call, call.export).whole = call.whole
<1>1. call.export \in Exports /\ Append(<< >>, call.export) = <<call.export>> /\ <<call.export>> \in Seq(Exports)
  BY DEF CallRecords
<1>2. CASE over BY <1>2 DEF Counts
<1>3. CASE ~over
  <2> DEFINE c == [call EXCEPT !.counted = Append(@, call.export)]
  <2>1. Append(call.counted, call.export) = <<call.export>> BY <1>1
  <2>2. c = [call EXCEPT !.counted = <<call.export>>] BY <2>1
  <2>3. /\ c \in CallRecords /\ c.counted = <<call.export>> /\ c.export = call.export /\ c.arg = call.arg
        /\ c.floors = call.floors /\ c.dues = call.dues /\ c.whole = call.whole
    <3> HIDE DEF c
    <3> QED BY <1>1, <2>2 DEF CallRecords
  <2> QED BY <1>3, <2>3 DEF Counts
<1> QED BY <1>2, <1>3

\* The detour on top by its fields.
LEMMA DetourIs ==
    ASSUME NEW d \in DetourFrames
    PROVE  d \in DetourFrames /\ d.export \in Exports /\ d.alertable \in BOOLEAN /\ d.arg \in Args /\ d.at = "detour"
  BY DEF DetourFrames

LEMMA EntersKeeps ==
    ASSUME DetourInv, Enters
    PROVE  DetourInv'
<1> DEFINE e == Top.export  f == Family(e)
<1>1. CallTypes /\ ShapeInv /\ OwnerInv /\ KeepInv /\ FlagInv /\ TakenInv BY DEF DetourInv
<1>2. Top.at = "detour" /\ Top.pc = "enter" /\ e # "SetTimer" /\ UNCHANGED <<storage, thread, over>>
  BY DEF Enters
<1>3. Top \in DetourFrames /\ e \in Exports /\ f \in Families
  <2>1. Top \in DetourFrames BY <1>1, <1>2, StackIs, FrameIs
  <2> QED BY <1>2, <2>1, DetourIs, ExportIs
<1>4. Asked \in CallRecords /\ Asked.arg \in Asks(Asked.export) /\ Asked.export \in Exports
  <2>1. Asked \in CallRecords /\ Asked.arg \in Asks(Asked.export) BY <1>1, <1>2, OwnerIs
  <2> QED BY <2>1 DEF CallRecords
<1>5. Taken(Asked, Top, First(Len(stack))) /\ (First(Len(stack)) => Asked.export = e)
  <2>1. Taken(Asked, Top, Len(stack) = AppFrame + 1) BY <1>2, TopIs
  <2>2. First(Len(stack)) <=> Len(stack) = AppFrame + 1 BY <1>1, <1>2, FirstIs
  <2> QED BY <1>1, <1>2, <2>1, <2>2, FirstIs DEF Taken
<1>6. Family(e) = Family(Asked.export) BY <1>5 DEF Taken
<1>7. Keeps(Len(stack)) /\ Top = stack[Len(stack)] BY <1>1, <1>2, TopIs, StackIs
<1>8. Top.was = "none" BY <1>2, <1>3, <1>7 DEF Keeps, DetourFrames
<1>9. \A g \in Families : flag[g] <=> storage /\ ~First(Len(stack)) /\ f = g
  BY <1>1, <1>2 DEF FlagInv
<1>10. storage \in BOOLEAN /\ over \in BOOLEAN /\ flag \in [Families -> BOOLEAN]
  BY <1>1 DEF CallTypes
<1>11. ASSUME storage, ~flag[f], flag' = [flag EXCEPT ![f] = TRUE],
              Goes([Top EXCEPT !.pc = IF f = "observing" THEN "forward" ELSE "rate", !.was = "down"], Counts(Asked, e))
       PROVE  DetourInv'
  <2> DEFINE frame == [Top EXCEPT !.pc = IF f = "observing" THEN "forward" ELSE "rate", !.was = "down"]
             call == Counts(Asked, e)
  <2>1. First(Len(stack)) /\ Asked.export = e BY <1>3, <1>5, <1>9, <1>11
  <2>2. Untouched(Asked, Top) BY <1>2, <1>5, <2>1 DEF Taken
  <2>3. /\ call \in CallRecords /\ call.counted = (IF over THEN << >> ELSE <<e>>) /\ call.export = e
        /\ call.arg = Asked.arg /\ call.floors = 0 /\ call.dues = 0 /\ call.whole = Asked.whole
    BY <1>4, <1>10, <2>1, <2>2, CountsIs DEF Untouched
  <2>4. /\ frame \in DetourFrames /\ frame.export = e /\ frame.alertable = Top.alertable /\ frame.was = "down"
        /\ frame.pc = (IF f = "observing" THEN "forward" ELSE "rate") /\ frame.arg = Top.arg /\ frame.at = "detour"
    BY <1>3 DEF DetourFrames
  <2>5. Goes(frame, call) BY <1>11
  <2> HIDE DEF frame, call
  <2>6. Top.arg = Asked.arg BY <2>2 DEF Untouched
  <2>7. Taken(call, frame, TRUE)
    <3>1. CASE f = "observing"
      <4>1. e \in Objects /\ e \notin Sleeps BY <1>3, <3>1, ExportIs DEF Objects, Sleeps
      <4>2. InKernelUnits(e, frame.arg) = call.arg BY <2>3, <2>4, <2>6, <4>1 DEF InKernelUnits
      <4>3. AsItCame(call, call.arg) /\ IsTheAsked(call, call.arg)
        BY <2>3, <4>1, AskedCases DEF AsItCame
      <4>4. Sound(call, call.arg) BY <1>11, <2>3, <4>3 DEF Sound
      <4> QED BY <2>3, <2>4, <3>1, <4>2, <4>4 DEF Taken
    <3>2. CASE f # "observing"
      <4>1. Counted(call, frame) BY <1>11, <2>3, <2>4, <2>6 DEF Counted
      <4> QED BY <2>3, <2>4, <3>2, <4>1 DEF Taken
    <3> QED BY <3>1, <3>2
  <2>8. \A g \in Families : flag'[g] <=> storage /\ Family(frame.export) = g
    BY <1>3, <1>9, <1>10, <1>11, <2>1, <2>4
  <2>9. flag' \in [Families -> BOOLEAN] /\ frame.pc # "enter" BY <1>10, <1>11, <2>4
  <2> QED BY <1>2, <1>11, <2>1, <2>3, <2>4, <2>5, <2>7, <2>8, <2>9, GoesInv
<1>12. ASSUME NEW call \in CallRecords, call.export = Asked.export, call.arg = Asked.arg, ~First(Len(stack)) \/ ~storage,
              call = Asked \/ First(Len(stack)) \/ \A i \in (AppFrame + 1)..(Len(stack) - 1) : Taken(call, stack[i], i = AppFrame + 1),
              Sound(call, InKernelUnits(e, Top.arg)), UNCHANGED flag, Goes([Top EXCEPT !.pc = "forward"], call)
       PROVE  DetourInv'
  <2> DEFINE frame == [Top EXCEPT !.pc = "forward"]
  <2>1. /\ frame \in DetourFrames /\ frame.export = e /\ frame.alertable = Top.alertable /\ frame.was = "none"
        /\ frame.pc = "forward" /\ frame.arg = Top.arg /\ frame.at = "detour"
    BY <1>3, <1>8 DEF DetourFrames
  <2>2. Goes(frame, call) BY <1>12
  <2> HIDE DEF frame
  <2>3. Taken(call, frame, First(Len(stack))) BY <1>6, <1>12, <2>1 DEF Taken
  <2>4. \A g \in Families : flag'[g] <=> storage /\ Family(frame.export) = g BY <1>9, <1>12, <2>1
  <2>5. flag' \in [Families -> BOOLEAN] /\ frame.pc # "enter" BY <1>10, <1>12, <2>1
  <2> QED BY <1>2, <1>12, <2>1, <2>2, <2>3, <2>4, <2>5, GoesInv
<1>13. ASSUME storage, flag[f], UNCHANGED flag, Goes([Top EXCEPT !.pc = "forward"], Asked)
       PROVE  DetourInv'
  <2>1. ~First(Len(stack)) BY <1>3, <1>9, <1>13
  <2>2. Sound(Asked, InKernelUnits(e, Top.arg)) BY <1>2, <1>5, <2>1 DEF Taken
  <2> QED BY <1>4, <1>12, <1>13, <2>1, <2>2
<1>14. ASSUME ~storage, UNCHANGED flag,
              Goes([Top EXCEPT !.pc = "forward"], IF thread.loader \/ over THEN Asked ELSE [Asked EXCEPT !.apart = @ + 1])
       PROVE  DetourInv'
  <2> DEFINE call == IF thread.loader \/ over THEN Asked ELSE [Asked EXCEPT !.apart = @ + 1]
             got == InKernelUnits(e, Top.arg)
  <2>1. call \in CallRecords /\ call.export = Asked.export /\ call.arg = Asked.arg /\ call.counted = Asked.counted
    BY <1>4, ApartIs
  <2>2. \A x : Sound(Asked, x) => Sound(call, x) BY <1>4, ApartIs
  <2>3. Asked.apart \in Nat /\ (~thread.loader /\ ~over => call.apart > 0)
    BY <1>4, ApartIs DEF CallRecords
  <2>4. Goes([Top EXCEPT !.pc = "forward"], call) BY <1>14
  <2> HIDE DEF call
  <2>5. Sound(call, got)
    <3>1. CASE First(Len(stack))
      <4>1. Untouched(Asked, Top) /\ Asked.export = e BY <1>2, <1>5, <3>1 DEF Taken
      <4>2. AsItCame(call, got) BY <2>1, <4>1 DEF AsItCame, InKernelUnits, Untouched
      <4> QED BY <1>2, <1>14, <2>1, <2>3, <4>1, <4>2 DEF Sound, Untouched
    <3>2. CASE ~First(Len(stack)) BY <1>2, <1>5, <2>2, <3>2 DEF Taken
    <3> QED BY <3>1, <3>2
  <2>6. ASSUME NEW i \in (AppFrame + 1)..(Len(stack) - 1) PROVE Taken(call, stack[i], i = AppFrame + 1)
    <3>1. stack[i] \in DetourFrames /\ stack[i].pc = "return" /\ Taken(Asked, stack[i], i = AppFrame + 1)
      BY <1>2, TopIs
    <3> QED BY <2>1, <2>2, <3>1 DEF Taken
  <2> QED BY <1>12, <1>14, <2>1, <2>4, <2>5, <2>6
<1> QED BY <1>11, <1>13, <1>14 DEF Enters

\* What a call has become of, and its length, once it is noted.
WithNotes(call, x, y, m, now) == [call EXCEPT !.floors = x, !.dues = y, !.m = m, !.now = now]

LEMMA NotedIs ==
    ASSUME NEW call \in CallRecords, NEW x \in {0, 1}, NEW y \in {0, 1}, NEW m \in Int, NEW now \in Int
    PROVE  LET c == WithNotes(call, x, y, m, now)
           IN  /\ c \in CallRecords /\ c.export = call.export /\ c.arg = call.arg /\ c.counted = call.counted
               /\ c.apart = call.apart /\ c.whole = call.whole /\ c.m = m /\ c.now = now
               /\ c.floors = x /\ c.dues = y
<1> DEFINE c == WithNotes(call, x, y, m, now)
<1> DEFINE R(f, d, k, t) ==
              [export |-> call.export, arg |-> call.arg, counted |-> call.counted, floors |-> f,
               dues |-> d, apart |-> call.apart, m |-> k, now |-> t, whole |-> call.whole]
<1>1. call = R(call.floors, call.dues, call.m, call.now) BY DEF CallRecords
<1>2. c = R(x, y, m, now)
  <2>1. \A f, d, k, t, v : [R(f, d, k, t) EXCEPT !.floors = v] = R(v, d, k, t) OBVIOUS
  <2>2. \A f, d, k, t, v : [R(f, d, k, t) EXCEPT !.dues = v] = R(f, v, k, t) OBVIOUS
  <2>3. \A f, d, k, t, v : [R(f, d, k, t) EXCEPT !.m = v] = R(f, d, v, t) OBVIOUS
  <2>4. \A f, d, k, t, v : [R(f, d, k, t) EXCEPT !.now = v] = R(f, d, k, v) OBVIOUS
  <2> DEFINE c1 == [call EXCEPT !.floors = x]
             c2 == [c1 EXCEPT !.dues = y]
             c3 == [c2 EXCEPT !.m = m]
  <2>5. c = [c3 EXCEPT !.now = now] BY DEF WithNotes
  <2> HIDE DEF R, c, c1, c2, c3
  <2>6. c1 = R(x, call.dues, call.m, call.now) BY <1>1, <2>1 DEF c1
  <2>7. c2 = R(x, y, call.m, call.now) BY <2>2, <2>6 DEF c2
  <2>8. c3 = R(x, y, m, call.now) BY <2>3, <2>7 DEF c3
  <2> QED BY <2>4, <2>5, <2>8
<1> HIDE DEF c
<1>3. /\ c.export = call.export /\ c.arg = call.arg /\ c.counted = call.counted
      /\ c.apart = call.apart /\ c.whole = call.whole /\ c.m = m /\ c.now = now /\ c.floors = x /\ c.dues = y
  BY <1>2
<1>4. /\ call.export \in Exports /\ call.arg \in Args /\ call.counted \in Seq(Exports)
      /\ call.apart \in Nat /\ call.whole \in BOOLEAN /\ x \in Nat /\ y \in Nat
  BY DEF CallRecords
<1>5. c \in CallRecords BY <1>2, <1>4 DEF CallRecords
<1> QED BY <1>3, <1>5 DEF c

\* A detour that has counted its call hands its length on.
LEMMA RateKeeps ==
    ASSUME DetourInv, Top.at = "detour", Top.pc = "rate", UNCHANGED <<flag, storage, thread, over>>,
           NEW arg \in Args, NEW call \in CallRecords, call.export = Asked.export, call.arg = Asked.arg,
           call.counted = Asked.counted, call.whole = Asked.whole,
           AsItCame(call, InKernelUnits(Top.export, arg)) \/ IsTheAsked(call, InKernelUnits(Top.export, arg)),
           ~over /\ call.whole => IsTheAsked(call, InKernelUnits(Top.export, arg)),
           ~thread.scaled /\ InKernelUnits(Top.export, arg).n < 0 /\ call.arg.n < 0 => AsItCame(call, InKernelUnits(Top.export, arg)),
           Goes([Top EXCEPT !.pc = "forward", !.arg = arg], call)
    PROVE  DetourInv'
<1> DEFINE frame == [Top EXCEPT !.pc = "forward", !.arg = arg]  e == Top.export
<1>1. CallTypes /\ ShapeInv /\ OwnerInv /\ KeepInv /\ FlagInv /\ TakenInv BY DEF DetourInv
<1>2. Top \in DetourFrames /\ e \in Exports /\ Top = stack[Len(stack)]
  <2>1. Top \in DetourFrames /\ Top = stack[Len(stack)] BY <1>1, StackIs, FrameIs
  <2> QED BY <2>1, DetourIs
<1>3. Taken(Asked, Top, Len(stack) = AppFrame + 1) BY TopIs
<1>4. Len(stack) = AppFrame + 1 /\ Counted(Asked, Top) /\ Family(e) = Family(Asked.export)
  BY <1>3 DEF Taken
<1>5. First(Len(stack)) /\ storage BY <1>1, <1>4, FirstIs DEF Counted
<1>6. Keeps(Len(stack)) BY TopIs
<1>7. /\ frame \in DetourFrames /\ frame.export = e /\ frame.alertable = Top.alertable /\ frame.was = Top.was
      /\ frame.pc = "forward" /\ frame.arg = arg /\ frame.at = "detour"
  BY <1>2 DEF DetourFrames
<1>8. Goes(frame, call) OBVIOUS
<1> HIDE DEF frame
<1>9. frame.was = "down" <=> storage /\ frame.export # "SetTimer" /\ First(Len(stack))
  BY <1>2, <1>5, <1>6, <1>7 DEF Keeps
<1>10. \A f \in Families : flag'[f] <=> storage /\ Family(frame.export) = f
  BY <1>1, <1>7 DEF FlagInv
<1>11. flag' \in [Families -> BOOLEAN] BY <1>1 DEF CallTypes
<1>12. Sound(call, InKernelUnits(e, arg)) BY <1>4, <1>5 DEF Sound, Counted
<1>13. Taken(call, frame, First(Len(stack))) BY <1>4, <1>7, <1>12 DEF Taken
<1> QED BY <1>5, <1>7, <1>8, <1>9, <1>10, <1>11, <1>13, GoesInv

\* What is known where the length is converted.
LEMMA RateIs ==
    ASSUME DetourInv, Top.at = "detour", Top.pc = "rate"
    PROVE  /\ Top \in DetourFrames /\ Top.export \in Exports /\ Asked.export = Top.export
           /\ Asked \in CallRecords /\ Asked.arg \in Asks(Asked.export) /\ Asked.arg \in Args
           /\ Asked.floors = 0 /\ Asked.dues = 0 /\ Top.arg = Asked.arg
           /\ thread \in Threads /\ over \in BOOLEAN
           /\ RelativeRate \in Nat \ {0} /\ (~thread.scaled => RelativeRate = 1) /\ at_least(1, thread.m) \in Nat \ {0}
<1>1. CallTypes /\ ShapeInv /\ OwnerInv BY DEF DetourInv
<1>2. Top \in DetourFrames /\ Top.export \in Exports
  <2>1. Top \in DetourFrames BY <1>1, StackIs, FrameIs
  <2> QED BY <2>1, DetourIs
<1>3. Taken(Asked, Top, Len(stack) = AppFrame + 1) BY TopIs
<1>4. Len(stack) = AppFrame + 1 /\ Counted(Asked, Top) BY <1>3 DEF Taken
<1>5. Asked.export = Top.export BY <1>1, <1>4, FirstIs
<1>6. Asked \in CallRecords /\ Asked.arg \in Asks(Asked.export) BY <1>1, OwnerIs
<1>7. Asked.arg \in Args BY <1>6 DEF CallRecords
<1>8. thread \in Threads /\ over \in BOOLEAN BY <1>1 DEF CallTypes
<1>9. RelativeRate \in Nat \ {0} /\ (~thread.scaled => RelativeRate = 1) /\ at_least(1, thread.m) \in Nat \ {0}
  BY <1>8 DEF RelativeRate, at_least, Threads
<1> QED BY <1>2, <1>4, <1>5, <1>6, <1>7, <1>8, <1>9 DEF Counted

LEMMA ScalesWaitKeeps ==
    ASSUME DetourInv, ScalesWait
    PROVE  DetourInv'
<1> DEFINE n == Top.arg.n  m == IF over THEN 1 ELSE RelativeRate  e == Top.export
           With(x) == [Top.arg EXCEPT !.n = x]
<1>1. Top.at = "detour" /\ Top.pc = "rate" /\ Family(e) = "scaling" /\ UNCHANGED <<flag, storage, thread, over>>
  BY DEF ScalesWait
<1>2. /\ Top \in DetourFrames /\ e \in Exports /\ Asked.export = e
      /\ Asked \in CallRecords /\ Asked.arg \in Asks(Asked.export) /\ Asked.arg \in Args
      /\ Asked.floors = 0 /\ Asked.dues = 0 /\ Top.arg = Asked.arg
      /\ thread \in Threads /\ over \in BOOLEAN
      /\ RelativeRate \in Nat \ {0} /\ (~thread.scaled => RelativeRate = 1)
  BY <1>1, RateIs
<1>3. e \in Sleeps \/ e = "NtDelayExecution" BY <1>1, <1>2, ExportIs
<1>4. n \in Int /\ m \in Nat \ {0} /\ (over \/ ~thread.scaled => m = 1) BY <1>2 DEF Args
<1>5. \A x \in Int : With(x) \in Args BY <1>2 DEF Args
<1>6. \A x : [Top EXCEPT !.pc = "forward", !.arg.n = x] = [Top EXCEPT !.pc = "forward", !.arg = With(x)]
  BY <1>2 DEF DetourFrames
<1> HIDE DEF m
<1>7. ASSUME e \in Sleeps,
             Goes([Top EXCEPT !.pc = "forward", !.arg.n = scale_wait(n, m)], Noted(Asked, wait_hit_floor(n, m), FALSE, m, 0))
      PROVE  DetourInv'
  <2> DEFINE call == Noted(Asked, wait_hit_floor(n, m), FALSE, m, 0)  arg == With(scale_wait(n, m))
             got == InKernelUnits(e, arg)
  <2>1. n \in 0..INFINITE_MS BY <1>2, <1>7, AsksAre
  <2>2. wait_hit_floor(n, m) \in BOOLEAN BY DEF wait_hit_floor
  <2>3. /\ call \in CallRecords /\ call.export = Asked.export /\ call.arg = Asked.arg /\ call.counted = Asked.counted
        /\ call.whole = Asked.whole /\ call.m = m /\ (call.floors > 0 <=> wait_hit_floor(n, m) /\ ~over)
    <3> DEFINE x == IF wait_hit_floor(n, m) /\ ~over THEN 1 ELSE 0
    <3>1. Asked.floors + x = x /\ Asked.dues + 0 = 0 /\ x \in {0, 1} /\ (x > 0 <=> wait_hit_floor(n, m) /\ ~over)
      BY <1>2
    <3>2. call = [Asked EXCEPT !.floors = Asked.floors + x, !.dues = Asked.dues + 0, !.m = m, !.now = 0]
      BY DEF Noted
    <3>3. call = WithNotes(Asked, x, 0, m, 0) BY <3>1, <3>2 DEF WithNotes
    <3>4. m \in Int /\ 0 \in Int /\ 0 \in {0, 1} /\ Asked \in CallRecords BY <1>2, <1>4
    <3> HIDE DEF call, x
    <3>5. /\ call \in CallRecords /\ call.export = Asked.export /\ call.arg = Asked.arg /\ call.counted = Asked.counted
          /\ call.whole = Asked.whole /\ call.m = m /\ call.floors = x
      BY <3>1, <3>3, <3>4, NotedIs
    <3> QED BY <3>1, <3>5
  <2>4. over => ~wait_hit_floor(n, m)
    <3>1. n \in Nat /\ n \div 1 = n /\ MIN_SCALED_WAIT_MS = 1
      BY <2>1, DetourCallsAssumption, DivIs DEF MIN_SCALED_WAIT_MS
    <3> QED BY <1>4, <3>1 DEF wait_hit_floor, at_least
  <2>5. scale_wait(n, m) \in Int
    <3>1. at_least(1, m) = m /\ n \in Nat /\ n \div m \in Nat
      BY <1>4, <2>1, DetourCallsAssumption, DivIs DEF at_least
    <3> QED BY <2>1, <3>1 DEF scale_wait, at_least, MIN_SCALED_WAIT_MS
  <2>6. arg \in Args BY <1>5, <2>5
  <2>7. Goes([Top EXCEPT !.pc = "forward", !.arg = arg], call) BY <1>6, <1>7
  <2>8. got = InKernelUnits(call.export, [call.arg EXCEPT !.n = scale_wait(call.arg.n, m)])
    BY <1>2, <2>3
  <2> HIDE DEF call, arg, got
  <2>9. IsTheAsked(call, got) /\ ~(call.arg.n < 0)
    BY <1>2, <1>4, <1>7, <2>1, <2>3, <2>4, <2>8, SleepIsAsked
  <2> QED BY <1>1, <2>3, <2>6, <2>7, <2>9, RateKeeps DEF got
<1>8. ASSUME e = "NtDelayExecution", n <= 0,
             Goes([Top EXCEPT !.pc = "forward", !.arg.n = scale_delay_interval(n, m)], Noted(Asked, delay_hit_floor(n, m), FALSE, m, 0))
      PROVE  DetourInv'
  <2> DEFINE call == Noted(Asked, delay_hit_floor(n, m), FALSE, m, 0)  arg == With(scale_delay_interval(n, m))
             got == InKernelUnits(e, arg)
  <2>1. got = arg BY <1>8 DEF InKernelUnits, Sleeps
  <2>2. delay_hit_floor(n, m) \in BOOLEAN BY DEF delay_hit_floor
  <2>3. /\ call \in CallRecords /\ call.export = Asked.export /\ call.arg = Asked.arg /\ call.counted = Asked.counted
        /\ call.whole = Asked.whole /\ call.m = m /\ (call.floors > 0 <=> delay_hit_floor(n, m) /\ ~over)
    <3> DEFINE x == IF delay_hit_floor(n, m) /\ ~over THEN 1 ELSE 0
    <3>1. Asked.floors + x = x /\ Asked.dues + 0 = 0 /\ x \in {0, 1} /\ (x > 0 <=> delay_hit_floor(n, m) /\ ~over)
      BY <1>2
    <3>2. call = [Asked EXCEPT !.floors = Asked.floors + x, !.dues = Asked.dues + 0, !.m = m, !.now = 0]
      BY DEF Noted
    <3>3. call = WithNotes(Asked, x, 0, m, 0) BY <3>1, <3>2 DEF WithNotes
    <3>4. m \in Int /\ 0 \in Int /\ 0 \in {0, 1} /\ Asked \in CallRecords BY <1>2, <1>4
    <3> HIDE DEF call, x
    <3>5. /\ call \in CallRecords /\ call.export = Asked.export /\ call.arg = Asked.arg /\ call.counted = Asked.counted
          /\ call.whole = Asked.whole /\ call.m = m /\ call.floors = x
      BY <3>1, <3>3, <3>4, NotedIs
    <3> QED BY <3>1, <3>5
  <2>4. over => ~delay_hit_floor(n, m) BY <1>4 DEF delay_hit_floor
  <2>5. scale_delay_interval(n, m) \in Int
    <3>1. at_least(1, m) = m /\ -n \in Nat /\ (-n) \div m \in Nat /\ MIN_SCALED_DELAY_TICKS \in Nat
      BY <1>4, <1>8, DivIs, ClockMathAssumption DEF at_least, MIN_SCALED_DELAY_TICKS, MIN_SCALED_WAIT_MS
    <3> QED BY <1>4, <3>1 DEF scale_delay_interval, at_least, at_most, Toward0
  <2>6. arg \in Args BY <1>5, <2>5
  <2>7. Goes([Top EXCEPT !.pc = "forward", !.arg = arg], call) BY <1>6, <1>8
  <2>8. arg = [call.arg EXCEPT !.n = scale_delay_interval(call.arg.n, m)] BY <1>2, <2>3
  <2> HIDE DEF call, arg
  <2>9. IsTheAsked(call, arg) /\ (m = 1 => AsItCame(call, arg))
    BY <1>2, <1>4, <1>8, <2>3, <2>4, <2>8, DelayIsAsked
  <2> QED BY <1>1, <1>4, <2>1, <2>3, <2>6, <2>7, <2>9, RateKeeps
<1>9. ASSUME e = "NtDelayExecution", over, Goes([Top EXCEPT !.pc = "forward", !.arg.n = n], Asked)
      PROVE  DetourInv'
  <2>1. With(n) = Asked.arg BY <1>2 DEF Args
  <2>2. Goes([Top EXCEPT !.pc = "forward", !.arg = Asked.arg], Asked) BY <1>6, <1>9, <2>1
  <2>3. InKernelUnits(e, Asked.arg) = Asked.arg BY <1>9 DEF InKernelUnits, Sleeps
  <2>4. AsItCame(Asked, Asked.arg) BY <1>2, <1>9 DEF AsItCame, Sleeps
  <2> QED BY <1>1, <1>2, <1>9, <2>2, <2>3, <2>4, RateKeeps
<1>10. ASSUME e = "NtDelayExecution", ~(n <= 0), ~over, NEW now \in FakeNows,
             Goes([Top EXCEPT !.pc = "forward", !.arg.n = scale_delay_deadline(n, now, thread.m)],
                  Noted(Asked, FALSE, TRUE, at_least(1, thread.m), now))
      PROVE  DetourInv'
  <2> DEFINE l == at_least(1, thread.m)
             call == Noted(Asked, FALSE, TRUE, l, now)  arg == With(scale_delay_deadline(n, now, thread.m))
  <2>1. InKernelUnits(e, arg) = arg BY <1>10 DEF InKernelUnits, Sleeps
  <2>2. now \in Nat /\ thread.m \in Nat /\ l \in Nat \ {0}
    BY <1>2, DetourCallsAssumption DEF Threads, at_least
  <2>3. /\ call \in CallRecords /\ call.export = Asked.export /\ call.arg = Asked.arg /\ call.counted = Asked.counted
        /\ call.whole = Asked.whole /\ call.m = l /\ call.now = now /\ call.dues = 1
    <3>1. l \in Int /\ now \in Int /\ Asked.floors + 0 = 0 /\ Asked.dues + 1 = 1 BY <1>2, <2>2
    <3>2. call = [Asked EXCEPT !.floors = Asked.floors + 0, !.dues = Asked.dues + 1, !.m = l, !.now = now]
      BY <1>10 DEF Noted
    <3>3. call = WithNotes(Asked, 0, 1, l, now) BY <3>1, <3>2 DEF WithNotes
    <3>4. 0 \in {0, 1} /\ 1 \in {0, 1} /\ Asked \in CallRecords BY <1>2
    <3> HIDE DEF l, call
    <3> QED BY <3>1, <3>3, <3>4, NotedIs
  <2>5. scale_delay_deadline(n, now, thread.m) \in Int
    <3>1. n > now => (n - now) \div l \in Nat BY <1>4, <2>2, DivIs
    <3>2. scale_timer_due(n, now, thread.m, 1) \in Int
      BY <1>4, <1>10, <2>2, <3>1 DEF scale_timer_due
    <3> HIDE DEF l
    <3> QED BY <1>4, <3>2 DEF scale_delay_deadline, PAST_DEADLINE
  <2>6. arg \in Args BY <1>5, <2>5
  <2>7. Goes([Top EXCEPT !.pc = "forward", !.arg = arg], call) BY <1>6, <1>10
  <2>8. arg = [call.arg EXCEPT !.n = scale_delay_deadline(call.arg.n, now, thread.m)] BY <1>2, <2>3
  <2>9. call.arg.n > 0
    <3>1. n > 0 /\ n = Top.arg.n BY <1>4, <1>10
    <3>2. call.arg = Top.arg BY <1>2, <2>3, Zenon
    <3> HIDE DEF call
    <3> QED BY <3>1, <3>2
  <2> HIDE DEF call, arg
  <2>10. IsTheAsked(call, arg) /\ ~(call.arg.n < 0)
    BY <1>2, <1>10, <2>2, <2>3, <2>8, <2>9, DeadlineIsAsked
  <2> QED BY <1>1, <2>1, <2>3, <2>6, <2>7, <2>10, RateKeeps
<1> QED BY <1>3, <1>7, <1>8, <1>9, <1>10 DEF ScalesWait, m, Sleeps

LEMMA ScalesTimerKeeps ==
    ASSUME DetourInv, ScalesTimer
    PROVE  DetourInv'
<1> DEFINE a == Top.arg  e == Top.export  m == IF a.n < 0 THEN RelativeRate ELSE at_least(1, thread.m)
           With(x, y) == [a EXCEPT !.n = x, !.period = y]
<1>1. Top.at = "detour" /\ Top.pc = "rate" /\ Family(e) = "timer" /\ UNCHANGED <<flag, storage, thread, over>>
  BY DEF ScalesTimer
<1>2. /\ Top \in DetourFrames /\ e \in Exports /\ Asked.export = e
      /\ Asked \in CallRecords /\ Asked.arg \in Asks(Asked.export) /\ Asked.arg \in Args
      /\ Asked.floors = 0 /\ Asked.dues = 0 /\ Top.arg = Asked.arg
      /\ thread \in Threads /\ over \in BOOLEAN
      /\ RelativeRate \in Nat \ {0} /\ at_least(1, thread.m) \in Nat \ {0}
  BY <1>1, RateIs
<1>3. e \in Settable /\ e \notin Sleeps
  <2>1. e \in Settable BY <1>1, <1>2, ExportIs
  <2> QED BY <2>1 DEF Settable, Sleeps
<1>4. a \in Args /\ a.n \in Int /\ a.period \in Int /\ m \in Nat \ {0} /\ m \in Int BY <1>2 DEF Args
<1>5. \A x \in Int, y \in Int : With(x, y) \in Args BY <1>4 DEF Args
<1>6. \A x, y : [Top EXCEPT !.pc = "forward", !.arg.n = x, !.arg.period = y]
                   = [Top EXCEPT !.pc = "forward", !.arg = With(x, y)]
  BY <1>2 DEF DetourFrames
<1>7. \A arg \in Args : InKernelUnits(e, arg) = arg BY <1>3 DEF InKernelUnits
<1>8. ASSUME over, Goes([Top EXCEPT !.pc = "forward"], Asked)
      PROVE  DetourInv'
  <2>1. [Top EXCEPT !.pc = "forward"] = [Top EXCEPT !.pc = "forward", !.arg = Asked.arg]
    BY <1>2 DEF DetourFrames
  <2>2. Goes([Top EXCEPT !.pc = "forward", !.arg = Asked.arg], Asked) BY <1>8, <2>1
  <2>3. AsItCame(Asked, Asked.arg) /\ InKernelUnits(e, Asked.arg) = Asked.arg
    BY <1>2, <1>3, <1>7 DEF AsItCame
  <2> QED BY <1>1, <1>2, <1>8, <2>2, <2>3, RateKeeps
<1>9. ASSUME ~over, NEW now \in FakeNows,
             Goes([Top EXCEPT !.pc = "forward", !.arg.n = scale_timer_due(a.n, now, thread.m, RelativeRate),
                              !.arg.period = scale_timer_period(a.period, RelativeRate)],
                  Noted(Asked, timer_period_hit_floor(a.period, RelativeRate), a.n >= 0, m, now))
      PROVE  DetourInv'
  <2> DEFINE hit == timer_period_hit_floor(a.period, RelativeRate)
             due == scale_timer_due(a.n, now, thread.m, RelativeRate)
             per == scale_timer_period(a.period, RelativeRate)
             call == Noted(Asked, hit, a.n >= 0, m, now)  arg == With(due, per)
  <2>1. now \in Nat /\ now \in Int /\ thread.m \in Nat BY <1>2, DetourCallsAssumption DEF Threads
  <2>2. hit \in BOOLEAN BY DEF timer_period_hit_floor
  <2>3. /\ call \in CallRecords /\ call.export = Asked.export /\ call.arg = Asked.arg /\ call.counted = Asked.counted
        /\ call.whole = Asked.whole /\ call.m = m /\ call.now = now
        /\ (call.floors > 0 <=> hit) /\ call.dues = (IF a.n >= 0 THEN 1 ELSE 0)
    <3> DEFINE x == IF hit /\ ~over THEN 1 ELSE 0
               y == IF a.n >= 0 /\ ~over THEN 1 ELSE 0
    <3>1. Asked.floors + x = x /\ Asked.dues + y = y /\ x \in {0, 1} /\ y \in {0, 1} /\ (x > 0 <=> hit)
      BY <1>2, <1>9
    <3>2. call = [Asked EXCEPT !.floors = Asked.floors + x, !.dues = Asked.dues + y, !.m = m, !.now = now]
      BY DEF Noted
    <3>3. call = WithNotes(Asked, x, y, m, now) BY <3>1, <3>2 DEF WithNotes
    <3>4. y = IF a.n >= 0 THEN 1 ELSE 0 BY <1>9
    <3> HIDE DEF call, x, y, m, hit
    <3>5. /\ call \in CallRecords /\ call.export = Asked.export /\ call.arg = Asked.arg /\ call.counted = Asked.counted
          /\ call.whole = Asked.whole /\ call.m = m /\ call.now = now /\ call.floors = x /\ call.dues = y
      BY <1>2, <1>4, <2>1, <3>1, <3>3, NotedIs
    <3> QED BY <3>1, <3>4, <3>5
  <2>4. due \in Int /\ per \in Int
    <3> DEFINE r == RelativeRate  l == at_least(1, thread.m)
    <3>1. at_least(1, r) = r /\ r \in Nat \ {0} /\ l \in Nat \ {0} BY <1>2 DEF at_least
    <3>2. due = IF a.n < 0 THEN -((-a.n) \div r) ELSE IF a.n <= now THEN 0 ELSE -((a.n - now) \div l)
      BY <3>1 DEF scale_timer_due, Toward0
    <3>3. per = IF a.period <= 0 THEN a.period ELSE at_least(1, a.period \div r)
      BY <3>1 DEF scale_timer_period
    <3> HIDE DEF r, l, due, per
    <3>4. per \in Int
      <4>1. a.period > 0 => a.period \div r \in Nat BY <1>4, <3>1, DivIs
      <4> QED BY <1>4, <3>3, <4>1 DEF at_least
    <3>5. CASE a.n < 0
      <4> DEFINE q == (-a.n) \div r
      <4>1. q \in Nat BY <1>4, <3>1, <3>5, DivIs
      <4>2. due = -q BY <3>2, <3>5
      <4> HIDE DEF q
      <4> QED BY <3>4, <4>1, <4>2
    <3>6. CASE a.n >= 0
      <4> DEFINE q == (a.n - now) \div l
      <4>1. a.n > now => q \in Nat BY <1>4, <2>1, <3>1, <3>6, DivIs
      <4>2. due = IF a.n <= now THEN 0 ELSE -q BY <1>4, <3>2, <3>6
      <4> HIDE DEF q
      <4> QED BY <1>4, <2>1, <3>4, <4>1, <4>2
    <3>7. due \in Int BY <1>4, <3>5, <3>6
    <3> QED BY <3>4, <3>7
  <2>5. arg \in Args BY <1>5, <2>4
  <2>6. Goes([Top EXCEPT !.pc = "forward", !.arg = arg], call) BY <1>6, <1>9
  <2>7. arg = [call.arg EXCEPT !.n = scale_timer_due(call.arg.n, now, thread.m, RelativeRate),
                               !.period = scale_timer_period(call.arg.period, RelativeRate)]
    BY <1>2, <2>3
  <2>8. /\ call.m = (IF call.arg.n < 0 THEN RelativeRate ELSE at_least(1, thread.m))
        /\ call.dues = (IF call.arg.n >= 0 THEN 1 ELSE 0)
        /\ (call.floors > 0 <=> timer_period_hit_floor(call.arg.period, RelativeRate))
    BY <1>2, <2>3
  <2> HIDE DEF call, arg, hit, due, per, m
  <2>9. IsTheAsked(call, arg) /\ (~thread.scaled /\ call.arg.n < 0 => AsItCame(call, arg))
    BY <1>2, <1>3, <2>1, <2>3, <2>7, <2>8, TimerIsAsked
  <2>10. InKernelUnits(e, arg) = arg BY <1>7, <2>5
  <2> QED BY <1>1, <2>3, <2>5, <2>6, <2>9, <2>10, RateKeeps
<1> QED BY <1>8, <1>9 DEF ScalesTimer

LEMMA SetTimerKeeps ==
    ASSUME DetourInv, SetTimer
    PROVE  DetourInv'
<1> DEFINE n == Top.arg.n  m == at_least(1, thread.m)  k == Len(stack)
<1>1. Top.at = "detour" /\ Top.pc = "enter" /\ Top.export = "SetTimer" /\ UNCHANGED <<flag, storage, thread, over>>
  BY DEF SetTimer
<1>2. CallTypes /\ ShapeInv /\ OwnerInv /\ KeepInv /\ FlagInv /\ TakenInv BY DEF DetourInv
<1>3. Top \in DetourFrames /\ Top = stack[k] /\ k \in Nat BY <1>1, <1>2, StackIs, FrameIs
<1>4. Asked \in CallRecords /\ Asked.arg \in Asks(Asked.export) /\ Asked.export \in Exports
  <2>1. Asked \in CallRecords /\ Asked.arg \in Asks(Asked.export) BY <1>1, <1>2, OwnerIs
  <2> QED BY <2>1 DEF CallRecords
<1>5. Stands(k) /\ Keeps(k) /\ Taken(Asked, Top, k = AppFrame + 1) BY <1>1, TopIs
<1>6. First(k)
  <2>1. k > 1 /\ stack[k - 1].at \in {"app", "detour"} BY <1>1, <1>3, <1>5 DEF Stands
  <2>2. CASE stack[k - 1].at = "detour"
    <3>1. "SetTimer" \in Leads(stack[k - 1].export) BY <1>1, <1>3, <1>5, <2>2 DEF Stands
    <3>2. stack[k - 1].export \in Exports
      <4>1. k - 1 \in 1..k BY <1>3, <2>1
      <4>2. stack[k - 1] \in DetourFrames BY <1>2, <2>2, <4>1, StackIs
      <4> QED BY <4>2, DetourIs
    <3> QED BY <3>1, <3>2, ExportIs
  <2> QED BY <2>1, <2>2 DEF First
<1>7. k = AppFrame + 1 /\ Asked.export = "SetTimer" BY <1>1, <1>2, <1>6, FirstIs
<1>8. Untouched(Asked, Top) BY <1>1, <1>5, <1>7 DEF Taken
<1>9. Top.was = "none" BY <1>1, <1>3, <1>5 DEF Keeps, DetourFrames
<1>10. \A f \in Families : ~flag[f]
  <2>1. "SetTimer" \in Exports BY DEF Exports
  <2>2. Family("SetTimer") \notin Families BY <2>1, ExportIs
  <2> QED BY <1>1, <1>2, <2>2 DEF FlagInv
<1>11. Asked.arg.n \in Nat /\ Asked.arg \in Args /\ n = Asked.arg.n /\ n \in Nat
  BY <1>4, <1>7, <1>8, AsksAre DEF Untouched
<1>12. thread \in Threads /\ over \in BOOLEAN /\ flag \in [Families -> BOOLEAN] /\ m \in Nat \ {0}
  <2>1. thread \in Threads /\ over \in BOOLEAN /\ flag \in [Families -> BOOLEAN]
    BY <1>2 DEF CallTypes
  <2> QED BY <2>1 DEF Threads, at_least
<1>13. ASSUME NEW arg \in Args, NEW call \in CallRecords, call.export = "SetTimer", call.arg = Asked.arg,
              Sound(call, arg), Goes([Top EXCEPT !.pc = "forward", !.arg = arg], call)
       PROVE  DetourInv'
  <2> DEFINE frame == [Top EXCEPT !.pc = "forward", !.arg = arg]
  <2>1. /\ frame \in DetourFrames /\ frame.export = "SetTimer" /\ frame.alertable = Top.alertable /\ frame.was = "none"
        /\ frame.pc = "forward" /\ frame.arg = arg /\ frame.at = "detour"
    BY <1>1, <1>3, <1>9 DEF DetourFrames
  <2>2. Goes(frame, call) BY <1>13
  <2> HIDE DEF frame
  <2>3. InKernelUnits("SetTimer", arg) = arg BY DEF InKernelUnits, Sleeps
  <2>4. Taken(call, frame, First(k)) BY <1>13, <2>1, <2>3 DEF Taken
  <2>5. \A f \in Families : flag'[f] <=> storage /\ Family(frame.export) = f
    <3>1. "SetTimer" \in Exports BY DEF Exports
    <3>2. Family("SetTimer") \notin Families BY <3>1, ExportIs
    <3> QED BY <1>1, <1>10, <2>1, <3>2
  <2> QED BY <1>1, <1>6, <1>7, <1>12, <1>13, <2>1, <2>2, <2>4, <2>5, GoesInv
<1>14. ASSUME over \/ ~thread.scaled,
              Goes([Top EXCEPT !.pc = "forward"], IF thread.scaled THEN Asked ELSE [Asked EXCEPT !.whole = FALSE])
       PROVE  DetourInv'
  <2> DEFINE call == IF thread.scaled THEN Asked ELSE [Asked EXCEPT !.whole = FALSE]
  <2>1. /\ call \in CallRecords /\ call.export = "SetTimer" /\ call.arg = Asked.arg /\ call.counted = << >>
        /\ call.whole => thread.scaled
    <3>1. Asked.counted = << >> BY <1>8 DEF Untouched
    <3> QED BY <1>4, <1>7, <3>1 DEF CallRecords
  <2>2. [Top EXCEPT !.pc = "forward"] = [Top EXCEPT !.pc = "forward", !.arg = Asked.arg]
    <3>1. Top.arg = Asked.arg BY <1>8 DEF Untouched
    <3> QED BY <1>3, <3>1 DEF DetourFrames
  <2>3. Goes([Top EXCEPT !.pc = "forward", !.arg = Asked.arg], call) BY <1>14, <2>2
  <2> HIDE DEF call
  <2>4. AsItCame(call, Asked.arg) BY <2>1 DEF AsItCame, Sleeps
  <2>5. Sound(call, Asked.arg) BY <1>14, <2>1, <2>4 DEF Sound
  <2> QED BY <1>11, <1>13, <2>1, <2>3, <2>5
<1>15. ASSUME ~over, thread.scaled,
              Goes([Top EXCEPT !.pc = "forward", !.arg.n = scale_timer_elapse(n, m)],
                   Noted(Counts(Asked, "SetTimer"), timer_elapse_hit_floor(n, m), FALSE, m, 0))
       PROVE  DetourInv'
  <2> DEFINE hit == timer_elapse_hit_floor(n, m)  counted == Counts(Asked, "SetTimer")
             call == Noted(counted, hit, FALSE, m, 0)  arg == [Top.arg EXCEPT !.n = scale_timer_elapse(n, m)]
  <2>1. /\ counted \in CallRecords /\ counted.counted = <<"SetTimer">> /\ counted.export = "SetTimer"
        /\ counted.arg = Asked.arg /\ counted.floors = 0 /\ counted.dues = 0
    <3>1. Asked.counted = << >> /\ Asked.floors = 0 /\ Asked.dues = 0 BY <1>8 DEF Untouched
    <3> QED BY <1>4, <1>7, <1>12, <1>15, <3>1, CountsIs
  <2>2. hit \in BOOLEAN BY DEF timer_elapse_hit_floor
  <2>3. /\ call \in CallRecords /\ call.export = "SetTimer" /\ call.arg = Asked.arg /\ call.counted = <<"SetTimer">>
        /\ call.m = m /\ (call.floors > 0 <=> hit)
    <3> DEFINE x == IF hit /\ ~over THEN 1 ELSE 0
    <3> HIDE DEF counted
    <3>1. counted.floors + x = x /\ counted.dues + 0 = 0 /\ x \in {0, 1} /\ (x > 0 <=> hit)
      BY <1>15, <2>1
    <3>2. call = [counted EXCEPT !.floors = counted.floors + x, !.dues = counted.dues + 0, !.m = m, !.now = 0]
      BY DEF Noted
    <3>3. call = WithNotes(counted, x, 0, m, 0) BY <3>1, <3>2 DEF WithNotes
    <3>4. m \in Int /\ 0 \in Int /\ 0 \in {0, 1} BY <1>12
    <3> HIDE DEF call, x, m, hit
    <3>5. /\ call \in CallRecords /\ call.export = counted.export /\ call.arg = counted.arg /\ call.counted = counted.counted
          /\ call.m = m /\ call.floors = x
      BY <2>1, <3>1, <3>3, <3>4, NotedIs
    <3> QED BY <2>1, <3>1, <3>5
  <2>4. Top.arg = Asked.arg BY <1>8 DEF Untouched
  <2>5. arg \in Args
    <3>1. n \div m \in Nat /\ at_least(1, m) = m BY <1>11, <1>12, DivIs DEF at_least
    <3>2. scale_timer_elapse(n, m) \in Int BY <3>1 DEF scale_timer_elapse
    <3> HIDE DEF m
    <3> QED BY <1>11, <2>4, <3>2 DEF Args
  <2>6. Goes([Top EXCEPT !.pc = "forward", !.arg = arg], call)
    <3>1. \A x : [Top EXCEPT !.pc = "forward", !.arg.n = x] = [Top EXCEPT !.pc = "forward", !.arg = [Top.arg EXCEPT !.n = x]]
      BY <1>3 DEF DetourFrames
    <3> QED BY <1>15, <3>1
  <2>7. arg = [call.arg EXCEPT !.n = scale_timer_elapse(call.arg.n, m)] BY <2>3, <2>4
  <2>8. (call.floors > 0 <=> timer_elapse_hit_floor(call.arg.n, m)) /\ call.arg.n \in Nat
    BY <1>11, <2>3
  <2> HIDE DEF call, arg, counted, hit, m
  <2>9. IsTheAsked(call, arg) /\ ~(call.arg.n < 0) BY <1>12, <2>3, <2>7, <2>8, ElapseIsAsked
  <2>10. Sound(call, arg) BY <2>3, <2>9 DEF Sound
  <2> QED BY <1>13, <2>3, <2>5, <2>6, <2>10
<1> QED BY <1>14, <1>15 DEF SetTimer

-----------------------------------------------------------------------------
(* The steps that add a frame.                                             *)

\* A frame on top of another.
LEMMA PushIs ==
    ASSUME CallTypes, NEW s \in Seq(Frames), Len(s) = Len(stack), NEW x \in Frames, stack' = Append(s, x)
    PROVE  /\ stack' \in Seq(Frames) /\ Len(stack') = Len(stack) + 1 /\ Top' = x /\ stack'[Len(stack) + 1] = x
           /\ \A i \in 1..Len(stack) : stack'[i] = s[i]
<1>1. Len(stack) \in Nat BY StackIs
<1>2. /\ stack' \in Seq(Frames) /\ Len(stack') = Len(stack) + 1 /\ stack'[Len(stack) + 1] = x
      /\ \A i \in 1..Len(stack) : stack'[i] = s[i]
  BY <1>1, AppendProperties
<1> QED BY <1>2 DEF Top

LEMMA CallsKeeps ==
    ASSUME DetourInv, Calls
    PROVE  DetourInv'
<1>0. PICK n \in Nat : n = Len(stack) BY StackIs DEF DetourInv
<1>1. CallTypes /\ ShapeInv /\ OwnerInv /\ KeepInv /\ FlagInv /\ TakenInv BY DEF DetourInv
<1>2. Top.at = "app" /\ UNCHANGED <<flag, storage, thread, over>> BY DEF Calls
<1>3. PICK e \in Exports, alertable \in BOOLEAN : \E arg \in Asks(e) :
          /\ alertable => e \in Alertables
          /\ stack' = Below \o <<App([export |-> e, arg |-> arg, counted |-> <<>>, floors |-> 0, dues |-> 0,
                                      apart |-> 0, m |-> 0, now |-> 0, whole |-> ~over]),
                                 Detour(e, alertable, arg)>>
  BY DEF Calls
<1>4. PICK arg \in Asks(e) :
          /\ alertable => e \in Alertables
          /\ stack' = Below \o <<App([export |-> e, arg |-> arg, counted |-> <<>>, floors |-> 0, dues |-> 0,
                                      apart |-> 0, m |-> 0, now |-> 0, whole |-> ~over]),
                                 Detour(e, alertable, arg)>>
  BY <1>0, <1>3
<1> DEFINE c == [export |-> e, arg |-> arg, counted |-> <<>>, floors |-> 0, dues |-> 0,
                 apart |-> 0, m |-> 0, now |-> 0, whole |-> ~over]
           d == Detour(e, alertable, arg)
<1>5. n \in Nat \ {0} /\ n \in 1..n /\ Top = stack[n] /\ stack \in Seq(Frames) /\ over \in BOOLEAN
  BY <1>0, <1>1, StackIs DEF CallTypes
<1>6. arg \in Args BY AsksAre
<1>7. c \in CallRecords /\ c.export = e /\ c.arg = arg /\ c.counted = <<>> /\ c.floors = 0 /\ c.dues = 0 /\ c.apart = 0
  BY <1>0, <1>5, <1>6 DEF CallRecords
<1>8. /\ d \in DetourFrames /\ d.at = "detour" /\ d.pc = "enter" /\ d.export = e /\ d.alertable = alertable
      /\ d.arg = arg /\ d.was = "none"
  BY <1>0, <1>6 DEF DetourFrames, Detour
<1>9. stack' = Below \o <<App(c), d>> BY <1>0, <1>4
<1> HIDE DEF c, d
<1>10. App(c) \in Frames /\ App(c).at = "app" /\ App(c).call = c /\ c # NoCall
  BY <1>0, <1>7, CallIs DEF App, Frames, AppFrames
<1>11. /\ stack' \in Seq(Frames) /\ Len(stack') = n + 1 /\ stack'[n] = App(c) /\ stack'[n + 1] = d
       /\ \A i \in 1..n : i # n => stack'[i] = stack[i]
  <2> DEFINE b == Below  t == <<App(c), d>>
  <2>1. b \in Seq(Frames) /\ Len(b) = n - 1 /\ \A i \in 1..(n - 1) : b[i] = stack[i]
    BY <1>0, <1>5, SubSeqProperties DEF Below
  <2>2. t \in Seq(Frames) /\ Len(t) = 2 /\ t[1] = App(c) /\ t[2] = d BY <1>0, <1>8, <1>10 DEF Frames
  <2>3. stack' = b \o t BY <1>0, <1>9
  <2> HIDE DEF b, t
  <2>4. /\ stack' \in Seq(Frames) /\ Len(stack') = (n - 1) + 2
        /\ \A i \in 1..(n + 1) : stack'[i] = IF i <= n - 1 THEN b[i] ELSE t[i - (n - 1)]
    <3>1. stack' \in Seq(Frames) /\ Len(stack') = Len(b) + Len(t)
      BY <2>1, <2>2, <2>3, ConcatProperties
    <3>2. \A i \in 1..(Len(b) + Len(t)) : stack'[i] = IF i <= Len(b) THEN b[i] ELSE t[i - Len(b)]
      BY <2>1, <2>2, <2>3, ConcatProperties
    <3> QED BY <1>5, <2>1, <2>2, <3>1, <3>2
  <2>5. n \in 1..(n + 1) /\ n + 1 \in 1..(n + 1) /\ n - (n - 1) = 1 /\ (n + 1) - (n - 1) = 2 /\ ~(n <= n - 1) /\ ~(n + 1 <= n - 1)
    BY <1>0, <1>5
  <2>6. stack'[n] = t[1] /\ stack'[n + 1] = t[2] BY <2>4, <2>5
  <2>7. \A i \in 1..n : i # n => i \in 1..(n + 1) /\ i <= n - 1 /\ i \in 1..(n - 1) BY <1>0, <1>5
  <2> QED
    <3>1. Len(stack') = n + 1 BY <1>5, <2>4
    <3>2. \A i \in 1..n : i # n => stack'[i] = stack[i] BY <2>1, <2>4, <2>7
    <3> QED BY <2>2, <2>4, <2>6, <3>1, <3>2
<1>12. Stands(n)'
  <2>1. Stands(n) BY <1>0, <1>1, <1>5 DEF ShapeInv
  <2>2. n > 1 => stack'[n - 1] = stack[n - 1] BY <1>0, <1>5, <1>11
  <2> QED BY <1>0, <1>2, <1>5, <1>7, <1>10, <1>11, <2>1, <2>2 DEF Stands
<1>13. Stands(n + 1)'
  <2>1. n + 1 > 1 /\ (n + 1) - 1 = n /\ ~(n + 1 < n + 1) BY <1>0, <1>5
  <2> QED BY <1>0, <1>4, <1>7, <1>8, <1>10, <1>11, <2>1 DEF Stands
<1>14. Keeps(n)' /\ Keeps(n + 1)' BY <1>0, <1>8, <1>10, <1>11 DEF Keeps
<1>15. ASSUME NEW i \in {n, n + 1}, NEW a \in 1..n, a < i, RunsFor(a, i)'
       PROVE  Taken(stack'[a].call, stack'[i], i = a + 1)
  <2>1. ~(a < n)
    <3>1. a < n => n \in (a + 1)..i BY <1>0, <1>5
    <3> QED BY <1>0, <1>10, <1>11, <1>15, <3>1 DEF RunsFor
  <2>2. a = n /\ i = n + 1 BY <1>0, <1>5, <1>15, <2>1
  <2>3. Untouched(c, d) /\ c.export = d.export BY <1>0, <1>7, <1>8 DEF Untouched
  <2>4. Taken(c, d, TRUE) BY <1>0, <1>8, <2>3 DEF Taken
  <2> QED BY <1>0, <1>10, <1>11, <2>2, <2>4
<1>16. stack'[1].at = "app" /\ ShapeInv' /\ OwnerInv' /\ KeepInv' /\ TakenInv'
  <2>1. stack'[n].at = stack[n].at /\ n \in Nat BY <1>0, <1>2, <1>5, <1>10, <1>11
  <2> QED BY <1>1, <1>2, <1>11, <1>12, <1>13, <1>14, <1>15, <2>1, <1>0, PushKeeps
<1>17. CallTypes' BY <1>0, <1>1, <1>2, <1>5, <1>11, <1>16 DEF CallTypes
<1>18. FlagInv'
  <2>1. \A f \in Families : ~flag[f] BY <1>0, <1>1, <1>2 DEF FlagInv
  <2>2. Top' = d BY <1>0, <1>11 DEF Top
  <2>3. First(n + 1)' BY <1>0, <1>5, <1>10, <1>11 DEF First
  <2>4. Len(stack)' = n + 1 BY <1>0, <1>11
  <2> QED BY <1>0, <1>2, <1>8, <2>1, <2>2, <2>3, <2>4 DEF FlagInv, First
<1> QED BY <1>0, <1>16, <1>17, <1>18 DEF DetourInv

LEMMA ForwardsKeeps ==
    ASSUME DetourInv, Forwards
    PROVE  DetourInv'
<1>0. PICK n \in Nat : n = Len(stack) BY StackIs DEF DetourInv
<1> DEFINE e == Top.export  arg == Top.arg
           r == [Top EXCEPT !.pc = "return"]  s == [stack EXCEPT ![n].pc = "return"]
<1>1. CallTypes /\ ShapeInv /\ OwnerInv /\ KeepInv /\ FlagInv /\ TakenInv BY DEF DetourInv
<1>2. Top.at = "detour" /\ Top.pc = "forward" /\ UNCHANGED <<storage, thread, over>> BY DEF Forwards
<1>3. n \in Nat \ {0} /\ n \in 1..n /\ Top = stack[n] /\ stack \in Seq(Frames) /\ Top \in DetourFrames
  BY <1>0, <1>1, <1>2, StackIs DEF CallTypes
<1>4. e \in Exports /\ arg \in Args /\ Top.alertable \in BOOLEAN BY <1>0, <1>3, DetourIs
<1>5. /\ r \in DetourFrames /\ r \in Frames /\ r.at = "detour" /\ r.pc = "return" /\ r.export = e /\ r.alertable = Top.alertable
      /\ r.arg = arg /\ r.was = Top.was
  BY <1>0, <1>3 DEF DetourFrames, Frames
<1>6. s \in Seq(Frames) /\ Len(s) = n /\ \A i \in 1..n : s[i] = IF i = n THEN r ELSE stack[i]
  <2>1. s = [stack EXCEPT ![n] = r] BY <1>0, <1>3
  <2> HIDE DEF s, r
  <2> QED BY <1>0, <1>3, <1>5, <2>1, ExceptSeq
<1>7. /\ Stands(n) /\ Keeps(n) /\ Taken(Asked, Top, n = AppFrame + 1)
      /\ AppFrame \in 1..n /\ AppFrame < n /\ Asked = stack[AppFrame].call /\ \A a : RunsFor(a, n) => a = AppFrame
  BY <1>0, <1>1, <1>2, TopIs, OwnerIs
<1>8. Sound(Asked, InKernelUnits(e, arg)) /\ Family(e) = Family(Asked.export)
  BY <1>0, <1>2, <1>7 DEF Taken
<1>9. n > 1 /\ (Top.alertable => e \in Alertables) BY <1>0, <1>2, <1>3, <1>7 DEF Stands
<1>10. \A f \in Families : flag[f] <=> storage /\ Family(e) = f BY <1>0, <1>1, <1>2 DEF FlagInv
<1>11. storage \in BOOLEAN /\ flag \in [Families -> BOOLEAN] BY <1>0, <1>1 DEF CallTypes
<1>12. e \in Alertables => Family(e) \in Families
  <2>1. e \in Alertables => e # "SetTimer" BY DEF Alertables
  <2> QED BY <1>0, <1>4, <2>1, ExportIs
<1> HIDE DEF s, r
<1>13. ASSUME NEW x \in Frames, x.at \in {"detour", "kernel"}, stack' = Append(s, x), flag' \in [Families -> BOOLEAN],
              x.at = "detour" => /\ x.export \in Leads(e) /\ x.pc = "enter" /\ x.was = "none"
                                 /\ \A f \in Families : flag'[f] <=> storage /\ Family(x.export) = f,
              x.at = "kernel" => /\ "kernel" \in Leads(e) /\ x.export = e
                                 /\ (x.was = "up" <=> storage /\ x.alertable)
                                 /\ \A f \in Families : flag'[f] <=> storage /\ Family(x.export) = f /\ ~x.alertable,
              x.alertable = Top.alertable, x.alertable => x.export \in Alertables, Family(x.export) = Family(e),
              InKernelUnits(x.export, x.arg) = InKernelUnits(e, arg)
       PROVE  DetourInv'
  <2>1. /\ stack' \in Seq(Frames) /\ Len(stack') = n + 1 /\ Top' = x /\ stack'[n + 1] = x
        /\ \A i \in 1..n : stack'[i] = s[i]
    BY <1>0, <1>1, <1>6, <1>13, PushIs
  <2>2. stack'[n] = r /\ \A i \in 1..n : i # n => stack'[i] = stack[i] BY <1>0, <1>3, <1>6, <2>1
  <2>3. n > 1 => n - 1 \in 1..n /\ stack'[n - 1] = stack[n - 1] BY <1>0, <1>3, <2>2
  <2>4. Stands(n)' BY <1>0, <1>2, <1>3, <1>5, <1>7, <1>9, <2>2, <2>3 DEF Stands
  <2>5. Stands(n + 1)'
    <3>1. n + 1 > 1 /\ (n + 1) - 1 = n /\ ~(n + 1 < n + 1) BY <1>0, <1>3
    <3> QED BY <1>0, <1>5, <1>13, <2>1, <2>2, <3>1 DEF Stands
  <2>6. Keeps(n)'
    <3>1. First(n)' <=> First(n) BY <1>0, <1>9, <2>3 DEF First
    <3> QED BY <1>0, <1>2, <1>3, <1>5, <1>7, <2>2, <3>1 DEF Keeps
  <2>7. Keeps(n + 1)' BY <1>0, <1>2, <1>13, <2>1 DEF Keeps
  <2>8. ASSUME NEW i \in {n, n + 1}, NEW a \in 1..n, a < i, RunsFor(a, i)'
        PROVE  Taken(stack'[a].call, stack'[i], i = a + 1)
    <3>1. a # n BY <1>0, <1>5, <2>2, <2>8 DEF RunsFor
    <3>2. a < n /\ n \in (a + 1)..i /\ 1..i \subseteq Int BY <1>0, <1>3, <2>8, <3>1
    <3>3. RunsFor(a, n)
      <4>1. \A j \in 1..n : stack'[j].at = stack[j].at BY <1>0, <1>2, <1>3, <1>5, <2>2
      <4>2. a \in 1..n /\ stack'[a].at = "app" /\ \A j \in (a + 1)..n : j \in (a + 1)..i /\ j \in 1..n
        BY <1>0, <1>3, <2>8, <3>2 DEF RunsFor
      <4> QED BY <2>8, <4>1, <4>2 DEF RunsFor
    <3>4. a = AppFrame /\ stack'[a].call = Asked BY <1>0, <1>7, <2>2, <3>1, <3>3
    <3>5. CASE i = n
      <4>1. Taken(Asked, r, i = a + 1) BY <1>0, <1>5, <1>8 DEF Taken
      <4> QED BY <2>2, <3>4, <3>5, <4>1
    <3>6. CASE i = n + 1
      <4>1. ~(i = a + 1) BY <1>0, <1>3, <3>1, <3>6
      <4>2. ~(x.at = "detour" /\ x.pc = "rate") BY <1>0, <1>13
      <4>3. Taken(Asked, x, i = a + 1) BY <1>0, <1>8, <1>13, <4>1, <4>2 DEF Taken
      <4> QED BY <2>1, <3>4, <3>6, <4>3
    <3> QED BY <2>8, <3>5, <3>6
  <2>9. stack'[1].at = "app" /\ ShapeInv' /\ OwnerInv' /\ KeepInv' /\ TakenInv'
    <3>1. stack'[n].at = stack[n].at /\ n \in Nat BY <1>0, <1>2, <1>3, <1>5, <2>2
    <3> QED BY <1>1, <1>2, <2>1, <2>2, <2>4, <2>5, <2>6, <2>7, <2>8, <3>1, <1>0, PushKeeps
  <2>10. CallTypes' BY <1>0, <1>1, <1>2, <1>3, <1>13, <2>1, <2>9 DEF CallTypes
  <2>11. FlagInv'
    <3>1. ~First(n + 1)' /\ Len(stack)' = n + 1 BY <1>0, <1>3, <1>5, <2>1, <2>2 DEF First
    <3> QED BY <1>0, <1>2, <1>13, <2>1, <3>1 DEF FlagInv, First
  <2> QED BY <2>9, <2>10, <2>11 DEF DetourInv
<1>14. PICK to \in Leads(e) :
          IF to # "kernel"
          THEN stack' = Append(s, Detour(to, Top.alertable, Handed(e, to, arg))) /\ UNCHANGED flag
          ELSE LET lowers == Top.alertable /\ Lowers(e) /\ storage
               IN  /\ stack' = Append(s, [at |-> "kernel", export |-> e, alertable |-> Top.alertable,
                                          arg |-> arg, was |-> IF lowers THEN Guard ELSE "none"])
                   /\ flag' = IF lowers THEN [flag EXCEPT ![Family(e)] = FALSE] ELSE flag
  BY <1>0 DEF Forwards, s
<1>15. CASE to # "kernel"
  <2> DEFINE x == Detour(to, Top.alertable, Handed(e, to, arg))
  <2>1. /\ to \in Exports /\ Family(to) = Family(e) /\ (e \in Alertables => to \in Alertables)
        /\ Handed(e, to, arg) \in Args /\ InKernelUnits(to, Handed(e, to, arg)) = InKernelUnits(e, arg)
    BY <1>0, <1>4, <1>15, ExportIs, HandedIs
  <2>2. /\ x \in Frames /\ x.at = "detour" /\ x.pc = "enter" /\ x.export = to /\ x.alertable = Top.alertable
        /\ x.arg = Handed(e, to, arg) /\ x.was = "none"
    BY <1>0, <1>4, <2>1 DEF Detour, Frames, DetourFrames
  <2>3. stack' = Append(s, x) /\ UNCHANGED flag BY <1>0, <1>14, <1>15
  <2> HIDE DEF x
  <2>4. \A f \in Families : flag'[f] <=> storage /\ Family(x.export) = f
    BY <1>0, <1>10, <2>1, <2>2, <2>3
  <2> QED BY <1>0, <1>9, <1>11, <1>13, <2>1, <2>2, <2>3, <2>4
<1>16. CASE to = "kernel"
  <2> DEFINE lowers == Top.alertable /\ Lowers(e) /\ storage
             x == [at |-> "kernel", export |-> e, alertable |-> Top.alertable,
                   arg |-> arg, was |-> IF lowers THEN Guard ELSE "none"]
  <2>1. "kernel" \in Leads(e) /\ (lowers <=> Top.alertable /\ storage)
    BY <1>0, <1>4, <1>9, <1>14, <1>16, ExportIs
  <2>2. lowers => Guard = "up" BY <1>0, <1>9, <1>10, <1>12, <2>1 DEF Guard
  <2>3. Guard \in {"up", "down"} BY DEF Guard
  <2>4. stack' = Append(s, x) /\ flag' = IF lowers THEN [flag EXCEPT ![Family(e)] = FALSE] ELSE flag
    BY <1>0, <1>14, <1>16
  <2>5. lowers \in BOOLEAN BY <1>0, <1>4, <1>11, <2>1
  <2> HIDE DEF lowers
  <2>6. /\ x \in Frames /\ x.at = "kernel" /\ x.export = e /\ x.alertable = Top.alertable /\ x.arg = arg
        /\ (x.was = "up" <=> storage /\ Top.alertable)
    <3>1. (IF lowers THEN Guard ELSE "none") \in {"none", "up"} BY <2>2
    <3> HIDE DEF x
    <3>2. x.at = "kernel" /\ x.export = e /\ x.alertable = Top.alertable /\ x.arg = arg
          /\ x.was = (IF lowers THEN Guard ELSE "none")
      BY DEF x
    <3>3. x \in KernelFrames BY <1>0, <1>4, <3>1 DEF x, KernelFrames
    <3>4. x.was = "up" <=> storage /\ Top.alertable BY <2>1, <2>2, <3>2
    <3> QED BY <3>2, <3>3, <3>4 DEF Frames
  <2> HIDE DEF x
  <2>7. flag' \in [Families -> BOOLEAN] /\ \A f \in Families : flag'[f] <=> storage /\ Family(e) = f /\ ~Top.alertable
    <3>1. CASE lowers BY <1>0, <1>9, <1>10, <1>11, <1>12, <2>1, <2>4, <3>1
    <3>2. CASE ~lowers BY <1>0, <1>10, <1>11, <2>1, <2>4, <3>2
    <3> QED BY <3>1, <3>2
  <2> QED BY <1>0, <1>9, <1>13, <2>1, <2>4, <2>6, <2>7
<1> QED BY <1>0, <1>15, <1>16

LEMMA ApcRunsKeeps ==
    ASSUME DetourInv, ApcRuns
    PROVE  DetourInv'
<1>0. PICK n \in Nat : n = Len(stack) BY StackIs DEF DetourInv
<1> DEFINE x == App(NoCall)
<1>1. CallTypes /\ ShapeInv /\ OwnerInv /\ KeepInv /\ FlagInv /\ TakenInv BY DEF DetourInv
<1>2. Top.at = "kernel" /\ Top.alertable /\ stack' = Append(stack, x) /\ UNCHANGED <<flag, storage, thread, over>>
  BY DEF ApcRuns
<1>3. n \in Nat \ {0} /\ n \in 1..n /\ Top = stack[n] /\ stack \in Seq(Frames)
  BY <1>0, <1>1, StackIs DEF CallTypes
<1>4. x \in Frames /\ x.at = "app" /\ x.call = NoCall BY DEF App, Frames, AppFrames
<1>5. /\ stack' \in Seq(Frames) /\ Len(stack') = n + 1 /\ Top' = x /\ stack'[n + 1] = x
      /\ \A i \in 1..n : stack'[i] = stack[i]
  BY <1>0, <1>1, <1>2, <1>3, <1>4, PushIs
<1> HIDE DEF x
<1>6. Stands(n) /\ Keeps(n) /\ n > 1 /\ n - 1 \in 1..n
  <2>1. Stands(n) /\ Keeps(n) BY <1>0, <1>1, <1>3 DEF ShapeInv, KeepInv
  <2> QED BY <1>0, <1>2, <1>3, <2>1 DEF Stands
<1>7. Stands(n)' /\ Keeps(n)' BY <1>0, <1>2, <1>3, <1>5, <1>6 DEF Stands, Keeps
<1>8. Stands(n + 1)' /\ Keeps(n + 1)'
  <2>1. n + 1 > 1 /\ (n + 1) - 1 = n /\ ~(n + 1 < n + 1) BY <1>0, <1>3
  <2> QED BY <1>0, <1>2, <1>3, <1>4, <1>5, <2>1, CallIs DEF Stands, Keeps
<1>9. ASSUME NEW i \in {n, n + 1}, NEW a \in 1..n, a < i, RunsFor(a, i)'
      PROVE  Taken(stack'[a].call, stack'[i], i = a + 1)
  <2>1. i # n + 1
    <3>1. i \in (a + 1)..i BY <1>0, <1>3, <1>9
    <3> QED BY <1>0, <1>4, <1>5, <1>9, <3>1 DEF RunsFor
  <2>2. i = n BY <1>0, <1>9, <2>1
  <2>3. RunsFor(a, n)
    <3>1. \A j \in (a + 1)..n : j \in 1..n BY <1>0, <1>3
    <3> QED BY <1>0, <1>5, <1>9, <2>2, <3>1 DEF RunsFor
  <2>4. Taken(stack[a].call, stack[n], n = a + 1) BY <1>0, <1>1, <1>3, <1>9, <2>2, <2>3 DEF TakenInv
  <2> QED BY <1>0, <1>3, <1>5, <2>2, <2>4
<1>10. stack'[1].at = "app" /\ ShapeInv' /\ OwnerInv' /\ KeepInv' /\ TakenInv'
  <2>1. stack'[n].at = stack[n].at /\ n \in Nat /\ \A i \in 1..n : i # n => stack'[i] = stack[i]
    BY <1>0, <1>3, <1>5
  <2> QED BY <1>1, <1>2, <1>5, <1>7, <1>8, <1>9, <2>1, <1>0, PushKeeps
<1>11. CallTypes' BY <1>0, <1>1, <1>2, <1>3, <1>5, <1>10 DEF CallTypes
<1>12. FlagInv' BY <1>0, <1>1, <1>2, <1>4, <1>5 DEF FlagInv
<1> QED BY <1>0, <1>10, <1>11, <1>12 DEF DetourInv

-----------------------------------------------------------------------------
(* The steps that take frames off.                                         *)

LEMMA ReturnsKeeps ==
    ASSUME DetourInv, Returns
    PROVE  DetourInv'
<1>0. PICK n \in Nat : n = Len(stack) BY StackIs DEF DetourInv
<1> DEFINE k == n - 1  e == Top.export  f0 == Family(e)
<1>1. CallTypes /\ ShapeInv /\ OwnerInv /\ KeepInv /\ FlagInv /\ TakenInv BY DEF DetourInv
<1>2. /\ Top.at = "kernel" \/ (Top.at = "detour" /\ Top.pc = "return")
      /\ flag' = PutBack(flag, Top) /\ UNCHANGED <<storage, thread, over>>
      /\ stack' = IF Below[Len(Below)].at = "app" THEN [Below EXCEPT ![Len(Below)].call = NoCall] ELSE Below
  BY DEF Returns
<1>3. n \in 1..n /\ Top = stack[n] /\ stack \in Seq(Frames) /\ Top.at # "app"
  BY <1>0, <1>1, <1>2, StackIs DEF CallTypes
<1>4. Stands(n) /\ Keeps(n) BY <1>0, <1>3, TopIs
<1>5. n > 1 /\ k \in 1..n /\ k < n /\ k \in Nat \ {0} BY <1>2, <1>3, <1>4 DEF Stands
<1>6. Below \in Seq(Frames) /\ Len(Below) = k /\ \A i \in 1..k : Below[i] = stack[i]
  BY <1>0, <1>3, <1>5, SubSeqProperties DEF Below
<1>7. Stands(k) /\ Keeps(k) BY <1>0, <1>1, <1>5 DEF ShapeInv, KeepInv
<1>8. /\ stack' \in Seq(Frames) /\ Len(stack') = k /\ \A i \in 1..k : i # k => stack'[i] = stack[i]
      /\ \/ stack'[k] = stack[k]
         \/ stack[k].at = "app" /\ stack'[k] = [at |-> "app", call |-> NoCall]
  <2>1. CASE stack[k].at = "app"
    <3> DEFINE x == [Below[k] EXCEPT !.call = NoCall]
    <3>1. stack' = [Below EXCEPT ![k] = x] BY <1>2, <1>5, <1>6, <2>1
    <3>2. stack[k] \in AppFrames BY <1>0, <1>1, <1>5, <2>1, StackIs
    <3>3. x = [at |-> "app", call |-> NoCall] /\ x \in Frames
      BY <1>5, <1>6, <3>2 DEF AppFrames, Frames
    <3> HIDE DEF x
    <3>4. /\ stack' \in Seq(Frames) /\ Len(stack') = k
          /\ \A i \in 1..k : stack'[i] = IF i = k THEN x ELSE Below[i]
      BY <1>5, <1>6, <3>1, <3>3, ExceptSeq
    <3> QED BY <1>5, <1>6, <2>1, <3>3, <3>4
  <2>2. CASE stack[k].at # "app" BY <1>2, <1>5, <1>6, <2>2
  <2> QED BY <2>1, <2>2
<1>9. stack'[1].at = "app" /\ ShapeInv' /\ OwnerInv' /\ KeepInv' /\ TakenInv'
  <2>1. k \in 1..Len(stack) /\ k < Len(stack) BY <1>0, <1>5
  <2> QED BY <1>1, <1>2, <1>8, <2>1, PopKeeps
<1>10. Top' = stack'[k] /\ stack'[k].at = stack[k].at /\ Len(stack)' = k BY <1>8 DEF Top
<1>11. storage \in BOOLEAN /\ flag \in [Families -> BOOLEAN] /\ stack[k] \in Frames
  BY <1>0, <1>1, <1>5, StackIs DEF CallTypes
<1>12. e \in Exports /\ Top.was \in {"none", "down", "up"}
  <2>1. Top \in DetourFrames \/ Top \in KernelFrames BY <1>0, <1>1, <1>2, <1>3, StackIs
  <2> QED BY <2>1 DEF DetourFrames, KernelFrames
<1>13. flag' \in [Families -> BOOLEAN] /\ FlagInv'
  <2>1. CASE Top.at = "kernel"
    <3>1. stack[k].at = "detour" /\ stack[k].export = e /\ stack[k].pc = "return" /\ (Top.alertable => e \in Alertables)
      BY <1>0, <1>3, <1>4, <1>5, <1>7, <2>1 DEF Stands
    <3>2. Top'.at = "detour" /\ Top'.export = e /\ Top'.pc = "return" BY <1>8, <1>10, <3>1
    <3>3. \A f \in Families : flag[f] <=> storage /\ f0 = f /\ ~Top.alertable
      BY <1>1, <2>1 DEF FlagInv
    <3>4. Top.was = "up" <=> storage /\ Top.alertable BY <1>3, <1>4, <2>1 DEF Keeps
    <3>5. Top.was \in {"none", "up"} /\ Top.alertable \in BOOLEAN
      <4>1. Top \in KernelFrames BY <1>0, <1>1, <1>3, <2>1, StackIs
      <4> QED BY <4>1 DEF KernelFrames
    <3>6. e \in Alertables => f0 \in Families
      <4>1. e \in Alertables => e # "SetTimer" BY DEF Alertables
      <4> QED BY <1>12, <4>1, ExportIs
    <3>7. flag' \in [Families -> BOOLEAN] /\ \A f \in Families : flag'[f] <=> storage /\ f0 = f
      <4>1. CASE storage /\ Top.alertable
        <5>1. flag' = [flag EXCEPT ![f0] = TRUE] BY <1>2, <3>4, <4>1 DEF PutBack
        <5> QED BY <1>11, <3>1, <3>3, <3>6, <4>1, <5>1
      <4>2. CASE ~(storage /\ Top.alertable)
        <5>1. flag' = flag BY <1>2, <3>4, <3>5, <4>2 DEF PutBack
        <5> QED BY <1>11, <3>3, <4>2, <5>1
      <4> QED BY <4>1, <4>2
    <3> QED BY <1>2, <3>2, <3>7 DEF FlagInv
  <2>2. CASE Top.at = "detour"
    <3>0. Top.pc = "return" /\ Top.was \in {"none", "down"}
      <4>1. Top \in DetourFrames BY <1>0, <1>1, <1>3, <2>2, StackIs
      <4> QED BY <1>2, <2>2, <4>1 DEF DetourFrames
    <3>1. \A f \in Families : flag[f] <=> storage /\ f0 = f BY <1>1, <2>2, <3>0 DEF FlagInv
    <3>2. Top.was = "down" <=> storage /\ e # "SetTimer" /\ First(n)
      BY <1>3, <1>4, <2>2, <3>0 DEF Keeps
    <3>3. CASE First(n)
      <4>1. Top'.at = "app" BY <1>10, <3>3 DEF First
      <4>2. flag' \in [Families -> BOOLEAN] /\ \A f \in Families : ~flag'[f]
        <5>1. CASE storage /\ e # "SetTimer"
          <6>1. flag' = [flag EXCEPT ![f0] = FALSE] /\ f0 \in Families
            BY <1>2, <1>12, <3>2, <3>3, <5>1, ExportIs DEF PutBack
          <6> QED BY <1>11, <3>1, <6>1
        <5>2. CASE ~(storage /\ e # "SetTimer")
          <6>1. flag' = flag BY <1>2, <3>0, <3>2, <5>2 DEF PutBack
          <6>2. \A f \in Families : ~(storage /\ f0 = f) BY <1>12, <5>2, ExportIs
          <6> QED BY <1>11, <3>1, <6>1, <6>2
        <5> QED BY <5>1, <5>2
      <4> QED BY <4>1, <4>2 DEF FlagInv
    <3>4. CASE ~First(n)
      <4>1. flag' = flag BY <1>2, <3>0, <3>2, <3>4 DEF PutBack
      <4>2. stack[k].at = "detour" /\ e \in Leads(stack[k].export) /\ stack[k].pc = "return"
        BY <1>0, <1>3, <1>4, <1>5, <1>7, <2>2, <3>4 DEF Stands, First
      <4>3. Top'.at = "detour" /\ Top'.export = stack[k].export /\ Top'.pc = "return"
        BY <1>8, <1>10, <4>2
      <4>4. stack[k].export \in Exports BY <1>0, <1>1, <1>5, <4>2, StackIs, DetourIs
      <4>5. e # "kernel" BY <1>12 DEF Exports, Sleeps, Objects, Settable
      <4>6. Family(stack[k].export) = f0 BY <4>2, <4>4, <4>5, ExportIs
      <4> QED BY <1>2, <1>11, <3>1, <4>1, <4>3, <4>6 DEF FlagInv
    <3> QED BY <3>3, <3>4
  <2> QED BY <1>2, <2>1, <2>2
<1>14. CallTypes' BY <1>1, <1>2, <1>5, <1>8, <1>9, <1>13 DEF CallTypes
<1> QED BY <1>9, <1>13, <1>14 DEF DetourInv

LEMMA ApcReturnsKeeps ==
    ASSUME DetourInv, ApcReturns
    PROVE  DetourInv'
<1>0. PICK n \in Nat : n = Len(stack) BY StackIs DEF DetourInv
<1> DEFINE k == n - 1
<1>1. CallTypes /\ ShapeInv /\ OwnerInv /\ KeepInv /\ FlagInv /\ TakenInv BY DEF DetourInv
<1>2. Top.at = "app" /\ n > 1 /\ stack' = Below /\ UNCHANGED <<flag, storage, thread, over>>
  BY <1>0 DEF ApcReturns
<1>3. n \in 1..n /\ Top = stack[n] /\ stack \in Seq(Frames) /\ k \in 1..n /\ k < n /\ k \in Nat \ {0}
  BY <1>0, <1>1, <1>2, StackIs DEF CallTypes
<1>4. stack[k].at = "kernel" /\ stack[k].alertable
  <2>1. Stands(n) BY <1>0, <1>1, <1>3 DEF ShapeInv
  <2> QED BY <1>2, <1>3, <2>1 DEF Stands
<1>5. stack' \in Seq(Frames) /\ Len(stack') = k /\ \A i \in 1..k : stack'[i] = stack[i]
  BY <1>0, <1>2, <1>3, SubSeqProperties DEF Below
<1>6. stack'[1].at = "app" /\ ShapeInv' /\ OwnerInv' /\ KeepInv' /\ TakenInv'
  <2>1. k \in 1..Len(stack) /\ k < Len(stack) /\ k \in 1..k BY <1>0, <1>3
  <2> QED BY <1>1, <1>2, <1>5, <2>1, PopKeeps
<1>7. Top' = stack[k] BY <1>3, <1>5 DEF Top
<1>8. FlagInv' BY <1>1, <1>2, <1>4, <1>7 DEF FlagInv
<1>9. CallTypes' BY <1>1, <1>2, <1>3, <1>5, <1>6 DEF CallTypes
<1> QED BY <1>6, <1>8, <1>9 DEF DetourInv

\* A set of numbers has a least one.
LEMMA LeastIs ==
    ASSUME NEW S, S \subseteq Nat, S # {}
    PROVE  \E x \in S : \A y \in S : x <= y
<1>1. PICK x \in S : \A y \in S : ~(<<y, x>> \in OpToRel(<, Nat)) BY NatLessThanWellFounded, WFMin
<1>2. \A y \in S : ~(y < x) BY <1>1 DEF OpToRel
<1>3. \A y \in S : y \in Int OBVIOUS
<1> QED BY <1>2, <1>3

\* The lowest of a family's frames with a flag to put back is a call's first detour.
LEMMA LowestIs ==
    ASSUME DetourInv, NEW to \in 1..Len(stack), stack[to].at = "app", NEW f \in Families, NEW i \in (to + 1)..Len(stack),
           stack[i].at # "app", Family(stack[i].export) = f, stack[i].was # "none",
           \A j \in (to + 1)..Len(stack) :
                stack[j].at # "app" /\ Family(stack[j].export) = f /\ stack[j].was # "none" => i <= j
    PROVE  stack[i].was # "up"
<1>0. PICK n \in Nat : n = Len(stack) BY StackIs DEF DetourInv
<1>1. CallTypes /\ ShapeInv /\ OwnerInv /\ KeepInv /\ FlagInv /\ TakenInv BY DEF DetourInv
<1> SUFFICES ASSUME stack[i].was = "up" PROVE FALSE OBVIOUS
<1>2. i \in 1..n /\ to \in 1..n /\ to < i /\ i \in Nat /\ to \in Nat BY <1>0
<1>3. Stands(i) /\ Keeps(i) BY <1>0, <1>1, <1>2 DEF ShapeInv, KeepInv
<1>4. stack[i].at = "kernel"
  <2>1. stack[i].at \in {"detour", "kernel"} /\ (stack[i].at = "detour" => stack[i] \in DetourFrames)
    BY <1>0, <1>1, <1>2, StackIs
  <2> QED BY <2>1 DEF DetourFrames
<1>5. storage /\ i > 1 /\ stack[i - 1].at = "detour" BY <1>3, <1>4 DEF Keeps, Stands
<1>6. PICK a \in 1..i : RunsFor(a, i) BY <1>0, <1>1, <1>2 DEF OwnerInv
<1>7. a \in Nat /\ a >= to /\ a < i - 1 /\ stack[a].at = "app"
  <2>1. a \in Nat /\ stack[a].at = "app" BY <1>2, <1>6 DEF RunsFor
  <2>2. a # i /\ a # i - 1 BY <1>4, <1>5, <2>1
  <2>3. ~(a < to)
    <3>1. a < to => to \in (a + 1)..i BY <1>2, <2>1
    <3> QED BY <1>6, <3>1 DEF RunsFor
  <2> QED BY <1>2, <1>6, <2>1, <2>2, <2>3
<1> DEFINE d == a + 1
<1>8. d \in (to + 1)..n /\ d \in 1..n /\ d < i /\ d < n /\ d \in (a + 1)..i /\ d - 1 = a /\ a \in 1..n /\ a < i /\ a < d
  BY <1>2, <1>7
<1>9. Stands(d) /\ Keeps(d) /\ Stands(d + 1)
  <2>1. d + 1 \in 1..n BY <1>8
  <2> QED BY <1>0, <1>1, <1>8, <2>1 DEF ShapeInv, KeepInv
<1>10. stack[d].at = "detour" /\ stack[d] \in DetourFrames
  <2>1. stack[d].at # "app" BY <1>6, <1>8 DEF RunsFor
  <2>2. stack[d].at # "kernel" BY <1>7, <1>8, <1>9 DEF Stands
  <2> QED BY <1>0, <1>1, <1>8, <2>1, <2>2, StackIs
<1>11. First(d) /\ stack[d].pc = "return" BY <1>0, <1>7, <1>8, <1>9, <1>10 DEF First, Stands
<1>12. Family(stack[d].export) = f
  <2>1. RunsFor(a, d) BY <1>2, <1>6, <1>8 DEF RunsFor
  <2>2. Taken(stack[a].call, stack[d], d = a + 1) /\ Taken(stack[a].call, stack[i], i = a + 1)
    BY <1>0, <1>1, <1>2, <1>6, <1>8, <2>1 DEF TakenInv
  <2> QED BY <2>2 DEF Taken
<1>13. stack[d].export # "SetTimer"
  <2>1. stack[d].export \in Exports BY <1>10, DetourIs
  <2> QED BY <1>12, <2>1, ExportIs
<1>14. stack[d].was = "down" BY <1>5, <1>9, <1>10, <1>11, <1>13 DEF Keeps
<1>15. i <= d BY <1>0, <1>8, <1>10, <1>12, <1>14
<1> QED BY <1>2, <1>8, <1>15

LEMMA ApcThrowsKeeps ==
    ASSUME DetourInv, ApcThrows
    PROVE  DetourInv'
<1>0. PICK n \in Nat : n = Len(stack) BY StackIs DEF DetourInv
<1>1. CallTypes /\ ShapeInv /\ OwnerInv /\ KeepInv /\ FlagInv /\ TakenInv BY DEF DetourInv
<1> DEFINE HeldBy(to, f) == {i \in (to + 1)..Len(stack) : stack[i].at # "app" /\ Family(stack[i].export) = f /\ stack[i].was # "none"}
           Lowest(S) == CHOOSE i \in S : \A j \in S : i <= j
<1>2. Top.at = "app" /\ UNCHANGED <<storage, thread, over>> BY DEF ApcThrows
<1>3. PICK to \in 1..(Len(stack) - 1) :
          /\ stack[to].at = "app"
          /\ stack' = [SubSeq(stack, 1, to) EXCEPT ![to].call = NoCall]
          /\ flag' = [f \in Families |->
                IF ~thread.lands \/ ~storage \/ HeldBy(to, f) = {} THEN flag[f]
                ELSE stack[Lowest(HeldBy(to, f))].was = "up"]
  BY DEF ApcThrows
<1>4. to \in 1..n /\ to < n /\ to \in Nat \ {0} /\ to \in 1..to /\ stack \in Seq(Frames)
  BY <1>0, <1>1 DEF CallTypes
<1> DEFINE b == SubSeq(stack, 1, to)  x == [b[to] EXCEPT !.call = NoCall]
<1>5. b \in Seq(Frames) /\ Len(b) = to /\ \A i \in 1..to : b[i] = stack[i]
  BY <1>0, <1>4, SubSeqProperties
<1>6. stack[to] \in AppFrames BY <1>0, <1>1, <1>3, <1>4, StackIs
<1>7. x = [at |-> "app", call |-> NoCall] /\ x \in Frames
  <2>1. b[to] = stack[to] BY <1>4, <1>5
  <2> HIDE DEF b
  <2>2. x = [at |-> "app", call |-> NoCall] BY <1>6, <2>1 DEF AppFrames
  <2> QED BY <2>2 DEF AppFrames, Frames
<1>8. stack' = [b EXCEPT ![to] = x] BY <1>3
<1> HIDE DEF b, x
<1>9. /\ stack' \in Seq(Frames) /\ Len(stack') = to /\ stack'[to] = [at |-> "app", call |-> NoCall]
      /\ \A i \in 1..to : i # to => stack'[i] = stack[i]
  BY <1>4, <1>5, <1>7, <1>8, ExceptSeq
<1>10. stack'[1].at = "app" /\ ShapeInv' /\ OwnerInv' /\ KeepInv' /\ TakenInv'
  <2>1. to \in 1..Len(stack) /\ to < Len(stack) BY <1>0, <1>4
  <2> QED BY <1>1, <1>2, <1>3, <1>9, <2>1, PopKeeps
<1>11. \A f \in Families : ~flag[f] BY <1>1, <1>2 DEF FlagInv
<1>12. ASSUME NEW f \in Families PROVE flag'[f] = FALSE
  <2>1. flag'[f] = IF ~thread.lands \/ ~storage \/ HeldBy(to, f) = {} THEN flag[f]
                   ELSE stack[Lowest(HeldBy(to, f))].was = "up"
    BY <1>3
  <2>2. flag[f] = FALSE
    <3>1. flag[f] \in BOOLEAN BY <1>1 DEF CallTypes
    <3> QED BY <1>11, <3>1
  <2>3. ASSUME HeldBy(to, f) # {} PROVE stack[Lowest(HeldBy(to, f))].was # "up"
    <3> DEFINE S == HeldBy(to, f)
    <3>1. S \subseteq Nat BY <1>0, <1>4
    <3>2. \E i \in S : \A j \in S : i <= j
      <4> HIDE DEF S
      <4>1. S # {} BY <2>3 DEF S
      <4> QED BY <3>1, <4>1, LeastIs
    <3>3. Lowest(S) \in S /\ \A j \in S : Lowest(S) <= j
      <4> HIDE DEF S
      <4> QED BY <3>2
    <3> DEFINE i == Lowest(S)
    <3>4. i \in (to + 1)..n /\ stack[i].at # "app" /\ Family(stack[i].export) = f /\ stack[i].was # "none"
      <4>1. i \in S BY <3>3
      <4> HIDE DEF i
      <4> QED BY <1>0, <4>1
    <3>5. \A j \in (to + 1)..n : stack[j].at # "app" /\ Family(stack[j].export) = f /\ stack[j].was # "none" => i <= j
      <4>1. \A j \in S : i <= j BY <3>3
      <4> HIDE DEF i
      <4> QED BY <1>0, <4>1
    <3> HIDE DEF i, S
    <3>6. stack[i].was # "up" BY <1>0, <1>3, <1>4, <3>4, <3>5, LowestIs
    <3> QED BY <3>6 DEF i, S
  <2> QED
    <3> HIDE DEF HeldBy, Lowest
    <3> QED BY <2>1, <2>2, <2>3
<1>13. flag' \in [Families -> BOOLEAN]
  <2>1. flag' = [f \in Families |-> flag'[f]] BY <1>3
  <2> QED BY <1>12, <2>1
<1>14. Top'.at = "app" BY <1>9 DEF Top
<1>15. FlagInv' BY <1>12, <1>14 DEF FlagInv
<1>16. CallTypes' BY <1>1, <1>2, <1>4, <1>9, <1>10, <1>13 DEF CallTypes
<1> QED BY <1>10, <1>15, <1>16 DEF DetourInv

-----------------------------------------------------------------------------
(* The steps that leave the stack alone, and the theorem.                  *)

\* A thread at rest in the application's own code.
Rest ==
    /\ stack = <<App(NoCall)>> /\ flag \in [Families -> BOOLEAN] /\ \A f \in Families : ~flag[f]
    /\ storage \in BOOLEAN /\ over \in BOOLEAN /\ thread \in Threads

LEMMA RestIs == Rest => DetourInv
<1> SUFFICES ASSUME Rest PROVE DetourInv OBVIOUS
<1>1. /\ App(NoCall) \in Frames /\ App(NoCall).at = "app" /\ App(NoCall).call = NoCall
  BY DEF App, Frames, AppFrames
<1>2. Len(stack) = 1 /\ stack[1] = App(NoCall) /\ stack \in Seq(Frames) /\ Top = App(NoCall)
  BY <1>1 DEF Rest, Top
<1>3. 1..Len(stack) = {1} BY <1>2
<1>4. CallTypes BY <1>1, <1>2 DEF CallTypes, Rest
<1>5. ShapeInv BY <1>1, <1>2, <1>3, CallIs DEF ShapeInv, Stands
<1>6. OwnerInv
  <2>1. RunsFor(1, 1) BY <1>1, <1>2 DEF RunsFor
  <2> QED BY <1>3, <2>1 DEF OwnerInv
<1>7. KeepInv BY <1>1, <1>2, <1>3 DEF KeepInv, Keeps
<1>8. FlagInv BY <1>1, <1>2 DEF FlagInv, Rest
<1>9. TakenInv
  <2>1. \A i \in 1..Len(stack), a \in 1..Len(stack) : ~(a < i) BY <1>3
  <2> QED BY <2>1 DEF TakenInv
<1> QED BY <1>4, <1>5, <1>6, <1>7, <1>8, <1>9 DEF DetourInv

\* The thread takes its session, or its storage goes, between its calls.
LEMMA RestKeeps ==
    ASSUME DetourInv, Begins \/ LosesStorage
    PROVE  DetourInv'
<1>1. CallTypes /\ FlagInv BY DEF DetourInv
<1>2. stack = <<App(NoCall)>> /\ UNCHANGED <<stack, flag, over>> BY DEF Begins, LosesStorage
<1>3. Top.at = "app" BY <1>2 DEF Top, App
<1>4. storage' \in BOOLEAN /\ thread' \in Threads
  <2>1. WaitRates \subseteq Nat BY DetourCallsAssumption
  <2>2. CASE Begins BY <2>1, <2>2 DEF Begins, Threads
  <2>3. CASE LosesStorage BY <1>1, <2>3 DEF LosesStorage, CallTypes
  <2> QED BY <2>2, <2>3
<1>5. Rest' BY <1>1, <1>2, <1>3, <1>4 DEF Rest, CallTypes, FlagInv
<1> QED BY <1>5, RestIs, PTL

\* A session that ends asks less of the calls that still run, and a step elsewhere asks the same.
LEMMA CoreGoesKeeps ==
    ASSUME DetourInv, CoreGoes \/ UNCHANGED callVars
    PROVE  DetourInv'
<1>1. CallTypes /\ ShapeInv /\ OwnerInv /\ KeepInv /\ FlagInv /\ TakenInv BY DEF DetourInv
<1>2. over' \in BOOLEAN /\ (over => over') /\ UNCHANGED <<stack, flag, storage, thread>>
  <2>1. over \in BOOLEAN BY <1>1 DEF CallTypes
  <2>2. CASE CoreGoes BY <2>2 DEF CoreGoes
  <2>3. CASE UNCHANGED callVars
    <3>1. over' = over /\ UNCHANGED <<stack, flag, storage, thread>> BY <2>3 DEF callVars
    <3> QED BY <2>1, <3>1
  <2> QED BY <2>2, <2>3
<1>3. CallTypes' /\ ShapeInv' /\ OwnerInv' /\ KeepInv' /\ FlagInv'
  BY <1>1, <1>2 DEF CallTypes, ShapeInv, Stands, OwnerInv, RunsFor, KeepInv, Keeps, First, FlagInv, Top
<1>4. ASSUME NEW i \in 1..Len(stack), NEW a \in 1..Len(stack), a < i, RunsFor(a, i)
      PROVE  Taken(stack[a].call, stack[i], i = a + 1)'
  <2> DEFINE call == stack[a].call  got == InKernelUnits(stack[i].export, stack[i].arg)
  <2>1. Taken(call, stack[i], i = a + 1) BY <1>1, <1>4 DEF TakenInv
  <2>2. Sound(call, got) => Sound(call, got)'
    <3>1. IsTheAsked(call, got)' <=> IsTheAsked(call, got)
      BY <1>2 DEF IsTheAsked, PeriodAsAsked, RelativeRate
    <3>2. AsItCame(call, got)' <=> AsItCame(call, got) BY <1>2 DEF AsItCame
    <3>3. UNCHANGED <<call, got>> BY <1>2
    <3> HIDE DEF call, got
    <3> QED BY <1>2, <3>1, <3>2, <3>3 DEF Sound
  <2>3. Counted(call, stack[i]) => Counted(call, stack[i])' BY <1>2 DEF Counted
  <2>4. Untouched(call, stack[i]) => Untouched(call, stack[i])' BY <1>2 DEF Untouched
  <2> QED BY <1>2, <2>1, <2>2, <2>3, <2>4 DEF Taken
<1>5. TakenInv' BY <1>2, <1>4 DEF TakenInv, RunsFor
<1> QED BY <1>3, <1>5 DEF DetourInv

\* Every step keeps it.
LEMMA DetourNextKeeps ==
    ASSUME DetourInv, DetourNext
    PROVE  DetourInv'
BY RestKeeps, CallsKeeps, EntersKeeps, ScalesWaitKeeps, ScalesTimerKeeps, SetTimerKeeps, ForwardsKeeps, ReturnsKeeps,
   ApcRunsKeeps, ApcReturnsKeeps, ApcThrowsKeeps, CoreGoesKeeps DEF DetourNext

LEMMA DetourStarts == DetourInit => DetourInv
<1> SUFFICES ASSUME DetourInit PROVE DetourInv OBVIOUS
<1>1. Rest BY DEF DetourInit, Rest, Threads
<1> QED BY <1>1, RestIs

\* What it says of the application and its calls.
LEMMA DetourSafe == DetourInv => DetoursAreTransparent
<1> SUFFICES ASSUME DetourInv PROVE DetoursAreTransparent OBVIOUS
<1>1. CallTypes /\ ShapeInv /\ OwnerInv /\ FlagInv BY DEF DetourInv
<1>2. DetourTypeOK BY <1>1, StackIs DEF CallTypes, DetourTypeOK
<1>3. AppRunsOutside BY <1>1 DEF FlagInv, AppRunsOutside
<1>4. CallsAreTakenOnce
  <2> SUFFICES ASSUME Top.at = "kernel"
               PROVE  LET call == Asked
                      IN  /\ Len(call.counted) <= 1
                          /\ call.counted # <<>> => call.counted[1] = call.export
                          /\ AsItCame(call, Top.arg) \/ IsTheAsked(call, Top.arg)
                          /\ (storage /\ ~over /\ call.whole) => call.counted = <<call.export>> /\ IsTheAsked(call, Top.arg)
                          /\ (~storage /\ call.export # "SetTimer") => call.counted = <<>> /\ AsItCame(call, Top.arg)
                          /\ (~storage /\ ~over /\ ~thread.loader /\ call.export # "SetTimer") => call.apart > 0
                          /\ (~thread.scaled /\ Top.arg.n < 0 /\ call.arg.n < 0) => AsItCame(call, Top.arg)
    BY DEF CallsAreTakenOnce
  <2>1. Taken(Asked, Top, Len(stack) = AppFrame + 1) /\ Stands(Len(stack)) /\ Top = stack[Len(stack)] /\ Top \in KernelFrames
    BY <1>1, TopIs, StackIs
  <2>2. Sound(Asked, InKernelUnits(Top.export, Top.arg)) BY <2>1 DEF Taken
  <2>3. Top.export \in Exports /\ "kernel" \in Leads(Top.export) BY <2>1 DEF Stands, KernelFrames
  <2>4. InKernelUnits(Top.export, Top.arg) = Top.arg BY <2>3, ExportIs DEF InKernelUnits
  <2>5. Sound(Asked, Top.arg) BY <2>2, <2>4
  <2>6. /\ Asked.counted \in {<< >>, <<Asked.export>>}
        /\ AsItCame(Asked, Top.arg) \/ IsTheAsked(Asked, Top.arg)
        /\ (storage /\ ~over /\ Asked.whole) => Asked.counted = <<Asked.export>> /\ IsTheAsked(Asked, Top.arg)
        /\ (~storage /\ Asked.export # "SetTimer") => Asked.counted = <<>> /\ AsItCame(Asked, Top.arg)
        /\ (~storage /\ ~over /\ ~thread.loader /\ Asked.export # "SetTimer") => Asked.apart > 0
        /\ (~thread.scaled /\ Top.arg.n < 0 /\ Asked.arg.n < 0) => AsItCame(Asked, Top.arg)
    BY <2>5 DEF Sound
  <2>7. Len(Asked.counted) <= 1 /\ (Asked.counted # <<>> => Asked.counted[1] = Asked.export)
    <3>1. \A x : Len(<<x>>) = 1 /\ <<x>>[1] = x OBVIOUS
    <3>2. CASE Asked.counted = << >> BY <3>2
    <3>3. CASE Asked.counted = <<Asked.export>> BY <3>1, <3>3
    <3> QED BY <2>6, <3>2, <3>3
  <2> QED BY <2>6, <2>7
<1> QED BY <1>2, <1>3, <1>4 DEF DetoursAreTransparent

\* Whatever detours a call of the application's crosses, in whatever session, on whatever thread and
\* around whatever code an alertable wait runs, it is counted once under its own name and reaches the
\* kernel with its length divided once, and no flag stands while the application's code runs.
THEOREM DetoursHold == HookSpec => []DetoursAreTransparent
<1>1. AllInit => DetourInv BY DetourStarts DEF AllInit
<1>2. DetourInv /\ [AllNext]_<<subject, vars, callVars>> => DetourInv'
  <2> SUFFICES ASSUME DetourInv, [AllNext]_<<subject, vars, callVars>>
               PROVE  DetourInv'
    OBVIOUS
  <2>1. CASE AllNext BY <2>1, DetourNextKeeps, CoreGoesKeeps DEF AllNext
  <2>2. CASE UNCHANGED <<subject, vars, callVars>> BY <2>2, CoreGoesKeeps
  <2> QED BY <2>1, <2>2
<1> QED BY <1>1, <1>2, DetourSafe, PTL DEF HookSpec
=============================================================================
