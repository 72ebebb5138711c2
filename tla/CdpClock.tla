------------------------------ MODULE CdpClock ------------------------------
(***************************************************************************)
(* The clock of a Chromium session and the clock of one page               *)
(* (crates/cli cdp_clock.rs, WallWatch in cdp_session.rs, the shim of      *)
(* cdp/session.rs).  The panel's clock runs on interrupt time; the page's  *)
(* runs on the system clock, which a sleep or a correction moves; moves    *)
(* travel to the page in order and take as long as they take.  That a move *)
(* arrives, or is said to be missed, is CdpRequests'; here each arrives.   *)
(***************************************************************************)
EXTENDS Integers, Sequences, FiniteSets

CONSTANTS
    MoveRates,          \* the rates asked for
    MoveTargets,        \* where the wall is sent
    RATE_CHANGE_DELAY,  \* RATE_CHANGE_DELAY_MS
    DRIFT,              \* DRIFT_MS, with RESYNC_FLOOR_MS no more than one unit of real time
    WALL_MAX,           \* WALL_MAX_MS
    Corrections,        \* by how much the system clock is moved at once
    LastInstant,        \* bound: how long the session runs
    MaxCommands,        \* bound: rate changes and jumps
    MaxShifts           \* bound: sleeps and corrections

ASSUME CdpClockAssumption ==
    /\ MoveRates \subseteq Nat /\ MoveTargets \subseteq 0..WALL_MAX /\ WALL_MAX \in Nat
    /\ RATE_CHANGE_DELAY \in Nat /\ DRIFT \in Nat \ {0} /\ Corrections \subseteq Int
    /\ {LastInstant, MaxCommands, MaxShifts} \subseteq Nat

VARIABLES
    axis,      \* HostAxis.now: interrupt time
    offset,    \* how far the system clock stands ahead of the axis
    slept,     \* how far the page's monotonic clock does: the sleep alone
    panel,     \* CdpClock: the segment, and the scheduled change, a set of at most one
    known,     \* CdpClock.wall_offset, as last set
    pushed,    \* WallWatch.pushed_offset
    shim,      \* the shim's state S
    onTheWay,  \* moves sent to the page, in order
    apart,     \* the page took a rate change after its instant, and no whole clock since
    steady,    \* history: the system clock stands where it did when the page's whole clock was
               \* given, and has since the page took it, and the rate changes with it
    rated,     \* history: a rate change was given to the page with it, or since
    lived,     \* history: the rate of the panel summed over the instants gone by
    perfRead,  \* history: the last performance.now handed out
    commands, shifts

clockVars == <<axis, offset, slept, panel, known, pushed, shim, onTheWay, apart,
               steady, rated, lived, perfRead, commands, shifts>>

Least(x, y) == IF x < y THEN x ELSE y
Most(x, y)  == IF x < y THEN y ELSE x

-----------------------------------------------------------------------------
(* The panel's clock.                                                      *)

\* Mutant: the wall runs past the end of its range.
WallUnclamped(seg, at) == seg.fake0 + (at - seg.real0) * seg.mult

WallAt(seg, at)    == Most(0, Least(seg.fake0 + (at - seg.real0) * seg.mult, WALL_MAX))
ElapsedAt(seg, at) == seg.acc + (at - seg.dur0) * seg.mult

\* Mutant: the change goes on from where the wall stood when it was asked for.
ContinuedAtOnce(seg, next) ==
    [fake0 |-> seg.fake0, real0 |-> next.at, mult |-> next.mult,
     acc |-> ElapsedAt(seg, next.at), dur0 |-> next.at]

\* `continued_at`: neither the wall nor the duration steps at the change.
ContinuedAt(seg, next) ==
    [fake0 |-> WallAt(seg, next.at), real0 |-> next.at, mult |-> next.mult,
     acc |-> ElapsedAt(seg, next.at), dur0 |-> next.at]

Due(clock) == {next \in clock.scheduled : axis >= next.at}

\* `segment_at` now, and `settle`.
SegmentNow == IF Due(panel) = {} THEN panel.seg
                                 ELSE ContinuedAt(panel.seg, CHOOSE next \in Due(panel) : TRUE)
PanelSettled == [seg |-> SegmentNow, scheduled |-> panel.scheduled \ Due(panel)]

FakeWall == WallAt(SegmentNow, axis)
Elapsed  == ElapsedAt(SegmentNow, axis)

\* `for_pages`: an instant on the system clock the pages read.
ForPages(next) == [at |-> next.at + known, mult |-> next.mult]

\* `shim_origin`: the current segment and the change still waiting, on the pages' clock.
ShimOrigin(clock) ==
    [fake |-> clock.seg.fake0, real |-> clock.seg.real0 + known, mult |-> clock.seg.mult,
     waiting |-> {ForPages(next) : next \in clock.scheduled}]

-----------------------------------------------------------------------------
(* The page's clock.                                                       *)

SystemClock == axis + offset
Monotonic   == axis + slept

DurationRate(m) == Most(m, 1)

\* Mutant: the duration axis is re-anchored where the wall puts the change.
AnchorAtChange(s, t, p, at) == p - (t - at)

\* The real reading the duration axis goes on from: derived through the wall, and never below
\* a reading already handed out.
AnchorAt(s, t, p, at) == Most(p - (t - at), Most(s.anchor, s.read))

\* `anchorDuration`: what performance.now reached becomes the base at the reading q.
Anchored(s, q) == [s EXCEPT !.base = @ + (q - s.anchor) * s.D, !.anchor = q]

\* `settle`.
ShimSettled(s, t, p) ==
    LET due == {c \in s.waiting : t >= c.at}
        c == CHOOSE x \in due : TRUE
        q == AnchorAt(s, t, p, c.at)
    IN  IF due = {} THEN s
        ELSE [Anchored(s, q) EXCEPT
                !.waiting = {}, !.fake = Least(s.fake + (c.at - s.real) * s.M, WALL_MAX),
                !.real = c.at, !.M = c.mult, !.D = DurationRate(c.mult)]

\* `scheduleHere`: one still waiting is replaced; received after its instant it is taken now.
ShimScheduled(s, t, p, c) ==
    ShimSettled([ShimSettled(s, t, p) EXCEPT !.waiting = {[c EXCEPT !.at = Most(c.at, t)]}], t, p)

\* Mutant: the whole clock is taken without the change still to come.
ShimSetAlone(s, t, p, o) ==
    [Anchored(ShimSettled(s, t, p), p) EXCEPT !.fake = o.fake, !.real = o.real, !.M = o.mult,
        !.D = DurationRate(o.mult), !.waiting = {}]

\* `setHere`: the duration axis re-anchored at the rate it ran at, then the whole clock.
ShimSet(s, t, p, o) ==
    ShimSettled([Anchored(ShimSettled(s, t, p), p) EXCEPT
                    !.fake = o.fake, !.real = o.real, !.M = o.mult,
                    !.D = DurationRate(o.mult), !.waiting = o.waiting], t, p)

ShimNow == ShimSettled(shim, SystemClock, Monotonic)
PageWall == LET s == ShimNow IN Least(s.fake + (SystemClock - s.real) * s.M, WALL_MAX)
PerfNow  == LET s == ShimNow IN s.base + (Monotonic - s.anchor) * s.D

-----------------------------------------------------------------------------
ClockInit ==
    /\ axis = 0 /\ offset = 0 /\ slept = 0
    /\ \E fake \in MoveTargets, m \in MoveRates :
          /\ panel = [seg |-> [fake0 |-> fake, real0 |-> 0, mult |-> m, acc |-> 0, dur0 |-> 0],
                      scheduled |-> {}]
          /\ shim = [fake |-> fake, real |-> 0, M |-> m, D |-> DurationRate(m), waiting |-> {},
                     base |-> 0, anchor |-> 0, read |-> 0]
    /\ known = 0 /\ pushed = 0
    /\ onTheWay = <<>> /\ apart = FALSE /\ steady = TRUE /\ rated = FALSE
    /\ lived = 0 /\ perfRead = 0 /\ commands = 0 /\ shifts = 0

\* Time goes by, at the rate the panel runs at now.
Passes ==
    /\ axis < LastInstant /\ axis' = axis + 1
    /\ lived' = lived + SegmentNow.mult
    /\ UNCHANGED <<offset, slept, panel, known, pushed, shim, onTheWay, apart, steady, rated, perfRead, commands, shifts>>

\* A sleep moves the system clock and the page's monotonic one, a correction the first alone.
Shifts ==
    /\ shifts < MaxShifts /\ shifts' = shifts + 1
    /\ \E by \in Corrections :
          /\ offset' = offset + by
          /\ slept' \in {slept} \cup (IF by > 0 THEN {slept + by} ELSE {})
    /\ steady' = FALSE
    /\ UNCHANGED <<axis, panel, known, pushed, shim, onTheWay, apart, rated, lived, perfRead, commands>>

\* Every move ends in `watch.pushed`.
Given(move) ==
    /\ onTheWay' = Append(onTheWay, move) /\ pushed' = known'

WholeClock(clock) == [kind |-> "set", origin |-> ShimOrigin(clock), offset |-> known]

\* Mutant: a change that replaces one still waiting gets an instant of its own.
InstantLater == axis + RATE_CHANGE_DELAY

\* A change still waiting is replaced and leaves its instant to the new one.
Instant ==
    LET waiting == {next \in panel.scheduled : axis < next.at}
    IN  IF waiting = {} THEN axis + RATE_CHANGE_DELAY ELSE (CHOOSE w \in waiting : TRUE).at

\* `set_multiplier_at`, and the move of the pages.
SetsRate(m) ==
    /\ commands < MaxCommands /\ commands' = commands + 1
    /\ LET next == [at |-> Instant, mult |-> m]
       IN  /\ panel' = [PanelSettled EXCEPT !.scheduled = {next}]
           /\ UNCHANGED known
           /\ Given([kind |-> "schedule", next |-> ForPages(next), offset |-> known])
    /\ UNCHANGED <<axis, offset, slept, shim, apart, steady, rated, lived, perfRead, shifts>>

\* Mutant: the jump takes the duration axis with it.
JumpedWhole(to) == [PanelSettled EXCEPT !.seg.fake0 = to, !.seg.real0 = axis, !.seg.dur0 = axis]

\* `jump_to_at`: the wall alone, and a change still waiting stays scheduled.
Jumped(to) == [PanelSettled EXCEPT !.seg.fake0 = to, !.seg.real0 = axis]

JumpsTo(to) ==
    /\ commands < MaxCommands /\ commands' = commands + 1
    /\ panel' = Jumped(to) /\ UNCHANGED known
    /\ Given(WholeClock(Jumped(to)))
    /\ UNCHANGED <<axis, offset, slept, shim, apart, steady, rated, lived, perfRead, shifts>>

Abs(x) == IF x < 0 THEN -x ELSE x

\* Mutant: the pages are never given the clock again.
ResyncNever(drift) == FALSE

\* `resync_due`.
ResyncDue(drift) == Abs(drift) > DRIFT

\* `pages_drift_ms` of a turn, which looks at the system clock first.
Drift == (offset - pushed) * SegmentNow.mult

\* `WallWatch::turn`.
Turns ==
    /\ known # offset \/ ResyncDue(Drift)
    /\ known' = offset
    /\ IF ResyncDue(Drift)
       THEN Given([kind |-> "set", origin |-> [ShimOrigin(panel) EXCEPT
                        !.real = panel.seg.real0 + offset,
                        !.waiting = {[next EXCEPT !.at = @ + offset] : next \in panel.scheduled}],
                   offset |-> offset])
       ELSE UNCHANGED <<onTheWay, pushed>>
    /\ UNCHANGED <<axis, offset, slept, panel, shim, apart, steady, rated, lived, perfRead, commands, shifts>>

\* The page takes the move first in line.
TakesMove ==
    LET move == Head(onTheWay)
        t == SystemClock
        p == Monotonic
    IN  /\ onTheWay # <<>> /\ onTheWay' = Tail(onTheWay)
        /\ \/ /\ move.kind = "set"
              /\ shim' = ShimSet(shim, t, p, move.origin)
              /\ apart' = FALSE /\ steady' = (offset = move.offset) /\ rated' = (move.origin.waiting # {})
           \/ /\ move.kind = "schedule"
              /\ shim' = ShimScheduled(shim, t, p, move.next)
              /\ apart' = (apart \/ t > move.next.at) /\ steady' = (steady /\ offset = move.offset) /\ rated' = TRUE
        /\ UNCHANGED <<axis, offset, slept, panel, known, pushed, lived, perfRead, commands, shifts>>

\* The page reads performance.now.
ReadsPerf ==
    /\ perfRead' = PerfNow
    /\ shim' = [ShimNow EXCEPT !.read = Monotonic]
    /\ UNCHANGED <<axis, offset, slept, panel, known, pushed, onTheWay, apart, steady, rated, lived, commands, shifts>>

ClockNext ==
    \/ Passes \/ Shifts \/ Turns \/ TakesMove \/ ReadsPerf
    \/ \E m \in MoveRates : SetsRate(m)
    \/ \E to \in MoveTargets : JumpsTo(to)

ClockSpec == ClockInit /\ [][ClockNext]_clockVars

-----------------------------------------------------------------------------
ClockTypeOK ==
    /\ axis \in 0..LastInstant /\ {offset, slept, known, pushed} \subseteq Int
    /\ Cardinality(panel.scheduled) <= 1 /\ Cardinality(shim.waiting) <= 1
    /\ panel.seg.mult \in MoveRates /\ shim.M \in MoveRates /\ shim.D >= 1
    /\ FakeWall \in 0..WALL_MAX

\* The page has taken every move, none of them late, and the core has nothing to give it.
Quiet == onTheWay = <<>> /\ ~apart /\ known = offset /\ ~ResyncDue(Drift)

\* A page that took every move in time reads the panel's wall while the system clock stands
\* still (`steady`), to the unit and at the end of the range as well: a rate change takes effect on both at one instant, one that replaced
\* another included, and a jump keeps the change still waiting (R4-S17).
PageIsThePanel == Quiet /\ steady => PageWall = FakeWall

\* Between rate changes the pages stand no more than the drift allowed from the panel: a
\* sleep or a correction is seen by the next turn, and a jump starts them again.
KeptNear == Quiet /\ ~rated => Abs(PageWall - FakeWall) <= DRIFT

\* What the doc of WallWatch says: pages that stand more than DRIFT_MS from the session clock
\* are given it again, whatever the commands in between.
GivenAgain == Quiet => Abs(PageWall - FakeWall) <= DRIFT

\* The elapsed time the panel shows is the sum of the rates it ran at, however its changes
\* are scheduled, replaced, and crossed by jumps, which add nothing to it.
ElapsedIsLived == Elapsed = lived

\* performance.now never steps back, whatever the page is given and whoever reads first
\* (rule 3), across sleeps and corrections of the system clock.
PerfGoesOn == perfRead' >= perfRead
PerfNeverBack == [][PerfGoesOn]_clockVars

\* The panel's wall is moved by commands alone, and only by a jump at once: a rate change
\* leaves it where it stands, and time never takes it back.
WallIsMovedByJumps ==
    /\ FakeWall' < FakeWall => \E to \in MoveTargets : JumpsTo(to)
    /\ axis' = axis /\ FakeWall' # FakeWall => \E to \in MoveTargets : JumpsTo(to)
WallStepsByJumps == [][WallIsMovedByJumps]_clockVars

\* The panel and the page show one clock, over changes of rate set for an instant, jumps, sleeps
\* and corrections, and neither loses or makes up time.
PagesKeepTheClock == ClockTypeOK /\ PageIsThePanel /\ KeptNear /\ ElapsedIsLived

\* What a page measures never steps back, and only a jump steps its wall.
ClockGoesForward == PerfNeverBack /\ WallStepsByJumps
=============================================================================
