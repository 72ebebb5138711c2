------------------------------ MODULE ClockMath ------------------------------
(***************************************************************************)
(* The pure projections of `crates/ctl`: how a fake clock is computed from *)
(* an anchor (a base, the real instant the base belongs to, and a rate)    *)
(* and a real clock.  The target's hook and the core call the same         *)
(* functions, so every module about the session clock extends this one.    *)
(*                                                                         *)
(* Rust's i64 is modelled with its width: I64_MAX is a parameter, and      *)
(* every `saturating_*` of the source is a saturation at that width.       *)
(***************************************************************************)
EXTENDS Integers

CONSTANTS
    I64_MAX,        \* the top of the 64-bit range
    FAKE_WALL_MAX,  \* the last fake wall instant the session serves
    TICKS_PER_MS    \* QUIT units (100 ns) in a millisecond: 10 000

ASSUME ClockMathAssumption ==
    /\ I64_MAX \in Nat \ {0}
    /\ FAKE_WALL_MAX \in 1..I64_MAX
    /\ TICKS_PER_MS \in Nat \ {0}

I64 == (-I64_MAX - 1)..I64_MAX

saturate(x) == IF x > I64_MAX THEN I64_MAX
               ELSE IF x < -I64_MAX - 1 THEN -I64_MAX - 1
               ELSE x

at_least(low, x)  == IF x < low THEN low ELSE x
at_most(high, x)  == IF x > high THEN high ELSE x

\* Mutant: the sum is not saturated.
plain_add(a, b) == a + b

saturating_add(a, b) == saturate(a + b)
saturating_sub(a, b) == saturate(a - b)
saturating_mul(a, b) == saturate(a * b)

\* Real time since an anchor's origin, never negative: `.saturating_sub(..).max(0)`.
elapsed(origin, now) == at_least(0, saturating_sub(now, origin))

\* The fake wall instant: the rate as it is (0 freezes it), clamped at both ends.
fake_wall_at(anchor_fake, anchor_real, now_real, m) ==
    at_most(FAKE_WALL_MAX, at_least(0,
        saturating_add(anchor_fake, saturating_mul(elapsed(anchor_real, now_real), m))))

\* The fake QueryUnbiasedInterruptTime: the rate is at least 1, so a frozen wall
\* still leaves the duration axis running.  `dur_qpc_at` is the same formula.
dur_quit_at(c0, q0, m, real_now) ==
    saturating_add(c0, saturating_mul(elapsed(q0, real_now), at_least(1, m)))

dur_qpc_at(c0, q0, m, real_now) ==
    saturating_add(c0, saturating_mul(elapsed(q0, real_now), at_least(1, m)))

\* The fake GetTickCount64 in milliseconds.  \div on a positive divisor is div_euclid.
tick_from_quit(tick_offset, fake_quit) ==
    at_least(0, saturating_add(tick_offset, fake_quit \div TICKS_PER_MS))

dur_tick_at(tick_offset, c0, q0, m, real_now) ==
    tick_from_quit(tick_offset, dur_quit_at(c0, q0, m, real_now))

\* A duration axis of a process let go at `released_at` (0: not let go): the session's
\* line up to that instant, the real rate from there on (`released_line`).
released_quit_at(anchor, released_at, real) ==
    IF released_at = 0 \/ real < released_at
    THEN dur_quit_at(anchor.c0, anchor.q0, anchor.m, real)
    ELSE saturating_add(dur_quit_at(anchor.c0, anchor.q0, anchor.m, released_at),
                        saturating_sub(real, released_at))

\* Whether the elapsed term, or the base plus it, no longer fits: the axis is standing.
dur_axis_at_range_end(c0, q0, m, real_now) ==
    LET product == elapsed(q0, real_now) * at_least(1, m)
    IN  product > I64_MAX \/ c0 + product > I64_MAX
=============================================================================
