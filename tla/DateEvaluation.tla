--------------------------- MODULE DateEvaluation ---------------------------
(***************************************************************************)
(* The calculator's engine (`eval`, crates/core calc.rs, with the two      *)
(* walks over business days of calendar.rs): an expression is folded step  *)
(* by step onto a running civil moment, in a zone that a step may change,  *)
(* under one budget of business days and inside one band of years.  An     *)
(* action is a step; a step that asks the calendar walks a day at a time.  *)
(*                                                                         *)
(* The time of day is a number of units, DAY of them in a day; a shift by  *)
(* seconds, minutes, hours, days or weeks is one by a number of units, and *)
(* a zone's bias ("UTC = local + bias") is in units.  A base that is no    *)
(* civil date and a base outside the band reach `eval` from no parser and  *)
(* are not asked; a base in UTC may leave the band as it is re-expressed.  *)
(***************************************************************************)
EXTENDS HolidayCalendar

CONSTANTS
    Bases,                \* bases: [kind, at]
    Zones,                \* biases of the session
    Steps,                \* steps an expression may have
    DAY,                  \* units in a day
    I64_MAX,              \* the largest amount
    MAX_BUSINESS_DAYS, DEGENERATE_GAP_DAYS,
    MaxSteps,             \* bound: steps in an expression
    AskedYears            \* bound: years whose days are looked at

ASSUME DateEvaluationAssumption ==
    /\ DAY \in Nat \ {0} /\ MAX_BUSINESS_DAYS \in Nat /\ DEGENERATE_GAP_DAYS \in Nat \ {0}
    /\ \A b \in Bases : civil_year_in_band(b.at.year) /\ IsDate(b.at) /\ b.at.tod \in 0..(DAY - 1)

VARIABLES
    outcome,     \* unasked, folding, walking or the error
    cal,        \* the calendar given, or 0
    cur,        \* the running moment
    bias,       \* and its zone
    folded,     \* steps folded
    spent,      \* BusinessDayBudget
    clamped,    \* steps that asked for a day their month has not, with the day
    reach,      \* calendar_reach, as a day, or NoDay
    walk,       \* the walk under way: its step, day, business days left, days off in a row, cached year
    was,        \* for the properties: the last step, and the moment and zone it was applied to
    judged,     \* for the properties: the first and last day judged, and the business days counted
    aDay       \* the day looked at by itself, or NoDay

evalVars == <<outcome, cal, cur, bias, folded, spent, clamped, reach, walk, was, judged>>
dayVars == <<aDay>>

NoStep == [kind |-> "none"]
Nowhen == [year |-> CIVIL_YEAR_MIN, month |-> 1, day |-> 1, tod |-> 0]
NoWalk == [step |-> NoStep, day |-> NoDay, remaining |-> 0, gap |-> 0, year |-> NoYear]

Day(c) == days_from_civil(c.year, c.month, c.day)
Instant(c, z) == Day(c) * DAY + c.tod + z
At(day, tod) ==
    LET c == civil_from_days(day) IN [year |-> c.year, month |-> c.month, day |-> c.day, tod |-> tod]
Local(instant, z) == At((instant - z) \div DAY, (instant - z) % DAY)

EvalInit ==
    /\ outcome = "unasked" /\ cal = 0 /\ cur = Nowhen /\ bias = 0 /\ folded = 0 /\ spent = 0
    /\ clamped = {} /\ reach = NoDay /\ walk = NoWalk
    /\ was = [step |-> NoStep, cur |-> Nowhen, bias |-> 0]
    /\ judged = [first |-> -NoDay, last |-> NoDay, counted |-> 0]

\* `eval` up to its loop.
Base ==
    /\ outcome = "unasked"
    /\ \E b \in Bases, z \in Zones, c \in 0..Len(Calendars) :
          LET at == CASE b.kind = "today" -> [b.at EXCEPT !.tod = 0]
                      [] b.kind \in {"now", "absolute"} -> b.at
                      [] b.kind = "absolute_utc" -> Local(Instant(b.at, 0), z)
          IN  /\ cal' = c /\ bias' = z /\ cur' = at
              /\ outcome' = IF civil_year_in_band(at.year) THEN "folding" ELSE "BaseYearOutOfRange"
    /\ UNCHANGED <<folded, spent, clamped, reach, walk, was, judged>>

Refused(error) ==
    outcome' = error /\ UNCHANGED <<cur, bias, folded, clamped, reach, was>>

Judges(s) == s.kind = "nearest" \/ (s.kind = "shift" /\ s.unit = "business_days")

\* Mutant: the reach of a step is where it landed.
LatestLanded(a, b) == b

Latest(a, b) == Max({a, b})

\* The end of the loop's body: the step took the moment to `next`, in `zone`, from a day that its
\* month may not have (`short`; 0 when it has).
Folds(s, next, zone, short) ==
    IF ~civil_year_in_band(next.year) THEN Refused("YearOutOfRange")
    ELSE /\ cur' = next /\ bias' = zone /\ folded' = folded + 1 /\ outcome' = "folding"
         /\ clamped' = IF short = 0 THEN clamped ELSE clamped \cup {<<folded, short>>}
         /\ reach' = IF Judges(s) THEN Max({reach, Latest(Day(cur), Day(next))}) ELSE reach
         /\ was' = [step |-> s, cur |-> cur, bias |-> bias]

Reads(s) == outcome = "folding" /\ folded < MaxSteps /\ s \in Steps

-----------------------------------------------------------------------------
(* The steps that ask no calendar.                                         *)

Zone(s) ==
    /\ s.kind = "zone"
    /\ Folds(s, Local(Instant(cur, bias), s.bias), s.bias, 0)

\* `shift_fixed`: any unit of a fixed length.
ShiftFixed(s) ==
    /\ s.kind = "shift" /\ s.unit = "fixed"
    /\ IF s.n \notin (-I64_MAX)..I64_MAX \/ Instant(cur, 0) + s.n \notin (-I64_MAX)..I64_MAX
       THEN Refused("Overflow")
       ELSE Folds(s, Local(Instant(cur, 0) + s.n, 0), bias, 0)

Months(s) == CASE s.unit = "months" -> s.n [] s.unit = "quarters" -> 3 * s.n [] s.unit = "years" -> 12 * s.n

\* `shift_months`.
ShiftMonths(s) ==
    /\ s.kind = "shift" /\ s.unit \in {"months", "quarters", "years"}
    /\ LET total == cur.year * 12 + cur.month - 1 + Months(s)
           last  == last_day_of_month(total \div 12, (total % 12) + 1)
       IN  Folds(s, [year |-> total \div 12, month |-> (total % 12) + 1,
                     day |-> Min({cur.day, last}), tod |-> cur.tod],
                 bias, IF cur.day > last THEN cur.day ELSE 0)

SetTime(s) ==
    /\ s.kind = "set_time"
    /\ IF s.tod \notin 0..(DAY - 1) THEN Refused("BadSetTime")
       ELSE Folds(s, [cur EXCEPT !.tod = s.tod], bias, 0)

\* `apply_snap`: the months of the period, the first of them or the last.
Snap(s) ==
    /\ s.kind = "snap"
    /\ LET first == CASE s.period = "month" -> cur.month
                      [] s.period = "quarter" -> ((cur.month - 1) \div 3) * 3 + 1
                      [] s.period = "year" -> 1
           last  == CASE s.period = "month" -> first [] s.period = "quarter" -> first + 2 [] s.period = "year" -> 12
       IN  Folds(s, IF s.end
                    THEN [year |-> cur.year, month |-> last, day |-> last_day_of_month(cur.year, last), tod |-> DAY - 1]
                    ELSE [year |-> cur.year, month |-> first, day |-> 1, tod |-> 0],
                 bias, 0)

\* `apply_nearest_leap_day`.
LeapDay(s) ==
    /\ s.kind = "leap_day"
    /\ LET ahead == cur.month < 2 \/ (cur.month = 2 /\ cur.day <= 29)
           year  == IF is_leap(cur.year) /\ ahead THEN cur.year
                    ELSE Min({y \in (cur.year + 1)..(cur.year + 8) : is_leap(y)})
       IN  Folds(s, [year |-> year, month |-> 2, day |-> 29, tod |-> cur.tod], bias, 0)

\* What `eval` folds at once, through `apply_step`.
Plain ==
    /\ \E s \in Steps :
          /\ Reads(s)
          /\ \/ Zone(s) \/ ShiftFixed(s) \/ ShiftMonths(s) \/ SetTime(s) \/ Snap(s) \/ LeapDay(s)
    /\ UNCHANGED <<cal, spent, walk, judged>>

-----------------------------------------------------------------------------
(* The steps that ask one.                                                 *)

Size(n) == IF n < 0 THEN -n ELSE n

\* A business-day step, up to its walk: `spend`, then the calendar it needs.
ShiftBusinessDays ==
    /\ \E s \in Steps :
          /\ Reads(s) /\ s.kind = "shift" /\ s.unit = "business_days"
          /\ IF cal = 0 THEN Refused("NeedsCalendar") /\ UNCHANGED <<spent, walk>>
             ELSE /\ spent' = spent + Size(s.n)   \* BusinessDayBudget
                  /\ IF spent' > MAX_BUSINESS_DAYS
                     THEN Refused("TooManyBusinessDays") /\ UNCHANGED walk
                     ELSE /\ outcome' = "walking"
                          /\ walk' = [NoWalk EXCEPT !.step = s, !.day = Day(cur), !.remaining = Size(s.n)]
                          /\ UNCHANGED <<cur, bias, folded, clamped, reach, was>>
    /\ UNCHANGED <<cal, judged>>

Nearest ==
    /\ \E s \in Steps :
          /\ Reads(s) /\ s.kind = "nearest"
          /\ IF cal = 0 THEN Refused("NeedsCalendar") /\ UNCHANGED walk
             ELSE /\ outcome' = "walking"
                  /\ walk' = [NoWalk EXCEPT !.step = s, !.day = Day(cur)]
                  /\ UNCHANGED <<cur, bias, folded, clamped, reach, was>>
    /\ UNCHANGED <<cal, spent, judged>>

\* The days off around each year, of each calendar.
DaysOff == [c \in DOMAIN Calendars |-> [y \in (CIVIL_YEAR_MIN - 1)..(CIVIL_YEAR_MAX + 1) |-> rebuild(Calendars[c], y)]]

\* `OffDays::is_business_day`: the days off of the year the day is in, kept while the walk stays there.
IsOff(day) == weekday(day) \in Calendars[cal].weekend
CachedYear(day) == IF IsOff(day) THEN walk.year ELSE civil_from_days(day).year
Works(day) == ~IsOff(day) /\ day \notin DaysOff[cal][CachedYear(day)]

BeforeCalendar(day) == day < first_day(Calendars[cal])

Lands == Folds(walk.step, At(walk.day, cur.tod), bias, 0) /\ walk' = NoWalk /\ UNCHANGED judged

JudgedNow(day, counted) ==
    [first |-> Min({judged.first, day}), last |-> Max({judged.last, day}), counted |-> judged.counted + counted]

WalkRefused(error, day) == Refused(error) /\ walk' = [walk EXCEPT !.day = day]

\* The walk goes on past `day`, which was no business day.
WalksOn(next, gap, day) ==
    /\ walk' = [walk EXCEPT !.day = next, !.gap = gap, !.year = CachedYear(day)]
    /\ UNCHANGED <<outcome, cur, bias, folded, clamped, reach, was>>

\* A turn of the loop of `add_business_days`, and its end.
BusinessDay ==
    /\ outcome = "walking" /\ walk.step.kind = "shift"
    /\ LET day == IF walk.step.n >= 0 THEN walk.day + 1 ELSE walk.day - 1
       IN  \/ walk.remaining = 0 /\ Lands
           \/ walk.remaining > 0 /\ BeforeCalendar(day) /\ WalkRefused("BeforeCalendar", day) /\ UNCHANGED judged
           \/ /\ walk.remaining > 0 /\ ~BeforeCalendar(day) /\ Works(day)
              /\ walk' = [walk EXCEPT !.day = day, !.remaining = @ - 1, !.gap = 0, !.year = CachedYear(day)]
              /\ judged' = JudgedNow(day, 1)
              /\ UNCHANGED <<outcome, cur, bias, folded, clamped, reach, was>>
           \/ /\ walk.remaining > 0 /\ ~BeforeCalendar(day) /\ ~Works(day)
              /\ judged' = JudgedNow(day, 0)
              /\ IF walk.gap + 1 >= DEGENERATE_GAP_DAYS THEN WalkRefused("DegenerateCalendar", day)
                 ELSE WalksOn(day, walk.gap + 1, day)
    /\ UNCHANGED <<cal, spent>>

\* A turn of the loop of `nearest_business_day`.
NearestDay ==
    /\ outcome = "walking" /\ walk.step.kind = "nearest"
    /\ LET next == IF walk.step.forward THEN walk.day + 1 ELSE walk.day - 1
       IN  IF BeforeCalendar(walk.day) THEN WalkRefused("BeforeCalendar", walk.day) /\ UNCHANGED judged
           ELSE IF Works(walk.day)
           THEN /\ Folds(walk.step, At(walk.day, cur.tod), bias, 0)
                /\ walk' = NoWalk /\ judged' = JudgedNow(walk.day, 0)
           ELSE /\ judged' = JudgedNow(walk.day, 0)
                /\ IF walk.gap + 1 = DEGENERATE_GAP_DAYS THEN WalkRefused("DegenerateCalendar", walk.day)
                   ELSE WalksOn(next, walk.gap + 1, walk.day)
    /\ UNCHANGED <<cal, spent>>

EvalNext == Base \/ Plain \/ ShiftBusinessDays \/ Nearest \/ BusinessDay \/ NearestDay

\* A day by itself: one year's days in turn, into the next year's first.
DayInit == aDay = NoDay

FirstAsked == aDay = NoDay /\ \E y \in AskedYears : aDay' = days_from_civil(y, 1, 1)
NextAsked ==
    /\ aDay # NoDay /\ civil_from_days(aDay).year \in AskedYears
    /\ aDay' = aDay + 1

DayNext == FirstAsked \/ NextAsked

-----------------------------------------------------------------------------
(* The properties.                                                         *)

EvalTypeOK ==
    /\ outcome \in {"unasked", "folding", "walking", "BaseYearOutOfRange", "YearOutOfRange", "Overflow", "BadSetTime",
                   "NeedsCalendar", "TooManyBusinessDays", "BeforeCalendar", "DegenerateCalendar"}
    /\ cal \in 0..Len(Calendars) /\ folded \in 0..MaxSteps /\ spent \in Nat
    /\ (outcome = "walking") => (cal # 0 /\ Judges(walk.step))

\* The days off of a calendar, all its years placed at once.
AllDaysOff == [c \in DOMAIN Calendars |-> OffBetween(Calendars[c], CIVIL_YEAR_MIN - 2, CIVIL_YEAR_MAX + 2)]

IsBusinessDay(day) == ~IsOff(day) /\ day \notin AllDaysOff[cal]
BusinessDays(from, to) == {day \in from..to : IsBusinessDay(day)}

Landed == outcome = "folding" /\ folded > 0

\* A business-day shift ends on the day that many business days away, with the days off worked out
\* for all years at once and not year by year as the walk caches them (calendar.rs `OffDays`): an
\* observance that crosses the new year, or that another one pushes on, is counted once.
ShiftCounts ==
    (Landed /\ was.step.kind = "shift" /\ was.step.unit = "business_days") =>
        LET a == Day(was.cur)  b == Day(cur)  n == was.step.n
        IN  /\ cur.tod = was.cur.tod
            /\ n > 0 => b > a /\ IsBusinessDay(b) /\ Cardinality(BusinessDays(a + 1, b)) = n
            /\ n < 0 => b < a /\ IsBusinessDay(b) /\ Cardinality(BusinessDays(b, a - 1)) = -n
            /\ n = 0 => b = a

\* `nearest` lands on a business day with none between it and where it started, the start included.
NearestIsNearest ==
    (Landed /\ was.step.kind = "nearest") =>
        LET a == Day(was.cur)  b == Day(cur)
        IN  /\ cur.tod = was.cur.tod
            /\ IF was.step.forward THEN BusinessDays(a, b) = {b} ELSE BusinessDays(b, a) = {b}

\* A walk judges no day before the calendar's first year, and is refused for it only when the answer
\* needs one: not for the start day of a shift, which is not judged.
FirstYearHolds ==
    /\ cal # 0 => judged.first >= first_day(Calendars[cal])
    /\ outcome = "BeforeCalendar" =>
        LET first == first_day(Calendars[cal])  a == Day(cur)
        IN  IF walk.step.kind = "shift"
            THEN IF walk.step.n > 0 THEN a + 1 < first
                 ELSE Cardinality(BusinessDays(first, a - 1)) < -walk.step.n
            ELSE IF walk.step.forward THEN a < first ELSE BusinessDays(first, a) = {}

\* A calendar is called degenerate only after a gap without one business day, however many there
\* were before it (calendar.rs DEGENERATE_GAP_DAYS: a sparse calendar is walked to the end).
DegenerateHasAGap ==
    outcome = "DegenerateCalendar" =>
        LET back == IF (walk.step.kind = "shift" /\ walk.step.n > 0) \/ (walk.step.kind = "nearest" /\ walk.step.forward)
                    THEN 1 ELSE -1
        IN  \A k \in 0..(DEGENERATE_GAP_DAYS - 1) : ~IsBusinessDay(walk.day - k * back)

WalkCounts == ShiftCounts /\ NearestIsNearest /\ FirstYearHolds /\ DegenerateHasAGap

\* A shift of a fixed length moves the instant by that much and a zone step not at all; a shift by
\* months moves the month by that many and says which day the month had not; a snap ends where the
\* period does; the leap day is the next one.
StepIsExact ==
    Landed =>
        LET s == was.step  from == Instant(was.cur, was.bias)  to == Instant(cur, bias)
            Month(c) == c.year * 12 + c.month
            Period(c) == CASE s.period = "month" -> <<c.year, c.month>>
                           [] s.period = "quarter" -> <<c.year, (c.month - 1) \div 3>>
                           [] s.period = "year" -> <<c.year>>
        IN  /\ s.kind = "zone" => to = from /\ bias = s.bias
            /\ s.kind # "zone" => bias = was.bias
            /\ s.kind = "shift" /\ s.unit = "fixed" => to - from = s.n
            /\ s.kind = "shift" /\ s.unit \in {"months", "quarters", "years"} =>
                  /\ Month(cur) - Month(was.cur) = Months(s) /\ cur.tod = was.cur.tod
                  /\ IF cur.day = was.cur.day THEN \A c \in clamped : c[1] # folded - 1
                     ELSE <<folded - 1, was.cur.day>> \in clamped /\ DateAfter(cur).day = 1
            /\ s.kind = "snap" =>
                  /\ Period(cur) = Period(was.cur) /\ IF s.end THEN to >= from ELSE to <= from
                  /\ Period(Local(IF s.end THEN to + 1 ELSE to - 1, bias)) # Period(cur)
            /\ s.kind = "leap_day" =>
                  /\ cur.month = 2 /\ cur.day = 29 /\ to >= from
                  /\ \A day \in Day(was.cur)..(Day(cur) - 1) :
                        LET c == civil_from_days(day) IN ~(c.month = 2 /\ c.day = 29)

\* Every moment recorded is a civil moment inside the band, whatever step made it (calc.rs 447-452).
RecordedIsCivil ==
    outcome \in {"folding", "walking"} => civil_year_in_band(cur.year) /\ IsDate(cur) /\ cur.tod \in 0..(DAY - 1)

\* The reach handed on to the check of the law's date covers every day a step asked the calendar
\* about, over all the steps and whatever zones they were taken in.
ReachCoversTheJudged == outcome = "folding" => reach >= judged.last

\* The business days counted in one evaluation stay within the budget, however the steps divide them.
BudgetHolds == judged.counted <= MAX_BUSINESS_DAYS

StepsAreExact == EvalTypeOK /\ StepIsExact /\ RecordedIsCivil /\ ReachCoversTheJudged /\ BudgetHolds

\* The civil arithmetic is the calendar on the wall: a day has one date and the next day the next
\* date; its week is its Thursday's; Easter is the Sunday after the paschal moon; and the days off of
\* its year are as many as the holidays that keep their date, with one for each that moves, on a
\* working weekday of no other's.
DatesAreRight ==
    aDay # NoDay =>
        LET c == civil_from_days(aDay)
        IN  /\ IsDate(c) /\ days_from_civil(c.year, c.month, c.day) = aDay
            /\ civil_from_days(aDay + 1) = DateAfter(c)
            /\ iso_week(aDay) = WeekByThursday(aDay)
            /\ us_week(aDay) \in 1..54
            /\ (us_week(aDay + 1) = us_week(aDay)) <=> (weekday(aDay + 1) # 0 /\ DateAfter(c).year = c.year)
            /\ day_of_year(aDay) = 1 => easter_sunday(c.year) = EasterByTheMoon(c.year)
            /\ day_of_year(aDay) = 1 => \A i \in DOMAIN Calendars :
                  LET cal0  == Calendars[i]
                      dates == Dates(cal0, c.year)
                      moved == SelectSeq(dates, LAMBDA day : observed_days(day, cal0.observed) # day)
                      kept  == Range(dates) \ Range(moved)
                      off   == OffOf(cal0, dates)
                  IN  /\ Cardinality(off) = Cardinality(kept) + Len(moved)
                      /\ \A day \in off \ kept : weekday(day) \notin cal0.weekend
=============================================================================
