--------------------------- MODULE HolidayCalendar ---------------------------
(***************************************************************************)
(* The civil dates of the calculator (crates/core lib.rs, and the weeks of *)
(* calc.rs): days counted from 1970-01-01 and back, in the proleptic       *)
(* Gregorian calendar; and its holidays, their observance and the days off *)
(* around a year (calendar.rs).  A division that the code rounds towards   *)
(* zero has an operand it made positive, or is written here with the       *)
(* rounding down that its correction amounts to.  A calendar is a record:  *)
(* the weekdays of its weekend, how a holiday on a weekend is observed,    *)
(* the first year it answers for and its holidays, each a rule with the    *)
(* years it is in force.  A year that is not given is NoYear.              *)
(***************************************************************************)
EXTENDS Integers, SequencesExt

CONSTANTS
    CIVIL_YEAR_MIN, CIVIL_YEAR_MAX,
    Calendars,   \* the calendars asked about, a sequence
    NoYear       \* a year no calendar names: "None"

ASSUME CivilDateAssumption ==
    CIVIL_YEAR_MIN \in Int /\ CIVIL_YEAR_MAX \in Int /\ CIVIL_YEAR_MIN < CIVIL_YEAR_MAX

civil_year_in_band(y) == y \in CIVIL_YEAR_MIN..CIVIL_YEAR_MAX

is_leap(y) == (y % 4 = 0 /\ y % 100 # 0) \/ y % 400 = 0

last_day_of_month(y, m) ==
    CASE m \in {4, 6, 9, 11} -> 30
      [] m = 2 -> IF is_leap(y) THEN 29 ELSE 28
      [] OTHER -> 31

DayOfEra(yoe, doy) == yoe * 365 + yoe \div 4 - yoe \div 100 + doy

days_from_civil(year, m, d) ==
    LET y   == IF m <= 2 THEN year - 1 ELSE year
        era == y \div 400
        doy == (153 * ((m + 9) % 12) + 2) \div 5 + d - 1
    IN  era * 146097 + DayOfEra(y - era * 400, doy) - 719468

civil_from_days(day) ==
    LET z   == day + 719468
        era == z \div 146097
        doe == z - era * 146097
        yoe == (doe - doe \div 1460 + doe \div 36524 - doe \div 146096) \div 365
        doy == doe - (365 * yoe + yoe \div 4 - yoe \div 100)
        mp  == (5 * doy + 2) \div 153
        m   == IF mp < 10 THEN mp + 3 ELSE mp - 9
        y   == yoe + era * 400
    IN  [year |-> IF m <= 2 THEN y + 1 ELSE y, month |-> m, day |-> doy - (153 * mp + 2) \div 5 + 1]

\* 0 is Sunday.
weekday(day) == (day + 4) % 7

day_of_year(day) == day - days_from_civil(civil_from_days(day).year, 1, 1) + 1

iso_weekday(day) == IF weekday(day) = 0 THEN 7 ELSE weekday(day)

is_long_iso_year(y) ==
    LET jan1 == weekday(days_from_civil(y, 1, 1)) IN jan1 = 4 \/ (is_leap(y) /\ jan1 = 3)

iso_week(day) ==
    LET y    == civil_from_days(day).year
        week == (day_of_year(day) - iso_weekday(day) + 10) \div 7
    IN  IF week < 1 THEN <<y - 1, IF is_long_iso_year(y - 1) THEN 53 ELSE 52>>
        ELSE IF week > 52 /\ ~is_long_iso_year(y) THEN <<y + 1, 1>> ELSE <<y, week>>

us_week(day) ==
    LET jan1 == days_from_civil(civil_from_days(day).year, 1, 1)
    IN  (day - (jan1 - weekday(jan1))) \div 7 + 1

-----------------------------------------------------------------------------
(* What a date is, without the arithmetic: for the properties.             *)

IsDate(c) == c.month \in 1..12 /\ c.day \in 1..last_day_of_month(c.year, c.month)

\* The date after a date, as a calendar on a wall has it.
DateAfter(c) ==
    IF c.day < last_day_of_month(c.year, c.month) THEN [c EXCEPT !.day = @ + 1]
    ELSE IF c.month < 12 THEN [c EXCEPT !.month = @ + 1, !.day = 1]
    ELSE [year |-> c.year + 1, month |-> 1, day |-> 1]

\* A week belongs to the year its Thursday is in, and is counted by its Thursdays (ISO 8601).
WeekByThursday(day) ==
    LET thursday == day - iso_weekday(day) + 4
    IN  <<civil_from_days(thursday).year, (day_of_year(thursday) - 1) \div 7 + 1>>

-----------------------------------------------------------------------------
(* Holidays.                                                               *)

ASSUME HolidayCalendarAssumption ==
    /\ NoYear \in Int /\ ~civil_year_in_band(NoYear)
    /\ \A i \in DOMAIN Calendars : LET cal == Calendars[i] IN
          /\ cal.weekend \subseteq 0..6 /\ cal.valid_from \in Int
          /\ cal.observed \in {"none", "sat_to_fri_sun_to_mon", "sun_to_mon", "weekend_to_mon"}

\* "None" of a day.
NoDay == days_from_civil(CIVIL_YEAR_MIN, 1, 1) - 10^6

\* `first_day`: NoDay for a calendar that judges every day.
first_day(cal) == IF cal.valid_from = NoYear THEN NoDay ELSE days_from_civil(cal.valid_from, 1, 1)

\* `check`: the rule names a date a year can have.
check(rule) ==
    CASE rule.kind = "fixed" -> rule.month \in 1..12 /\ rule.day \in 1..last_day_of_month(2024, rule.month)
      [] rule.kind = "nth" -> rule.month \in 1..12 /\ rule.order \in (1..5) \cup {-1} /\ rule.weekday \in 0..6
      [] rule.kind = "easter" -> rule.offset \in -80..250

nth_weekday_days(y, month, target, order) ==
    LET first == days_from_civil(y, month, 1)
        last  == first + last_day_of_month(y, month) - 1
        day   == first + ((target + 7 - weekday(first)) % 7) + (order - 1) * 7
    IN  IF order = -1 THEN last - ((weekday(last) + 7 - target) % 7)
        ELSE IF day <= last THEN day ELSE NoDay

\* Mutant: the correction of the moon's cycle, one year in nineteen.
EasterMoonPlain(a, h, l) == 0

EasterMoon(a, h, l) == (a + 11 * h + 22 * l) \div 451

easter_sunday(y) ==
    LET a == y % 19
        b == y \div 100
        c == y % 100
        g == (b - (b + 8) \div 25 + 1) \div 3
        h == (19 * a + b - b \div 4 - g + 15) % 30
        l == (32 + 2 * (b % 4) + 2 * (c \div 4) - h - (c % 4)) % 7
        n == h + l - 7 * EasterMoon(a, h, l) + 114
    IN  days_from_civil(y, n \div 31, (n % 31) + 1)

\* NoDay where the holiday does not fall in the year.
holiday_days(rule, y) ==
    IF ~check(rule) THEN NoDay
    ELSE CASE rule.kind = "fixed" ->
                 IF rule.day <= last_day_of_month(y, rule.month)
                 THEN days_from_civil(y, rule.month, rule.day) ELSE NoDay
           [] rule.kind = "nth" -> nth_weekday_days(y, rule.month, rule.weekday, rule.order)
           [] rule.kind = "easter" -> IF y < 1 THEN NoDay ELSE easter_sunday(y) + rule.offset

in_force(h, y) == (h.from = NoYear \/ y >= h.from) /\ (h.to = NoYear \/ y <= h.to)

\* Where an observance is aimed.
observed_days(day, observed) ==
    CASE weekday(day) = 6 /\ observed = "sat_to_fri_sun_to_mon" -> day - 1
      [] weekday(day) = 6 /\ observed = "weekend_to_mon" -> day + 2
      [] weekday(day) = 0 /\ observed # "none" -> day + 1
      [] OTHER -> day

Dates(cal, y) ==
    SelectSeq([i \in DOMAIN cal.holidays |->
                  IF in_force(cal.holidays[i], y) THEN holiday_days(cal.holidays[i].rule, y) ELSE NoDay],
              LAMBDA day : day # NoDay)

\* One moved holiday: the first free day from where it is aimed, in that direction, within what the
\* bound allows.
Place(cal, off, day, limit) ==
    LET aim     == observed_days(day, cal.observed)
        step    == IF aim > day THEN 1 ELSE -1
        Free(k) == weekday(aim + k * step) \notin cal.weekend /\ aim + k * step \notin off
        First(k) == (k = limit \/ Free(k)) /\ \A j \in 0..(k - 1) : ~Free(j)
    IN  off \cup {aim + (CHOOSE k \in 0..limit : First(k)) * step}

\* Mutant: the days off of the year's own holidays only.
YearsAroundOne(y) == <<y>>

YearsAround(y) == <<y - 1, y, y + 1>>

\* Those that keep their date hold it first, then the others, by date.
OffOf(cal, dates) ==
    LET Keeps(day) == observed_days(day, cal.observed) = day
        kept  == {day \in Range(dates) : Keeps(day)}
        moved == SortSeq(SelectSeq(dates, LAMBDA day : ~Keeps(day)), <)
        limit == 7 * (Cardinality(kept) + Len(moved) + 7)
    IN  FoldLeft(LAMBDA off, day : Place(cal, off, day, limit), kept, moved)

\* `OffDays::rebuild`: the observed dates around a year.
rebuild(cal, y) ==
    OffOf(cal, FlattenSeq([i \in 1..Len(YearsAround(y)) |-> Dates(cal, YearsAround(y)[i])]))

\* `OffDays::is_business_day`, with the days off of the year the day is in.
is_business_day(cal, off, day) == weekday(day) \notin cal.weekend /\ day \notin off

\* `holiday_on`: the day is some holiday's own date.
holiday_on(cal, day) == day \in Range(Dates(cal, civil_from_days(day).year))

-----------------------------------------------------------------------------
(* What they should be, stated another way: for the properties.            *)

\* Easter is the Sunday after the paschal full moon, which the golden number and the centuries'
\* corrections to the epact give (the Gregorian reform's own tables).
EasterByTheMoon(y) ==
    LET golden == (y % 19) + 1
        century == y \div 100 + 1
        solar == (3 * century) \div 4 - 12
        lunar == (8 * century + 5) \div 25 - 5
        e     == (11 * golden + 20 + lunar - solar) % 30
        epact == IF (e = 25 /\ golden > 11) \/ e = 24 THEN e + 1 ELSE e
        moon  == days_from_civil(y, 3, 1) - 1 + (IF 44 - epact < 21 THEN 74 - epact ELSE 44 - epact)
    IN  moon + 7 - weekday(moon)

\* Every day off of the years from..to at once, with one placement for all of them.
OffBetween(cal, from, to) ==
    OffOf(cal, FlattenSeq([i \in 1..(to - from + 1) |-> Dates(cal, from + i - 1)]))
=============================================================================
