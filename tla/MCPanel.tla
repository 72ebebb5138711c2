------------------------------- MODULE MCPanel -------------------------------
(***************************************************************************)
(* The three machines of the panel's window in one run: its date field and *)
(* Start, its calculator, and its session; with the engine the calculator  *)
(* asks, and the days of some years by themselves.  Nothing they keep is   *)
(* shared, so a behaviour moves one of them.                               *)
(***************************************************************************)
EXTENDS StartMoment, Calculator, PanelSession, DateEvaluation

\* The calendars: holidays that meet at Christmas; one that moves over the new year onto another, with
\* a fifth Thursday and years in force; Easter and a leap day; a week of one working day.
Fixed(m, d) == [kind |-> "fixed", month |-> m, day |-> d]
Easter(offset) == [kind |-> "easter", offset |-> offset]
Monday(m, order) == [kind |-> "nth", month |-> m, weekday |-> 1, order |-> order]
Always(rule) == [rule |-> rule, from |-> NoYear, to |-> NoYear]
TheCalendars == <<
  [weekend |-> {0, 6}, observed |-> "weekend_to_mon", valid_from |-> 1896,
   holidays |-> <<Always(Fixed(12, 25)), Always(Fixed(12, 26)), Always(Fixed(1, 1))>>],
  [weekend |-> {0, 6}, observed |-> "sat_to_fri_sun_to_mon", valid_from |-> 1897,
   holidays |-> <<Always(Fixed(1, 1)), Always(Fixed(12, 31)),
                  Always([kind |-> "nth", month |-> 12, weekday |-> 4, order |-> 5]),
                  [rule |-> Fixed(1, 2), from |-> 1900, to |-> 1903]>>],
  [weekend |-> {0}, observed |-> "none", valid_from |-> 1896,
   holidays |-> <<Always(Easter(1)), Always(Easter(60)), Always(Fixed(2, 29))>>],
  [weekend |-> {0, 2, 3, 4, 5, 6}, observed |-> "none", valid_from |-> 1896,
   holidays |-> <<Always(Monday(2, -1)), Always(Monday(1, 1)), Always(Monday(12, -1))>>]>>

Date(y, m, d) == [year |-> y, month |-> m, day |-> d, tod |-> 1]
TheDates ==
    {Date(1896, 1, 1), Date(1896, 2, 29), Date(1897, 1, 1), Date(1897, 12, 24), Date(1898, 12, 30),
     Date(1899, 12, 29), Date(1900, 2, 26), Date(1903, 3, 31), Date(1904, 12, 31)}
TheBases ==
    [kind : {"absolute"}, at : TheDates]
    \cup [kind : {"absolute_utc"}, at : {[Date(1904, 12, 31) EXCEPT !.tod = 2], Date(1899, 12, 31)}]
    \cup [kind : {"today", "now"}, at : {[Date(1896, 1, 1) EXCEPT !.tod = 3]}]
TheZones == {-2}
TheSteps ==
    [kind : {"shift"}, unit : {"fixed"}, n : {-5, 3, 366 * 4, 10000000}]
    \cup [kind : {"shift"}, unit : {"months"}, n : {-1, 11}] \cup {[kind |-> "shift", unit |-> "quarters", n |-> 1]}
    \cup [kind : {"shift"}, unit : {"years"}, n : {-4, 3}]
    \cup [kind : {"shift"}, unit : {"business_days"}, n : {-2, 0, 1, 3}]
    \cup [kind : {"set_time"}, tod : {0, 4}]
    \cup [kind : {"snap"}, period : {"month", "quarter", "year"}, end : BOOLEAN]
    \cup [kind : {"nearest"}, forward : BOOLEAN] \cup {[kind |-> "leap_day"]}
    \cup [kind : {"zone"}, bias : {0, 1}]
TheYears == {1, 4, 1582, 1600, 1700, 1896, 1897, 1898, 1899, 1900, 1903, 1904, 1954, 1981, 2000, 2004, 2005, 2010, 2011, 2100}

-----------------------------------------------------------------------------
VARIABLE subject

windowVars == <<momentVars, calcVars, panelVars>>
engineVars == <<evalVars, dayVars>>
vars == <<subject, windowVars, engineVars>>

Init ==
    /\ subject \in {"moment", "calculator", "session", "evaluation", "days"}
    /\ MomentInit /\ CalcInit /\ PanelInit /\ EvalInit /\ DayInit

Next ==
    /\ UNCHANGED subject
    /\ \/ subject = "moment" /\ MomentNext /\ UNCHANGED <<calcVars, panelVars, engineVars>>
       \/ subject = "calculator" /\ CalcNext /\ UNCHANGED <<momentVars, panelVars, engineVars>>
       \/ subject = "session" /\ PanelNext /\ UNCHANGED <<momentVars, calcVars, engineVars>>
       \/ subject = "evaluation" /\ EvalNext /\ UNCHANGED <<windowVars, dayVars>>
       \/ subject = "days" /\ DayNext /\ UNCHANGED <<windowVars, evalVars>>

Fairness ==
    /\ \A p \in Presses : WF_momentVars(subject = "moment" /\ LookAgain(p))
    /\ WF_calcVars(subject = "calculator" /\ QuietIsOver)
    /\ WF_calcVars(subject = "calculator" /\ RunIsDue)
    /\ WF_calcVars(subject = "calculator" /\ EngineReturns)
    /\ WF_panelVars(subject = "session" /\ WindowStep)
    /\ WF_panelVars(subject = "session" /\ WindowCloses(FALSE))

Spec == Init /\ [][Next]_vars /\ Fairness

\* Each property is asked of the machine that moves.  No late answer stands where a newer one
\* belongs, in the date field and in the calculator;
AnswersAreNewest ==
    /\ subject = "moment" => DateIsTheNewest
    /\ subject = "calculator" => ResultIsTheNewest

\* a Start and a press take the newest one;
NewestIsTaken ==
    /\ [][subject = "moment" => StartsWithTheNewest]_momentVars
    /\ [][subject = "calculator" => TakenIsTheBuilder]_calcVars

\* the engine's dates are those of the calendar, and every step does what its name says;
EngineIsExact ==
    /\ subject = "evaluation" => WalkCounts /\ StepsAreExact
    /\ subject = "days" => DatesAreRight

\* a session's record is its own, and no late line changes what the session came to.
RecordsAreTrue == subject = "session" => RecordIsTrue
ResultsStand == [][subject = "session" => ResultStands]_panelVars

\* Nobody at the window waits for ever: a Start for its date, a question for its answer, a session
\* for its end.
SomebodyWaits ==
    \/ subject = "moment" /\ StartIsHeld
    \/ subject = "calculator" /\ QuestionIsOpen
    \/ subject = "session" /\ SessionIsOver
NobodyWaitsForEver == SomebodyWaits ~> ~SomebodyWaits
=============================================================================
