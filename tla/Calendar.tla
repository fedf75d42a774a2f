------------------------------ MODULE Calendar ------------------------------
(***************************************************************************)
(* DateTime::set_ticks against a reference clock. The reference advances   *)
(* by the rules of the Gregorian calendar, second by second on some days   *)
(* and day by day on all; set_ticks computes the date from the number of   *)
(* the day. A time is the number of a day since 1970-01-01 and the second  *)
(* of that day, which is how set_ticks splits total_sec.                   *)
(***************************************************************************)
EXTENDS Integers

CONSTANTS
  SecondDays,  \* the days the reference goes through second by second
  LastDay      \* bound: the day after which it stops

ASSUME CalendarAssumption == SecondDays \subseteq Nat /\ LastDay \in Nat

VARIABLES
  day, sec,                         \* the time
  year, month, mday, hour, min, s   \* the reference's date and time of day

dateVars == <<day, sec, year, month, mday, hour, min, s>>

----------------------------------------------------------------------------
(* DateTime::set_ticks.                                                    *)

EPOCH_ADJUSTMENT_DAYS == 719468
DAYS_PER_ERA == 146097
DAYS_PER_CENTURY == 36524
DAYS_PER_4_YEARS == 3 * 365 + 366
DAYS_PER_YEAR == 365
YEARS_PER_ERA == 400

\* Days since 0000-03-01; times are not negative.
Days(d) == d + EPOCH_ADJUSTMENT_DAYS

Era(d) == Days(d) \div DAYS_PER_ERA
EraDay(d) == Days(d) - Era(d) * DAYS_PER_ERA

\* defect: the last day of an era is taken for the first one of the next year.
ErayearNoEraEnd(ed) ==
  ((ed - ed \div (DAYS_PER_4_YEARS - 1)) + ed \div DAYS_PER_CENTURY) \div 365

\* The year within an era, counted from March.
Erayear(ed) ==
  ((ed - ed \div (DAYS_PER_4_YEARS - 1)) + ed \div DAYS_PER_CENTURY
     - ed \div (DAYS_PER_ERA - 1)) \div 365

Yearday(ed) ==
  ed - ((DAYS_PER_YEAR * Erayear(ed) + Erayear(ed) \div 4) - Erayear(ed) \div 100)

\* The month counted from March.
MarchMonth(ed) == (5 * Yearday(ed) + 2) \div 153

Day(ed) == (Yearday(ed) - (153 * MarchMonth(ed) + 2) \div 5) + 1
Month(ed) == (IF MarchMonth(ed) < 10 THEN MarchMonth(ed) + 2 ELSE MarchMonth(ed) - 10) + 1
Year(d) == Erayear(EraDay(d)) + Era(d) * YEARS_PER_ERA
             + (IF Month(EraDay(d)) <= 2 THEN 1 ELSE 0)

\* The fields of the DateTime.
set_ticks(d, t) ==
  [m_year |-> Year(d), m_month |-> Month(EraDay(d)), m_day |-> Day(EraDay(d)),
   m_hour |-> t \div 3600, m_min |-> (t % 3600) \div 60, m_sec |-> (t % 3600) % 60]

----------------------------------------------------------------------------
(* The reference.                                                          *)

Leap(y) == y % 4 = 0 /\ (y % 100 # 0 \/ y % 400 = 0)
MonthLength(y, m) ==
  CASE m = 2 -> IF Leap(y) THEN 29 ELSE 28
    [] m \in {4, 6, 9, 11} -> 30
    [] OTHER -> 31

DateInit ==
  /\ day = 0 /\ sec = 0
  /\ year = 1970 /\ month = 1 /\ mday = 1
  /\ hour = 0 /\ min = 0 /\ s = 0

NextSecond ==
  /\ day \in SecondDays /\ sec < 86399
  /\ sec' = sec + 1
  /\ s' = (s + 1) % 60
  /\ min' = IF s = 59 THEN (min + 1) % 60 ELSE min
  /\ hour' = IF s = 59 /\ min = 59 THEN hour + 1 ELSE hour
  /\ UNCHANGED <<day, year, month, mday>>

NextDay ==
  /\ day < LastDay
  /\ day \in SecondDays => sec = 86399
  /\ day' = day + 1
  /\ sec' = 0 /\ hour' = 0 /\ min' = 0 /\ s' = 0
  /\ IF mday < MonthLength(year, month)
     THEN mday' = mday + 1 /\ UNCHANGED <<year, month>>
     ELSE /\ mday' = 1
          /\ month' = (month % 12) + 1
          /\ year' = IF month = 12 THEN year + 1 ELSE year

\* The bound is reached.
Done == day = LastDay /\ UNCHANGED dateVars

DateNext == NextSecond \/ NextDay \/ Done

DateSpec == DateInit /\ [][DateNext]_dateVars

\* DateTime::set_ticks gives the date and time of day of the reference calendar,
\* leap years, centuries and the ends of months, years and eras included.
DateRight ==
  set_ticks(day, sec) =
    [m_year |-> year, m_month |-> month, m_day |-> mday,
     m_hour |-> hour, m_min |-> min, m_sec |-> s]

=============================================================================
