------------------------------ MODULE Calendar ------------------------------
(***************************************************************************)
(* The day a row is filed under: day_from_seconds (src/transaction.rs),    *)
(* the civil-from-days arithmetic, beside a calendar that is turned one    *)
(* day at a time, forwards and backwards, from 1 January 1970.             *)
(***************************************************************************)
EXTENDS Integers

CONSTANTS
  SecondsPerDay,     \* 86 400 in the code
  Back, Ahead        \* bounds: how far the calendar is turned, in days

ASSUME CalendarConstants ==
  /\ SecondsPerDay \in Nat \ {0}
  /\ Back \in Nat /\ Ahead \in Nat

VARIABLES
  days,    \* whole days since 1 January 1970
  today    \* the date the calendar shows

calendar == <<days, today>>
----------------------------------------------------------------------------
(* day_from_seconds. Years are counted from 1 March, in eras of 400; the   *)
(* TLA+ \div and % round towards minus infinity, as div_euclid and         *)
(* rem_euclid do by a positive divisor.                                    *)

(* Broken variant: seconds before 1970 rounded towards zero.               *)
TruncatedDay(seconds) ==
  IF seconds < 0 THEN - ((- seconds) \div SecondsPerDay) ELSE seconds \div SecondsPerDay

EpochDay(seconds) == seconds \div SecondsPerDay

Era(z) == z \div 146097
DayOfEra(z) == z % 146097

(* Broken variant: the last day of the fourth century opens a new year.    *)
YearOfEraUncorrected(doe) == (doe - doe \div 1460 + doe \div 36524) \div 365

YearOfEra(doe) ==
  (doe - doe \div 1460 + doe \div 36524 - doe \div 146096) \div 365

DayOfYear(doe) ==
  LET yoe == YearOfEra(doe) IN doe - (365 * yoe + yoe \div 4 - yoe \div 100)

(* Months are counted from March, so that the leap day is the last.        *)
MonthFromMarch(doy) == (5 * doy + 2) \div 153

CivilDate(z) ==
  LET doe == DayOfEra(z)
      doy == DayOfYear(doe)
      mp  == MonthFromMarch(doy)
      m   == IF mp < 10 THEN mp + 3 ELSE mp - 9
      y   == YearOfEra(doe) + Era(z) * 400
  IN  [y |-> IF m <= 2 THEN y + 1 ELSE y,
       m |-> m,
       d |-> doy - (153 * mp + 2) \div 5 + 1]

(* Days since 1 March of the year 0, where the first era begins.           *)
SinceMarch0000(n) == n + 719468

day_from_seconds(seconds) == CivilDate(SinceMarch0000(EpochDay(seconds)))
----------------------------------------------------------------------------
(* The reference: what everybody means by a date.                          *)

Leap(y) == y % 4 = 0 /\ (y % 100 = 0 => y % 400 = 0)

DaysIn(y, m) ==
  IF m = 2 THEN IF Leap(y) THEN 29 ELSE 28
  ELSE IF m \in {4, 6, 9, 11} THEN 30 ELSE 31

Tomorrow(date) ==
  IF date.d < DaysIn(date.y, date.m) THEN [date EXCEPT !.d = @ + 1]
  ELSE IF date.m < 12 THEN [date EXCEPT !.m = @ + 1, !.d = 1]
  ELSE [y |-> date.y + 1, m |-> 1, d |-> 1]

Yesterday(date) ==
  IF date.d > 1 THEN [date EXCEPT !.d = @ - 1]
  ELSE IF date.m > 1 THEN [date EXCEPT !.m = @ - 1, !.d = DaysIn(date.y, date.m - 1)]
  ELSE [y |-> date.y - 1, m |-> 12, d |-> 31]

CalendarInit == days = 0 /\ today = [y |-> 1970, m |-> 1, d |-> 1]

NextDay == days < Ahead /\ days' = days + 1 /\ today' = Tomorrow(today)

PreviousDay == days > - Back /\ days' = days - 1 /\ today' = Yesterday(today)

CalendarNext == NextDay \/ PreviousDay

CalendarSpec == CalendarInit /\ [][CalendarNext]_calendar
----------------------------------------------------------------------------
(* Every second of a day, before 1970 as after it, is filed under the date *)
(* the calendar shows: transaction.rs:124-136, on leap days, at the ends   *)
(* of months, years and centuries.                                         *)
SecondsFallOnTheirDay ==
  \A s \in days * SecondsPerDay .. (days + 1) * SecondsPerDay - 1 :
    day_from_seconds(s) = today
=============================================================================
