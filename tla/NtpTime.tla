------------------------------- MODULE NtpTime -------------------------------
(***************************************************************************)
(* The calendar arithmetic that turns the date and time of a reference     *)
(* clock into NTP seconds, and the civil calendar it has to agree with.    *)
(***************************************************************************)
EXTENDS Integers

CONSTANT SecondsPerDay   \* 86400 in the code

ASSUME DayAssumption == SecondsPerDay \in Nat \ {0}

MutantJulianDay(year, month, day) ==   \* the year starts in January
  LET a == year \div 100
  IN  (1461 * (year + 4716)) \div 4 + (306 * (month + 1)) \div 10 + day
        + (2 - a + a \div 4) - 1524

(* Years are counted from March, so that the leap day is a year's last. *)
JulianDay(year, month, day) ==
  LET y == IF month < 3 THEN year - 1 ELSE year
      m == IF month < 3 THEN month + 12 ELSE month
      a == y \div 100
      b == 2 - a + a \div 4
  IN  (1461 * (y + 4716)) \div 4 + (306 * (m + 1)) \div 10 + day + b - 1524

JdOfNtpEpoch == JulianDay(1900, 1, 1)
JdOfGpsEpoch == JulianDay(1980, 1, 6)

(* The seconds of the day are given as one number. *)
CalendarToNtpSeconds(year, month, day, seconds) ==
  (JulianDay(year, month, day) - JdOfNtpEpoch) * SecondsPerDay + seconds

GpsToNtpSeconds(week, seconds) ==
  (JdOfGpsEpoch - JdOfNtpEpoch) * SecondsPerDay + week * 7 * SecondsPerDay + seconds

-----------------------------------------------------------------------------
(* The civil calendar: what the day after a date is.                         *)

LeapYear(year) == year % 4 = 0 /\ (year % 100 # 0 \/ year % 400 = 0)

MonthLength(year, month) ==
  IF month = 2 THEN IF LeapYear(year) THEN 29 ELSE 28
  ELSE IF month \in {4, 6, 9, 11} THEN 30 ELSE 31

IsDate(date) ==
  /\ date \in [year : Nat, month : 1 .. 12, day : 1 .. 31]
  /\ date.day <= MonthLength(date.year, date.month)

DayAfter(date) ==
  IF date.day < MonthLength(date.year, date.month) THEN [date EXCEPT !.day = @ + 1]
  ELSE IF date.month < 12 THEN [date EXCEPT !.month = @ + 1, !.day = 1]
  ELSE [year |-> date.year + 1, month |-> 1, day |-> 1]
=============================================================================
