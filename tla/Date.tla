-------------------------------- MODULE Date --------------------------------
(***************************************************************************)
(* Date (src/src/time/Date.cpp, src/include/hohnor/time/Date.h), a Julian  *)
(* day number, beside the Gregorian calendar counted day by day.           *)
(***************************************************************************)
EXTENDS Integers

CONSTANTS FirstYear, LastYear  \* 1900 and 2500, by Date.h:27

ASSUME DateAssumption == FirstYear = 1900 /\ LastYear \in Nat

\* Mutant: January and February belong to the year they are in.
JulianWithoutShift(year, month, day) ==
  LET y == year + 4800
      m == month - 3
  IN day + (153 * m + 2) \div 5 + y * 365 + y \div 4 - y \div 100 + y \div 400
       - 32045

getJulianDayNumber(year, month, day) ==
  LET a == (14 - month) \div 12
      y == year + 4800 - a
      m == month + 12 * a - 3
  IN day + (153 * m + 2) \div 5 + y * 365 + y \div 4 - y \div 100 + y \div 400
       - 32045

getYearMonthDay(julianDayNumber) ==
  LET a == julianDayNumber + 32044
      b == (4 * a + 3) \div 146097
      c == a - ((b * 146097) \div 4)
      d == (4 * c + 3) \div 1461
      e == c - ((1461 * d) \div 4)
      m == (5 * e + 2) \div 153
  IN [year |-> b * 100 + d - 4800 + m \div 10,
      month |-> m + 3 - 12 * (m \div 10),
      day |-> e - ((153 * m + 2) \div 5) + 1]

weekDay(julianDayNumber) == (julianDayNumber + 1) % 7

-----------------------------------------------------------------------------
VARIABLES
  date,             \* a day of the calendar
  julianDayNumber,  \* the number of that day
  weekday           \* its day of the week, 0 being Sunday

dateVars == <<date, julianDayNumber, weekday>>

\* 1 January 1900 was a Monday.
DateInit ==
  /\ date = [year |-> FirstYear, month |-> 1, day |-> 1]
  /\ julianDayNumber = getJulianDayNumber(FirstYear, 1, 1)
  /\ weekday = 1

IsLeap(year) == year % 4 = 0 /\ (year % 100 # 0 \/ year % 400 = 0)

DaysIn(year, month) ==
  CASE month = 2 -> IF IsLeap(year) THEN 29 ELSE 28
    [] month \in {4, 6, 9, 11} -> 30
    [] OTHER -> 31

NextDay ==
  /\ date' = IF date.day < DaysIn(date.year, date.month)
               THEN [date EXCEPT !.day = @ + 1]
             ELSE IF date.month < 12
               THEN [date EXCEPT !.day = 1, !.month = @ + 1]
               ELSE [year |-> date.year + 1, month |-> 1, day |-> 1]
  /\ date'.year <= LastYear
  /\ julianDayNumber' = julianDayNumber + 1
  /\ weekday' = (weekday + 1) % 7

\* The number of every day follows that of the day before, over leap years,
\* centuries and the ends of months, gives the day back, and knows its place in
\* the week (Date.h:27-29, 164).
NumbersAreDays ==
  /\ getJulianDayNumber(date.year, date.month, date.day) = julianDayNumber
  /\ getYearMonthDay(julianDayNumber) = date
  /\ weekDay(julianDayNumber) = weekday
=============================================================================
