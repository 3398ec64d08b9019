-------------------------------- MODULE Calendar --------------------------------
(***************************************************************************)
(* muduo::base::Date (Date.hpp, Date.cpp) and the conversions between        *)
(* seconds and a DateTime that rest on it (TimeZone.cpp).  A day is followed *)
(* by the next one of the Gregorian calendar, which is kept here by counting *)
(* months and leap years, and the closed formulas of the code are compared   *)
(* with it, day by day.                                                     *)
(***************************************************************************)
EXTENDS CArith

CONSTANTS
    FirstYear,              \* the walk begins on its first of January,
    FirstJulianDay,         \* which has this number
    LastYear,               \* bound: and ends on the last day of this year
    Seconds,                \* the seconds of the day that are looked at,
    TimeDays                \* bound: on days so far from 1970 (TLC has 32 bits)

ASSUME CalendarAssumption ==
    /\ FirstYear \in Nat /\ LastYear \in Nat /\ FirstJulianDay \in Nat
    /\ TimeDays \in Nat
    /\ \A second \in Seconds : second \in Nat /\ second < 24 * 60 * 60

VARIABLES year, month, day, julianDay

calendarVars == <<year, month, day, julianDay>>

-----------------------------------------------------------------------------
(* The code.                                                                 *)

getJulianDayNumber(y0, m0, d) ==
    LET a == CDiv(14 - m0, 12)
        y == y0 + 4800 - a
        m == m0 + 12 * a - 3
    IN  d + CDiv(153 * m + 2, 5) + y * 365 + CDiv(y, 4) - CDiv(y, 100) + CDiv(y, 400) - 32045

\* Mutated: the century is found without its correction.
yearMonthDayNo3(julianDayNumber) ==
    LET a == julianDayNumber + 32044
        b == CDiv(4 * a, 146097)
        c == a - CDiv(b * 146097, 4)
        d == CDiv(4 * c + 3, 1461)
        e == c - CDiv(1461 * d, 4)
        m == CDiv(5 * e + 2, 153)
    IN  <<b * 100 + d - 4800 + CDiv(m, 10), m + 3 - 12 * CDiv(m, 10), e - CDiv(153 * m + 2, 5) + 1>>

getYearMonthDay(julianDayNumber) ==
    LET a == julianDayNumber + 32044
        b == CDiv(4 * a + 3, 146097)
        c == a - CDiv(b * 146097, 4)
        d == CDiv(4 * c + 3, 1461)
        e == c - CDiv(1461 * d, 4)
        m == CDiv(5 * e + 2, 153)
    IN  <<b * 100 + d - 4800 + CDiv(m, 10), m + 3 - 12 * CDiv(m, 10), e - CDiv(153 * m + 2, 5) + 1>>

kSecondsPerDay == 24 * 60 * 60

kJulianDayOff_1970_01_01 == getJulianDayNumber(1970, 1, 1)

weekDay(julianDayNumber) == (julianDayNumber + 1) % 7

\* Hours, minutes and seconds.
fileHMS(seconds) == <<(seconds \div 60) \div 60, (seconds \div 60) % 60, seconds % 60>>

\* Mutated: an instant before 1970 is not moved to the day before.
breakTimeTruncated(t) ==
    LET seconds == CMod(t, kSecondsPerDay)
        days    == CDiv(t, kSecondsPerDay)
    IN  <<getYearMonthDay(days + kJulianDayOff_1970_01_01), fileHMS(seconds)>>

\* A DateTime is the date and the time of day.
BreakTime(t) ==
    LET seconds == CMod(t, kSecondsPerDay)
        days    == CDiv(t, kSecondsPerDay)
    IN  IF seconds < 0
        THEN <<getYearMonthDay(days - 1 + kJulianDayOff_1970_01_01), fileHMS(seconds + kSecondsPerDay)>>
        ELSE <<getYearMonthDay(days + kJulianDayOff_1970_01_01), fileHMS(seconds)>>

fromUtcTime(dataTime) ==
    LET date == dataTime[1]
        time == dataTime[2]
        secondInDay == time[1] * 3600 + time[2] * 60 + time[3]
        days == getJulianDayNumber(date[1], date[2], date[3]) - kJulianDayOff_1970_01_01
    IN  days * kSecondsPerDay + secondInDay

-----------------------------------------------------------------------------
(* The calendar.                                                             *)

IsLeapYear(y) == y % 4 = 0 /\ (y % 100 = 0 => y % 400 = 0)

DaysOfMonth(y, m) ==
    CASE m \in {4, 6, 9, 11} -> 30
      [] m = 2 -> IF IsLeapYear(y) THEN 29 ELSE 28
      [] OTHER -> 31

CalendarInit ==
    /\ year = FirstYear /\ month = 1 /\ day = 1
    /\ julianDay = FirstJulianDay

NextDay ==
    /\ day < DaysOfMonth(year, month)
    /\ day' = day + 1
    /\ UNCHANGED <<month, year>>

NextMonth ==
    /\ day = DaysOfMonth(year, month) /\ month < 12
    /\ day' = 1 /\ month' = month + 1
    /\ UNCHANGED year

NextYear ==
    /\ day = DaysOfMonth(year, month) /\ month = 12 /\ year < LastYear
    /\ day' = 1 /\ month' = 1 /\ year' = year + 1

CalendarNext ==
    /\ NextDay \/ NextMonth \/ NextYear
    /\ julianDay' = julianDay + 1

CalendarSpec == CalendarInit /\ [][CalendarNext]_calendarVars

-----------------------------------------------------------------------------
(* Properties.                                                               *)

\* Sunday is 0.  (Sakamoto's rule: January and February belong to the year
\* before, and every month has its shift.)
DayOfWeek ==
    LET y == IF month < 3 THEN year - 1 ELSE year
        shift == <<0, 3, 2, 5, 0, 3, 5, 1, 4, 6, 2, 4>>
    IN  (y + y \div 4 - y \div 100 + y \div 400 + shift[month] + day) % 7

\* Days are numbered one after the other, with no gap and no repetition at the
\* end of a month, a year, a century or 400 years; yearMonthDay() gives back the
\* date the number was made from, and weekDay() its day of the week.
DatesInvert ==
    /\ getJulianDayNumber(year, month, day) = julianDay
    /\ getYearMonthDay(julianDay) = <<year, month, day>>
    /\ weekDay(julianDay) = DayOfWeek

\* BreakTime and fromUtcTime are inverse to each other at every time of day,
\* before 1970, when the quotient is cut off towards zero, as well as after.
TimesInvert ==
    LET days == julianDay - kJulianDayOff_1970_01_01
    IN  days \in -TimeDays .. TimeDays => \A second \in Seconds :
            LET t == days * kSecondsPerDay + second
            IN  /\ BreakTime(t) = <<<<year, month, day>>, fileHMS(second)>>
                /\ fromUtcTime(BreakTime(t)) = t
=============================================================================
