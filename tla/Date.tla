-------------------------------- MODULE Date --------------------------------
(***************************************************************************)
(* flute::Date (common/Date.h, common/Date.cc): a day of the Gregorian     *)
(* calendar held as its Julian day number, and Timezone's conversions      *)
(* between seconds since the epoch and broken-down UTC time, which are     *)
(* built on it (to_utc_time, from_utc_time in common/Timezone.cc).         *)
(*                                                                         *)
(* The closed formulas are compared with a calendar that simply counts: it *)
(* walks month by month from January 1900 and keeps the number of days     *)
(* since the epoch and the day of the week of the first of the month.      *)
(***************************************************************************)
EXTENDS Integers

CONSTANTS
    LastYear,      \* bound: the walk ends in December of this year (2500)
    SampleSeconds  \* the seconds of a day at which conversions are compared

VARIABLES
    year, month,   \* the month the walk has reached
    epochDay,      \* days from 1970-01-01 to the first of this month
    yearDay,       \* days from January 1st to the first of this month
    weekDay        \* its day of the week, 0 is Sunday

dateVars == <<year, month, epochDay, yearDay, weekDay>>

kDaysPerWeek == 7
kSecondsPerDay == 24 * 60 * 60

\* C++ integer division and remainder truncate towards zero.
CDiv(a, b) == IF a >= 0 THEN a \div b ELSE - ((- a) \div b)
CMod(a, b) == a - b * CDiv(a, b)

\* Mutant: the rule for centuries is forgotten.
JulianCalendar(y0, m0, day) ==
    LET a == (14 - m0) \div 12
        y == y0 + 4800 - a
        m == m0 + 12 * a - 3
    IN  day + (153 * m + 2) \div 5 + y * 365 + y \div 4 - 32083

get_julian_day_number(y0, m0, day) ==
    LET a == (14 - m0) \div 12
        y == y0 + 4800 - a
        m == m0 + 12 * a - 3
    IN  day + (153 * m + 2) \div 5 + y * 365
          + y \div 4 - y \div 100 + y \div 400 - 32045

get_year_month_day(julianDayNumber) ==
    LET a == julianDayNumber + 32044
        b == (4 * a + 3) \div 146097
        c == a - ((b * 146097) \div 4)
        d == (4 * c + 3) \div 1461
        e == c - ((1461 * d) \div 4)
        m == (5 * e + 2) \div 153
    IN  [day   |-> e - ((153 * m + 2) \div 5) + 1,
         month |-> m + 3 - 12 * (m \div 10),
         year  |-> b * 100 + d - 4800 + m \div 10]

week_day(julianDayNumber) == (julianDayNumber + 1) % kDaysPerWeek

kJulianDayOf1970_01_01 == get_julian_day_number(1970, 1, 1)

-----------------------------------------------------------------------------
(* Timezone::to_utc_time and Timezone::from_utc_time.                      *)

fill_hms(seconds) ==
    [hour |-> (seconds \div 60) \div 60,
     min  |-> (seconds \div 60) % 60,
     sec  |-> seconds % 60]

Broken(days, seconds) ==
    LET jdn == days + kJulianDayOf1970_01_01
        ymd == get_year_month_day(jdn)
    IN  [date |-> ymd,
         time |-> fill_hms(seconds),
         wday |-> week_day(jdn),
         yday |-> jdn - get_julian_day_number(ymd.year, 1, 1)]

\* Mutant: a time before the epoch is not borrowed from the day before.
NoBorrow(t) ==
    LET seconds == CMod(t, kSecondsPerDay)
        days == CDiv(t, kSecondsPerDay)
    IN  IF seconds < 0 THEN Broken(days, seconds + kSecondsPerDay)
        ELSE Broken(days, seconds)

to_utc_time(t) ==
    LET seconds == CMod(t, kSecondsPerDay)
        days == CDiv(t, kSecondsPerDay)
    IN  IF seconds < 0 THEN Broken(days - 1, seconds + kSecondsPerDay)
        ELSE Broken(days, seconds)

from_utc_time(tm) ==
    LET days == get_julian_day_number(tm.date.year, tm.date.month, tm.date.day)
                  - kJulianDayOf1970_01_01
    IN  days * kSecondsPerDay
          + tm.time.hour * 3600 + tm.time.min * 60 + tm.time.sec

-----------------------------------------------------------------------------
(* The counting calendar: the reference.                                   *)

Leap(y) == y % 4 = 0 /\ (y % 100 # 0 \/ y % 400 = 0)

DaysIn(y, m) ==
    IF m = 2 THEN (IF Leap(y) THEN 29 ELSE 28)
    ELSE IF m \in {4, 6, 9, 11} THEN 30 ELSE 31

\* January 1st 1900 was a Monday, 25567 days before the epoch.
DateInit ==
    /\ year = 1900 /\ month = 1
    /\ epochDay = -25567
    /\ yearDay = 0
    /\ weekDay = 1

NextMonth ==
    /\ month < 12
    /\ month' = month + 1
    /\ epochDay' = epochDay + DaysIn(year, month)
    /\ yearDay' = yearDay + DaysIn(year, month)
    /\ weekDay' = (weekDay + DaysIn(year, month)) % 7
    /\ UNCHANGED year

NextYear ==
    /\ month = 12 /\ year < LastYear
    /\ year' = year + 1 /\ month' = 1
    /\ epochDay' = epochDay + DaysIn(year, month)
    /\ yearDay' = 0
    /\ weekDay' = (weekDay + DaysIn(year, month)) % 7

DateNext == NextMonth \/ NextYear

-----------------------------------------------------------------------------
(* Properties                                                              *)

(* For every day of the month reached: the formulas of Date give the day   *)
(* number counting gives, get back the same year, month and day from it,   *)
(* and the day of the week agrees with counting by sevens.                 *)
DatesAgreeWithCounting ==
    \A day \in 1 .. DaysIn(year, month) :
        LET jdn == get_julian_day_number(year, month, day)
        IN  /\ jdn - kJulianDayOf1970_01_01 = epochDay + day - 1
            /\ get_year_month_day(jdn)
                 = [year |-> year, month |-> month, day |-> day]
            /\ week_day(jdn) = (weekDay + day - 1) % 7

(* Where seconds since the epoch fit 32 bits, before the epoch included,   *)
(* to_utc_time yields the date, time of day and day of the year counting   *)
(* yields, and from_utc_time is its inverse.                               *)
UtcAgreesWithCounting ==
    epochDay \in -24800 .. 24800 =>
        \A day \in 1 .. DaysIn(year, month), s \in SampleSeconds :
            LET t == (epochDay + day - 1) * kSecondsPerDay + s
                tm == to_utc_time(t)
            IN  /\ tm.date = [year |-> year, month |-> month, day |-> day]
                /\ tm.time.hour * 3600 + tm.time.min * 60 + tm.time.sec = s
                /\ tm.time.min < 60 /\ tm.time.sec < 60
                /\ tm.yday = yearDay + day - 1
                /\ from_utc_time(tm) = t

(* Dates and UTC time, by the formulas of Date and of Timezone, are those  *)
(* that counting days gives.                                               *)
CalendarAgrees == DatesAgreeWithCounting /\ UtcAgreesWithCounting
=============================================================================
