------------------------------ MODULE Calendar ------------------------------
(***************************************************************************)
(* Date and TimeZone: conversions between days, seconds and calendar       *)
(* dates, and between UTC and local time.                                  *)
(*                                                                         *)
(* The calendar is turned over month by month, by the rule for leap years, *)
(* and the formulas of the code are compared with it.  Local time is kept  *)
(* in Unit-ths of an hour, for zones with a standard time that is in force *)
(* at first and a summer time one hour ahead of it.                        *)
(***************************************************************************)
EXTENDS Integers, Sequences

CONSTANTS
    FirstYear, LastYear,  \* "[1900..2500]" in Date.h
    Unit,                 \* parts of an hour
    StandardOffsets,      \* of zones, in parts of an hour, east of Greenwich
    Span                  \* how long a zone's changes are looked at (a bound)

(* The calendar is opened at 1900, and the offsets are whole numbers of    *)
(* parts of an hour.                                                       *)
ASSUME CalendarAssumption ==
    FirstYear = 1900 /\ Unit \in Nat \ {0} /\ Span \in Nat /\ StandardOffsets \subseteq Int

VARIABLES
    month,    \* [year, month, first, weekday, yday]: the calendar, and its first day's number
    tz,       \* a TimeZone
    moment    \* a time_t

calendarVars == <<month, tz, moment>>

(* Division and remainder as in C++, rounding to zero.                     *)
Quot(a, b) == IF a < 0 THEN -((-a) \div b) ELSE a \div b
Rem(a, b) == a - b * Quot(a, b)

-----------------------------------------------------------------------------
(* Date.                                                                   *)

getJulianDayNumber(year, mon, day) ==
    LET a == (14 - mon) \div 12
        y == year + 4800 - a
        m == mon + 12 * a - 3
    IN day + (153 * m + 2) \div 5 + y * 365 + y \div 4 - y \div 100 + y \div 400 - 32045

(* The date c days into century b, counted from March.                     *)
yearMonthDay(b, c) ==
    LET d == (4 * c + 3) \div 1461
        e == c - ((1461 * d) \div 4)
        m == (5 * e + 2) \div 153
    IN [year |-> b * 100 + d - 4800 + (m \div 10),
        month |-> m + 3 - 12 * (m \div 10),
        day |-> e - ((153 * m + 2) \div 5) + 1]

getYearMonthDay(julianDayNumber) ==
    LET a == julianDayNumber + 32044
        b == (4 * a + 3) \div 146097
    IN yearMonthDay(b, a - ((b * 146097) \div 4))

weekDay(julianDayNumber) == (julianDayNumber + 1) % 7

kJulianDayOf1970_01_01 == getJulianDayNumber(1970, 1, 1)
kSecondsPerDay == 24 * 60 * 60

-----------------------------------------------------------------------------
(* TimeZone::toUtcTime and fromUtcTime.                                    *)

DayAndSeconds_Rounded(s) == [days |-> Quot(s, kSecondsPerDay), seconds |-> Rem(s, kSecondsPerDay)]

DayAndSeconds(s) ==
    IF Rem(s, kSecondsPerDay) < 0
    THEN [days |-> Quot(s, kSecondsPerDay) - 1, seconds |-> Rem(s, kSecondsPerDay) + kSecondsPerDay]
    ELSE [days |-> Quot(s, kSecondsPerDay), seconds |-> Rem(s, kSecondsPerDay)]

toUtcTime(secondsSinceEpoch) ==
    LET t == DayAndSeconds(secondsSinceEpoch)
        julian == t.days + kJulianDayOf1970_01_01
        ymd == getYearMonthDay(julian)
    IN [date |-> ymd, hour |-> (t.seconds \div 60) \div 60, min |-> (t.seconds \div 60) % 60,
        sec |-> t.seconds % 60, wday |-> weekDay(julian),
        yday |-> julian - getJulianDayNumber(ymd.year, 1, 1)]

fromUtcTime(tm) ==
    (getJulianDayNumber(tm.date.year, tm.date.month, tm.date.day) - kJulianDayOf1970_01_01)
        * kSecondsPerDay + tm.hour * 3600 + tm.min * 60 + tm.sec

-----------------------------------------------------------------------------
(* TimeZone with its transitions; localtimes[1] is standard time.          *)

readTimeZoneFile(offset, times) ==
    LET localtimes == <<[gmtOffset |-> offset, isDst |-> FALSE],
                        [gmtOffset |-> offset + Unit, isDst |-> TRUE]>>
        Idx(i) == IF i % 2 = 1 THEN 2 ELSE 1
    IN [localtimes |-> localtimes,
        transitions |-> [i \in DOMAIN times |->
            [gmttime |-> times[i], localtime |-> times[i] + localtimes[Idx(i)].gmtOffset,
             localtimeIdx |-> Idx(i)]]]

Key(tr, compareGmt) == IF compareGmt THEN tr.gmttime ELSE tr.localtime

findLocaltime(data, s, compareGmt) ==
    LET trs == data.transitions
        from == {i \in DOMAIN trs : Key(trs[i], compareGmt) >= s}
        lower == CHOOSE k \in from : \A j \in from : k <= j
        i == IF from = {} THEN Len(trs)
             ELSE IF Key(trs[lower], compareGmt) = s THEN lower ELSE lower - 1
    IN IF trs = <<>> \/ s < Key(trs[1], compareGmt) THEN data.localtimes[1]
       ELSE data.localtimes[trs[i].localtimeIdx]

(* gmtime_r and timegm turn seconds into a struct tm and back; of that it  *)
(* matters here what the time of day is.                                   *)
toLocalTime(data, s) ==
    LET local == findLocaltime(data, s, TRUE)
    IN [time |-> s + local.gmtOffset, isDst |-> local.isDst]

TimeOfDay(time) == time % (24 * Unit)

fromLocalTime_NoTry(data, tm) == tm.time - findLocaltime(data, tm.time, FALSE).gmtOffset

fromLocalTime(data, tm) ==
    LET local == findLocaltime(data, tm.time, FALSE)
        tryTm == toLocalTime(data, tm.time - local.gmtOffset)
        early == tm.isDst /\ ~tryTm.isDst /\ TimeOfDay(tryTm.time) = TimeOfDay(tm.time)
    IN (IF early THEN tm.time - Unit ELSE tm.time) - local.gmtOffset

-----------------------------------------------------------------------------
IsLeap(y) == y % 4 = 0 /\ (y % 100 # 0 \/ y % 400 = 0)
DaysIn(y, m) == IF m = 2 THEN (IF IsLeap(y) THEN 29 ELSE 28)
                ELSE IF m \in {4, 6, 9, 11} THEN 30 ELSE 31

(* Changes of a zone: none, or some that are three hours apart at least.   *)
Changes ==
    {<<>>} \cup {t \in [1 .. 3 -> 0 .. Span] :
                   t[1] + 3 * Unit <= t[2] /\ t[2] + 3 * Unit <= t[3]}

(* 1 January 1900 was a Monday, and this day of the Julian count.          *)
DayOf1900_01_01 == 2415021

CalendarInit ==
    /\ month = [year |-> FirstYear, month |-> 1, first |-> DayOf1900_01_01, weekday |-> 1,
                yday |-> 0]
    /\ \E offset \in StandardOffsets, times \in Changes : tz = readTimeZoneFile(offset, times)
    /\ moment = 0

TurnPage ==
    LET n == DaysIn(month.year, month.month)
        newYear == month.month = 12
    IN /\ month.year <= LastYear /\ moment = 0 /\ tz.transitions = <<>>
       /\ month' = [year |-> IF newYear THEN month.year + 1 ELSE month.year,
                    month |-> IF newYear THEN 1 ELSE month.month + 1,
                    first |-> month.first + n, weekday |-> (month.weekday + n) % 7,
                    yday |-> IF newYear THEN 0 ELSE month.yday + n]
       /\ UNCHANGED <<tz, moment>>

TimePasses ==
    /\ moment < Span + Unit
    /\ month.year = FirstYear /\ month.month = 1
    /\ moment' = moment + 1
    /\ UNCHANGED <<month, tz>>

CalendarNext == TurnPage \/ TimePasses

CalendarSpec == CalendarInit /\ [][CalendarNext]_calendarVars

-----------------------------------------------------------------------------
(* Every day of every month has the number the calendar gives it, and the  *)
(* number leads back to the day (Date.cc:21 and 30).                       *)
DaysNumbered ==
    \A d \in 1 .. DaysIn(month.year, month.month) :
        /\ getJulianDayNumber(month.year, month.month, d) = month.first + d - 1
        /\ getYearMonthDay(month.first + d - 1) =
               [year |-> month.year, month |-> month.month, day |-> d]

(* Days whose seconds are below 2^31.                                      *)
ShortDays == -24000 .. 24000

ClockTime(tm) == tm.hour \in 0 .. 23 /\ tm.min \in 0 .. 59 /\ tm.sec \in 0 .. 59

(* tm is the broken-down time of t, on the first day of the month.         *)
Agrees(t, tm) ==
    /\ fromUtcTime(tm) = t
    /\ tm.date = [year |-> month.year, month |-> month.month, day |-> 1]
    /\ ClockTime(tm) /\ tm.wday = month.weekday /\ tm.yday = month.yday

(* Seconds, before and after the epoch, become the calendar's date, day of *)
(* the week and day of the year, and lead back (TimeZone.cc:322 and 350).  *)
UtcAgrees ==
    \A s \in {0, 1, 59, 3600, kSecondsPerDay - 1} :
        LET day == month.first - 2440588
            t == day * kSecondsPerDay + s
        IN day \in ShortDays => Agrees(t, toUtcTime(t))

(* Local time is that of the last change of the zone until then.           *)
LastChangeCounts ==
    LET past == {i \in DOMAIN tz.transitions : tz.transitions[i].gmttime <= moment}
        i == CHOOSE k \in past : \A j \in past : j <= k
    IN toLocalTime(tz, moment).isDst = (past # {} /\ tz.transitions[i].localtimeIdx = 2)

(* Every local time leads back to its UTC time, also in the hour that      *)
(* occurs twice when summer time ends (TimeZone.cc:308).                   *)
LocalLeadsBack == fromLocalTime(tz, toLocalTime(tz, moment)) = moment

(* Dates, day numbers and seconds agree with the calendar.                 *)
DatesAgree == DaysNumbered /\ UtcAgrees

(* Local times agree with the changes of the zone, and lead back.          *)
LocalTimesAgree == LastChangeCounts /\ LocalLeadsBack
=============================================================================
