------------------------------ MODULE RtcClock ------------------------------
(***************************************************************************)
(* libSceRtc (ps4_rtc.c, ps4_rtc_extras.c): ticks, dates and RFC 3339      *)
(* texts.  The clock counts hours since 1970-01-01 UTC, and the state is a *)
(* calendar that is turned day by day: what the conversions say is         *)
(* compared with it.                                                       *)
(***************************************************************************)
EXTENDS Integers, Sequences, FiniteSetsExt, Functions

CONSTANTS RtcStarts,  \* dates <<year, month, day>> the calendar starts from
          RtcDays,    \* bound: days it is turned
          RtcHours,   \* hours of a day that are converted
          HostZone,   \* the host's time zone in hours, without daylight saving
          RtcZones,   \* time zones a text is written with
          RtcWrap     \* hours in 2^32 seconds

ASSUME RtcAssumption ==
  /\ RtcDays \in Nat /\ RtcHours \subseteq 0..23 /\ HostZone \in Int /\ RtcZones \subseteq Int /\ RtcWrap \in Nat \ {0}

VARIABLES rtc_date,   \* the calendar's <<year, month, day>>
          rtc_day,    \* days since 1970-01-01
          rtc_week,   \* day of the week, 0 for Sunday
          rtc_turned

rtc_vars == <<rtc_date, rtc_day, rtc_week, rtc_turned>>

\* C's division rounds towards zero.
CDiv(a, b) == IF a >= 0 THEN a \div b ELSE 0 - ((0 - a) \div b)
CMod(a, b) == a - b * CDiv(a, b)

sceRtcIsLeapYear(y) == y % 4 = 0 /\ (y % 100 # 0 \/ y % 400 = 0)
MonthDays(y, m) == IF m = 2 THEN (IF sceRtcIsLeapYear(y) THEN 29 ELSE 28) ELSE IF m \in {4, 6, 9, 11} THEN 30 ELSE 31

\* The host's calendar, counted month by month (timegm).
DaysOf(y, m, d) ==
  365 * (y - 1) + (y - 1) \div 4 - (y - 1) \div 100 + (y - 1) \div 400
    + FoldFunction(+, 0, [k \in 1..m - 1 |-> MonthDays(y, k)]) + d - 1 - 719162

RtcInit ==
  /\ rtc_date \in RtcStarts /\ rtc_turned = 0
  /\ rtc_day = DaysOf(rtc_date[1], rtc_date[2], rtc_date[3])
  /\ rtc_week = (rtc_day + 719162 + 1) % 7

tomorrow ==
  /\ rtc_turned < RtcDays /\ rtc_turned' = rtc_turned + 1
  /\ rtc_day' = rtc_day + 1 /\ rtc_week' = (rtc_week + 1) % 7
  /\ LET y == rtc_date[1] m == rtc_date[2] d == rtc_date[3]
     IN  rtc_date' = IF d < MonthDays(y, m) THEN <<y, m, d + 1>> ELSE IF m < 12 THEN <<y, m + 1, 1>> ELSE <<y + 1, 1, 1>>

Invalid == <<0, 0, 0, 0>>

era(z) == CDiv(IF z >= 0 THEN z ELSE z - 146096, 146097)
\* Mutant: a time before 1970 is not brought to the day it lies in.
split_truncated(hours) == <<CDiv(hours, 24), CMod(hours, 24)>>
\* Days since 1970 and the hour of hours since 1970.
split(hours) == IF CMod(hours, 24) < 0 THEN <<CDiv(hours, 24) - 1, CMod(hours, 24) + 24>> ELSE <<CDiv(hours, 24), CMod(hours, 24)>>
rtc_civil_from_unix(hours) ==
  LET z   == split(hours)[1] + 719468
      doe == z - era(z) * 146097
      yoe == CDiv(doe - CDiv(doe, 1460) + CDiv(doe, 36524) - CDiv(doe, 146096), 365)
      doy == doe - (365 * yoe + CDiv(yoe, 4) - CDiv(yoe, 100))
      mp  == CDiv(5 * doy + 2, 153)
      d   == doy - CDiv(153 * mp + 2, 5) + 1
      m   == IF mp < 10 THEN mp + 3 ELSE mp - 9
      y   == yoe + era(z) * 400 + (IF m <= 2 THEN 1 ELSE 0)
  IN  IF y \notin 1..9999 THEN Invalid ELSE <<y, m, d, split(hours)[2]>>

sceRtcSetTime_t(hours, new_sdk) ==
  IF new_sdk /\ hours < 0 THEN Invalid ELSE rtc_civil_from_unix(IF new_sdk THEN hours ELSE hours % RtcWrap)

month_offset == <<0, 3, 2, 5, 0, 3, 5, 1, 4, 6, 2, 4>>
sceRtcGetDayOfWeek(y, m, d) ==
  LET x == IF m < 3 THEN y - 1 ELSE y
  IN  (x + CDiv(x, 4) - CDiv(x, 100) + CDiv(x, 400) + month_offset[m] + d) % 7

\* A date to a tick and back, both in the host's time zone (mktime, localtime_r).
sceRtcGetTick(date) == 24 * DaysOf(date[1], date[2], date[3]) + date[4] - HostZone
sceRtcSetTick(tick) == rtc_civil_from_unix(tick + HostZone)
sceRtcConvertUtcToLocalTime(tick) == tick + HostZone

sceRtcGetTime_t(date) == sceRtcGetTick(date)
\* The clock's date in a zone, at an hour of the day.
sceRtcGetCurrentClock(hour, zone) == rtc_civil_from_unix(24 * rtc_day + hour + zone)

\* A date without a zone is taken as UTC (timegm).
sceRtcParseDateTime(date) == 24 * DaysOf(date[1], date[2], date[3]) + date[4]

\* The text carries the date in the zone, and the zone; the date is read in
\* the host's zone and then shifted by the text's.
ps4_rtc_format_rfc3339(tick, zone) == [date |-> rtc_civil_from_unix(tick + zone), zone |-> zone]
\* Mutant: the zone is added.
parse_adds(text) == sceRtcGetTick(text.date) + text.zone
sceRtcParseRFC3339(text) == sceRtcGetTick(text.date) - text.zone

RtcNext == tomorrow

-----------------------------------------------------------------------------
\* On every day the conversions agree with the calendar, whatever the sign of
\* the time and the century: the date of a time, the weekday of a date, a date
\* made of a tick and read back, and a text that is parsed back to its time.
ClockExact ==
  \A h \in RtcHours :
    LET date == <<rtc_date[1], rtc_date[2], rtc_date[3], h>>
        tick == 24 * rtc_day + h
    IN  /\ rtc_civil_from_unix(tick) = (IF rtc_date[1] \in 1..9999 THEN date ELSE Invalid)
        /\ sceRtcSetTime_t(tick, TRUE) = (IF tick >= 0 THEN rtc_civil_from_unix(tick) ELSE Invalid)
        /\ tick \in 0..RtcWrap - 1 => sceRtcSetTime_t(tick, FALSE) = sceRtcSetTime_t(tick, TRUE)
        /\ sceRtcGetDayOfWeek(rtc_date[1], rtc_date[2], rtc_date[3]) = rtc_week
        /\ rtc_date[1] \in 2..9998 =>
             /\ sceRtcGetTick(sceRtcSetTick(tick)) = tick /\ sceRtcSetTick(tick) = rtc_civil_from_unix(sceRtcConvertUtcToLocalTime(tick))
             /\ sceRtcGetTime_t(sceRtcSetTick(tick)) = sceRtcParseDateTime(sceRtcGetCurrentClock(h, 0))
             /\ \A zone \in RtcZones : sceRtcParseRFC3339(ps4_rtc_format_rfc3339(tick, zone)) = tick
=============================================================================
