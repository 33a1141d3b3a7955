--------------------------- MODULE NormalizeTime ---------------------------
(* PR_NormalizeTime of c_src/prtime.cc, step by step: it brings the fields *)
(* of an exploded time into their ranges, one carry after the other and    *)
(* then month by month, and computes the days of the year and the week.    *)
(* The quotient and the remainder of C, followed by the correction of a    *)
(* negative remainder, are \div and % of TLA+.                             *)
EXTENDS Integers

VARIABLES
  time,      \* the PRExplodedTime
  step,      \* where PR_NormalizeTime is, "ready" at its start, "normal" after it
  origin     \* history: the time that PR_NormalizeTime was called with

Int16(n) == ((n + 32768) % 65536) - 32768    \* the conversion to a PRInt16

IsLeapYear(year) == (year % 4 = 0 /\ year % 100 # 0) \/ year % 400 = 0

\* Months count from 0.
nDays(year, month) ==
  IF month = 1 THEN (IF IsLeapYear(year) THEN 29 ELSE 28)
  ELSE IF month \in {3, 5, 8, 10} THEN 30
  ELSE 31

\* Mutant: the leap day comes before February.
lastDayOfMonthEarly(year, month) ==
  LET before == <<-1, 30, 58, 89, 119, 150, 180, 211, 242, 272, 303, 333>>
  IN before[month + 1] + (IF IsLeapYear(year) /\ month > 0 THEN 1 ELSE 0)

\* The day of the year of the last day before a month; January 1 is day 0.
lastDayOfMonth(year, month) ==
  LET before == <<-1, 30, 58, 89, 119, 150, 180, 211, 242, 272, 303, 333>>
  IN before[month + 1] + (IF IsLeapYear(year) /\ month > 1 THEN 1 ELSE 0)

\* C division, which truncates towards zero.
Quotient(a, b) == IF a < 0 THEN -((-a) \div b) ELSE a \div b

COUNT_LEAPS(Y) == Quotient(Y - 1, 4) - Quotient(Y - 1, 100) + Quotient(Y - 1, 400)

COUNT_DAYS(Y) == (Y - 1) * 365 + COUNT_LEAPS(Y)

----------------------------------------------------------------------------

\* Get back to GMT.
ToGMT ==
  /\ step = "ready"
  /\ time' = [time EXCEPT !.sec = @ - (time.gmt_offset + time.dst_offset),
                          !.gmt_offset = 0, !.dst_offset = 0]
  /\ step' = "usec"

CarryUsec ==
  /\ step = "usec"
  /\ time' = [time EXCEPT !.usec = @ % 1000000, !.sec = @ + time.usec \div 1000000]
  /\ step' = "sec"

CarrySec ==
  /\ step = "sec"
  /\ time' = [time EXCEPT !.sec = @ % 60, !.min = @ + time.sec \div 60]
  /\ step' = "min"

CarryMin ==
  /\ step = "min"
  /\ time' = [time EXCEPT !.min = @ % 60, !.hour = @ + time.min \div 60]
  /\ step' = "hour"

CarryHour ==
  /\ step = "hour"
  /\ time' = [time EXCEPT !.hour = @ % 24, !.mday = @ + time.hour \div 24]
  /\ step' = "month"

CarryMonth ==
  /\ step = "month"
  /\ time' = [time EXCEPT !.month = @ % 12, !.year = Int16(@ + time.month \div 12)]
  /\ step' = IF time.mday < 1 THEN "back" ELSE "forward"

\* Mutant: the days of the month that is left, not of the previous one.
MonthBackStale ==
  LET mday == time.mday + nDays(time.year, time.month)
  IN /\ step = "back"
     /\ time' = [time EXCEPT !.month = IF @ = 0 THEN 11 ELSE @ - 1,
                             !.year = IF time.month = 0 THEN Int16(@ - 1) ELSE @,
                             !.mday = mday]
     /\ step' = IF mday < 1 THEN "back" ELSE "days"

\* One round of the do loop: the previous month.
MonthBack ==
  LET month == IF time.month = 0 THEN 11 ELSE time.month - 1
      year == IF time.month = 0 THEN Int16(time.year - 1) ELSE time.year
      mday == time.mday + nDays(year, month)
  IN /\ step = "back"
     /\ time' = [time EXCEPT !.month = month, !.year = year, !.mday = mday]
     /\ step' = IF mday < 1 THEN "back" ELSE "days"

\* One round of the while loop: the next month.
MonthForward ==
  LET last == time.month = 11
  IN /\ step = "forward"
     /\ IF time.mday > nDays(time.year, time.month)
          THEN /\ time' = [time EXCEPT
                             !.mday = @ - nDays(time.year, time.month),
                             !.month = IF last THEN 0 ELSE @ + 1,
                             !.year = IF last THEN Int16(@ + 1) ELSE @]
               /\ step' = "forward"
          ELSE /\ step' = "days"
               /\ UNCHANGED time

\* Recompute yday and wday.  The parameters of PR_GMTParameters are zero,
\* and ApplySecOffset of 0 leaves a normalized time as it is.
ComputeDays ==
  LET yday == time.mday + lastDayOfMonth(time.year, time.month)
      numDays == COUNT_DAYS(time.year) - COUNT_DAYS(1970) + yday
  IN /\ step = "days"
     /\ time' = [time EXCEPT !.yday = yday, !.wday = (numDays + 4) % 7]
     /\ step' = "normal"

PR_NormalizeTime ==
  /\ \/ ToGMT \/ CarryUsec \/ CarrySec \/ CarryMin \/ CarryHour \/ CarryMonth
     \/ MonthBack \/ MonthForward \/ ComputeDays
  /\ UNCHANGED origin

(* What the parsers of dates call it with: numbers of two digits, a month  *)
(* that is -1 for "0/", and an offset of at most 99 hours and 99 minutes.  *)
MaxOffset == (99 * 60 + 99) * 60

Within(n, low, high) == low <= n /\ n <= high

TimeFields ==
  [usec : Int, sec : Int, min : Int, hour : Int, mday : Int, month : Int, year : Int,
   wday : Int, yday : Int, gmt_offset : Int, dst_offset : Int]

IsExploded(t) ==
  /\ t \in TimeFields
  /\ Within(t.usec, 0, 999999)
  /\ Within(t.sec, 0, 99) /\ Within(t.min, 0, 99) /\ Within(t.hour, 0, 99)
  /\ Within(t.mday, 0, 99) /\ Within(t.month, -1, 11) /\ Within(t.year, -32768, 32767)
  /\ Within(t.gmt_offset, -MaxOffset, MaxOffset)
  /\ t.dst_offset \in {0, 3600}

Epoch ==
  [usec |-> 0, sec |-> 0, min |-> 0, hour |-> 0, mday |-> 1, month |-> 0, year |-> 1970,
   wday |-> 4, yday |-> 0, gmt_offset |-> 0, dst_offset |-> 0]

Call ==
  /\ step = "normal"
  /\ step' = "ready"
  /\ IsExploded(time')
  /\ origin' = time'

NormalizeInit == step = "normal" /\ time = Epoch /\ origin = Epoch

NormalizeNext == Call \/ PR_NormalizeTime

NormalizeSpec == NormalizeInit /\ [][NormalizeNext]_<<time, step, origin>>

----------------------------------------------------------------------------
(* Properties *)

\* The days from January 1 of the year 0 to the first of a month, counted
\* by the rules of the Gregorian calendar and not by the tables above:
\* from March on, five months take 153 days.
DaysBefore(year, month) ==
  LET y == IF month < 2 THEN year - 1 ELSE year
      m == IF month < 2 THEN month + 10 ELSE month - 2
  IN 365 * y + y \div 4 - y \div 100 + y \div 400 + (153 * m + 2) \div 5 + 60

\* The instant that a time stands for: its day and the microseconds, as
\* seconds and a rest, from the start of that day.
DayOf(t) == DaysBefore(t.year + t.month \div 12, t.month % 12) + t.mday - 1
SecondOf(t) ==
  t.hour * 3600 + t.min * 60 + t.sec - t.gmt_offset - t.dst_offset + t.usec \div 1000000
Instant(t) ==
  [day |-> DayOf(t) + SecondOf(t) \div 86400,
   second |-> SecondOf(t) % 86400,
   usec |-> t.usec % 1000000]

\* The years from which no carry leads out of a PRInt16.
YearFits(t) == Within(t.year, -32767, 32766)

\* PR_NormalizeTime stays, at every one of its steps, at the instant that
\* it was called with: no carry, no month and no leap day is lost.
SameInstant == YearFits(origin) => Instant(time) = Instant(origin)

\* It ends with a date of the calendar, every field in its range, and with
\* the day of the year and of the week that the date has.
Normalized ==
  step = "normal" =>
    /\ Within(time.usec, 0, 999999) /\ Within(time.sec, 0, 59) /\ Within(time.min, 0, 59)
    /\ Within(time.hour, 0, 23) /\ Within(time.month, 0, 11)
    /\ Within(time.mday, 1, nDays(time.year, time.month))
    /\ time.gmt_offset = 0 /\ time.dst_offset = 0
    /\ time.yday = DayOf(time) - DaysBefore(time.year, 0)
    /\ time.year >= 1 => time.wday = (DayOf(time) + 6) % 7
============================================================================
