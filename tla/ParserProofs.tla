---------------------------- MODULE ParserProofs ----------------------------
(***************************************************************************)
(* Proofs about the NIF parser: the dates, then the lines of a message.    *)
(*                                                                         *)
(* PR_NormalizeTime keeps the instant and ends with a date of the calendar *)
(* for every time that the parser of dates may call it with.               *)
(*                                                                         *)
(* The parser calls it with no other time, whatever the text, and each     *)
(* iteration of its loop moves on in the text.                             *)
(*                                                                         *)
(* AssembleRawHeaders unfolds every text as its lines say, and each round  *)
(* of a loop of Parse consumes some of the text.                           *)
(***************************************************************************)
EXTENDS DateParser, MessageParser, TLAPS, FiniteSetTheorems, WellFoundedInduction

\* The number of a month, counted through the years.
MonthNumber(t) == 12 * t.year + t.month

Fields ==
  /\ time \in TimeFields
  /\ Within(time.usec, 0, 999999) /\ Within(time.year, -32768, 32767)
  /\ IsExploded(origin)
  /\ step \in {"ready", "usec", "sec", "min", "hour", "month", "back", "forward",
               "days", "normal"}

\* How far each field may be out of its range at each step.
SecBound == step \in {"usec", "sec"} => Within(time.sec, -366039, 366039)
SecDone == step \notin {"ready", "usec", "sec"} => Within(time.sec, 0, 59)
MinBound ==
  /\ step \in {"usec", "sec"} => Within(time.min, 0, 99)
  /\ step = "min" => Within(time.min, -6101, 6200)
  /\ step \notin {"ready", "usec", "sec", "min"} => Within(time.min, 0, 59)
HourBound ==
  /\ step \in {"usec", "sec", "min"} => Within(time.hour, 0, 99)
  /\ step = "hour" => Within(time.hour, -102, 203)
  /\ step \notin {"ready", "usec", "sec", "min", "hour"} => Within(time.hour, 0, 23)
DayBound ==
  /\ step \in {"usec", "sec", "min", "hour"} => Within(time.mday, 0, 99)
  /\ step = "month" => Within(time.mday, -5, 107)
  /\ step = "back" => Within(time.mday, -5, 0)
  /\ step = "forward" => Within(time.mday, 1, 107)
  /\ step \in {"days", "normal"} => Within(time.mday, 1, nDays(time.year, time.month))
MonthBound ==
  /\ step \in {"usec", "sec", "min", "hour", "month"} =>
       time.month = origin.month /\ time.year = origin.year
  /\ step \in {"back", "forward", "days", "normal"} => Within(time.month, 0, 11)
Start == step = "ready" => time = origin
OffsetsGone == step # "ready" => time.gmt_offset = 0 /\ time.dst_offset = 0

\* The months that the loops pass have 28 days at least, so that they do
\* not lead out of the years of a PRInt16.
MonthsPassed ==
  YearFits(origin) =>
    /\ step = "back" => MonthNumber(time) = MonthNumber(origin)
    /\ step = "forward" =>
         /\ MonthNumber(time) >= MonthNumber(origin)
         /\ time.mday + 28 * (MonthNumber(time) - MonthNumber(origin)) <= 107

SamePlace ==
  YearFits(origin) =>
    /\ DayOf(time) + SecondOf(time) \div 86400 = DayOf(origin) + SecondOf(origin) \div 86400
    /\ SecondOf(time) % 86400 = SecondOf(origin) % 86400
    /\ time.usec % 1000000 = origin.usec % 1000000

DaysDone ==
  step = "normal" =>
    /\ time.yday = DayOf(time) - DaysBefore(time.year, 0)
    /\ time.year >= 1 => time.wday = (DayOf(time) + 6) % 7

\* The inductive invariant.
Bounds == SecBound /\ SecDone /\ MinBound /\ HourBound /\ DayBound /\ MonthBound
          /\ Start /\ OffsetsGone
Inv == Fields /\ Bounds /\ MonthsPassed /\ SamePlace /\ DaysDone

----------------------------------------------------------------------------
(* The calendar *)

\* The table nDays agrees with the calendar: each month starts where the
\* one before it ends.
LEMMA NextMonth ==
  ASSUME NEW y \in Int, NEW m \in 0..11
  PROVE  DaysBefore(y, m) + nDays(y, m) =
           IF m = 11 THEN DaysBefore(y + 1, 0) ELSE DaysBefore(y, m + 1)
<1>1. CASE m = 1
  BY <1>1 DEF DaysBefore, nDays, IsLeapYear
<1>2. CASE m \in {0} \cup 2..11
  BY <1>2 DEF DaysBefore, nDays
<1> QED
  BY <1>1, <1>2

\* A month has 28 to 31 days.
LEMMA MonthLength ==
  ASSUME NEW y \in Int, NEW m \in 0..11
  PROVE  nDays(y, m) \in 28..31
BY DEF nDays

\* The table lastDayOfMonth agrees with the calendar.
LEMMA DayOfYear ==
  ASSUME NEW y \in Int, NEW m \in 0..11
  PROVE  lastDayOfMonth(y, m) = DaysBefore(y, m) - DaysBefore(y, 0) - 1
<1>1. CASE IsLeapYear(y)
  <2>1. y \div 4 - (y - 1) \div 4 - (y \div 100 - (y - 1) \div 100)
          + (y \div 400 - (y - 1) \div 400) = 1
    BY <1>1 DEF IsLeapYear
  <2> QED
    BY <1>1, <2>1 DEF lastDayOfMonth, DaysBefore
<1>2. CASE ~IsLeapYear(y)
  <2>1. y \div 4 - (y - 1) \div 4 - (y \div 100 - (y - 1) \div 100)
          + (y \div 400 - (y - 1) \div 400) = 0
    BY <1>2 DEF IsLeapYear
  <2> QED
    BY <1>2, <2>1 DEF lastDayOfMonth, DaysBefore
<1> QED
  BY <1>1, <1>2

\* The weekday that COUNT_DAYS gives is the one of the calendar.
LEMMA DayOfWeek ==
  ASSUME NEW y \in Int, y >= 1, NEW yday \in Int
  PROVE  (COUNT_DAYS(y) - COUNT_DAYS(1970) + yday + 4) % 7
           = (DaysBefore(y, 0) + yday + 6) % 7
<1>1. COUNT_DAYS(1970) = 719162
  BY SMT DEF COUNT_DAYS, COUNT_LEAPS, Quotient
<1>2. COUNT_DAYS(y) =
        (y - 1) * 365 + (y - 1) \div 4 - (y - 1) \div 100 + (y - 1) \div 400
  BY SMT DEF COUNT_DAYS, COUNT_LEAPS, Quotient
<1>3. DaysBefore(y, 0) = COUNT_DAYS(y) + 366
  BY SMT, <1>2 DEF DaysBefore
<1>4. COUNT_DAYS(y) \in Int
  BY SMT, <1>2
<1> QED
  BY SMT, <1>1, <1>3, <1>4

\* A day is 86400 seconds.
LEMMA DayIsSeconds ==
  ASSUME NEW d \in Int, NEW s \in Int, NEW q \in Int
  PROVE  /\ (d + q) + (s - 86400 * q) \div 86400 = d + s \div 86400
         /\ (s - 86400 * q) % 86400 = s % 86400
BY SMT

\* The fields of both times are integers.
LEMMA Types ==
  ASSUME Fields
  PROVE  /\ time.usec \in Int /\ time.sec \in Int /\ time.min \in Int
         /\ time.hour \in Int /\ time.mday \in Int /\ time.month \in Int
         /\ time.year \in Int /\ time.gmt_offset \in Int /\ time.dst_offset \in Int
         /\ time.wday \in Int /\ time.yday \in Int
         /\ origin.usec \in Int /\ origin.sec \in Int /\ origin.min \in Int
         /\ origin.hour \in Int /\ origin.mday \in Int /\ origin.month \in Int
         /\ origin.year \in Int /\ origin.gmt_offset \in Int /\ origin.dst_offset \in Int
BY SMT DEF Fields, IsExploded, TimeFields

\* A count of days is an integer.
LEMMA DayOfInt ==
  ASSUME NEW y \in Int, NEW m \in Int
  PROVE  DaysBefore(y, m) \in Int
BY SMT DEF DaysBefore

----------------------------------------------------------------------------
(* The steps *)

\* The invariant holds of a normal time that nobody has changed.
LEMMA InitInv == NormalizeInit => Inv
BY SMT DEF NormalizeInit, Inv, Fields, Bounds, SecBound, SecDone, MinBound, HourBound, DayBound,
       MonthBound, Start, OffsetsGone, MonthsPassed, SamePlace, DaysDone, Epoch, IsExploded, TimeFields,
       Within, MaxOffset, nDays, IsLeapYear, DayOf, SecondOf, DaysBefore, YearFits, MonthNumber

\* A call with an exploded time of the parser's ranges starts at its own instant.
LEMMA CallInv == Inv /\ Call => Inv'
BY SMT DEF Call, Inv, Fields, Bounds, SecBound, SecDone, MinBound, HourBound, DayBound,
       MonthBound, Start, OffsetsGone, MonthsPassed, SamePlace, DaysDone, IsExploded

\* Taking the offsets out of the seconds keeps the second of the time.
LEMMA ToGMTInv == Inv /\ ToGMT /\ UNCHANGED origin => Inv'
<1> SUFFICES ASSUME Inv, ToGMT, UNCHANGED origin PROVE Inv'
  OBVIOUS
<1>1. time' \in TimeFields
  <2> DEFINE u == [time EXCEPT !.sec = time.sec - (time.gmt_offset + time.dst_offset)]
  <2>1. u \in TimeFields
    BY SMT, Types DEF Inv, Fields, TimeFields
  <2> HIDE DEF u
  <2> DEFINE v == [u EXCEPT !.gmt_offset = 0]
  <2>2. v \in TimeFields
    BY SMT, <2>1, Types DEF Inv, Fields, TimeFields
  <2> HIDE DEF v
  <2>3. [v EXCEPT !.dst_offset = 0] \in TimeFields
    BY SMT, <2>2, Types DEF Inv, Fields, TimeFields
  <2> QED
    BY <2>3 DEF ToGMT, u, v
<1>2. /\ time'.usec = time.usec
      /\ time'.sec = time.sec - (time.gmt_offset + time.dst_offset)
      /\ time'.min = time.min /\ time'.hour = time.hour /\ time'.mday = time.mday
      /\ time'.month = time.month /\ time'.year = time.year /\ time'.gmt_offset = 0
      /\ time'.dst_offset = 0
  BY SMT DEF ToGMT, Inv, Fields, TimeFields
<1>3. step = "ready" /\ step' = "usec" /\ origin' = origin
  BY DEF ToGMT
<1>4. Fields'
  BY SMT, <1>1, <1>2, <1>3, Types DEF Inv, Fields, Within
<1>5. Bounds'
  BY SMT, <1>2, <1>3, <1>1, Types
    DEF Fields, Inv, Bounds, SecBound, SecDone, MinBound, HourBound,
         DayBound, MonthBound, Start, OffsetsGone, Within, IsExploded, MaxOffset
<1>6. MonthsPassed'
  BY <1>3 DEF MonthsPassed
<1>7. SamePlace'
  <2>1. SecondOf(time') = SecondOf(time) /\ DayOf(time') = DayOf(time)
    BY SMT, <1>2, Types DEF Inv, SecondOf, DayOf
  <2> QED
    BY SMT, <2>1, <1>2, <1>3 DEF Inv, SamePlace
<1> QED
  BY <1>3, <1>4, <1>5, <1>6, <1>7 DEF Inv, DaysDone

\* The microseconds are in their range, so nothing is carried.
LEMMA CarryUsecInv == Inv /\ CarryUsec /\ UNCHANGED origin => Inv'
<1> SUFFICES ASSUME Inv, CarryUsec, UNCHANGED origin PROVE Inv'
  OBVIOUS
<1>1. time' \in TimeFields
  <2> DEFINE u == [time EXCEPT !.usec = time.usec % 1000000]
  <2>1. u \in TimeFields
    BY SMT, Types DEF Inv, Fields, TimeFields
  <2> HIDE DEF u
  <2>2. [u EXCEPT !.sec = time.sec + time.usec \div 1000000] \in TimeFields
    BY SMT, <2>1, Types DEF Inv, Fields, TimeFields
  <2> QED
    BY <2>2 DEF CarryUsec, u
<1>2. /\ time'.usec = time.usec % 1000000
      /\ time'.sec = time.sec + time.usec \div 1000000 /\ time'.min = time.min
      /\ time'.hour = time.hour /\ time'.mday = time.mday /\ time'.month = time.month
      /\ time'.year = time.year /\ time'.gmt_offset = time.gmt_offset
      /\ time'.dst_offset = time.dst_offset
  BY SMT DEF CarryUsec, Inv, Fields, TimeFields
<1>3. step = "usec" /\ step' = "sec" /\ origin' = origin
  BY DEF CarryUsec
<1>4. Fields'
  BY SMT, <1>1, <1>2, <1>3, Types DEF Inv, Fields, Within
<1>5. Bounds'
  BY SMT, <1>2, <1>3, <1>1, Types
    DEF Fields, Inv, Bounds, SecBound, SecDone, MinBound, HourBound,
         DayBound, MonthBound, Start, OffsetsGone, Within
<1>6. MonthsPassed'
  BY <1>3 DEF MonthsPassed
<1>7. SamePlace'
  <2>1. time.usec \div 1000000 = 0 /\ time.usec % 1000000 = time.usec
    BY SMT, Types DEF Inv, Fields, Within
  <2>2. SecondOf(time') = SecondOf(time) /\ DayOf(time') = DayOf(time)
    BY SMT, <2>1, <1>2, Types DEF Inv, SecondOf, DayOf
  <2> QED
    BY SMT, <2>2, <2>1, <1>2, <1>3 DEF Inv, SamePlace
<1> QED
  BY <1>3, <1>4, <1>5, <1>6, <1>7 DEF Inv, DaysDone

\* Sixty seconds carried are a minute.
LEMMA CarrySecInv == Inv /\ CarrySec /\ UNCHANGED origin => Inv'
<1> SUFFICES ASSUME Inv, CarrySec, UNCHANGED origin PROVE Inv'
  OBVIOUS
<1>1. time' \in TimeFields
  <2> DEFINE u == [time EXCEPT !.sec = time.sec % 60]
  <2>1. u \in TimeFields
    BY SMT, Types DEF Inv, Fields, TimeFields
  <2> HIDE DEF u
  <2>2. [u EXCEPT !.min = time.min + time.sec \div 60] \in TimeFields
    BY SMT, <2>1, Types DEF Inv, Fields, TimeFields
  <2> QED
    BY <2>2 DEF CarrySec, u
<1>2. /\ time'.usec = time.usec /\ time'.sec = time.sec % 60
      /\ time'.min = time.min + time.sec \div 60 /\ time'.hour = time.hour
      /\ time'.mday = time.mday /\ time'.month = time.month /\ time'.year = time.year
      /\ time'.gmt_offset = time.gmt_offset /\ time'.dst_offset = time.dst_offset
  BY SMT DEF CarrySec, Inv, Fields, TimeFields
<1>3. step = "sec" /\ step' = "min" /\ origin' = origin
  BY DEF CarrySec
<1>4. Fields'
  BY SMT, <1>1, <1>2, <1>3, Types DEF Inv, Fields, Within
<1>5. Bounds'
  BY SMT, <1>2, <1>3, <1>1, Types
    DEF Fields, Inv, Bounds, SecBound, SecDone, MinBound, HourBound,
         DayBound, MonthBound, Start, OffsetsGone, Within
<1>6. MonthsPassed'
  BY <1>3 DEF MonthsPassed
<1>7. SamePlace'
  <2> DEFINE q == time.sec \div 60
             r == time.sec % 60
  <2>1. q \in Int /\ r \in Int /\ time.sec = 60 * q + r
    BY SMT, Types DEF Inv
  <2>2. /\ time'.usec = time.usec /\ time'.sec = r /\ time'.min = time.min + q
        /\ time'.hour = time.hour /\ time'.mday = time.mday /\ time'.month = time.month
        /\ time'.year = time.year /\ time'.gmt_offset = time.gmt_offset
        /\ time'.dst_offset = time.dst_offset
    BY <1>2
  <2> HIDE DEF q, r
  <2>4. SecondOf(time') = SecondOf(time) /\ DayOf(time') = DayOf(time)
    BY SMT, <2>1, <2>2, Types DEF Inv, SecondOf, DayOf
  <2> QED
    BY SMT, <2>4, <1>2, <1>3 DEF Inv, SamePlace
<1> QED
  BY <1>3, <1>4, <1>5, <1>6, <1>7 DEF Inv, DaysDone

\* Sixty minutes carried are an hour.
LEMMA CarryMinInv == Inv /\ CarryMin /\ UNCHANGED origin => Inv'
<1> SUFFICES ASSUME Inv, CarryMin, UNCHANGED origin PROVE Inv'
  OBVIOUS
<1>1. time' \in TimeFields
  <2> DEFINE u == [time EXCEPT !.min = time.min % 60]
  <2>1. u \in TimeFields
    BY SMT, Types DEF Inv, Fields, TimeFields
  <2> HIDE DEF u
  <2>2. [u EXCEPT !.hour = time.hour + time.min \div 60] \in TimeFields
    BY SMT, <2>1, Types DEF Inv, Fields, TimeFields
  <2> QED
    BY <2>2 DEF CarryMin, u
<1>2. /\ time'.usec = time.usec /\ time'.sec = time.sec /\ time'.min = time.min % 60
      /\ time'.hour = time.hour + time.min \div 60 /\ time'.mday = time.mday
      /\ time'.month = time.month /\ time'.year = time.year
      /\ time'.gmt_offset = time.gmt_offset /\ time'.dst_offset = time.dst_offset
  BY SMT DEF CarryMin, Inv, Fields, TimeFields
<1>3. step = "min" /\ step' = "hour" /\ origin' = origin
  BY DEF CarryMin
<1>4. Fields'
  BY SMT, <1>1, <1>2, <1>3, Types DEF Inv, Fields, Within
<1>5. Bounds'
  BY SMT, <1>2, <1>3, <1>1, Types
    DEF Fields, Inv, Bounds, SecBound, SecDone, MinBound, HourBound,
         DayBound, MonthBound, Start, OffsetsGone, Within
<1>6. MonthsPassed'
  BY <1>3 DEF MonthsPassed
<1>7. SamePlace'
  <2> DEFINE q == time.min \div 60
             r == time.min % 60
  <2>1. q \in Int /\ r \in Int /\ time.min = 60 * q + r
    BY SMT, Types DEF Inv
  <2>2. /\ time'.usec = time.usec /\ time'.sec = time.sec /\ time'.min = r
        /\ time'.hour = time.hour + q /\ time'.mday = time.mday
        /\ time'.month = time.month /\ time'.year = time.year
        /\ time'.gmt_offset = time.gmt_offset /\ time'.dst_offset = time.dst_offset
    BY <1>2
  <2> HIDE DEF q, r
  <2>4. SecondOf(time') = SecondOf(time) /\ DayOf(time') = DayOf(time)
    BY SMT, <2>1, <2>2, Types DEF Inv, SecondOf, DayOf
  <2> QED
    BY SMT, <2>4, <1>2, <1>3 DEF Inv, SamePlace
<1> QED
  BY <1>3, <1>4, <1>5, <1>6, <1>7 DEF Inv, DaysDone

\* Twenty-four hours carried are a day, which moves from the second of the
\* time to its day.
LEMMA CarryHourInv == Inv /\ CarryHour /\ UNCHANGED origin => Inv'
<1> SUFFICES ASSUME Inv, CarryHour, UNCHANGED origin PROVE Inv'
  OBVIOUS
<1>1. time' \in TimeFields
  <2> DEFINE u == [time EXCEPT !.hour = time.hour % 24]
  <2>1. u \in TimeFields
    BY SMT, Types DEF Inv, Fields, TimeFields
  <2> HIDE DEF u
  <2>2. [u EXCEPT !.mday = time.mday + time.hour \div 24] \in TimeFields
    BY SMT, <2>1, Types DEF Inv, Fields, TimeFields
  <2> QED
    BY <2>2 DEF CarryHour, u
<1>2. /\ time'.usec = time.usec /\ time'.sec = time.sec /\ time'.min = time.min
      /\ time'.hour = time.hour % 24 /\ time'.mday = time.mday + time.hour \div 24
      /\ time'.month = time.month /\ time'.year = time.year
      /\ time'.gmt_offset = time.gmt_offset /\ time'.dst_offset = time.dst_offset
  BY SMT DEF CarryHour, Inv, Fields, TimeFields
<1>3. step = "hour" /\ step' = "month" /\ origin' = origin
  BY DEF CarryHour
<1>4. Fields'
  BY SMT, <1>1, <1>2, <1>3, Types DEF Inv, Fields, Within
<1>5. Bounds'
  BY SMT, <1>2, <1>3, <1>1, Types
    DEF Fields, Inv, Bounds, SecBound, SecDone, MinBound, HourBound,
         DayBound, MonthBound, Start, OffsetsGone, Within
<1>6. MonthsPassed'
  BY <1>3 DEF MonthsPassed
<1>7. SamePlace'
  <2> DEFINE q == time.hour \div 24
             r == time.hour % 24
  <2>1. q \in Int /\ r \in Int /\ time.hour = 24 * q + r
    BY SMT, Types DEF Inv
  <2>2. /\ time'.usec = time.usec /\ time'.sec = time.sec /\ time'.min = time.min
        /\ time'.hour = r /\ time'.mday = time.mday + q /\ time'.month = time.month
        /\ time'.year = time.year /\ time'.gmt_offset = time.gmt_offset
        /\ time'.dst_offset = time.dst_offset
    BY <1>2
  <2> HIDE DEF q, r
  <2>3. DayOf(time) \in Int /\ DayOf(time') = DayOf(time) + q
    <3> DEFINE d == DaysBefore(time.year + time.month \div 12, time.month % 12)
    <3>1. d \in Int
      <4>1. time.year + time.month \div 12 \in Int /\ time.month % 12 \in Int
        BY SMT, Types DEF Inv
      <4> QED
        BY <4>1, DayOfInt
    <3>2. DayOf(time) = d + time.mday - 1 /\ DayOf(time') = d + time.mday + q - 1
      <4>1. DayOf(time') = d + time'.mday - 1
        BY <2>2 DEF DayOf
      <4> HIDE DEF d
      <4>2. DayOf(time') = d + (time.mday + q) - 1
        BY <4>1, <2>2
      <4>3. d + (time.mday + q) - 1 = d + time.mday + q - 1
        BY SMT, <2>1, <3>1, Types DEF Inv
      <4> QED
        BY <4>2, <4>3 DEF DayOf, d
    <3> HIDE DEF d
    <3> QED
      BY SMT, <3>1, <3>2, <2>1, Types DEF Inv
  <2>4. SecondOf(time) \in Int /\ SecondOf(time') = SecondOf(time) - 86400 * q
    BY SMT, <2>1, <2>2, Types DEF Inv, SecondOf
  <2>5. /\ DayOf(time') + SecondOf(time') \div 86400 = DayOf(time) + SecondOf(time) \div 86400
        /\ SecondOf(time') % 86400 = SecondOf(time) % 86400
    BY SMT, <2>1, <2>3, <2>4, DayIsSeconds
  <2> QED
    BY SMT, <2>2, <1>3, <2>5 DEF Inv, SamePlace
<1> QED
  BY <1>3, <1>4, <1>5, <1>6, <1>7 DEF Inv, DaysDone

\* A conversion to a PRInt16 gives one, and keeps a number that is one.
LEMMA Int16Fits ==
  ASSUME NEW n \in Int
  PROVE  /\ Int16(n) \in Int /\ Within(Int16(n), -32768, 32767)
         /\ Within(n, -32768, 32767) => Int16(n) = n
BY SMT DEF Int16, Within

\* The carry of the months keeps the number of the month, and its day.
LEMMA CarryMonthInv == Inv /\ CarryMonth /\ UNCHANGED origin => Inv'
<1> SUFFICES ASSUME Inv, CarryMonth, UNCHANGED origin PROVE Inv'
  OBVIOUS
<1> DEFINE q == time.month \div 12
           r == time.month % 12
           y == Int16(time.year + q)
<1>0. /\ q \in Int /\ r \in Int /\ time.month = 12 * q + r /\ Within(r, 0, 11)
      /\ y \in Int /\ Within(y, -32768, 32767)
      /\ YearFits(origin) => y = time.year + q
  <2>1. q \in Int /\ r \in Int /\ time.month = 12 * q + r /\ Within(r, 0, 11)
    BY SMT, Types DEF Inv, Within
  <2>2. Within(q, -1, 0) /\ time.year = origin.year
    BY SMT, Types DEF Inv, Bounds, MonthBound, CarryMonth, Fields, IsExploded, Within
  <2> HIDE DEF q, r
  <2>3. time.year + q \in Int
    BY SMT, <2>1, Types DEF Inv
  <2>4. YearFits(origin) => Within(time.year + q, -32768, 32767)
    BY SMT, <2>1, <2>2, Types DEF Inv, YearFits, Within
  <2> QED
    BY <2>1, <2>3, <2>4, Int16Fits
<1>1. time' \in TimeFields
  <2> DEFINE u == [time EXCEPT !.month = r]
  <2> HIDE DEF q, r, y
  <2>1. u \in TimeFields
    BY SMT, <1>0 DEF Inv, Fields, TimeFields
  <2> HIDE DEF u
  <2>2. [u EXCEPT !.year = y] \in TimeFields
    BY SMT, <2>1, <1>0 DEF TimeFields
  <2> QED
    BY <2>2 DEF CarryMonth, u, q, r, y
<1>2. /\ time'.usec = time.usec /\ time'.sec = time.sec /\ time'.min = time.min
      /\ time'.hour = time.hour /\ time'.mday = time.mday /\ time'.month = r
      /\ time'.year = y /\ time'.gmt_offset = time.gmt_offset
      /\ time'.dst_offset = time.dst_offset
  BY SMT DEF CarryMonth, Inv, Fields, TimeFields
<1> HIDE DEF q, r, y
<1>3. /\ step = "month" /\ origin' = origin
      /\ step' = IF time.mday < 1 THEN "back" ELSE "forward"
  BY DEF CarryMonth
<1>4. Fields'
  BY SMT, <1>0, <1>1, <1>2, <1>3, Types DEF Inv, Fields, Within
<1>5. Bounds'
  BY SMT, <1>0, <1>2, <1>3, <1>1, Types
    DEF Fields, Inv, Bounds, SecBound, SecDone, MinBound, HourBound,
         DayBound, MonthBound, Start, OffsetsGone, Within
<1>6. MonthsPassed'
  <2>1. YearFits(origin) => MonthNumber(time') = MonthNumber(origin)
    BY SMT, <1>0, <1>2, <1>3, Types DEF Inv, Bounds, MonthBound, MonthNumber
  <2> QED
    BY SMT, <2>1, <1>2, <1>3, Types
      DEF Inv, MonthsPassed, MonthNumber, Bounds, DayBound, Within, YearFits
<1>7. SamePlace'
  <2>1. SecondOf(time') = SecondOf(time)
    BY SMT, <1>2, Types DEF Inv, SecondOf
  <2>2. r \div 12 = 0 /\ r % 12 = r
    BY SMT, <1>0 DEF Within
  <2>3. YearFits(origin) => y + 0 = time.year + q
    BY SMT, <1>0, Types DEF Inv
  <2>4. YearFits(origin) => DayOf(time') = DayOf(time)
    BY <2>2, <2>3, <1>2 DEF DayOf, q, r
  <2> QED
    BY SMT, <2>1, <2>4, <1>2, <1>3 DEF Inv, SamePlace
<1> QED
  BY <1>3, <1>4, <1>5, <1>6, <1>7 DEF Inv, DaysDone

\* A month that is in its range is its own remainder.
LEMMA DayOfMonth ==
  ASSUME NEW t, t.month \in Int, t.year \in Int, Within(t.month, 0, 11)
  PROVE  DayOf(t) = DaysBefore(t.year, t.month) + t.mday - 1
<1>1. t.month \div 12 = 0 /\ t.month % 12 = t.month /\ t.year + 0 = t.year
  BY SMT DEF Within
<1> QED
  BY <1>1 DEF DayOf

\* One month back is enough, and its days make up for the month.
LEMMA MonthBackInv == Inv /\ MonthBack /\ UNCHANGED origin => Inv'
<1> SUFFICES ASSUME Inv, MonthBack, UNCHANGED origin PROVE Inv'
  OBVIOUS
<1> DEFINE m == IF time.month = 0 THEN 11 ELSE time.month - 1
           y == IF time.month = 0 THEN Int16(time.year - 1) ELSE time.year
           d == time.mday + nDays(y, m)
<1>a. /\ step = "back" /\ origin' = origin /\ step' = IF d < 1 THEN "back" ELSE "days"
      /\ time' = [time EXCEPT !.month = m, !.year = y, !.mday = d]
  BY DEF MonthBack
<1>0. /\ m \in Int /\ y \in Int /\ Within(m, 0, 11) /\ Within(y, -32768, 32767)
      /\ YearFits(origin) /\ time.month = 0 => y = time.year - 1
  <2>1. Within(time.month, 0, 11) /\ Within(time.year, -32768, 32767)
    BY <1>a DEF Inv, Fields, Bounds, MonthBound
  <2>2. m \in Int /\ Within(m, 0, 11)
    BY SMT, <2>1, Types DEF Inv, Within
  <2>3. time.year - 1 \in Int
    BY SMT, Types DEF Inv
  <2>4. y \in Int /\ Within(y, -32768, 32767)
    BY <2>1, <2>3, Int16Fits, Types DEF Inv
  <2>5. ASSUME YearFits(origin), time.month = 0
        PROVE  Within(time.year - 1, -32768, 32767)
    <3>1. MonthNumber(time) = MonthNumber(origin)
      BY <1>a, <2>5 DEF Inv, MonthsPassed
    <3>2. Within(origin.month, -1, 11) /\ Within(origin.year, -32767, 32766)
      BY <2>5 DEF Inv, Fields, IsExploded, YearFits
    <3> QED
      BY SMT, <3>1, <3>2, <2>5, Types DEF Inv, MonthNumber, Within
  <2> QED
    BY <2>2, <2>3, <2>4, <2>5, Int16Fits
<1> HIDE DEF m, y
<1>b. nDays(y, m) \in Int /\ Within(nDays(y, m), 28, 31)
  BY SMT, <1>0, MonthLength DEF Within
<1>c. d \in Int /\ Within(d, 23, 31) /\ Within(d, 1, nDays(y, m)) /\ step' = "days"
  BY SMT, <1>a, <1>b, Types DEF Inv, Bounds, DayBound, Within
<1> HIDE DEF d
<1>1. time' \in TimeFields
  <2> DEFINE u == [time EXCEPT !.month = m]
  <2>1. u \in TimeFields
    BY SMT, <1>0 DEF Inv, Fields, TimeFields
  <2> HIDE DEF u
  <2> DEFINE v == [u EXCEPT !.year = y]
  <2>2. v \in TimeFields
    BY SMT, <2>1, <1>0 DEF TimeFields
  <2> HIDE DEF v
  <2>3. [v EXCEPT !.mday = d] \in TimeFields
    BY SMT, <2>2, <1>c DEF TimeFields
  <2> QED
    BY <2>3, <1>a DEF u, v
<1>2. /\ time'.usec = time.usec /\ time'.sec = time.sec /\ time'.min = time.min
      /\ time'.hour = time.hour /\ time'.mday = d /\ time'.month = m
      /\ time'.year = y /\ time'.gmt_offset = time.gmt_offset
      /\ time'.dst_offset = time.dst_offset
  BY SMT, <1>a DEF Inv, Fields, TimeFields
<1>4. Fields'
  BY SMT, <1>0, <1>1, <1>2, <1>a, <1>c, Types DEF Inv, Fields
<1>5. Bounds'
  <2>1. Within(time'.mday, 1, nDays(time'.year, time'.month))
    BY <1>2, <1>c
  <2> QED
    BY SMT, <2>1, <1>0, <1>2, <1>a, <1>c
      DEF Inv, Bounds, SecBound, SecDone, MinBound, HourBound,
          DayBound, MonthBound, Start, OffsetsGone
<1>6. MonthsPassed'
  BY <1>c DEF MonthsPassed
<1>7. SamePlace'
  <2>1. SecondOf(time') = SecondOf(time)
    BY SMT, <1>2, Types DEF Inv, SecondOf
  <2>2. ASSUME YearFits(origin) PROVE DayOf(time') = DayOf(time)
    <3>1. DayOf(time') = DaysBefore(y, m) + d - 1
      BY <1>2, <1>0, DayOfMonth
    <3>2. DayOf(time) = DaysBefore(time.year, time.month) + time.mday - 1
      BY <1>a, Types, DayOfMonth DEF Inv, Bounds, MonthBound
    <3>3. m \in 0..11
      BY SMT, <1>0 DEF Within
    <3>4. DaysBefore(y, m) + nDays(y, m) =
            IF m = 11 THEN DaysBefore(y + 1, 0) ELSE DaysBefore(y, m + 1)
      BY <3>3, <1>0, NextMonth
    <3>5. DaysBefore(y, m) + nDays(y, m) = DaysBefore(time.year, time.month)
      <4>1. CASE time.month = 0
        <5>1. m = 11 /\ y + 1 = time.year
          BY SMT, <4>1, <2>2, <1>0, Types DEF Inv, m
        <5> QED
          BY <5>1, <4>1, <3>4
      <4>2. CASE time.month # 0
        <5>1. m # 11 /\ m + 1 = time.month /\ y = time.year
          BY SMT, <4>2, <1>a, Types DEF Inv, Bounds, MonthBound, Within, m, y
        <5> QED
          BY <5>1, <3>4
      <4> QED
        BY <4>1, <4>2
    <3>6. DaysBefore(y, m) \in Int
      BY <1>0, DayOfInt
    <3> DEFINE a == DaysBefore(y, m)
               n == nDays(y, m)
    <3>7. a \in Int /\ n \in Int /\ d = time.mday + n
      BY <3>6, <1>b DEF d
    <3> HIDE DEF a, n
    <3>8. a + d - 1 = (a + n) + time.mday - 1
      BY SMT, <3>7, Types DEF Inv
    <3> QED
      BY <3>1, <3>2, <3>5, <3>8 DEF a, n
  <2> QED
    BY SMT, <2>1, <2>2, <1>2, <1>a DEF Inv, SamePlace
<1> QED
  BY <1>c, <1>4, <1>5, <1>6, <1>7 DEF Inv, DaysDone

\* The month that is passed takes its own days away.
LEMMA MonthForwardInv == Inv /\ MonthForward /\ UNCHANGED origin => Inv'
<1> SUFFICES ASSUME Inv, MonthForward, UNCHANGED origin PROVE Inv'
  OBVIOUS
<1> DEFINE n == nDays(time.year, time.month)
<1>a. step = "forward" /\ origin' = origin /\ Within(time.month, 0, 11) /\ Within(time.mday, 1, 107)
  BY DEF MonthForward, Inv, Bounds, MonthBound, DayBound
<1>b. n \in Int /\ Within(n, 28, 31)
  BY SMT, <1>a, Types, MonthLength DEF Inv, Within
<1>1. CASE time.mday > n
  <2> DEFINE m == IF time.month = 11 THEN 0 ELSE time.month + 1
             y == IF time.month = 11 THEN Int16(time.year + 1) ELSE time.year
             d == time.mday - n
  <2>a. step' = "forward" /\ time' = [time EXCEPT !.mday = d, !.month = m, !.year = y]
    BY <1>1 DEF MonthForward
  <2>b. ASSUME YearFits(origin)
        PROVE  /\ MonthNumber(time) >= MonthNumber(origin)
               /\ time.mday + 28 * (MonthNumber(time) - MonthNumber(origin)) <= 107
               /\ time.month = 11 => Within(time.year + 1, -32768, 32767)
    <3>1. /\ MonthNumber(time) >= MonthNumber(origin)
          /\ time.mday + 28 * (MonthNumber(time) - MonthNumber(origin)) <= 107
      BY <2>b, <1>a DEF Inv, MonthsPassed
    <3>2. /\ Within(origin.month, -1, 11) /\ Within(origin.year, -32767, 32766)
          /\ Within(time.year, -32768, 32767)
      BY <2>b DEF Inv, Fields, IsExploded, YearFits
    <3> HIDE DEF n
    <3>3. time.month = 11 => Within(time.year + 1, -32768, 32767)
      BY SMT, <3>1, <3>2, <1>1, <1>b, Types DEF Inv, MonthNumber, Within
    <3> QED
      BY <3>1, <3>3
  <2>0. /\ m \in Int /\ y \in Int /\ Within(m, 0, 11) /\ Within(y, -32768, 32767)
        /\ YearFits(origin) /\ time.month = 11 => y = time.year + 1
    <3>1. m \in Int /\ Within(m, 0, 11)
      BY SMT, <1>a, Types DEF Inv, Within
    <3>2. time.year + 1 \in Int
      BY SMT, Types DEF Inv
    <3>3. y \in Int /\ Within(y, -32768, 32767)
      BY <3>2, Int16Fits, Types DEF Inv, Fields
    <3> QED
      BY <3>1, <3>2, <3>3, <2>b, Int16Fits
  <2> HIDE DEF n, m, y
  <2>c. d \in Int /\ Within(d, 1, 79) /\ d + n = time.mday
    BY SMT, <1>1, <1>a, <1>b, Types DEF Inv, Within
  <2> HIDE DEF d
  <2>1. time' \in TimeFields
    <3> DEFINE u == [time EXCEPT !.mday = d]
    <3>1. u \in TimeFields
      BY SMT, <2>c DEF Inv, Fields, TimeFields
    <3> HIDE DEF u
    <3> DEFINE v == [u EXCEPT !.month = m]
    <3>2. v \in TimeFields
      BY SMT, <3>1, <2>0 DEF TimeFields
    <3> HIDE DEF v
    <3>3. [v EXCEPT !.year = y] \in TimeFields
      BY SMT, <3>2, <2>0 DEF TimeFields
    <3> QED
      BY <3>3, <2>a DEF u, v
  <2>2. /\ time'.usec = time.usec /\ time'.sec = time.sec /\ time'.min = time.min
        /\ time'.hour = time.hour /\ time'.mday = d /\ time'.month = m
        /\ time'.year = y /\ time'.gmt_offset = time.gmt_offset
        /\ time'.dst_offset = time.dst_offset
    BY SMT, <2>a DEF Inv, Fields, TimeFields
  <2>4. Fields'
    BY SMT, <2>0, <2>1, <2>2, <2>a, <1>a, Types DEF Inv, Fields
  <2>5. Bounds'
    <3>1. Within(d, 1, 107)
      BY SMT, <2>c DEF Within
    <3> QED
      BY SMT, <3>1, <2>0, <2>2, <2>a, <1>a
        DEF Inv, Bounds, SecBound, SecDone, MinBound, HourBound,
            DayBound, MonthBound, Start, OffsetsGone
  <2>6. MonthsPassed'
    <3> SUFFICES ASSUME YearFits(origin)
                 PROVE  /\ MonthNumber(time') >= MonthNumber(origin)
                        /\ time'.mday + 28 * (MonthNumber(time') - MonthNumber(origin)) <= 107
      BY <2>a, <1>a DEF MonthsPassed
    <3>1. MonthNumber(time) \in Int /\ MonthNumber(origin) \in Int
      BY SMT, Types DEF Inv, MonthNumber
    <3>2. MonthNumber(time') = MonthNumber(time) + 1
      BY SMT, <2>0, <2>2, Types DEF Inv, MonthNumber, m, y
    <3> QED
      BY SMT, <3>1, <3>2, <2>2, <2>b, <2>c, <1>b, Types DEF Inv, Within
  <2>7. SamePlace'
    <3>1. SecondOf(time') = SecondOf(time)
      BY SMT, <2>2, Types DEF Inv, SecondOf
    <3>2. ASSUME YearFits(origin) PROVE DayOf(time') = DayOf(time)
      <4> DEFINE a == DaysBefore(time.year, time.month)
      <4>1. DayOf(time') = DaysBefore(y, m) + d - 1
        BY <2>2, <2>0, DayOfMonth
      <4>2. DayOf(time) = a + time.mday - 1
        BY <1>a, Types, DayOfMonth DEF Inv
      <4>3. time.month \in 0..11
        BY SMT, <1>a, Types DEF Inv, Within
      <4>4. a + n = IF time.month = 11 THEN DaysBefore(time.year + 1, 0)
                                       ELSE DaysBefore(time.year, time.month + 1)
        BY <4>3, Types, NextMonth DEF Inv, n
      <4>5. a + n = DaysBefore(y, m)
        <5>1. CASE time.month = 11
          BY <5>1, <3>2, <2>0, <4>4 DEF m
        <5>2. CASE time.month # 11
          BY <5>2, <4>4 DEF m, y
        <5> QED
          BY <5>1, <5>2
      <4>6. a \in Int
        BY Types, DayOfInt DEF Inv
      <4> HIDE DEF a
      <4>7. (a + n) + d - 1 = a + time.mday - 1
        BY SMT, <4>6, <2>c, <1>b, Types DEF Inv
      <4> QED
        BY <4>1, <4>2, <4>5, <4>7
    <3> QED
      BY SMT, <3>1, <3>2, <2>2, <1>a DEF Inv, SamePlace
  <2> QED
    BY <2>a, <2>4, <2>5, <2>6, <2>7 DEF Inv, DaysDone
<1>2. CASE ~(time.mday > n)
  <2>1. step' = "days" /\ time' = time
    BY <1>2 DEF MonthForward
  <2>2. Within(time.mday, 1, n)
    <3> HIDE DEF n
    <3> QED
      BY SMT, <1>2, <1>a, <1>b, Types DEF Inv, Within
  <2>3. Fields'
    BY <2>1, <1>a DEF Inv, Fields
  <2>4. Bounds'
    BY SMT, <2>1, <2>2, <1>a
      DEF Inv, Bounds, SecBound, SecDone, MinBound, HourBound,
          DayBound, MonthBound, Start, OffsetsGone
  <2>5. MonthsPassed' /\ SamePlace' /\ DaysDone'
    BY <2>1, <1>a DEF Inv, MonthsPassed, SamePlace, DaysDone
  <2> QED
    BY <2>3, <2>4, <2>5 DEF Inv
<1> QED
  BY <1>1, <1>2

\* The days that the tables give are those of the calendar.
LEMMA ComputeDaysInv == Inv /\ ComputeDays /\ UNCHANGED origin => Inv'
<1> SUFFICES ASSUME Inv, ComputeDays, UNCHANGED origin PROVE Inv'
  OBVIOUS
<1> DEFINE l == lastDayOfMonth(time.year, time.month)
           p == time.mday + l
           c == COUNT_DAYS(time.year) - COUNT_DAYS(1970)
           w == (c + p + 4) % 7
<1>a. /\ step = "days" /\ step' = "normal" /\ origin' = origin
      /\ time' = [time EXCEPT !.yday = p, !.wday = w]
  BY DEF ComputeDays
<1>b. Within(time.month, 0, 11) /\ time.month \in 0..11
  <2>1. Within(time.month, 0, 11)
    BY <1>a DEF Inv, Bounds, MonthBound
  <2> QED
    BY SMT, <2>1, Types DEF Inv, Within
<1> DEFINE b == DaysBefore(time.year, time.month)
           j == DaysBefore(time.year, 0)
<1>c. l = b - j - 1 /\ b \in Int /\ j \in Int /\ c \in Int
  <2>1. c \in Int
    BY SMT, Types DEF Inv, COUNT_DAYS, COUNT_LEAPS, Quotient
  <2>2. time.year \in Int /\ time.month \in Int /\ 0 \in Int
    BY SMT, Types DEF Inv
  <2>3. b \in Int
    BY <2>2, DayOfInt
  <2>4. j \in Int
    BY <2>2, DayOfInt
  <2>5. l = b - j - 1
    BY <2>2, <1>b, DayOfYear
  <2> QED
    BY <2>1, <2>3, <2>4, <2>5
<1>d. DayOf(time) = b + time.mday - 1
  BY <1>b, Types, DayOfMonth DEF Inv
<1>e. p \in Int /\ p = DayOf(time) - j
  <2> HIDE DEF l, b, j
  <2> QED
    BY SMT, <1>c, <1>d, Types DEF Inv
<1>f. w \in Int /\ (time.year >= 1 => w = (DayOf(time) + 6) % 7)
  <2>1. w \in Int
    <3> HIDE DEF c, p
    <3> QED
      BY SMT, <1>c, <1>e
  <2>2. time.year >= 1 => w = (j + p + 6) % 7
    <3> HIDE DEF p
    <3> QED
      BY <1>e, Types, DayOfWeek DEF Inv
  <2>3. j + p = DayOf(time)
    <3> HIDE DEF l, b, j
    <3> QED
      BY SMT, <1>c, <1>d, Types DEF Inv
  <2> QED
    BY <2>1, <2>2, <2>3
<1> HIDE DEF l, p, c, w, b, j
<1>1. time' \in TimeFields
  <2> DEFINE u == [time EXCEPT !.yday = p]
  <2>1. u \in TimeFields
    BY SMT, <1>e DEF Inv, Fields, TimeFields
  <2> HIDE DEF u
  <2>2. [u EXCEPT !.wday = w] \in TimeFields
    BY SMT, <2>1, <1>f DEF TimeFields
  <2> QED
    BY <2>2, <1>a DEF u
<1>2. /\ time'.usec = time.usec /\ time'.sec = time.sec /\ time'.min = time.min
      /\ time'.hour = time.hour /\ time'.mday = time.mday /\ time'.month = time.month
      /\ time'.year = time.year /\ time'.gmt_offset = time.gmt_offset
      /\ time'.dst_offset = time.dst_offset /\ time'.yday = p /\ time'.wday = w
  BY SMT, <1>a DEF Inv, Fields, TimeFields
<1>3. DayOf(time') = DayOf(time) /\ SecondOf(time') = SecondOf(time)
  BY <1>2 DEF DayOf, SecondOf
<1>4. Fields'
  BY SMT, <1>1, <1>2, <1>a DEF Inv, Fields
<1>5. Bounds'
  BY SMT, <1>2, <1>a
    DEF Inv, Bounds, SecBound, SecDone, MinBound, HourBound,
        DayBound, MonthBound, Start, OffsetsGone
<1>6. MonthsPassed' /\ SamePlace'
  BY SMT, <1>a, <1>2, <1>3 DEF Inv, MonthsPassed, SamePlace
<1>7. DaysDone'
  BY <1>2, <1>3, <1>e, <1>f DEF DaysDone, j
<1> QED
  BY <1>4, <1>5, <1>6, <1>7 DEF Inv

----------------------------------------------------------------------------
(* The theorems *)

\* Each step of PR_NormalizeTime, and each call of it, keeps the invariant.
LEMMA NormalizeNextInv == Inv /\ [NormalizeNext]_<<time, step, origin>> => Inv'
<1> SUFFICES ASSUME Inv, [NormalizeNext]_<<time, step, origin>> PROVE Inv'
  OBVIOUS
<1>1. CASE Call
  BY <1>1, CallInv
<1>2. CASE PR_NormalizeTime
  BY <1>2, ToGMTInv, CarryUsecInv, CarrySecInv, CarryMinInv, CarryHourInv,
     CarryMonthInv, MonthBackInv, MonthForwardInv, ComputeDaysInv DEF PR_NormalizeTime
<1>3. CASE UNCHANGED <<time, step, origin>>
  BY <1>3 DEF Inv, Fields, Bounds, SecBound, SecDone, MinBound, HourBound, DayBound,
     MonthBound, Start, OffsetsGone, MonthsPassed, SamePlace, DaysDone
<1> QED
  BY <1>1, <1>2, <1>3 DEF NormalizeNext

\* What normalizes a time stays within the bounds from which it ends right.
THEOREM NormalizeInvariant == NormalizeSpec => []Inv
BY InitInv, NormalizeNextInv, PTL DEF NormalizeSpec

\* What the invariant says of the instant and of the end.
LEMMA InvSameInstant == Inv => SameInstant
BY DEF Inv, SamePlace, SameInstant, Instant

LEMMA InvNormalized == Inv => Normalized
BY DEF Inv, Fields, Bounds, SecDone, MinBound, HourBound, DayBound, MonthBound,
   OffsetsGone, DaysDone, Normalized

\* PR_NormalizeTime loses nothing of the instant, whatever exploded time of
\* the parser's ranges it is called with.
THEOREM KeepsInstant == NormalizeSpec => []SameInstant
BY InvSameInstant, NormalizeInvariant, PTL

\* It ends with a date of the calendar, whose yday and wday are that date's.
THEOREM EndsNormalized == NormalizeSpec => []Normalized
BY InvNormalized, NormalizeInvariant, PTL

----------------------------------------------------------------------------
(* The parser of dates: names and numbers *)

\* u consists of the m elements of s and the n elements of t.
IsJoin(u, s, t, m, n) ==
  /\ Len(u) = m + n
  /\ \A i \in 1..m : u[i] = s[i]
  /\ \A i \in 1..n : u[i + m] = t[i]

\* What is joined is found again.
LEMMA Joined ==
  ASSUME NEW S, NEW s \in Seq(S), NEW t \in Seq(S), NEW m, NEW n, m = Len(s), n = Len(t)
  PROVE  s \o t \in Seq(S) /\ IsJoin(s \o t, s, t, m, n)
<1>1. s \o t \in Seq(S) /\ Len(s \o t) = Len(s) + Len(t)
  OBVIOUS
<1>2. \A i \in 1..Len(s) : (s \o t)[i] = s[i]
  OBVIOUS
<1>3. ASSUME NEW i \in 1..Len(t) PROVE (s \o t)[i + Len(s)] = t[i]
  <2>1. i + Len(s) \in 1..(Len(s) + Len(t)) /\ ~(i + Len(s) <= Len(s))
    OBVIOUS
  <2>2. (i + Len(s)) - Len(s) = i
    OBVIOUS
  <2> QED
    BY <2>1, <2>2
<1> QED
  BY <1>1, <1>2, <1>3 DEF IsJoin

\* A token is a day, a month or a zone by its position.
LEMMA TokenAt ==
  /\ Len(TimeTokens) = 34 /\ DOMAIN TimeTokens = 1..34
  /\ \A i \in 1..7 : TimeTokens[i] = DayNames[i]
  /\ \A i \in 1..12 : TimeTokens[i + 7] = MonthNames[i]
  /\ \A i \in 1..15 : TimeTokens[i + 19] = ZoneNames[i]
<1> DEFINE two == DayNames \o MonthNames
           S == ToSet(DayNames) \cup ToSet(MonthNames) \cup ToSet(ZoneNames)
<1>0. /\ DOMAIN DayNames = 1..7 /\ DOMAIN MonthNames = 1..12 /\ DOMAIN ZoneNames = 1..15
      /\ DayNames = [i \in 1..7 |-> DayNames[i]]
      /\ MonthNames = [i \in 1..12 |-> MonthNames[i]]
      /\ ZoneNames = [i \in 1..15 |-> ZoneNames[i]]
  BY DEF DayNames, MonthNames, ZoneNames
<1>1. DayNames \in Seq(S) /\ 7 = Len(DayNames)
  BY <1>0 DEF ToSet
<1>2. MonthNames \in Seq(S) /\ 12 = Len(MonthNames)
  BY <1>0 DEF ToSet
<1>3. ZoneNames \in Seq(S) /\ 15 = Len(ZoneNames)
  BY <1>0 DEF ToSet
<1> HIDE DEF S
<1>4. two \in Seq(S) /\ IsJoin(two, DayNames, MonthNames, 7, 12)
  BY <1>1, <1>2, Joined, Zenon
<1>5. 19 = Len(two)
  BY <1>4 DEF IsJoin
<1> HIDE DEF two
<1>6. TimeTokens \in Seq(S) /\ IsJoin(TimeTokens, two, ZoneNames, 19, 15)
  <2>1. two \o ZoneNames \in Seq(S) /\ IsJoin(two \o ZoneNames, two, ZoneNames, 19, 15)
    BY <1>3, <1>4, <1>5, Joined, Zenon
  <2> QED
    BY <2>1, Zenon DEF TimeTokens, two
<1>7. \A i \in 1..7 : TimeTokens[i] = DayNames[i]
  <2> SUFFICES ASSUME NEW i \in 1..7 PROVE TimeTokens[i] = DayNames[i]
    OBVIOUS
  <2>1. i \in 1..19
    OBVIOUS
  <2> QED
    BY <1>4, <1>6, <2>1, Zenon DEF IsJoin
<1>8. \A i \in 1..12 : TimeTokens[i + 7] = MonthNames[i]
  <2> SUFFICES ASSUME NEW i \in 1..12 PROVE TimeTokens[i + 7] = MonthNames[i]
    OBVIOUS
  <2>1. i + 7 \in 1..19
    OBVIOUS
  <2> QED
    BY <1>4, <1>6, <2>1, Zenon DEF IsJoin
<1>9. Len(TimeTokens) = 34 /\ DOMAIN TimeTokens = 1..34
  BY <1>6 DEF IsJoin
<1> QED
  BY <1>6, <1>7, <1>8, <1>9, Zenon DEF IsJoin

\* The names of days, months and zones are different from one another.
LEMMA NamesDiffer ==
  /\ \A i \in 1..7, j \in 1..12 : DayNames[i] # MonthNames[j]
  /\ \A i \in 1..7, j \in 1..15 : DayNames[i] # ZoneNames[j]
  /\ \A i \in 1..12, j \in 1..15 : MonthNames[i] # ZoneNames[j]
<1>1. \A i \in 1..7, j \in 1..12 : DayNames[i] # MonthNames[j]
  BY DEF DayNames, MonthNames
<1>2. \A i \in 1..7, j \in 1..15 : DayNames[i] # ZoneNames[j]
  BY DEF DayNames, ZoneNames
<1>3. \A i \in 1..12, j \in 1..15 : MonthNames[i] # ZoneNames[j]
  BY DEF MonthNames, ZoneNames
<1> QED
  BY <1>1, <1>2, <1>3

\* Every token is of one kind.
LEMMA TokenKinds ==
  \A i \in 1..34 : \/ i \in 1..7 /\ TimeTokens[i] = DayNames[i]
                   \/ i - 7 \in 1..12 /\ TimeTokens[i] = MonthNames[i - 7]
                   \/ i - 19 \in 1..15 /\ TimeTokens[i] = ZoneNames[i - 19]
<1> SUFFICES ASSUME NEW i \in 1..34
             PROVE  \/ i \in 1..7 /\ TimeTokens[i] = DayNames[i]
                    \/ i - 7 \in 1..12 /\ TimeTokens[i] = MonthNames[i - 7]
                    \/ i - 19 \in 1..15 /\ TimeTokens[i] = ZoneNames[i - 19]
  OBVIOUS
<1>1. CASE i \in 1..7
  BY <1>1, TokenAt
<1>2. CASE i - 7 \in 1..12
  <2>1. (i - 7) + 7 = i
    OBVIOUS
  <2> QED
    BY <1>2, <2>1, TokenAt
<1>3. CASE i - 19 \in 1..15
  <2>1. (i - 19) + 19 = i
    OBVIOUS
  <2> QED
    BY <1>3, <2>1, TokenAt
<1> QED
  BY <1>1, <1>2, <1>3

\* The token of a name is in the range of its kind.
LEMMA TokenRange ==
  ASSUME NEW name
  PROVE  /\ name \in ToSet(DayNames) => TokenOf(name) \in 1..7
         /\ name \in ToSet(MonthNames) => TokenOf(name) \in 8..19
         /\ name \in ToSet(ZoneNames) => TokenOf(name) \in 20..34
<1>1. /\ DOMAIN DayNames = 1..7 /\ DOMAIN MonthNames = 1..12 /\ DOMAIN ZoneNames = 1..15
  BY DEF DayNames, MonthNames, ZoneNames
<1>3. ASSUME NEW i \in 1..34, TimeTokens[i] = name
      PROVE  TokenOf(name) \in 1..34 /\ TimeTokens[TokenOf(name)] = name
  BY <1>3, TokenAt DEF TokenOf
<1>4. ASSUME name \in ToSet(DayNames) PROVE TokenOf(name) \in 1..7
  <2>1. PICK i \in 1..7 : DayNames[i] = name
    BY <1>1, <1>4 DEF ToSet
  <2>2. i \in 1..34 /\ TimeTokens[i] = name
    BY <2>1, TokenAt
  <2>3. TokenOf(name) \in 1..34 /\ TimeTokens[TokenOf(name)] = DayNames[i]
    BY <1>3, <2>1, <2>2
  <2> QED
    BY TokenKinds, <2>3, NamesDiffer
<1>5. ASSUME name \in ToSet(MonthNames) PROVE TokenOf(name) \in 8..19
  <2>1. PICK i \in 1..12 : MonthNames[i] = name
    BY <1>1, <1>5 DEF ToSet
  <2>2. i + 7 \in 1..34 /\ TimeTokens[i + 7] = name
    BY <2>1, TokenAt
  <2>3. TokenOf(name) \in 1..34 /\ TimeTokens[TokenOf(name)] = MonthNames[i]
    BY <1>3, <2>1, <2>2
  <2>4. TokenOf(name) - 7 \in 1..12
    BY TokenKinds, <2>3, NamesDiffer
  <2> QED
    BY <2>3, <2>4
<1>6. ASSUME name \in ToSet(ZoneNames) PROVE TokenOf(name) \in 20..34
  <2>1. PICK i \in 1..15 : ZoneNames[i] = name
    BY <1>1, <1>6 DEF ToSet
  <2>2. i + 19 \in 1..34 /\ TimeTokens[i + 19] = name
    BY <2>1, TokenAt
  <2>3. TokenOf(name) \in 1..34 /\ TimeTokens[TokenOf(name)] = ZoneNames[i]
    BY <1>3, <2>1, <2>2
  <2>4. TokenOf(name) - 19 \in 1..15
    BY TokenKinds, <2>3, NamesDiffer
  <2> QED
    BY <2>3, <2>4
<1> QED
  BY <1>4, <1>5, <1>6

\* The signs and the end of the text are no words, and no digits.
LEMMA NoWord ==
  ASSUME NEW c \in {"-", "+", "NUL"}
  PROVE  ~IsAlpha(c) /\ ~IsNumeral(c)
<1>1. /\ DOMAIN DayNames = 1..7 /\ DOMAIN MonthNames = 1..12 /\ DOMAIN ZoneNames = 1..15
      /\ DOMAIN Numerals = 1..10
  BY DEF DayNames, MonthNames, ZoneNames, Numerals
<1>2. \A i \in 1..7 : DayNames[i] # c
  BY DEF DayNames
<1>3. \A i \in 1..12 : MonthNames[i] # c
  BY DEF MonthNames
<1>4. \A i \in 1..15 : ZoneNames[i] # c
  BY DEF ZoneNames
<1>5. \A i \in 1..10 : Numerals[i] # c
  BY DEF Numerals
<1>6. DOMAIN TimeTokens = 1..34
  BY TokenAt
<1>7. c \notin ToSet(TimeTokens)
  BY <1>2, <1>3, <1>4, <1>6, TokenKinds DEF ToSet
<1> QED
  BY <1>1, <1>5, <1>7 DEF IsAlpha, IsNumeral, Words, ToSet

\* The value of a digit is one.
LEMMA NumeralValue ==
  ASSUME NEW c, IsNumeral(c)
  PROVE  Value(c) \in 0..9
<1>1. DOMAIN Numerals = 1..10
  BY DEF Numerals
<1>2. \E i \in 1..10 : Numerals[i] = c
  BY <1>1 DEF IsNumeral, ToSet
<1>3. (CHOOSE i \in 1..10 : Numerals[i] = c) \in 1..10
  BY <1>2
<1> QED
  BY <1>3 DEF Value

----------------------------------------------------------------------------
(* Positions in the text *)

TextOK == text \in Seq(Symbols)

\* A loop that goes on until a position is in T stops at the first such.
FirstIn(T, from, j) == j \in T /\ \A k \in from..j - 1 : k \notin T

\* A set of numbers has a least one.
LEMMA LeastOf ==
  ASSUME NEW S, S \subseteq Nat, S # {}
  PROVE  \E x \in S : \A y \in S : ~(y < x)
<1>1. PICK x \in S : \A y \in S : ~(<<y, x>> \in OpToRel(<, Nat))
  BY WFMin, NatLessThanWellFounded
<1>2. \A y \in S : ~(y < x)
  BY <1>1 DEF OpToRel
<1> QED
  BY <1>2

\* There is a first position in T if there is any.
LEMMA FirstExists ==
  ASSUME NEW a \in Nat, NEW b \in Nat, a <= b, NEW T, b \in T
  PROVE  \E j \in a..b : FirstIn(T, a, j)
<1> DEFINE S == (a..b) \cap T
<1>1. S \subseteq Nat /\ S # {}
  OBVIOUS
<1>2. PICK x \in S : \A y \in S : ~(y < x)
  <2> HIDE DEF S
  <2> QED
    BY <1>1, LeastOf
<1>4. x \in a..b /\ x \in T
  OBVIOUS
<1>5. \A k \in a..x - 1 : k \notin T
  <2> SUFFICES ASSUME NEW k \in a..x - 1, k \in T PROVE FALSE
    OBVIOUS
  <2>1. k \in a..b /\ k < x
    BY <1>4
  <2> QED
    BY <1>2, <2>1
<1> QED
  BY <1>4, <1>5 DEF FirstIn

\* The text ends with a EndMark.
LEMMA TextEnds ==
  ASSUME TextOK
  PROVE  /\ Len(text) \in Nat /\ At(Len(text) + 1) = "NUL"
         /\ \A i \in Int : At(i) # "NUL" => i \in 1..Len(text)
BY DEF TextOK, At, EndMark

\* The digits that start at a position end in the text or with it.
LEMMA DigitsEndFacts ==
  ASSUME TextOK, NEW i \in 1..Len(text) + 1
  PROVE  /\ DigitsEnd(i) \in i..Len(text) + 1 /\ DigitsEnd(i) \in Nat
         /\ ~IsNumeral(At(DigitsEnd(i)))
         /\ \A k \in i..DigitsEnd(i) - 1 : IsNumeral(At(k))
<1> DEFINE T == {j \in i..Len(text) + 1 : ~IsNumeral(At(j))}
<1>1. i \in Nat /\ Len(text) + 1 \in Nat /\ i <= Len(text) + 1 /\ i >= 1
  BY TextEnds
<1>2. Len(text) + 1 \in T
  BY <1>1, TextEnds, NoWord
<1>3. \E j \in i..Len(text) + 1 : FirstIn(T, i, j)
  <2> HIDE DEF T
  <2> QED
    BY <1>1, <1>2, FirstExists
<1>4. \E j \in i..Len(text) + 1 : ~IsNumeral(At(j)) /\ \A k \in i..j - 1 : IsNumeral(At(k))
  <2>1. PICK j \in i..Len(text) + 1 : FirstIn(T, i, j)
    BY <1>3
  <2>2. \A k \in i..j - 1 : k \in i..Len(text) + 1
    BY <1>1
  <2> QED
    BY <2>1, <2>2 DEF FirstIn
<1>5. /\ DigitsEnd(i) \in i..Len(text) + 1 /\ ~IsNumeral(At(DigitsEnd(i)))
      /\ \A k \in i..DigitsEnd(i) - 1 : IsNumeral(At(k))
  BY <1>4 DEF DigitsEnd
<1> QED
  BY <1>1, <1>5

\* The characters at which a token ends.
Ends(j) == At(j) \in Blank \cup {"-", "+", EndMark} \/ IsTimeMark(j)

\* A token ends in the text or with it.
LEMMA TokenEndFacts ==
  ASSUME TextOK, NEW i \in 1..Len(text) + 1
  PROVE  /\ DateTokenEnd(i) \in i..Len(text) + 1
         /\ ~Ends(i) => DateTokenEnd(i) # i
<1> DEFINE T == {j \in i..Len(text) + 1 : Ends(j)}
<1>1. i \in Nat /\ Len(text) + 1 \in Nat /\ i <= Len(text) + 1
  BY TextEnds
<1>2. Len(text) + 1 \in T
  BY <1>1, TextEnds DEF Ends, EndMark
<1>3. \E j \in i..Len(text) + 1 : FirstIn(T, i, j)
  <2> HIDE DEF T
  <2> QED
    BY <1>1, <1>2, FirstExists
<1>4. \E j \in i..Len(text) + 1 : Ends(j) /\ \A k \in i..j - 1 : ~Ends(k)
  <2>1. PICK j \in i..Len(text) + 1 : FirstIn(T, i, j)
    BY <1>3
  <2>2. \A k \in i..j - 1 : k \in i..Len(text) + 1
    BY <1>1
  <2> QED
    BY <2>1, <2>2 DEF FirstIn
<1>5. DateTokenEnd(i) = CHOOSE j \in i..Len(text) + 1 : Ends(j) /\ \A k \in i..j - 1 : ~Ends(k)
  BY DEF DateTokenEnd, Ends
<1>6. DateTokenEnd(i) \in i..Len(text) + 1 /\ Ends(DateTokenEnd(i))
  BY <1>4, <1>5
<1> QED
  BY <1>6

\* An iteration never moves back, and moves on from everything but a sign.
LEMMA NextTokenMoves ==
  ASSUME TextOK, NEW i \in 1..Len(text) + 1, NEW y
  PROVE  /\ NextToken(i, y) \in Nat /\ NextToken(i, y) >= i
         /\ At(i) \notin {"-", "+", "NUL"} => NextToken(i, y) > i
<1> DEFINE e == DateTokenEnd(i)
           T == {j \in e..Len(text) + 1 : ~IsSkipped(j, y)}
           OK(j) == ~IsSkipped(j, y) /\ \A k \in e..j - 1 : IsSkipped(k, y)
           n == CHOOSE j \in e..Len(text) + 1 : OK(j)
<1>1. /\ e \in Nat /\ Len(text) + 1 \in Nat /\ e <= Len(text) + 1 /\ i <= e /\ i \in Nat
      /\ ~Ends(i) => e # i
  BY TextEnds, TokenEndFacts
<1> HIDE DEF e
<1>2. Len(text) + 1 \in T
  <2>1. At(Len(text) + 1) = "NUL"
    BY TextEnds
  <2>2. ~IsSkipped(Len(text) + 1, y)
    BY <2>1 DEF IsSkipped, Blank
  <2> QED
    BY <1>1, <2>2
<1>3. \E j \in e..Len(text) + 1 : FirstIn(T, e, j)
  <2> HIDE DEF T
  <2> QED
    BY <1>1, <1>2, FirstExists
<1>4. \E j \in e..Len(text) + 1 : OK(j)
  <2>1. PICK j \in e..Len(text) + 1 : FirstIn(T, e, j)
    BY <1>3
  <2>2. \A k \in e..j - 1 : k \in e..Len(text) + 1
    BY <1>1
  <2> QED
    BY <2>1, <2>2 DEF FirstIn
<1>5. n \in e..Len(text) + 1 /\ OK(n)
  <2> HIDE DEF OK
  <2> QED
    BY <1>4
<1>6. NextToken(i, y) = IF IsTimeMark(n) THEN n + 1 ELSE n
  BY DEF NextToken, e
<1>7. n \in Nat /\ n >= e /\ ~IsSkipped(n, y)
  BY <1>1, <1>5
<1> HIDE DEF n, OK, T
<1>8. NextToken(i, y) \in Nat /\ NextToken(i, y) >= n
  BY <1>6, <1>7
<1>9. ASSUME At(i) \notin {"-", "+", "NUL"} PROVE NextToken(i, y) > i
  <2>1. CASE IsTimeMark(i)
    <3>1. CASE n = i
      BY <1>6, <1>1, <2>1, <3>1
    <3>2. CASE n # i
      BY <1>1, <1>7, <1>8, <3>2
    <3> QED
      BY <3>1, <3>2
  <2>2. CASE At(i) \in Blank
    <3>1. IsSkipped(i, y)
      BY <2>2 DEF IsSkipped
    <3>2. n # i
      BY <1>7, <3>1
    <3> QED
      BY <1>1, <1>7, <1>8, <3>2
  <2>3. CASE ~IsTimeMark(i) /\ At(i) \notin Blank
    <3>1. ~Ends(i)
      BY <1>9, <2>3 DEF Ends, EndMark
    <3> QED
      BY <1>1, <1>7, <1>8, <3>1
  <2> QED
    BY <2>1, <2>2, <2>3
<1> QED
  BY <1>1, <1>7, <1>8, <1>9

\* Numbers of so many decimal places.
SixPlaces(n) == n \in Int /\ Within(n, 0, 999999)
FourPlaces(n) == n \in Int /\ Within(n, 0, 9999)
TwoPlaces(n) == n \in Int /\ Within(n, 0, 99)

\* The number that six digits make.
SixSum(d1, d2, d3, d4, d5, d6) ==
  100000 * d1 + 10000 * d2 + 1000 * d3 + 100 * d4 + 10 * d5 + d6

LEMMA SixSumBound ==
  ASSUME NEW d1 \in 0..9, NEW d2 \in 0..9, NEW d3 \in 0..9,
         NEW d4 \in 0..9, NEW d5 \in 0..9, NEW d6 \in 0..9
  PROVE  /\ SixPlaces(SixSum(d1, d2, d3, d4, d5, d6))
         /\ d1 = 0 /\ d2 = 0 => FourPlaces(SixSum(d1, d2, d3, d4, d5, d6))
         /\ d1 = 0 /\ d2 = 0 /\ d3 = 0 /\ d4 = 0 => TwoPlaces(SixSum(d1, d2, d3, d4, d5, d6))
<1> DEFINE high == 100 * d1 + 10 * d2 + d3
           low == 100 * d4 + 10 * d5 + d6
<1>1. high \in 0..999 /\ (d1 = 0 /\ d2 = 0 => high \in 0..9)
      /\ (d1 = 0 /\ d2 = 0 /\ d3 = 0 => high = 0)
  BY SMT
<1>2. low \in 0..999 /\ (d4 = 0 => low \in 0..99)
  BY SMT
<1>3. SixSum(d1, d2, d3, d4, d5, d6) = 1000 * high + low
  BY SMT DEF SixSum
<1> HIDE DEF high, low
<1>4. SixPlaces(SixSum(d1, d2, d3, d4, d5, d6))
  <2>1. /\ high \in Int /\ 0 <= high /\ high <= 999
        /\ low \in Int /\ 0 <= low /\ low <= 999
    BY <1>1, <1>2, SMT
  <2>2. 1000 * high + low \in Int /\ 0 <= 1000 * high + low /\ 1000 * high + low <= 999999
    BY <2>1, SMT
  <2> QED
    BY <1>3, <2>2, SMT DEF SixPlaces, Within
<1>5. ASSUME d1 = 0, d2 = 0 PROVE FourPlaces(SixSum(d1, d2, d3, d4, d5, d6))
  BY <1>1, <1>2, <1>3, <1>5, SMT DEF FourPlaces, Within
<1>6. ASSUME d1 = 0, d2 = 0, d3 = 0, d4 = 0 PROVE TwoPlaces(SixSum(d1, d2, d3, d4, d5, d6))
  BY <1>1, <1>2, <1>3, <1>6, SMT DEF TwoPlaces, Within
<1> QED
  BY <1>4, <1>5, <1>6

\* Six digits make a number below a million.
LEMMA SixDigitsBound ==
  ASSUME NEW i \in Int, NEW a \in Int, NEW b \in Int, \A k \in a..b - 1 : IsNumeral(At(k))
  PROVE  SixPlaces(SixDigits(i, a, b))
<1> DEFINE digit(k) == IF a <= k /\ k < b THEN Value(At(k)) ELSE 0
<1>1. ASSUME NEW k \in Int PROVE digit(k) \in 0..9
  BY NumeralValue
<1> HIDE DEF digit
<1> DEFINE d1 == digit(i)
           d2 == digit(i + 1)
           d3 == digit(i + 2)
           d4 == digit(i + 3)
           d5 == digit(i + 4)
           d6 == digit(i + 5)
<1>2. /\ d1 \in 0..9 /\ d2 \in 0..9 /\ d3 \in 0..9
      /\ d4 \in 0..9 /\ d5 \in 0..9 /\ d6 \in 0..9
  BY <1>1
<1>3. SixDigits(i, a, b) = SixSum(d1, d2, d3, d4, d5, d6)
  BY SMT DEF SixDigits, SixSum, digit
<1> HIDE DEF d1, d2, d3, d4, d5, d6
<1>4. SixPlaces(SixSum(d1, d2, d3, d4, d5, d6))
  BY <1>2, SixSumBound, Zenon
<1> QED
  BY <1>3, <1>4, Zenon

\* One, two and four digits make a number below ten, a hundred and ten thousand.
LEMMA NumberBound ==
  ASSUME NEW a \in Int, NEW b \in Int, \A k \in a..b - 1 : IsNumeral(At(k))
  PROVE  /\ SixPlaces(Number(a, b))
         /\ b - a <= 4 => FourPlaces(Number(a, b))
         /\ b - a <= 2 => TwoPlaces(Number(a, b))
<1> DEFINE digit(k) == IF a <= k /\ k < b THEN Value(At(k)) ELSE 0
           i == b - 6
<1>1. ASSUME NEW k \in Int PROVE digit(k) \in 0..9 /\ (k < a => digit(k) = 0)
  BY NumeralValue
<1> HIDE DEF digit
<1> DEFINE d1 == digit(i)
           d2 == digit(i + 1)
           d3 == digit(i + 2)
           d4 == digit(i + 3)
           d5 == digit(i + 4)
           d6 == digit(i + 5)
<1>2. /\ d1 \in 0..9 /\ d2 \in 0..9 /\ d3 \in 0..9
      /\ d4 \in 0..9 /\ d5 \in 0..9 /\ d6 \in 0..9
  BY <1>1
<1>3. Number(a, b) = SixSum(d1, d2, d3, d4, d5, d6)
  BY SMT DEF SixDigits, Number, SixSum, digit
<1>4. b - a <= 4 => d1 = 0 /\ d2 = 0
  BY <1>1
<1>5. b - a <= 2 => d1 = 0 /\ d2 = 0 /\ d3 = 0 /\ d4 = 0
  BY <1>1
<1> HIDE DEF d1, d2, d3, d4, d5, d6
<1>6. /\ SixPlaces(SixSum(d1, d2, d3, d4, d5, d6))
      /\ d1 = 0 /\ d2 = 0 => FourPlaces(SixSum(d1, d2, d3, d4, d5, d6))
      /\ d1 = 0 /\ d2 = 0 /\ d3 = 0 /\ d4 = 0 => TwoPlaces(SixSum(d1, d2, d3, d4, d5, d6))
  BY <1>2, SixSumBound, Zenon
<1> QED
  BY <1>3, <1>4, <1>5, <1>6, Zenon

----------------------------------------------------------------------------
(* The fields of a date *)

\* The fields that the scan may have set.
MaxUsec == 999999
MaxMinutes == 99 * 60 + 99
Option(n, high) == n \in Int /\ Within(n, -1, high)
NamesOK ==
  /\ dotw \in 0..7
  /\ month \in Int /\ (month = 0 \/ Within(month, 7, 19))
  /\ zone \in Int /\ (zone = 0 \/ Within(zone, 20, 34))
ZoneOffsetOK == zone_offset \in Int /\ Within(zone_offset, -MaxMinutes, MaxMinutes)
DateOK == Option(date, 99)
YearOK == year \in Int
ClockOK == Option(hour, 99) /\ Option(min, 99) /\ Option(sec, 99) /\ Option(usec, MaxUsec)
FieldsOK == NamesOK /\ ZoneOffsetOK /\ DateOK /\ YearOK /\ ClockOK

\* A year of at most four digits.
FourDigits(n) == Within(n, -9999, 9999)

\* Between two calls of PR_NormalizeTime its last result is left alone.
ScanOK ==
  /\ TextOK /\ rest \in Nat \ {0} /\ iterations \in Nat
  /\ stage \in {"scan", "explode", "offset", "read", "raised", "failed"}
  /\ stage \notin {"explode", "offset"} => step = "normal"
  /\ stage = "read" => FourDigits(time.year)

\* An iteration that ends further on than it began.
MovesTo(i, y) ==
  /\ Iteration(i, y)
  /\ i \in 1..Len(text) + 1 /\ y \in Int
  /\ i > rest \/ (i = rest /\ At(rest) \notin {"-", "+", "NUL"})

Moves == \E i, y : MovesTo(i, y)

\* Such an iteration leaves everything in order but the fields it sets.
LEMMA IterationMoves ==
  ASSUME ScanOK, Moves
  PROVE  /\ ScanOK' /\ YearOK' /\ rest' > rest /\ stage = "scan"
         /\ UNCHANGED <<time, step, origin>>
<1>1. PICK i, y : MovesTo(i, y)
  BY DEF Moves
<1>2. i \in 1..Len(text) + 1 /\ y \in Int /\ TextOK /\ rest \in Nat \ {0}
  BY <1>1 DEF MovesTo, ScanOK
<1>3. /\ NextToken(i, y) \in Nat /\ NextToken(i, y) >= i
      /\ At(i) \notin {"-", "+", "NUL"} => NextToken(i, y) > i
  BY <1>2, NextTokenMoves
<1>4. /\ rest' = NextToken(i, y) /\ year' = y /\ text' = text /\ iterations' = iterations + 1
      /\ stage = "scan" /\ stage' = stage /\ UNCHANGED <<time, step, origin>>
  BY <1>1 DEF MovesTo, Iteration
<1>5. i \in Int /\ (i > rest \/ (i = rest /\ At(i) \notin {"-", "+", "NUL"}))
  BY <1>1, <1>2, TextEnds DEF MovesTo
<1>6. rest' > rest /\ rest' \in Nat
  BY <1>2, <1>3, <1>4, <1>5
<1>7. rest' \in Nat \ {0}
  BY <1>2, <1>6
<1>8. ScanOK'
  BY <1>4, <1>7 DEF ScanOK, TextOK
<1> QED
  BY <1>2, <1>4, <1>6, <1>8 DEF YearOK

\* A position that has a character is in the text.
LEMMA Inside ==
  ASSUME TextOK, NEW i \in Nat, At(i) # "NUL"
  PROVE  i \in 1..Len(text) /\ i \in 1..Len(text) + 1 /\ i + 1 \in 1..Len(text) + 1
BY TextEnds

LEMMA OtherCharacterStep ==
  ASSUME ScanOK, FieldsOK, OtherCharacter
  PROVE  Moves /\ (YearOK' => FieldsOK')
<1>1. /\ At(rest) \notin {"-", "+", "NUL"} /\ Iteration(rest, year)
      /\ UNCHANGED <<dotw, month, zone, zone_offset, date, hour, min, sec, usec>>
  BY DEF OtherCharacter, EndMark
<1>2. TextOK /\ rest \in Nat
  BY DEF ScanOK
<1>3. rest \in 1..Len(text) + 1
  BY <1>1, <1>2, Inside
<1>4. MovesTo(rest, year)
  BY <1>1, <1>3 DEF MovesTo, FieldsOK, YearOK
<1> QED
  BY <1>1, <1>4, Zenon DEF Moves, FieldsOK, NamesOK, ZoneOffsetOK, DateOK, ClockOK

LEMMA WordStep ==
  ASSUME ScanOK, FieldsOK, Word
  PROVE  Moves /\ (YearOK' => FieldsOK')
<1>1. /\ IsAlpha(At(rest)) /\ Iteration(rest, year)
      /\ UNCHANGED <<zone_offset, date, hour, min, sec, usec>>
  BY DEF Word
<1>2. TextOK /\ rest \in Nat
  BY DEF ScanOK
<1>3. At(rest) \notin {"-", "+", "NUL"}
  BY <1>1, NoWord
<1>4. rest \in 1..Len(text) + 1
  BY <1>2, <1>3, Inside
<1>5. MovesTo(rest, year)
  BY <1>1, <1>3, <1>4 DEF MovesTo, FieldsOK, YearOK
<1> DEFINE name == NameAt(rest)
<1>6. /\ dotw' = dotw \/ (name \in ToSet(DayNames) /\ dotw' = TokenOf(name))
      /\ month' = month \/ (name \in ToSet(MonthNames) /\ month' = TokenOf(name))
      /\ zone' = zone \/ (name \in ToSet(ZoneNames) /\ zone' = TokenOf(name))
  BY DEF Word
<1> HIDE DEF name
<1>7. NamesOK'
  <2>1. /\ name \in ToSet(DayNames) => TokenOf(name) \in 1..7
        /\ name \in ToSet(MonthNames) => TokenOf(name) \in 8..19
        /\ name \in ToSet(ZoneNames) => TokenOf(name) \in 20..34
    BY TokenRange
  <2>2. dotw' \in 0..7
    BY <1>6, <2>1 DEF FieldsOK, NamesOK
  <2>3. month' \in Int /\ (month' = 0 \/ Within(month', 7, 19))
    BY <1>6, <2>1 DEF FieldsOK, NamesOK, Within
  <2>4. zone' \in Int /\ (zone' = 0 \/ Within(zone', 20, 34))
    BY <1>6, <2>1 DEF FieldsOK, NamesOK, Within
  <2> QED
    BY <2>2, <2>3, <2>4 DEF NamesOK
<1> QED
  BY <1>1, <1>5, <1>7, Zenon DEF Moves, FieldsOK, ZoneOffsetOK, DateOK, ClockOK

\* The digits from a position on, their end and the number they make.
LEMMA DigitsRead ==
  ASSUME TextOK, NEW i \in 1..Len(text) + 1
  PROVE  /\ DigitsEnd(i) \in Nat /\ DigitsEnd(i) >= i /\ DigitsEnd(i) \in 1..Len(text) + 1
         /\ IsNumeral(At(i)) => DigitsEnd(i) > i
         /\ SixPlaces(Number(i, DigitsEnd(i)))
         /\ DigitsEnd(i) - i <= 4 => FourPlaces(Number(i, DigitsEnd(i)))
         /\ DigitsEnd(i) - i <= 2 => TwoPlaces(Number(i, DigitsEnd(i)))
         /\ \A j \in Int : SixPlaces(SixDigits(j, i, DigitsEnd(i)))
<1> DEFINE e == DigitsEnd(i)
<1>1. /\ e \in i..Len(text) + 1 /\ e \in Nat /\ ~IsNumeral(At(e))
      /\ \A k \in i..e - 1 : IsNumeral(At(k))
  BY DigitsEndFacts
<1> HIDE DEF e
<1>2. i \in Int /\ e \in Int /\ i >= 1 /\ e >= i /\ Len(text) \in Nat
  BY <1>1, TextEnds
<1>3. /\ SixPlaces(Number(i, e))
      /\ e - i <= 4 => FourPlaces(Number(i, e))
      /\ e - i <= 2 => TwoPlaces(Number(i, e))
  BY <1>1, <1>2, NumberBound
<1>4. \A j \in Int : SixPlaces(SixDigits(j, i, e))
  BY <1>1, <1>2, SixDigitsBound
<1>5. IsNumeral(At(i)) => e > i
  BY <1>1, <1>2
<1>6. e \in 1..Len(text) + 1
  BY <1>1, <1>2
<1> QED
  BY <1>1, <1>2, <1>3, <1>4, <1>5, <1>6 DEF e

\* The zone that stands for no offset.
LEMMA GMTRange == TT_GMT \in 20..34
<1>1. "GMT" \in ToSet(ZoneNames)
  <2>1. ZoneNames[11] = "GMT" /\ 11 \in DOMAIN ZoneNames
    BY DEF ZoneNames
  <2> QED
    BY <2>1 DEF ToSet
<1> QED
  BY <1>1, TokenRange DEF TT_GMT

LEMMA SignStep ==
  ASSUME ScanOK, FieldsOK, Sign
  PROVE  Moves /\ (YearOK' => FieldsOK')
<1> DEFINE signed == rest + 1
           end == DigitsEnd(signed)
           n == Number(signed, end)
           minutes == IF end - signed = 4 THEN (n \div 100) * 60 + (n % 100) ELSE n * 60
           taken == /\ zone_offset = -1
                    /\ zone \in {TT_UNKNOWN, TT_GMT}
                    /\ end - signed \in {1, 2, 4}
<1>1. /\ At(rest) \in {"+", "-"} /\ Iteration(rest + 1, year)
      /\ UNCHANGED <<dotw, month, date, hour, min, sec, usec>>
      /\ zone_offset' = IF ~taken THEN zone_offset
                        ELSE IF At(rest) = "+" THEN minutes ELSE -minutes
      /\ zone' = IF taken THEN TT_GMT ELSE zone
  BY DEF Sign
<1>2. TextOK /\ rest \in Nat /\ At(rest) # "NUL"
  BY <1>1 DEF ScanOK
<1>3. rest + 1 \in 1..Len(text) + 1 /\ rest + 1 > rest
  BY <1>2, Inside
<1>4. MovesTo(rest + 1, year)
  BY <1>1, <1>3 DEF MovesTo, FieldsOK, YearOK
<1>5. /\ end \in Nat /\ SixPlaces(n)
      /\ end - signed <= 4 => FourPlaces(n)
      /\ end - signed <= 2 => TwoPlaces(n)
  BY <1>2, <1>3, DigitsRead
<1>6. signed \in Nat
  BY <1>2
<1> HIDE DEF signed, end, n
<1>7. ASSUME taken PROVE minutes \in Int /\ Within(minutes, 0, MaxMinutes)
  <2>1. CASE end - signed = 4
    <3>1. n \in Int /\ 0 <= n /\ n <= 9999
      BY <1>5, <1>6, <2>1 DEF FourPlaces, Within
    <3> QED
      BY <2>1, <3>1, SMT DEF Within, MaxMinutes
  <2>2. CASE end - signed # 4
    <3>1. n \in Int /\ 0 <= n /\ n <= 99
      BY <1>5, <1>6, <1>7, <2>2 DEF TwoPlaces, Within
    <3> QED
      BY <2>2, <3>1, SMT DEF Within, MaxMinutes
  <2> QED
    BY <2>1, <2>2
<1> HIDE DEF minutes
<1>8. ZoneOffsetOK'
  <2>1. CASE taken
    BY <1>1, <1>7, <2>1, SMT DEF ZoneOffsetOK, Within, MaxMinutes
  <2>2. CASE ~taken
    BY <1>1, <2>2 DEF FieldsOK, ZoneOffsetOK
  <2> QED
    BY <2>1, <2>2
<1> HIDE DEF taken
<1>9. NamesOK'
  BY <1>1, GMTRange DEF FieldsOK, NamesOK, Within
<1> QED
  BY <1>1, <1>4, <1>8, <1>9, Zenon DEF Moves, FieldsOK, DateOK, ClockOK

LEMMA DigitStep ==
  ASSUME ScanOK, FieldsOK, Digit
  PROVE  Moves /\ (YearOK' => FieldsOK')
<1> DEFINE end == DigitsEnd(rest)
           width == end - rest
           n == Number(rest, end)
           alone == ~IsAlpha(At(end))
           isDate == alone /\ date < 0 /\ (width = 1 \/ (width = 2 /\ n < 32))
           isYear == alone /\ year < 0 /\ ~isDate /\ width \in {2, 4, 5}
           y == IF ~isYear THEN year ELSE IF width = 2 THEN Century(n) ELSE n
<1>1. /\ IsNumeral(At(rest)) /\ Iteration(rest, y)
      /\ date' = IF isDate THEN n ELSE date
      /\ UNCHANGED <<dotw, month, zone, zone_offset, hour, min, sec, usec>>
  BY DEF Digit
<1>2. TextOK /\ rest \in Nat
  BY DEF ScanOK
<1>3. At(rest) \notin {"-", "+", "NUL"}
  BY <1>1, NoWord
<1>4. rest \in 1..Len(text) + 1
  BY <1>2, <1>3, Inside
<1>5. end \in Nat /\ SixPlaces(n) /\ (end - rest <= 2 => TwoPlaces(n))
  BY <1>2, <1>4, DigitsRead
<1> HIDE DEF end, n
<1>6. n \in Int /\ year \in Int
  BY <1>5 DEF SixPlaces, FieldsOK, YearOK
<1>7. y \in Int
  BY <1>6 DEF Century
<1> HIDE DEF y
<1>8. MovesTo(rest, y)
  BY <1>1, <1>3, <1>4, <1>7 DEF MovesTo
<1>9. DateOK'
  <2>1. CASE isDate
    <3>1. end - rest <= 2
      BY <1>2, <1>5, <2>1
    <3> QED
      BY <1>1, <1>5, <2>1, <3>1 DEF DateOK, Option, TwoPlaces, Within
  <2>2. CASE ~isDate
    BY <1>1, <2>2 DEF FieldsOK, DateOK
  <2> QED
    BY <2>1, <2>2
<1> HIDE DEF isDate, isYear, alone
<1> QED
  BY <1>1, <1>8, <1>9, Zenon DEF Moves, FieldsOK, NamesOK, ZoneOffsetOK, ClockOK

LEMMA TimeStep ==
  ASSUME ScanOK, FieldsOK, Time
  PROVE  Moves /\ (YearOK' => FieldsOK')
<1> DEFINE hourEnd == DigitsEnd(rest)
           minEnd == DigitsEnd(hourEnd + 1)
           secAt == IF At(minEnd) = ":" THEN minEnd + 1 ELSE minEnd
           secEnd == DigitsEnd(secAt)
           fraction == At(secEnd) = "."
           end == IF fraction THEN DigitsEnd(secEnd + 1) ELSE secEnd
           skipTo(i) == Iteration(i, year) /\ UNCHANGED fields
<1>1. /\ IsNumeral(At(rest)) /\ At(hourEnd) = ":"
      /\ IF (hour >= 0 /\ min >= 0) \/ hourEnd - rest > 2
           THEN skipTo(rest)
         ELSE IF minEnd - (hourEnd + 1) \notin 1..2
           THEN skipTo(hourEnd + 1)
         ELSE IF secEnd - secAt > 2
           THEN skipTo(secAt)
         ELSE /\ zone' = IF At(end) = "Z" THEN TT_GMT ELSE zone
              /\ hour' = IF At(end) = "Z" THEN Number(rest, hourEnd)
                         ELSE Hour24(Number(rest, hourEnd), end)
              /\ min' = Number(hourEnd + 1, minEnd)
              /\ sec' = IF secEnd = secAt THEN -1 ELSE Number(secAt, secEnd)
              /\ usec' = IF fraction THEN Microseconds(secEnd + 1, end) ELSE -1
              /\ Iteration(end, year)
              /\ UNCHANGED <<dotw, month, zone_offset, date>>
  BY DEF Time
<1>2. TextOK /\ rest \in Nat /\ year \in Int
  BY DEF ScanOK, FieldsOK, YearOK
<1>3. At(rest) \notin {"-", "+", "NUL"}
  BY <1>1, NoWord
<1>4. rest \in 1..Len(text) + 1
  BY <1>2, <1>3, Inside
<1>5. /\ hourEnd \in Nat /\ hourEnd > rest
      /\ hourEnd - rest <= 2 => TwoPlaces(Number(rest, hourEnd))
  BY <1>1, <1>2, <1>4, DigitsRead
<1> HIDE DEF hourEnd
<1>6. hourEnd + 1 \in 1..Len(text) + 1 /\ hourEnd + 1 > rest /\ hourEnd + 1 \in Nat
  BY <1>1, <1>2, <1>5, Inside
<1>7. /\ minEnd \in Nat /\ minEnd >= hourEnd + 1 /\ minEnd \in 1..Len(text) + 1
      /\ minEnd - (hourEnd + 1) <= 2 => TwoPlaces(Number(hourEnd + 1, minEnd))
  BY <1>2, <1>6, DigitsRead
<1> HIDE DEF minEnd
<1>8. secAt \in 1..Len(text) + 1 /\ secAt > rest /\ secAt \in Nat
  <2>1. CASE At(minEnd) = ":"
    BY <1>2, <1>5, <1>7, <2>1, Inside
  <2>2. CASE At(minEnd) # ":"
    BY <1>2, <1>5, <1>7, <2>2
  <2> QED
    BY <2>1, <2>2
<1> HIDE DEF secAt
<1>9. /\ secEnd \in Nat /\ secEnd >= secAt /\ secEnd \in 1..Len(text) + 1
      /\ secEnd - secAt <= 2 => TwoPlaces(Number(secAt, secEnd))
  BY <1>2, <1>8, DigitsRead
<1> HIDE DEF secEnd
<1>10. /\ end \in 1..Len(text) + 1 /\ end > rest
       /\ fraction => SixPlaces(Microseconds(secEnd + 1, end))
  <2>1. CASE fraction
    <3>1. secEnd + 1 \in 1..Len(text) + 1 /\ secEnd + 1 \in Nat /\ secEnd + 1 > rest
      BY <1>2, <1>8, <1>9, <2>1, Inside
    <3>2. /\ end \in Nat /\ end >= secEnd + 1 /\ end \in 1..Len(text) + 1
          /\ \A j \in Int : SixPlaces(SixDigits(j, secEnd + 1, end))
      BY <1>2, <2>1, <3>1, DigitsRead
    <3> HIDE DEF end
    <3>3. secEnd + 1 \in Int
      BY <3>1
    <3>4. SixPlaces(Microseconds(secEnd + 1, end))
      BY <3>2, <3>3 DEF Microseconds
    <3> QED
      BY <1>2, <3>1, <3>2, <3>4
  <2>2. CASE ~fraction
    BY <1>2, <1>8, <1>9, <2>2
  <2> QED
    BY <2>1, <2>2
<1> HIDE DEF fraction, end
<1>11. ASSUME NEW i, skipTo(i), MovesTo(i, year)
       PROVE  Moves /\ (YearOK' => FieldsOK')
  BY <1>11, Zenon DEF fields, Moves, FieldsOK, NamesOK, ZoneOffsetOK, DateOK, ClockOK
<1>12. CASE (hour >= 0 /\ min >= 0) \/ hourEnd - rest > 2
  <2>1. skipTo(rest)
    BY <1>1, <1>12
  <2>2. MovesTo(rest, year)
    BY <1>2, <1>3, <1>4, <2>1 DEF MovesTo
  <2> QED
    BY <1>11, <2>1, <2>2, Zenon
<1>13. CASE ~((hour >= 0 /\ min >= 0) \/ hourEnd - rest > 2)
            /\ minEnd - (hourEnd + 1) \notin 1..2
  <2>1. skipTo(hourEnd + 1)
    BY <1>1, <1>13
  <2>2. MovesTo(hourEnd + 1, year)
    BY <1>2, <1>6, <2>1 DEF MovesTo
  <2> QED
    BY <1>11, <2>1, <2>2, Zenon
<1>14. CASE /\ ~((hour >= 0 /\ min >= 0) \/ hourEnd - rest > 2)
            /\ minEnd - (hourEnd + 1) \in 1..2
            /\ secEnd - secAt > 2
  <2>1. skipTo(secAt)
    BY <1>1, <1>14
  <2>2. MovesTo(secAt, year)
    BY <1>2, <1>8, <2>1 DEF MovesTo
  <2> QED
    BY <1>11, <2>1, <2>2, Zenon
<1>15. CASE /\ ~((hour >= 0 /\ min >= 0) \/ hourEnd - rest > 2)
            /\ minEnd - (hourEnd + 1) \in 1..2
            /\ ~(secEnd - secAt > 2)
  <2> HIDE DEF skipTo
  <2> DEFINE h == Number(rest, hourEnd)
  <2>1. /\ zone' = IF At(end) = "Z" THEN TT_GMT ELSE zone
        /\ hour' = IF At(end) = "Z" THEN h ELSE Hour24(h, end)
        /\ min' = Number(hourEnd + 1, minEnd)
        /\ sec' = IF secEnd = secAt THEN -1 ELSE Number(secAt, secEnd)
        /\ usec' = IF fraction THEN Microseconds(secEnd + 1, end) ELSE -1
        /\ Iteration(end, year)
        /\ UNCHANGED <<dotw, month, zone_offset, date>>
    BY <1>1, <1>15
  <2>2. hourEnd - rest <= 2 /\ minEnd - (hourEnd + 1) <= 2 /\ secEnd - secAt <= 2
    BY <1>2, <1>5, <1>6, <1>7, <1>8, <1>9, <1>15
  <2>3. TwoPlaces(h) /\ TwoPlaces(min') /\ (sec' = -1 \/ TwoPlaces(sec'))
    BY <1>5, <1>7, <1>9, <2>1, <2>2
  <2> HIDE DEF h
  <2>4. TwoPlaces(hour')
    <3>1. hour' \in {h, h + 12, 0}
      BY <2>1 DEF Hour24
    <3>2. hour' = h + 12 => h < 12
      <4>1. h \in Int
        BY <2>3 DEF TwoPlaces
      <4>2. h # h + 12 /\ (0 = h + 12 => h < 12)
        BY <4>1
      <4> QED
        BY <2>1, <4>2 DEF Hour24
    <3> QED
      BY <2>3, <3>1, <3>2 DEF TwoPlaces, Within
  <2>5. usec' = -1 \/ SixPlaces(usec')
    BY <1>10, <2>1
  <2>6. ClockOK'
    BY <2>3, <2>4, <2>5, SMT DEF ClockOK, Option, TwoPlaces, SixPlaces, Within, MaxUsec
  <2>7. NamesOK'
    BY <2>1, GMTRange DEF FieldsOK, NamesOK, Within
  <2>8. MovesTo(end, year)
    BY <1>2, <1>10, <2>1 DEF MovesTo
  <2> QED
    BY <2>1, <2>6, <2>7, <2>8, Zenon DEF Moves, FieldsOK, ZoneOffsetOK, DateOK
<1> QED
  BY <1>12, <1>13, <1>14, <1>15

LEMMA SlashDateStep ==
  ASSUME ScanOK, FieldsOK, SlashDate
  PROVE  Moves /\ (YearOK' => FieldsOK')
<1> DEFINE e1 == DigitsEnd(rest)
           e2 == DigitsEnd(e1 + 1)
           e3 == DigitsEnd(e2 + 1)
           n1 == Number(rest, e1)
           n2 == Number(e1 + 1, e2)
           n3 == Number(e2 + 1, e3)
           wellFormed ==
             /\ month = TT_UNKNOWN
             /\ e1 - rest \in {1, 2, 4} /\ e2 - e1 \in {2, 3}
             /\ At(e2) \in {"/", "-"} /\ e3 - e2 \in {2, 3, 5, 6}
             /\ IsTimeMark(e3) \/ ~IsAlpha(At(e3))
           yearFirst == n1 > 31 \/ n1 = 0
           set(y, m, d, i) ==
             /\ month' = m + TT_JAN - 1
             /\ date' = d
             /\ Iteration(i, Century(y))
             /\ UNCHANGED <<dotw, zone, zone_offset, hour, min, sec, usec>>
           skipTo(i) == Iteration(i, year) /\ UNCHANGED fields
<1>1. /\ IsNumeral(At(rest)) /\ At(e1) \in {"/", "-"}
      /\ IF ~wellFormed \/ (yearFirst /\ (n2 > 12 \/ n3 > 31)) THEN skipTo(rest)
         ELSE IF yearFirst THEN set(n1, n2, n3, e3)
         ELSE IF n1 > 12 /\ n2 > 12 THEN skipTo(e3)
         ELSE IF n1 > 12 THEN set(n3, n2, n1, e3)
         ELSE set(n3, n1, n2, e3)
  BY DEF SlashDate
<1>2. TextOK /\ rest \in Nat /\ year \in Int
  BY DEF ScanOK, FieldsOK, YearOK
<1>3. At(rest) \notin {"-", "+", "NUL"}
  BY <1>1, NoWord
<1>4. rest \in 1..Len(text) + 1
  BY <1>2, <1>3, Inside
<1>5. e1 \in Nat /\ e1 > rest /\ SixPlaces(n1)
  BY <1>1, <1>2, <1>4, DigitsRead
<1> HIDE DEF e1, n1
<1>6. e1 + 1 \in 1..Len(text) + 1 /\ e1 + 1 > rest /\ e1 + 1 \in Nat
  BY <1>1, <1>2, <1>5, Inside
<1>7. e2 \in Nat /\ e2 >= e1 + 1 /\ (e2 - (e1 + 1) <= 2 => TwoPlaces(n2))
  BY <1>2, <1>6, DigitsRead
<1> HIDE DEF e2, n2
<1>8. ASSUME wellFormed
      PROVE  /\ e3 \in 1..Len(text) + 1 /\ e3 > rest /\ SixPlaces(n3) /\ TwoPlaces(n2)
  <2>1. e2 + 1 \in 1..Len(text) + 1 /\ e2 + 1 \in Nat /\ e2 + 1 > rest
    BY <1>2, <1>5, <1>7, <1>8, Inside
  <2>2. e3 \in Nat /\ e3 >= e2 + 1 /\ e3 \in 1..Len(text) + 1 /\ SixPlaces(n3)
    BY <1>2, <2>1, DigitsRead
  <2> HIDE DEF e3, n3
  <2>3. e2 - (e1 + 1) <= 2
    BY <1>5, <1>7, <1>8
  <2> QED
    BY <1>2, <1>7, <2>1, <2>2, <2>3
<1> HIDE DEF e3, n3, wellFormed
<1>9. ASSUME NEW i, skipTo(i), MovesTo(i, year)
      PROVE  Moves /\ (YearOK' => FieldsOK')
  BY <1>9, Zenon DEF fields, Moves, FieldsOK, NamesOK, ZoneOffsetOK, DateOK, ClockOK
<1>10. ASSUME wellFormed, NEW y \in Int, NEW m \in Int, NEW d \in Int, set(y, m, d, e3),
              0 <= m, m <= 12, 0 <= d, d <= 99
       PROVE  Moves /\ (YearOK' => FieldsOK')
  <2>1. /\ month' = m + TT_JAN - 1 /\ date' = d /\ Iteration(e3, Century(y))
        /\ UNCHANGED <<dotw, zone, zone_offset, hour, min, sec, usec>>
    BY <1>10
  <2>2. Century(y) \in Int
    BY <1>10 DEF Century
  <2>3. MovesTo(e3, Century(y))
    BY <1>8, <1>10, <2>1, <2>2 DEF MovesTo
  <2>4. month' \in Int /\ Within(month', 7, 19)
    BY <1>10, <2>1 DEF TT_JAN, Within
  <2>5. NamesOK'
    BY <2>1, <2>4 DEF FieldsOK, NamesOK
  <2>6. DateOK'
    BY <1>10, <2>1 DEF DateOK, Option, Within
  <2> QED
    BY <2>1, <2>3, <2>5, <2>6, Zenon DEF Moves, FieldsOK, ZoneOffsetOK, ClockOK
<1>11. CASE ~wellFormed \/ (yearFirst /\ (n2 > 12 \/ n3 > 31))
  <2>1. skipTo(rest)
    BY <1>1, <1>11
  <2>2. MovesTo(rest, year)
    BY <1>2, <1>3, <1>4, <2>1 DEF MovesTo
  <2> QED
    BY <1>9, <2>1, <2>2, Zenon
<1>12. CASE wellFormed /\ ~(yearFirst /\ (n2 > 12 \/ n3 > 31))
  <2>1. /\ n1 \in Int /\ 0 <= n1 /\ n3 \in Int /\ 0 <= n3
        /\ n2 \in Int /\ 0 <= n2 /\ n2 <= 99
    BY <1>5, <1>8, <1>12, SMT DEF SixPlaces, TwoPlaces, Within
  <2>2. CASE yearFirst
    <3>1. set(n1, n2, n3, e3) /\ n2 <= 12 /\ n3 <= 99
      BY <1>1, <1>12, <2>1, <2>2
    <3> QED
      BY <1>10, <1>12, <2>1, <3>1, Zenon
  <2>3. CASE ~yearFirst /\ n1 > 12 /\ n2 > 12
    <3>1. skipTo(e3)
      BY <1>1, <1>12, <2>3
    <3>2. MovesTo(e3, year)
      BY <1>2, <1>8, <1>12, <3>1 DEF MovesTo
    <3> QED
      BY <1>9, <3>1, <3>2, Zenon
  <2>4. CASE ~yearFirst /\ n1 > 12 /\ ~(n2 > 12)
    <3>1. set(n3, n2, n1, e3) /\ n2 <= 12 /\ n1 <= 99
      BY <1>1, <1>12, <2>1, <2>4
    <3> QED
      BY <1>10, <1>12, <2>1, <3>1, Zenon
  <2>5. CASE ~yearFirst /\ ~(n1 > 12)
    <3>1. set(n3, n1, n2, e3) /\ n1 <= 12
      BY <1>1, <1>12, <2>1, <2>5
    <3> QED
      BY <1>10, <1>12, <2>1, <3>1, Zenon
  <2> QED
    BY <2>2, <2>3, <2>4, <2>5
<1> QED
  BY <1>11, <1>12

----------------------------------------------------------------------------
(* The steps of the parser of dates *)

DateInv == FieldsOK /\ ScanOK /\ Inv

normalizeVars == <<time, step, origin>>

\* Every iteration of the loop moves on, and gives up only after too many.
LEMMA ScanStep ==
  ASSUME DateInv, Scan
  PROVE  /\ FieldsOK' /\ ScanOK' /\ UNCHANGED normalizeVars
         /\ stage = "scan" /\ (TooManyTokens \/ rest' > rest)
<1>1. FieldsOK /\ ScanOK
  BY DEF DateInv
<1>2. CASE TooManyTokens
  <2>1. /\ stage = "scan" /\ stage' = "failed"
        /\ UNCHANGED <<text, rest, iterations, fields, time, step, origin>>
    BY <1>2 DEF TooManyTokens
  <2>2. ScanOK'
    BY <1>1, <2>1 DEF ScanOK, TextOK
  <2>3. FieldsOK'
    BY <1>1, <2>1, Zenon
       DEF fields, FieldsOK, NamesOK, ZoneOffsetOK, DateOK, YearOK, ClockOK
  <2> QED
    BY <1>2, <2>1, <2>2, <2>3, Zenon DEF normalizeVars
<1>3. CASE Word \/ Sign \/ Time \/ SlashDate \/ Digit \/ OtherCharacter
  <2>1. Moves /\ (YearOK' => FieldsOK')
    BY <1>1, <1>3, WordStep, SignStep, TimeStep, SlashDateStep, DigitStep,
       OtherCharacterStep, Zenon
  <2>2. /\ ScanOK' /\ YearOK' /\ rest' > rest /\ stage = "scan"
        /\ UNCHANGED <<time, step, origin>>
    BY <1>1, <2>1, IterationMoves, Zenon
  <2> QED
    BY <2>1, <2>2, Zenon DEF normalizeVars
<1> QED
  BY <1>2, <1>3, Zenon DEF Scan

\* The fields, with zeros for what is missing, are an exploded time.
LEMMA ExplodeStep ==
  ASSUME DateInv, Explode
  PROVE  FieldsOK' /\ ScanOK' /\ (Call \/ UNCHANGED normalizeVars)
<1>1. FieldsOK /\ ScanOK
  BY DEF DateInv
<1>2. stage = "scan" /\ step = "normal" /\ UNCHANGED <<text, rest, iterations, fields>>
  BY <1>1 DEF Explode, ScanOK
<1>3. FieldsOK'
  BY <1>1, <1>2, Zenon
     DEF fields, FieldsOK, NamesOK, ZoneOffsetOK, DateOK, YearOK, ClockOK
<1>4. CASE stage' = "failed" /\ UNCHANGED <<time, step, origin>>
  <2>1. ScanOK'
    BY <1>1, <1>2, <1>4 DEF ScanOK, TextOK
  <2> QED
    BY <1>3, <1>4, <2>1, Zenon DEF normalizeVars
<1>5. CASE ~(stage' = "failed" /\ UNCHANGED <<time, step, origin>>)
  <2> DEFINE t == [usec |-> OrZero(usec), sec |-> OrZero(sec), min |-> OrZero(min),
                   hour |-> OrZero(hour), mday |-> date, month |-> month - TT_JAN,
                   year |-> Int16(year), wday |-> OrZero(dotw - TT_SUN), yday |-> 0,
                   gmt_offset |-> 0, dst_offset |-> 0]
  <2>1. /\ month # TT_UNKNOWN /\ date # -1
        /\ stage' = "explode" /\ time' = t /\ step' = "ready" /\ origin' = time'
    BY <1>5 DEF Explode
  <2>2. ScanOK'
    BY <1>1, <1>2, <2>1 DEF ScanOK, TextOK
  <2>3. /\ OrZero(sec) \in Int /\ Within(OrZero(sec), 0, 99)
        /\ OrZero(min) \in Int /\ Within(OrZero(min), 0, 99)
        /\ OrZero(hour) \in Int /\ Within(OrZero(hour), 0, 99)
    BY <1>1, SMT DEF FieldsOK, ClockOK, Option, OrZero, Within
  <2>4. OrZero(usec) \in Int /\ Within(OrZero(usec), 0, 999999)
    BY <1>1, SMT DEF FieldsOK, ClockOK, Option, OrZero, Within, MaxUsec
  <2>5. date \in Int /\ Within(date, 0, 99)
    BY <1>1, <2>1, SMT DEF FieldsOK, DateOK, Option, Within
  <2>6. month - TT_JAN \in Int /\ Within(month - TT_JAN, -1, 11)
    BY <1>1, <2>1, SMT DEF FieldsOK, NamesOK, TT_JAN, TT_UNKNOWN, Within
  <2>7. Int16(year) \in Int /\ Within(Int16(year), -32768, 32767)
    BY <1>1, Int16Fits, SMT DEF FieldsOK, YearOK
  <2>8. OrZero(dotw - TT_SUN) \in Int
    BY <1>1, SMT DEF FieldsOK, NamesOK, OrZero, TT_SUN
  <2>9. t \in TimeFields
    BY <2>3, <2>4, <2>5, <2>6, <2>7, <2>8, SMT DEF TimeFields
  <2>10. /\ t.usec = OrZero(usec) /\ t.sec = OrZero(sec) /\ t.min = OrZero(min)
         /\ t.hour = OrZero(hour) /\ t.mday = date /\ t.month = month - TT_JAN
         /\ t.year = Int16(year) /\ t.gmt_offset = 0 /\ t.dst_offset = 0
    OBVIOUS
  <2> HIDE DEF t
  <2>11. Within(0, -MaxOffset, MaxOffset)
    BY SMT DEF Within, MaxOffset
  <2>12. IsExploded(t)
    BY <2>3, <2>4, <2>5, <2>6, <2>7, <2>9, <2>10, <2>11, SMT DEF IsExploded
  <2>13. Call
    BY <1>2, <2>1, <2>12 DEF Call
  <2> QED
    BY <1>3, <2>2, <2>13
<1> QED
  BY <1>4, <1>5

\* The offsets of a named zone.
LEMMA NamedOffsets ==
  ASSUME NEW z \in Int, Within(z, 20, 34)
  PROVE  /\ OffsetsOf(z)[1] \in Int /\ Within(OffsetsOf(z)[1], -480, 540)
         /\ OffsetsOf(z)[2] \in {0, 60}
<1>1. TokenOf("PST") = 20
  <2>1. ZoneNames[1] = "PST" /\ \A i \in 2..15 : ZoneNames[i] # "PST"
    BY DEF ZoneNames
  <2>2. TimeTokens[1 + 19] = "PST"
    BY <2>1, TokenAt
  <2>3. \E i \in 1..34 : TimeTokens[i] = "PST"
    BY <2>2
  <2>4. TokenOf("PST") \in 1..34 /\ TimeTokens[TokenOf("PST")] = "PST"
    BY <2>3, TokenAt DEF TokenOf
  <2>5. TokenOf("PST") \in 20..34
    <3>1. "PST" \in ToSet(ZoneNames)
      <4>1. 1 \in DOMAIN ZoneNames
        BY DEF ZoneNames
      <4> QED
        BY <2>1, <4>1 DEF ToSet
    <3> QED
      BY <3>1, TokenRange
  <2>6. TokenOf("PST") - 19 \in 1..15 /\ (TokenOf("PST") - 19) + 19 = TokenOf("PST")
    BY <2>5
  <2>7. ZoneNames[TokenOf("PST") - 19] = "PST"
    BY <2>4, <2>6, TokenAt
  <2>8. TokenOf("PST") - 19 = 1
    BY <2>1, <2>6, <2>7
  <2> QED
    BY <2>5, <2>8
<1>2. z - 20 + 1 \in 1..15
  BY DEF Within
<1>3. \A k \in 1..15 : /\ ZoneOffsets[k][1] \in Int /\ Within(ZoneOffsets[k][1], -480, 540)
                       /\ ZoneOffsets[k][2] \in {0, 60}
  BY SMT DEF ZoneOffsets, Within
<1> QED
  BY <1>1, <1>2, <1>3 DEF OffsetsOf

\* A normalized time with the offsets of a zone is an exploded time.
LEMMA SetOffsetsStep ==
  ASSUME DateInv, SetOffsets
  PROVE  FieldsOK' /\ ScanOK' /\ Call
<1>1. FieldsOK /\ ScanOK /\ Inv
  BY DEF DateInv
<1> DEFINE o == IF zone = TT_UNKNOWN THEN <<0, 0>>
                ELSE IF zone_offset = -1 THEN OffsetsOf(zone)
                ELSE <<zone_offset, 0>>
           g == o[1] * 60
           s == o[2] * 60
<1>2. /\ stage = "explode" /\ step = "normal" /\ step' = "ready" /\ origin' = time'
      /\ time' = [time EXCEPT !.gmt_offset = g, !.dst_offset = s]
      /\ stage' = "offset" /\ UNCHANGED <<text, rest, iterations, fields>>
  BY DEF SetOffsets
<1>3. FieldsOK'
  BY <1>1, <1>2, Zenon
     DEF fields, FieldsOK, NamesOK, ZoneOffsetOK, DateOK, YearOK, ClockOK
<1>4. ScanOK'
  BY <1>1, <1>2 DEF ScanOK, TextOK
<1>5. g \in Int /\ Within(g, -MaxOffset, MaxOffset) /\ s \in {0, 3600}
  <2>1. CASE zone = TT_UNKNOWN
    <3>1. o[1] = 0 /\ o[2] = 0
      BY <2>1
    <3> HIDE DEF o
    <3> QED
      BY <3>1, SMT DEF Within, MaxOffset
  <2>2. CASE zone # TT_UNKNOWN /\ zone_offset = -1
    <3>1. o = OffsetsOf(zone)
      BY <2>2
    <3> HIDE DEF o
    <3>2. o[1] \in Int /\ Within(o[1], -480, 540) /\ o[2] \in {0, 60}
      BY <1>1, <2>2, <3>1, NamedOffsets DEF FieldsOK, NamesOK, TT_UNKNOWN
    <3> QED
      BY <3>2, SMT DEF Within, MaxOffset
  <2>3. CASE zone # TT_UNKNOWN /\ zone_offset # -1
    <3>1. o[1] = zone_offset /\ o[2] = 0
      BY <2>3
    <3> HIDE DEF o
    <3>2. zone_offset \in Int /\ Within(zone_offset, -MaxMinutes, MaxMinutes)
      BY <1>1 DEF FieldsOK, ZoneOffsetOK
    <3> QED
      BY <3>1, <3>2, SMT DEF Within, MaxOffset, MaxMinutes
  <2> QED
    BY <2>1, <2>2, <2>3
<1> HIDE DEF g, s, o
<1>6. time' \in TimeFields
  <2> DEFINE u == [time EXCEPT !.gmt_offset = g]
  <2>1. u \in TimeFields
    BY <1>1, <1>5, SMT DEF Inv, Fields, TimeFields
  <2> HIDE DEF u
  <2>2. [u EXCEPT !.dst_offset = s] \in TimeFields
    BY <1>5, <2>1, SMT DEF TimeFields
  <2> QED
    BY <1>2, <2>2 DEF u
<1>7. /\ time'.usec = time.usec /\ time'.sec = time.sec /\ time'.min = time.min
      /\ time'.hour = time.hour /\ time'.mday = time.mday /\ time'.month = time.month
      /\ time'.year = time.year /\ time'.gmt_offset = g /\ time'.dst_offset = s
  BY <1>1, <1>2, SMT DEF Inv, Fields, TimeFields
<1>8. /\ Within(time.usec, 0, 999999) /\ Within(time.year, -32768, 32767)
      /\ Within(time.sec, 0, 59) /\ Within(time.min, 0, 59) /\ Within(time.hour, 0, 23)
      /\ Within(time.month, 0, 11) /\ Within(time.mday, 1, nDays(time.year, time.month))
  BY <1>1, <1>2, SMT DEF Inv, Fields, Bounds, SecDone, MinBound, HourBound, DayBound,
     MonthBound
<1>9. nDays(time.year, time.month) \in 28..31
  <2>1. time.year \in Int /\ time.month \in 0..11
    BY <1>1, <1>8, Types, SMT DEF Inv, Within
  <2> QED
    BY <2>1, MonthLength
<1>10. /\ Within(time.sec, 0, 99) /\ Within(time.min, 0, 99) /\ Within(time.hour, 0, 99)
       /\ Within(time.month, -1, 11) /\ Within(time.mday, 0, 99)
  BY <1>1, <1>8, <1>9, Types, SMT DEF Inv, Within
<1>11. IsExploded(time')
  BY <1>5, <1>6, <1>7, <1>8, <1>10, SMT DEF IsExploded
<1> QED
  BY <1>2, <1>3, <1>4, <1>11 DEF Call

\* What the writer of a date writes are symbols of a text.
LEMMA NameSymbols == \A i \in 1..34 : TimeTokens[i] \in Symbols
BY TokenAt DEF Symbols, Words, ToSet

LEMMA DayNameSymbol ==
  ASSUME NEW i \in 1..7
  PROVE  DayNames[i] \in Symbols
<1>1. i \in 1..34 /\ TimeTokens[i] = DayNames[i]
  BY TokenAt
<1> QED
  BY <1>1, NameSymbols, Zenon

LEMMA MonthNameSymbol ==
  ASSUME NEW i \in 1..12
  PROVE  MonthNames[i] \in Symbols
<1>1. i + 7 \in 1..34 /\ TimeTokens[i + 7] = MonthNames[i]
  BY TokenAt
<1> QED
  BY <1>1, NameSymbols, Zenon

LEMMA DigitSymbol ==
  ASSUME NEW i \in 1..10
  PROVE  Numerals[i] \in Symbols
<1>1. DOMAIN Numerals = 1..10
  BY DEF Numerals
<1> QED
  BY <1>1 DEF Symbols, ToSet

LEMMA SignSymbols ==
  " " \in Symbols /\ "," \in Symbols /\ ":" \in Symbols /\ "-" \in Symbols /\ "GMT" \in Symbols
<1>1. 11 + 19 \in 1..34 /\ TimeTokens[11 + 19] = ZoneNames[11] /\ ZoneNames[11] = "GMT"
  BY TokenAt DEF ZoneNames
<1>2. "GMT" \in Symbols
  BY <1>1, NameSymbols
<1>3. " " \in Symbols /\ "," \in Symbols /\ ":" \in Symbols /\ "-" \in Symbols
  BY DEF Symbols, Blank
<1> QED
  BY <1>2, <1>3

LEMMA ShortSequences ==
  ASSUME NEW S, NEW a \in S, NEW b \in S, NEW c \in S
  PROVE  <<a>> \in Seq(S) /\ <<a, b>> \in Seq(S) /\ <<a, b, c>> \in Seq(S)
OBVIOUS

LEMMA TwoDigitsText ==
  ASSUME NEW n \in Int, Within(n, 0, 99)
  PROVE  TwoDigits(n) \in Seq(Symbols)
<1>1. (n \div 10) + 1 \in 1..10 /\ (n % 10) + 1 \in 1..10
  BY DEF Within
<1>2. Numerals[(n \div 10) + 1] \in Symbols /\ Numerals[(n % 10) + 1] \in Symbols
  BY <1>1, DigitSymbol, Zenon
<1> QED
  BY <1>2, ShortSequences, Zenon DEF TwoDigits

LEMMA DecimalText ==
  ASSUME NEW n \in Nat, FourDigits(n)
  PROVE  Decimal(n) \in Seq(Symbols)
<1> DEFINE powers == <<1, 10, 100, 1000, 10000, 100000>>
           Fits(w) == n < powers[w + 1] /\ (w > 1 => n >= powers[w])
           width == CHOOSE w \in 1..5 : Fits(w)
           place(i) == ((n \div powers[width - i + 1]) % 10) + 1
<1>1. /\ powers[1] = 1 /\ powers[2] = 10 /\ powers[3] = 100 /\ powers[4] = 1000
      /\ powers[5] = 10000 /\ powers[6] = 100000
  OBVIOUS
<1>2. \E w \in 1..5 : Fits(w)
  <2> HIDE DEF powers
  <2>1. CASE n < 10
    <3>1. Fits(1)
      BY <1>1, <2>1, SMT
    <3> QED
      BY <3>1
  <2>2. CASE n >= 10 /\ n < 100
    <3>1. Fits(2)
      BY <1>1, <2>2, SMT
    <3> QED
      BY <3>1
  <2>3. CASE n >= 100 /\ n < 1000
    <3>1. Fits(3)
      BY <1>1, <2>3, SMT
    <3> QED
      BY <3>1
  <2>4. CASE n >= 1000
    <3>1. Fits(4)
      BY <1>1, <2>4, SMT DEF FourDigits, Within
    <3> QED
      BY <3>1
  <2> QED
    BY <2>1, <2>2, <2>3, <2>4, SMT
<1>3. Decimal(n) = [i \in 1..width |-> Numerals[place(i)]]
  BY DEF Decimal
<1> HIDE DEF Fits
<1>4. width \in 1..5
  BY <1>2
<1> HIDE DEF width
<1>5. ASSUME NEW i \in 1..width PROVE place(i) \in 1..10
  <2>1. width - i + 1 \in 1..5
    BY <1>4
  <2>2. powers[width - i + 1] \in {1, 10, 100, 1000, 10000}
    BY <1>1, <2>1
  <2> DEFINE q == powers[width - i + 1]
  <2> HIDE DEF q, powers
  <2>3. n \div q \in Int
    <3>1. q \in {1, 10, 100, 1000, 10000}
      BY <2>2 DEF q
    <3> QED
      BY <3>1, SMT
  <2> DEFINE r == n \div q
  <2> HIDE DEF r
  <2>4. (r % 10) + 1 \in 1..10
    BY <2>3, SMT DEF r
  <2> QED
    BY <2>4 DEF r, q
<1> HIDE DEF place, powers
<1>6. ASSUME NEW i \in 1..width PROVE Numerals[place(i)] \in Symbols
  <2>1. place(i) \in 1..10
    BY <1>5
  <2> QED
    BY <2>1, DigitSymbol, Zenon
<1> QED
  BY <1>3, <1>4, <1>6

LEMMA WrittenText ==
  ASSUME Inv, step = "normal", FourDigits(time.year)
  PROVE  WriteDate(time) \in Seq(Symbols)
<1> DEFINE w == <<DayNames[((DayOf(time) + 6) % 7) + 1], ",", " ">>
           dd == TwoDigits(time.mday)
           mm == <<" ", MonthNames[time.month + 1], " ">>
           yyyy == IF time.year < 0 THEN <<"-">> \o Decimal(-time.year) ELSE Decimal(time.year)
           hh == TwoDigits(time.hour)
           mi == TwoDigits(time.min)
           ss == TwoDigits(time.sec)
           sp == <<" ">>
           colon == <<":">>
           gmt == <<" ", "GMT">>
<1>1. /\ time.year \in Int /\ time.month \in 0..11 /\ time.mday \in Int
      /\ time.hour \in Int /\ Within(time.hour, 0, 23)
      /\ time.min \in Int /\ Within(time.min, 0, 59)
      /\ time.sec \in Int /\ Within(time.sec, 0, 59)
      /\ Within(time.mday, 1, nDays(time.year, time.month))
      /\ Within(time.month, 0, 11) /\ time.month \in Int
  <2>1. /\ Within(time.sec, 0, 59) /\ Within(time.min, 0, 59) /\ Within(time.hour, 0, 23)
        /\ Within(time.month, 0, 11) /\ Within(time.mday, 1, nDays(time.year, time.month))
    BY SMT DEF Inv, Fields, Bounds, SecDone, MinBound, HourBound, DayBound, MonthBound
  <2>2. time.month \in 0..11
    BY <2>1, Types, SMT DEF Inv, Within
  <2> QED
    BY <2>1, <2>2, Types DEF Inv
<1>2. /\ Within(time.mday, 0, 99) /\ Within(time.hour, 0, 99)
      /\ Within(time.min, 0, 99) /\ Within(time.sec, 0, 99)
  <2>1. nDays(time.year, time.month) \in 28..31
    BY <1>1, MonthLength
  <2> QED
    BY <1>1, <2>1, SMT DEF Within
<1>s. " " \in Symbols /\ "," \in Symbols /\ ":" \in Symbols /\ "-" \in Symbols /\ "GMT" \in Symbols
  BY SignSymbols, Zenon
<1>3. w \in Seq(Symbols)
  <2> DEFINE b == DaysBefore(time.year, time.month)
             n == ((DayOf(time) + 6) % 7) + 1
  <2>1. time.year \in Int /\ time.month \in Int /\ time.mday \in Int
    BY <1>1, Zenon
  <2>2. b \in Int
    BY <2>1, DayOfInt, Zenon
  <2>3. DayOf(time) = b + time.mday - 1
    BY <1>1, <2>1, DayOfMonth, Zenon
  <2> HIDE DEF b
  <2>4. DayOf(time) \in Int
    BY <2>1, <2>2, <2>3
  <2>5. n \in 1..7
    BY <2>4
  <2> HIDE DEF n
  <2>6. DayNames[n] \in Symbols
    BY <2>5, DayNameSymbol, Zenon
  <2>7. <<DayNames[n], ",", " ">> \in Seq(Symbols)
    BY <1>s, <2>6, ShortSequences, Zenon
  <2> QED
    BY <2>7, Zenon DEF n
<1>4. mm \in Seq(Symbols)
  <2> DEFINE n == time.month + 1
  <2>1. n \in 1..12
    BY <1>1
  <2> HIDE DEF n
  <2>2. MonthNames[n] \in Symbols
    BY <2>1, MonthNameSymbol, Zenon
  <2>3. <<" ", MonthNames[n], " ">> \in Seq(Symbols)
    BY <1>s, <2>2, ShortSequences, Zenon
  <2> QED
    BY <2>3, Zenon DEF n
<1>5. yyyy \in Seq(Symbols)
  <2>1. CASE time.year < 0
    <3> DEFINE n == -time.year
               m == <<"-">>
    <3>1. n \in Nat /\ FourDigits(n)
      BY <1>1, <2>1, SMT DEF FourDigits, Within
    <3> HIDE DEF n
    <3>2. Decimal(n) \in Seq(Symbols)
      BY <3>1, DecimalText, Zenon
    <3>3. m \in Seq(Symbols)
      BY <1>s, ShortSequences, Zenon
    <3> HIDE DEF m
    <3>4. m \o Decimal(n) \in Seq(Symbols)
      BY <3>2, <3>3
    <3> QED
      BY <2>1, <3>4, Zenon DEF m, n
  <2>2. CASE ~(time.year < 0)
    <3>1. time.year \in Nat
      BY <1>1, <2>2
    <3>2. Decimal(time.year) \in Seq(Symbols)
      BY <3>1, DecimalText, Zenon
    <3> QED
      BY <2>2, <3>2, Zenon
  <2> QED
    BY <2>1, <2>2, Zenon
<1>6. dd \in Seq(Symbols) /\ hh \in Seq(Symbols) /\ mi \in Seq(Symbols) /\ ss \in Seq(Symbols)
  <2>1. dd \in Seq(Symbols)
    BY <1>1, <1>2, TwoDigitsText, Zenon
  <2>2. hh \in Seq(Symbols)
    BY <1>1, <1>2, TwoDigitsText, Zenon
  <2>3. mi \in Seq(Symbols)
    BY <1>1, <1>2, TwoDigitsText, Zenon
  <2>4. ss \in Seq(Symbols)
    BY <1>1, <1>2, TwoDigitsText, Zenon
  <2> QED
    BY <2>1, <2>2, <2>3, <2>4, Zenon
<1>7. sp \in Seq(Symbols) /\ colon \in Seq(Symbols) /\ gmt \in Seq(Symbols)
  BY <1>s, ShortSequences, Zenon
<1>8. WriteDate(time) = w \o dd \o mm \o yyyy \o sp \o hh \o colon \o mi \o colon \o ss \o gmt
  BY DEF WriteDate
<1> HIDE DEF w, dd, mm, yyyy, hh, mi, ss, sp, colon, gmt
<1>9. w \o dd \o mm \o yyyy \o sp \in Seq(Symbols)
  BY <1>3, <1>4, <1>5, <1>6, <1>7
<1> QED
  BY <1>6, <1>7, <1>8, <1>9

\* The next element scans the date that this one wrote.
LEMMA ForwardStep ==
  ASSUME DateInv, Forward
  PROVE  FieldsOK' /\ ScanOK' /\ UNCHANGED normalizeVars
<1>1. ScanOK /\ Inv
  BY DEF DateInv
<1>2. /\ stage = "read" /\ text' = WriteDate(time) /\ stage' = "scan" /\ rest' = 1
      /\ iterations' = 0 /\ UNCHANGED <<time, step, origin>>
  BY DEF Forward
<1>3. /\ dotw' = TT_UNKNOWN /\ month' = TT_UNKNOWN /\ zone' = TT_UNKNOWN
      /\ zone_offset' = -1 /\ date' = -1 /\ year' = -1
      /\ hour' = -1 /\ min' = -1 /\ sec' = -1 /\ usec' = -1
  BY DEF Forward
<1>4. FieldsOK'
  BY <1>3, SMT DEF FieldsOK, NamesOK, ZoneOffsetOK, DateOK, YearOK, ClockOK, Option, Within,
     MaxUsec, MaxMinutes, TT_UNKNOWN
<1>5. step = "normal" /\ FourDigits(time.year)
  BY <1>1, <1>2 DEF ScanOK
<1>6. WriteDate(time) \in Seq(Symbols)
  BY <1>1, <1>5, WrittenText, Zenon
<1>7. TextOK'
  BY <1>2, <1>6, Zenon DEF TextOK
<1>8. ScanOK'
  BY <1>2, <1>5, <1>7 DEF ScanOK
<1> QED
  BY <1>2, <1>4, <1>8, Zenon DEF normalizeVars

\* Elixir's NaiveDateTime takes years of four digits only.
LEMMA ReadDateStep ==
  ASSUME DateInv, ReadDate
  PROVE  FieldsOK' /\ ScanOK' /\ UNCHANGED normalizeVars
<1>1. FieldsOK /\ ScanOK /\ Inv
  BY DEF DateInv
<1>2. /\ step = "normal" /\ stage' \in {"read", "raised"}
      /\ UNCHANGED <<text, rest, iterations, fields, time, step, origin>>
  BY DEF ReadDate
<1>3. stage' = "read" => FourDigits(time.year)
  BY DEF ReadDate, FourDigits
<1>4. FieldsOK'
  BY <1>1, <1>2, Zenon
     DEF fields, FieldsOK, NamesOK, ZoneOffsetOK, DateOK, YearOK, ClockOK
<1>5. ScanOK'
  BY <1>1, <1>2, <1>3 DEF ScanOK, TextOK
<1> QED
  BY <1>2, <1>4, <1>5, Zenon DEF normalizeVars

LEMMA NormalizeStep ==
  ASSUME DateInv, Normalize
  PROVE  FieldsOK' /\ ScanOK' /\ PR_NormalizeTime
<1>1. FieldsOK /\ ScanOK
  BY DEF DateInv
<1>2. /\ stage \in {"explode", "offset"} /\ PR_NormalizeTime
      /\ UNCHANGED <<text, stage, rest, iterations, fields>>
  BY DEF Normalize, parser
<1>3. FieldsOK'
  BY <1>1, <1>2, Zenon
     DEF fields, FieldsOK, NamesOK, ZoneOffsetOK, DateOK, YearOK, ClockOK
<1>4. ScanOK'
  BY <1>1, <1>2 DEF ScanOK, TextOK
<1> QED
  BY <1>2, <1>3, <1>4

LEMMA UnchangedStep ==
  ASSUME DateInv, UNCHANGED dateVars
  PROVE  FieldsOK' /\ ScanOK' /\ UNCHANGED normalizeVars
<1>1. FieldsOK /\ ScanOK
  BY DEF DateInv
<1>2. UNCHANGED <<text, stage, rest, iterations, fields, time, step, origin>>
  BY Zenon DEF dateVars, parser
<1>3. FieldsOK'
  BY <1>1, <1>2, Zenon
     DEF fields, FieldsOK, NamesOK, ZoneOffsetOK, DateOK, YearOK, ClockOK
<1>4. ScanOK'
  BY <1>1, <1>2 DEF ScanOK, TextOK
<1> QED
  BY <1>2, <1>3, <1>4, Zenon DEF normalizeVars

\* A step of the parser calls PR_NormalizeTime as it may be called, takes one
\* of its steps or leaves its time alone.
LEMMA DateStep ==
  ASSUME DateInv, [DateNext]_dateVars
  PROVE  FieldsOK' /\ ScanOK' /\ [NormalizeNext]_<<time, step, origin>>
<1>1. CASE Scan
  BY <1>1, ScanStep, Zenon DEF normalizeVars
<1>2. CASE Explode
  BY <1>2, ExplodeStep, Zenon DEF normalizeVars, NormalizeNext
<1>3. CASE Normalize
  BY <1>3, NormalizeStep, Zenon DEF NormalizeNext
<1>4. CASE SetOffsets
  BY <1>4, SetOffsetsStep, Zenon DEF NormalizeNext
<1>5. CASE ReadDate
  BY <1>5, ReadDateStep, Zenon DEF normalizeVars
<1>6. CASE Forward
  BY <1>6, ForwardStep, Zenon DEF normalizeVars
<1>7. CASE Over \/ UNCHANGED dateVars
  BY <1>7, UnchangedStep, Zenon DEF Over, normalizeVars
<1> QED
  BY <1>1, <1>2, <1>3, <1>4, <1>5, <1>6, <1>7, Zenon DEF DateNext

LEMMA DateNextInv == DateInv /\ [DateNext]_dateVars => DateInv' /\ [NormalizeNext]_<<time, step, origin>>
<1> SUFFICES ASSUME DateInv, [DateNext]_dateVars
             PROVE  DateInv' /\ [NormalizeNext]_<<time, step, origin>>
  OBVIOUS
<1>1. FieldsOK' /\ ScanOK' /\ [NormalizeNext]_<<time, step, origin>>
  BY DateStep, Zenon
<1>2. Inv'
  BY <1>1, NormalizeNextInv, Zenon DEF DateInv
<1> QED
  BY <1>1, <1>2, Zenon DEF DateInv

LEMMA InitDateInv == DateInit => DateInv
<1> SUFFICES ASSUME DateInit PROVE DateInv
  OBVIOUS
<1>1. NormalizeInit /\ step = "normal"
  BY DEF DateInit, NormalizeInit
<1>2. Inv
  BY <1>1, InitInv
<1>3. TextOK
  BY DatesAssumption, Zenon DEF DateInit, TextOK
<1>4. ScanOK
  BY <1>1, <1>3 DEF DateInit, ScanOK
<1>5. FieldsOK
  BY SMT DEF DateInit, FieldsOK, NamesOK, ZoneOffsetOK, DateOK, YearOK, ClockOK, Option, Within,
     MaxUsec, MaxMinutes, TT_UNKNOWN
<1> QED
  BY <1>2, <1>4, <1>5 DEF DateInv

\* A round of a month loop brings the day closer to the month.
LEMMA MonthRound ==
  ASSUME Inv, PR_NormalizeTime
  PROVE  /\ step = "back" => time'.mday > time.mday
         /\ step = "forward" /\ step' = "forward" => time'.mday < time.mday
<1>1. CASE step = "back"
  <2>1. MonthBack
    BY <1>1 DEF PR_NormalizeTime, ToGMT, CarryUsec, CarrySec, CarryMin, CarryHour,
       CarryMonth, MonthForward, ComputeDays
  <2> DEFINE m == IF time.month = 0 THEN 11 ELSE time.month - 1
             y == IF time.month = 0 THEN Int16(time.year - 1) ELSE time.year
  <2>2. time.mday \in Int /\ time.year \in Int /\ time.month \in Int
        /\ Within(time.month, 0, 11) /\ time \in TimeFields
    BY <1>1, Types DEF Inv, Fields, Bounds, MonthBound
  <2>3. m \in 0..11
    BY <2>2, SMT DEF Within
  <2>4. y \in Int
    BY <2>2, SMT DEF Int16
  <2>5. time' = [time EXCEPT !.month = m, !.year = y, !.mday = time.mday + nDays(y, m)]
    BY <2>1 DEF MonthBack
  <2> HIDE DEF m, y
  <2>6. nDays(y, m) \in 28..31
    BY <2>3, <2>4, MonthLength, Zenon
  <2>7. time'.mday = time.mday + nDays(y, m)
    BY <2>2, <2>5 DEF TimeFields
  <2> QED
    BY <1>1, <2>2, <2>6, <2>7, SMT
<1>2. CASE step = "forward" /\ step' = "forward"
  <2>1. MonthForward
    BY <1>2 DEF PR_NormalizeTime, ToGMT, CarryUsec, CarrySec, CarryMin, CarryHour,
       CarryMonth, MonthBack, ComputeDays
  <2> DEFINE d == nDays(time.year, time.month)
             m == IF time.month = 11 THEN 0 ELSE time.month + 1
             y == IF time.month = 11 THEN Int16(time.year + 1) ELSE time.year
  <2>2. time.mday \in Int /\ time.year \in Int /\ time.month \in Int
        /\ Within(time.month, 0, 11) /\ time \in TimeFields
    BY <1>2, Types DEF Inv, Fields, Bounds, MonthBound
  <2>3. time.month \in 0..11
    BY <2>2, SMT DEF Within
  <2>4. d \in 28..31
    BY <2>2, <2>3, MonthLength, Zenon
  <2>5. time' = [time EXCEPT !.mday = time.mday - d, !.month = m, !.year = y]
    BY <1>2, <2>1 DEF MonthForward
  <2> HIDE DEF d, m, y
  <2>6. time'.mday = time.mday - d
    BY <2>2, <2>5 DEF TimeFields
  <2> QED
    BY <1>2, <2>2, <2>4, <2>6, SMT
<1> QED
  BY <1>1, <1>2

\* What a step of the parser advances.
Advance ==
  /\ iterations' > iterations => rest' > rest
  /\ step = "back" => time'.mday > time.mday
  /\ step = "forward" /\ step' = "forward" => time'.mday < time.mday

LEMMA NextAdvances == DateInv /\ [DateNext]_dateVars => [Advance]_dateVars
<1> SUFFICES ASSUME DateInv, DateNext PROVE Advance \/ UNCHANGED dateVars
  OBVIOUS
<1>1. ScanOK /\ Inv /\ iterations \in Nat
  BY DEF DateInv, ScanOK
<1>2. CASE Scan
  <2>1. stage = "scan" /\ (TooManyTokens \/ rest' > rest)
    BY <1>2, ScanStep, Zenon
  <2>2. step = "normal"
    BY <1>1, <2>1 DEF ScanOK
  <2>3. TooManyTokens => iterations' = iterations
    BY DEF TooManyTokens
  <2> QED
    BY <1>1, <2>1, <2>2, <2>3 DEF Advance
<1>3. CASE Explode
  <2>1. stage = "scan" /\ iterations' = iterations
    BY <1>3 DEF Explode
  <2> QED
    BY <1>1, <2>1 DEF ScanOK, Advance
<1>4. CASE Normalize
  <2>1. PR_NormalizeTime /\ iterations' = iterations
    BY <1>4 DEF Normalize, parser
  <2> QED
    BY <1>1, <2>1, MonthRound DEF Advance
<1>5. CASE SetOffsets
  <2>1. step = "normal" /\ iterations' = iterations
    BY <1>5 DEF SetOffsets
  <2> QED
    BY <1>1, <2>1 DEF Advance
<1>6. CASE ReadDate
  <2>1. step = "normal" /\ iterations' = iterations
    BY <1>6 DEF ReadDate
  <2> QED
    BY <1>1, <2>1 DEF Advance
<1>7. CASE Forward
  <2>1. stage = "read" /\ iterations' = 0
    BY <1>7 DEF Forward
  <2> QED
    BY <1>1, <2>1 DEF ScanOK, Advance
<1>8. CASE Over
  BY <1>8, Zenon DEF Over
<1> QED
  BY <1>2, <1>3, <1>4, <1>5, <1>6, <1>7, <1>8, Zenon DEF DateNext

----------------------------------------------------------------------------
(* The theorems about the parser of dates *)

\* The fields that the parser reads stay in the ranges of their digits,
\* whatever the text.
THEOREM DateInvariant == DateSpec => []DateInv
BY InitDateInv, DateNextInv, PTL DEF DateSpec

\* Whatever text a peer sends, PR_NormalizeTime is only called with a time
\* from which it ends right: the parser of dates implements NormalizeSpec.
THEOREM DateCallsAreBounded == DateSpec => CallsAreBounded
<1>1. DateInit => NormalizeInit
  BY DEF DateInit
<1> QED
  BY <1>1, DateInvariant, DateNextInv, PTL DEF DateSpec, CallsAreBounded, NormalizeSpec

\* Hence what is proved of PR_NormalizeTime holds of every date parsed.
COROLLARY DatesKeepInstant == DateSpec => [](SameInstant /\ Normalized)
BY DateCallsAreBounded, KeepsInstant, EndsNormalized, PTL DEF CallsAreBounded

\* No loop of the parser runs for ever: every iteration moves on in the text,
\* and every round of a month loop brings the day closer to the month.
THEOREM DateScanAdvances == DateSpec => ScanAdvances
<1>1. Advance <=> /\ iterations' > iterations => rest' > rest
                  /\ step = "back" => time'.mday > time.mday
                  /\ step = "forward" /\ step' = "forward" => time'.mday < time.mday
  BY DEF Advance
<1>2. DateSpec => [][Advance]_dateVars
  BY DateInvariant, NextAdvances, PTL DEF DateSpec
<1> QED
  BY <1>1, <1>2, PTL DEF ScanAdvances

----------------------------------------------------------------------------
(* The assembly of lines *)

IsKept(i) == \/ raw[i] \notin {"\r", "\n"}
             \/ raw[i] = "\n" /\ i < Len(raw) /\ ~IsLWS(raw[i + 1])

IsText(s) == s \in Seq(Characters)

\* A text has the symbols of raw after m up to e, or those from i on.
IsLine(s, m, e) == IsText(s) /\ Len(s) = e - m /\ \A k \in 1..e - m : s[k] = raw[k + m]
IsRest(s, i) == IsLine(s, i - 1, Len(raw))

\* The kept positions are counted.
LEMMA KeptFinite ==
  ASSUME NEW m \in Nat
  PROVE  IsFiniteSet(Kept(m)) /\ Cardinality(Kept(m)) \in Nat
<1>1. IsFiniteSet(1..m)
  BY FS_Interval
<1>2. Kept(m) \in SUBSET (1..m)
  BY DEF Kept
<1> QED
  BY <1>1, <1>2, FS_Subset, FS_CardinalityType

\* The next position is kept or not.
LEMMA KeptNext ==
  ASSUME NEW m \in Nat
  PROVE  /\ IsKept(m + 1) => /\ Kept(m + 1) = Kept(m) \cup {m + 1}
                             /\ Cardinality(Kept(m + 1)) = Cardinality(Kept(m)) + 1
         /\ ~IsKept(m + 1) => Kept(m + 1) = Kept(m)
<1>1. IsKept(m + 1) => Kept(m + 1) = Kept(m) \cup {m + 1}
  BY DEF Kept, IsKept
<1>2. ~IsKept(m + 1) => Kept(m + 1) = Kept(m)
  BY DEF Kept, IsKept
<1>3. m + 1 \notin Kept(m)
  BY DEF Kept
<1>4. Cardinality(Kept(m) \cup {m + 1}) = Cardinality(Kept(m)) + 1
  BY <1>3, KeptFinite, FS_AddElement
<1> QED
  BY <1>1, <1>2, <1>4

\* The symbols of a line are all kept.
LEMMA KeptLine ==
  ASSUME NEW m \in Nat, NEW e \in Nat, m <= e,
         \A i \in m + 1..e : raw[i] \notin {"\r", "\n"}
  PROVE  /\ Kept(e) = Kept(m) \cup (m + 1..e)
         /\ Cardinality(Kept(e)) = Cardinality(Kept(m)) + (e - m)
<1>1. Kept(e) = Kept(m) \cup (m + 1..e)
  BY DEF Kept
<1>2. Kept(m) \cap (m + 1..e) = {}
  BY DEF Kept
<1>3. IsFiniteSet(m + 1..e) /\ Cardinality(m + 1..e) = e - m
  <2> DEFINE a == m + 1
  <2>1. a \in Int /\ e \in Int
    OBVIOUS
  <2> HIDE DEF a
  <2>2. IsFiniteSet(a..e) /\ Cardinality(a..e) = IF a > e THEN 0 ELSE e - a + 1
    BY <2>1, FS_Interval, Zenon
  <2>3. a > e => e - m = 0
    BY DEF a
  <2>4. ~(a > e) => e - a + 1 = e - m
    BY DEF a
  <2>5. IsFiniteSet(a..e) /\ Cardinality(a..e) = e - m
    BY <2>2, <2>3, <2>4
  <2> QED
    BY <2>5 DEF a
<1>4. Cardinality(Kept(m) \cup (m + 1..e)) =
        Cardinality(Kept(m)) + Cardinality(m + 1..e) - Cardinality(Kept(m) \cap (m + 1..e))
  BY <1>3, KeptFinite, FS_Union
<1>5. Cardinality({}) = 0
  BY FS_EmptySet
<1>6. Cardinality(Kept(e)) = Cardinality(Kept(m)) + (e - m) - 0
  BY <1>1, <1>2, <1>3, <1>4, <1>5, Zenon
<1> QED
  BY <1>1, <1>6, KeptFinite

\* A kept position counts among those up to a later one.
LEMMA CountKept ==
  ASSUME NEW m \in Nat, NEW i \in Kept(m)
  PROVE  Cardinality(Kept(i)) \in 1..Cardinality(Kept(m))
<1>1. i \in 1..m /\ i \in Kept(i) /\ Kept(i) \in SUBSET Kept(m) /\ i \in Nat
  BY DEF Kept
<1>2. Cardinality(Kept(i)) <= Cardinality(Kept(m))
  BY <1>1, KeptFinite, FS_Subset
<1>3. Cardinality(Kept(i)) # 0
  BY <1>1, KeptFinite, FS_EmptySet
<1> QED
  BY <1>1, <1>2, <1>3, KeptFinite

\* Unfolding goes on with a line.
LEMMA UnfoldLine ==
  ASSUME NEW m \in Nat, NEW e \in Nat, m <= e, e <= Len(raw), IsText(raw),
         \A i \in m + 1..e : raw[i] \notin {"\r", "\n"},
         NEW line, IsLine(line, m, e),
         NEW u, IsText(u), Unfolds(u, m)
  PROVE  IsText(u \o line) /\ Unfolds(u \o line, e)
<1> DEFINE c == Cardinality(Kept(m))
<1>1. /\ line \in Seq(Characters) /\ Len(line) = e - m
      /\ \A i \in 1..e - m : line[i] = raw[i + m]
  BY DEF IsLine, IsText
<1>2. c \in Nat /\ Len(u) = c
  BY KeptFinite DEF Unfolds
<1>3. /\ u \o line \in Seq(Characters) /\ Len(u \o line) = c + (e - m)
      /\ \A i \in 1..c : (u \o line)[i] = u[i]
      /\ \A i \in 1..e - m : (u \o line)[i + c] = line[i]
  <2>1. c = Len(u) /\ e - m = Len(line)
    BY <1>1, <1>2
  <2> DEFINE n == e - m
  <2> HIDE DEF n, c
  <2>2. u \o line \in Seq(Characters) /\ IsJoin(u \o line, u, line, c, n)
    BY <1>1, <2>1, Joined, Zenon DEF IsText, n
  <2> QED
    BY <2>2, Zenon DEF IsJoin, n
<1>4. Kept(e) = Kept(m) \cup (m + 1..e) /\ Cardinality(Kept(e)) = c + (e - m)
  BY KeptLine
<1>5. ASSUME NEW i \in Kept(m) PROVE (u \o line)[Cardinality(Kept(i))] = raw[i]
  <2>1. Cardinality(Kept(i)) \in 1..c
    BY CountKept
  <2>2. u[Cardinality(Kept(i))] = raw[i]
    BY DEF Unfolds
  <2> QED
    BY <1>3, <2>1, <2>2
<1>6. ASSUME NEW i \in m + 1..e PROVE (u \o line)[Cardinality(Kept(i))] = raw[i]
  <2>1. i \in Nat /\ m <= i /\ \A j \in m + 1..i : raw[j] \notin {"\r", "\n"}
    OBVIOUS
  <2>2. Cardinality(Kept(i)) = c + (i - m)
    BY <2>1, KeptLine
  <2>3. i - m \in 1..e - m /\ c + (i - m) = (i - m) + c /\ (i - m) + m = i
    BY <1>2
  <2> DEFINE k == i - m
             v == u \o line
  <2> HIDE DEF c, k, v
  <2>4. k \in 1..e - m /\ Cardinality(Kept(i)) = k + c /\ k + m = i
    BY <2>2, <2>3, Zenon DEF k
  <2>5. \A j \in 1..e - m : v[j + c] = line[j]
    BY <1>3, Zenon DEF v
  <2>6. v[k + c] = line[k] /\ line[k] = raw[k + m]
    BY <1>1, <2>4, <2>5, Zenon
  <2> QED
    BY <2>4, <2>6, Zenon DEF v
<1> QED
  BY <1>3, <1>4, <1>5, <1>6 DEF Unfolds, IsText

\* It goes on with a symbol that is left out, and with a line feed.
LEMMA UnfoldNothing ==
  ASSUME NEW m \in Nat, ~IsKept(m + 1), NEW u, Unfolds(u, m)
  PROVE  Unfolds(u, m + 1)
BY KeptNext DEF Unfolds

LEMMA UnfoldBreak ==
  ASSUME NEW m \in Nat, IsKept(m + 1), raw[m + 1] = "\n", m + 1 <= Len(raw), IsText(raw),
         NEW u, IsText(u), Unfolds(u, m)
  PROVE  IsText(u \o <<"\n">>) /\ Unfolds(u \o <<"\n">>, m + 1)
<1> DEFINE c == Cardinality(Kept(m))
           b == <<"\n">>
<1>1. c \in Nat /\ Len(u) = c
  BY KeptFinite DEF Unfolds
<1>2. b \in Seq(Characters) /\ Len(b) = 1 /\ b[1] = "\n"
  <2>1. m + 1 \in 1..Len(raw)
    BY DEF IsText
  <2>2. raw[m + 1] \in Characters
    BY <2>1 DEF IsText
  <2> QED
    BY <2>2
<1> HIDE DEF b
<1>3. /\ u \o b \in Seq(Characters) /\ Len(u \o b) = c + 1
      /\ \A i \in 1..c : (u \o b)[i] = u[i]
      /\ (u \o b)[1 + c] = b[1]
  <2>1. c = Len(u) /\ 1 = Len(b)
    BY <1>1, <1>2
  <2> HIDE DEF c
  <2>2. u \o b \in Seq(Characters) /\ IsJoin(u \o b, u, b, c, 1)
    BY <1>2, <2>1, Joined, Zenon DEF IsText
  <2>3. 1 \in 1..1
    OBVIOUS
  <2> QED
    BY <2>2, <2>3, Zenon DEF IsJoin
<1>4. Kept(m + 1) = Kept(m) \cup {m + 1} /\ Cardinality(Kept(m + 1)) = c + 1
  BY KeptNext
<1>5. ASSUME NEW i \in Kept(m) PROVE (u \o b)[Cardinality(Kept(i))] = raw[i]
  <2>1. Cardinality(Kept(i)) \in 1..c
    BY CountKept
  <2>2. u[Cardinality(Kept(i))] = raw[i]
    BY DEF Unfolds
  <2> QED
    BY <1>3, <2>1, <2>2
<1>6. (u \o b)[Cardinality(Kept(m + 1))] = raw[m + 1]
  <2>1. c + 1 = 1 + c
    BY <1>1
  <2> QED
    BY <1>2, <1>3, <1>4, <2>1
<1> QED
  BY <1>3, <1>4, <1>5, <1>6 DEF Unfolds, IsText, b

\* The search for a symbol stops at the first one or at the end.
LEMMA FirstOf ==
  ASSUME NEW S, NEW s \in Seq(S), NEW C
  PROVE  LET q == FindFirstOf(s, C)
         IN /\ q \in 1..Len(s) + 1 /\ (q > Len(s) \/ s[q] \in C)
            /\ \A j \in 1..q - 1 : s[j] \notin C
<1> DEFINE n == Len(s) + 1
           T == {i \in 1..n : i > Len(s) \/ s[i] \in C}
<1>1. n \in Nat /\ 1 \in Nat /\ 1 <= n /\ n \in T
  OBVIOUS
<1>2. PICK j \in 1..n : FirstIn(T, 1, j)
  <2> HIDE DEF T, n
  <2> QED
    BY <1>1, FirstExists
<1>3. \E i \in 1..Len(s) + 1 :
        /\ i > Len(s) \/ s[i] \in C
        /\ \A k \in 1..i - 1 : s[k] \notin C
  <2>1. j \in 1..Len(s) + 1 /\ (j > Len(s) \/ s[j] \in C)
    BY <1>2 DEF FirstIn
  <2>2. ASSUME NEW k \in 1..j - 1 PROVE s[k] \notin C
    <3>1. k \in 1..n /\ k \notin T
      BY <1>1, <1>2 DEF FirstIn
    <3> QED
      BY <3>1
  <2> QED
    BY <2>1, <2>2
<1> QED
  BY <1>3 DEF FindFirstOf

\* What is left of the text after one symbol.
LEMMA RestTail ==
  ASSUME IsText(raw), NEW i \in 1..Len(raw) + 1, NEW s, IsRest(s, i)
  PROVE  /\ i > Len(raw) => s = <<>>
         /\ i <= Len(raw) => s # <<>> /\ s[1] = raw[i] /\ IsRest(Tail(s), i + 1)
<1>1. /\ s \in Seq(Characters) /\ Len(s) = Len(raw) - (i - 1) /\ Len(raw) \in Nat
      /\ \A k \in 1..Len(raw) - (i - 1) : s[k] = raw[k + (i - 1)]
  BY DEF IsRest, IsLine, IsText
<1>2. CASE i > Len(raw)
  <2>1. Len(s) = 0
    BY <1>1, <1>2
  <2> QED
    BY <1>1, <1>2, <2>1
<1>3. CASE i <= Len(raw)
  <2>1. Len(s) > 0 /\ 1 \in 1..Len(raw) - (i - 1) /\ 1 + (i - 1) = i
    BY <1>1, <1>3
  <2>2. s # <<>> /\ s[1] = raw[i]
    BY <1>1, <2>1
  <2>3. /\ Tail(s) \in Seq(Characters) /\ Len(Tail(s)) = Len(s) - 1
        /\ \A k \in 1..Len(s) - 1 : Tail(s)[k] = s[k + 1]
    BY <1>1, <2>2
  <2>4. Len(s) - 1 = Len(raw) - ((i + 1) - 1)
    BY <1>1
  <2>5. ASSUME NEW k \in 1..Len(raw) - ((i + 1) - 1)
        PROVE  Tail(s)[k] = raw[k + ((i + 1) - 1)]
    <3>1. k \in 1..Len(s) - 1 /\ k + 1 \in 1..Len(raw) - (i - 1)
          /\ (k + 1) + (i - 1) = k + ((i + 1) - 1)
      BY <1>1, <2>4
    <3> QED
      BY <1>1, <2>3, <3>1
  <2> QED
    BY <1>3, <2>2, <2>3, <2>4, <2>5 DEF IsRest, IsLine, IsText
<1> QED
  BY <1>1, <1>2, <1>3

\* The line that comes next, up to its line break or the end of the text.
LEMMA NextLine ==
  ASSUME IsText(raw), NEW m \in 0..Len(raw), NEW s, IsRest(s, m + 1)
  PROVE  \E e \in m + 1..Len(raw) + 1 :
           /\ e > Len(raw) \/ raw[e] \in {"\r", "\n"}
           /\ \A i \in m + 1..e - 1 : raw[i] \notin {"\r", "\n"}
           /\ IsLine(Before(s, {"\r", "\n"}), m, e - 1)
           /\ IsRest(SkipTo(s, {"\r", "\n"}), e)
<1> DEFINE C == {"\r", "\n"}
           q == FindFirstOf(s, C)
           e == m + q
           n == Len(raw)
           l == n - m
<1>1. n \in Nat /\ m \in Nat /\ m <= n /\ (m + 1) - 1 = m /\ l \in Nat
  BY DEF IsText
<1>2. s \in Seq(Characters) /\ Len(s) = l /\ \A k \in 1..l : s[k] = raw[k + m]
  BY <1>1 DEF IsRest, IsLine, IsText
<1>3. /\ q \in 1..l + 1 /\ (q > l \/ s[q] \in C)
      /\ \A j \in 1..q - 1 : s[j] \notin C
  BY <1>2, FirstOf
<1>4. /\ Before(s, C) = SubSeq(s, 1, q - 1)
      /\ SkipTo(s, C) = SubSeq(s, q, Len(s))
  BY DEF Before, SkipTo
<1> HIDE DEF q, C, n, l
<1>5. e \in m + 1..n + 1 /\ (e > n \/ raw[e] \in C)
  <2>1. e \in m + 1..n + 1 /\ (q > l => e > n) /\ q + m = e
    BY <1>1, <1>3 DEF l
  <2> QED
    BY <1>2, <1>3, <2>1
<1>6. ASSUME NEW i \in m + 1..e - 1 PROVE raw[i] \notin C
  <2>1. i - m \in 1..q - 1 /\ i - m \in 1..l /\ (i - m) + m = i
    BY <1>1, <1>3
  <2> QED
    BY <1>2, <1>3, <2>1
<1>7. IsLine(SubSeq(s, 1, q - 1), m, e - 1)
  <2>1. /\ SubSeq(s, 1, q - 1) \in Seq(Characters) /\ Len(SubSeq(s, 1, q - 1)) = q - 1
        /\ \A k \in 1..q - 1 : SubSeq(s, 1, q - 1)[k] = s[k]
    BY <1>1, <1>2, <1>3
  <2>2. (e - 1) - m = q - 1 /\ \A k \in 1..q - 1 : k \in 1..l
    BY <1>1, <1>3
  <2> QED
    BY <1>2, <2>1, <2>2 DEF IsLine, IsText
<1>8. IsRest(SubSeq(s, q, Len(s)), e)
  <2>1. /\ SubSeq(s, q, l) \in Seq(Characters) /\ Len(SubSeq(s, q, l)) = l - q + 1
        /\ \A k \in 1..l - q + 1 : SubSeq(s, q, l)[k] = s[q + k - 1]
    BY <1>1, <1>2, <1>3
  <2>2. n - (e - 1) = l - q + 1
    BY <1>1, <1>3 DEF l
  <2>3. ASSUME NEW k \in 1..l - q + 1 PROVE SubSeq(s, q, l)[k] = raw[k + (e - 1)]
    <3>1. q + k - 1 \in 1..l /\ (q + k - 1) + m = k + (e - 1)
      BY <1>1, <1>3
    <3> QED
      BY <1>2, <2>1, <3>1
  <2>4. IsLine(SubSeq(s, q, l), e - 1, n)
    BY <2>1, <2>2, <2>3 DEF IsLine, IsText
  <2> QED
    BY <1>2, <2>4 DEF IsRest, n
<1> QED
  BY <1>4, <1>5, <1>6, <1>7, <1>8 DEF C, n

----------------------------------------------------------------------------
(* The steps of the parser of messages *)

\* No carriage return up to m stands alone.
NoBareTo(m) == \A i \in 1..m : raw[i] = "\r" => i < Len(raw) /\ raw[i + 1] = "\n"

\* The first m symbols of the text have been unfolded.
AssembledTo(m) == IsRest(input, m + 1) /\ NoBareTo(m) /\ Unfolds(output, m)

ParserInv ==
  /\ IsText(raw) /\ IsText(output)
  /\ phase \in {"receive", "assemble", "start", "headers", "done"}
  /\ phase = "receive" => output = <<>>
  /\ phase = "assemble" => \E m \in 0..Len(raw) : AssembledTo(m)
  /\ phase \in {"start", "headers"} => ~HasBareReturn
  /\ UnfoldsLines

\* After a line and its line break, if there is one, the text is unfolded up
\* to there.
LEMMA LineAssembled ==
  ASSUME IsText(raw), NEW m \in 0..Len(raw), NEW e \in m + 1..Len(raw) + 1,
         \A i \in m + 1..e - 1 : raw[i] \notin {"\r", "\n"}, NoBareTo(m),
         NEW line, IsLine(line, m, e - 1),
         NEW u, IsText(u), Unfolds(u, m)
  PROVE  /\ NoBareTo(e - 1) /\ IsText(u \o line) /\ Unfolds(u \o line, e - 1)
<1>1. m \in Nat /\ e - 1 \in Nat /\ m <= e - 1 /\ e - 1 <= Len(raw)
  BY DEF IsText
<1>2. NoBareTo(e - 1)
  <2> SUFFICES ASSUME NEW i \in 1..e - 1, raw[i] = "\r"
               PROVE  i < Len(raw) /\ raw[i + 1] = "\n"
    BY DEF NoBareTo
  <2>1. i \notin m + 1..e - 1
    OBVIOUS
  <2>2. i \in 1..m
    BY <1>1, <2>1
  <2> QED
    BY <2>2 DEF NoBareTo
<1> DEFINE d == e - 1
<1> HIDE DEF d
<1>3. IsText(u \o line) /\ Unfolds(u \o line, d)
  <2>1. d \in Nat /\ m <= d /\ d <= Len(raw) /\ IsLine(line, m, d)
        /\ \A i \in m + 1..d : raw[i] \notin {"\r", "\n"}
    BY <1>1 DEF d
  <2> QED
    BY <1>1, <2>1, UnfoldLine
<1> QED
  BY <1>2, <1>3 DEF d

\* A line break, from b on with its line feed at c, is left out or stays as
\* one line feed.
LEMMA BreakAssembled ==
  ASSUME IsText(raw), NEW c \in 1..Len(raw), raw[c] = "\n", NoBareTo(c - 1),
         NEW after, IsRest(after, c + 1),
         NEW u, IsText(u), Unfolds(u, c - 1),
         NEW v, v = u \o (IF IsFolded(after) THEN <<>> ELSE <<"\n">>)
  PROVE  NoBareTo(c) /\ IsText(v) /\ Unfolds(v, c)
<1>1. /\ c \in Nat /\ c - 1 \in Nat /\ (c - 1) + 1 = c /\ c + 1 \in 1..Len(raw) + 1
      /\ Len(raw) \in Nat
  BY DEF IsText
<1>2. NoBareTo(c)
  <2>1. \A i \in 1..c : i \in 1..c - 1 \/ i = c
    BY <1>1
  <2> QED
    BY <2>1 DEF NoBareTo
<1>3. IsFolded(after) <=> ~IsKept(c)
  <2>1. CASE c = Len(raw)
    <3>1. after = <<>>
      BY <1>1, <2>1, RestTail
    <3>2. ~(c < Len(raw))
      BY <1>1, <2>1
    <3> QED
      BY <3>1, <3>2 DEF IsFolded, IsKept
  <2>2. CASE c < Len(raw)
    <3>1. after # <<>> /\ after[1] = raw[c + 1]
      BY <1>1, <2>2, RestTail
    <3> QED
      BY <2>2, <3>1 DEF IsFolded, IsKept
  <2> QED
    BY <1>1, <2>1, <2>2
<1>4. CASE IsFolded(after)
  <2>1. v = u
    <3>1. v = u \o <<>>
      BY <1>4
    <3> QED
      BY <3>1 DEF IsText
  <2>2. Unfolds(u, (c - 1) + 1)
    BY <1>1, <1>3, <1>4, UnfoldNothing
  <2> QED
    BY <1>1, <1>2, <2>1, <2>2
<1>5. CASE ~IsFolded(after)
  <2>1. v = u \o <<"\n">>
    BY <1>5
  <2> DEFINE k == c - 1
  <2>2. k \in Nat /\ k + 1 = c
    BY <1>1
  <2>3. Unfolds(u, k)
    OBVIOUS
  <2> HIDE DEF k
  <2>4. IsKept(k + 1) /\ raw[k + 1] = "\n" /\ k + 1 <= Len(raw)
    BY <1>3, <1>5, <2>2
  <2>5. IsText(u \o <<"\n">>) /\ Unfolds(u \o <<"\n">>, k + 1)
    BY <2>2, <2>3, <2>4, UnfoldBreak
  <2> QED
    BY <1>2, <2>1, <2>2, <2>5
<1> QED
  BY <1>4, <1>5

\* All of the text is unfolded.
LEMMA AllAssembled ==
  ASSUME IsText(raw), NoBareTo(Len(raw))
  PROVE  ~HasBareReturn
BY DEF HasBareReturn, NoBareTo

\* One round of the loop of AssembleRawHeaders brings the text that it has
\* assembled up to the next line, or refuses the text.
LEMMA AssembleLineStep ==
  ASSUME ParserInv, AssembleLine
  PROVE  \/ /\ phase' = "done" /\ result' = Wrapped("invalid_line_break")
            /\ UNCHANGED output /\ HasBareReturn
         \/ \E c \in 0..Len(raw) :
              /\ IsText(output') /\ NoBareTo(c) /\ Unfolds(output', c)
              /\ IsRest(input', c + 1)
              /\ phase' = "assemble" \/ (phase' = "start" /\ c = Len(raw))
<1> DEFINE C == {"\r", "\n"}
           lineEnd == SkipTo(input, C)
           line == Before(input, C)
           after == AfterBreak(lineEnd)
           n == Len(raw)
<1>1. IsText(raw) /\ IsText(output) /\ phase = "assemble" /\ n \in Nat
  BY DEF ParserInv, AssembleLine, IsText
<1>2. PICK m \in 0..n : AssembledTo(m)
  BY <1>1 DEF ParserInv
<1>3. PICK e \in m + 1..n + 1 :
        /\ e > n \/ raw[e] \in C
        /\ \A i \in m + 1..e - 1 : raw[i] \notin C
        /\ IsLine(line, m, e - 1)
        /\ IsRest(lineEnd, e)
  BY <1>1, <1>2, NextLine DEF AssembledTo
<1>4. \/ /\ StartsWith(lineEnd, "\r") /\ ~StartsWith(Tail(lineEnd), "\n")
         /\ phase' = "done" /\ result' = Wrapped("invalid_line_break") /\ UNCHANGED output
      \/ /\ ~(StartsWith(lineEnd, "\r") /\ ~StartsWith(Tail(lineEnd), "\n"))
         /\ output' = (output \o line) \o (IF IsFolded(after) THEN <<>> ELSE <<"\n">>)
         /\ input' = after
         /\ phase' = IF after = <<>> THEN "start" ELSE "assemble"
  BY DEF AssembleLine, Return
<1> HIDE DEF lineEnd, line
<1> DEFINE u == output \o line
<1>5. NoBareTo(e - 1) /\ IsText(u) /\ Unfolds(u, e - 1)
  BY <1>1, <1>2, <1>3, LineAssembled DEF AssembledTo
<1> HIDE DEF u
<1>6. /\ e \in 1..n + 1
      /\ e > n => lineEnd = <<>>
      /\ e <= n => lineEnd # <<>> /\ lineEnd[1] = raw[e] /\ IsRest(Tail(lineEnd), e + 1)
  <2>1. e \in 1..n + 1
    BY <1>1
  <2> QED
    BY <1>1, <1>3, <2>1, RestTail
<1>7. ASSUME NEW c \in 1..n, raw[c] = "\n", NoBareTo(c - 1), Unfolds(u, c - 1),
             IsRest(after, c + 1),
             output' = u \o (IF IsFolded(after) THEN <<>> ELSE <<"\n">>),
             input' = after, phase' = IF after = <<>> THEN "start" ELSE "assemble"
      PROVE  /\ IsText(output') /\ NoBareTo(c) /\ Unfolds(output', c)
             /\ IsRest(input', c + 1)
             /\ phase' = "assemble" \/ (phase' = "start" /\ c = n)
  <2> HIDE DEF after
  <2>1. NoBareTo(c) /\ IsText(output') /\ Unfolds(output', c)
    BY <1>1, <1>5, <1>7, BreakAssembled
  <2>2. after = <<>> => c = n
    <3>1. c + 1 \in 1..n + 1 /\ (c # n => c + 1 <= n)
      BY <1>1
    <3> QED
      BY <1>1, <1>7, <3>1, RestTail
  <2> QED
    BY <1>7, <2>1, <2>2
<1>8. CASE e > n
  <2>1. lineEnd = <<>> /\ e - 1 = n
    BY <1>1, <1>3, <1>6, <1>8
  <2>2. ~StartsWith(lineEnd, "\r") /\ after = <<>>
    BY <2>1 DEF StartsWith, AfterBreak, SkipOne
  <2>3. output' = u \o <<>> /\ input' = <<>> /\ phase' = "start"
    BY <1>4, <2>2 DEF IsFolded, u
  <2>4. output' = u
    BY <1>5, <2>3 DEF IsText
  <2>5. IsRest(input', n + 1)
    <3>1. <<>> \in Seq(Characters) /\ Len(<<>>) = 0 /\ n - ((n + 1) - 1) = 0
      BY <1>1
    <3>2. 1..0 = {}
      OBVIOUS
    <3> QED
      BY <2>3, <3>1, <3>2 DEF IsRest, IsLine, IsText
  <2> QED
    BY <1>1, <1>5, <2>1, <2>3, <2>4, <2>5
<1>9. CASE e <= n /\ raw[e] = "\n"
  <2>1. ~StartsWith(lineEnd, "\r") /\ after = Tail(lineEnd)
    BY <1>6, <1>9 DEF StartsWith, AfterBreak, SkipOne
  <2>2. e \in 1..n /\ IsRest(after, e + 1)
    BY <1>6, <1>9, <2>1
  <2>3. /\ output' = u \o (IF IsFolded(after) THEN <<>> ELSE <<"\n">>) /\ input' = after
        /\ phase' = IF after = <<>> THEN "start" ELSE "assemble"
    BY <1>4, <2>1 DEF u
  <2> HIDE DEF after
  <2>4. /\ IsText(output') /\ NoBareTo(e) /\ Unfolds(output', e) /\ IsRest(input', e + 1)
        /\ phase' = "assemble" \/ (phase' = "start" /\ e = n)
    BY <1>5, <1>7, <1>9, <2>2, <2>3 DEF after
  <2>5. e \in 0..n
    BY <2>2
  <2> QED
    BY <2>4, <2>5
<1>10. CASE e <= n /\ raw[e] = "\r"
  <2>1. StartsWith(lineEnd, "\r") /\ after = Tail(Tail(lineEnd))
    BY <1>6, <1>10 DEF StartsWith, AfterBreak
  <2>2. e + 1 \in 1..n + 1 /\ IsRest(Tail(lineEnd), e + 1)
    BY <1>1, <1>6, <1>10
  <2>3. /\ e + 1 > n => Tail(lineEnd) = <<>>
        /\ e + 1 <= n => /\ Tail(lineEnd) # <<>> /\ Tail(lineEnd)[1] = raw[e + 1]
                         /\ IsRest(Tail(Tail(lineEnd)), (e + 1) + 1)
    <3> DEFINE t == Tail(lineEnd)
               k == e + 1
    <3> HIDE DEF t, k
    <3>1. k \in 1..n + 1 /\ IsRest(t, k)
      BY <2>2 DEF t, k
    <3>2. /\ k > n => t = <<>>
          /\ k <= n => t # <<>> /\ t[1] = raw[k] /\ IsRest(Tail(t), k + 1)
      BY <1>1, <3>1, RestTail
    <3> QED
      BY <3>2 DEF t, k
  <2>4. CASE ~StartsWith(Tail(lineEnd), "\n")
    <3>1. e \in 1..n /\ (e = n \/ e + 1 <= n)
      BY <1>1, <1>6, <1>10
    <3>2. e + 1 <= n => raw[e + 1] # "\n"
      BY <2>3, <2>4, Zenon DEF StartsWith
    <3>3. HasBareReturn
      BY <1>10, <3>1, <3>2 DEF HasBareReturn
    <3> QED
      BY <1>4, <2>1, <2>4, <3>3
  <2>5. CASE StartsWith(Tail(lineEnd), "\n")
    <3>1. e \in 1..n /\ e < n /\ e + 1 <= n /\ raw[e + 1] = "\n" /\ IsRest(after, (e + 1) + 1)
      <4>1. Tail(lineEnd) # <<>> /\ Tail(lineEnd)[1] = "\n"
        BY <2>5 DEF StartsWith
      <4>2. e + 1 \in Int /\ ~(e + 1 > n) /\ e + 1 <= n /\ e \in 1..n /\ e < n
        BY <1>1, <1>6, <1>10, <2>3, <4>1
      <4> QED
        BY <2>1, <2>3, <4>1, <4>2, Zenon
    <3>2. /\ output' = u \o (IF IsFolded(after) THEN <<>> ELSE <<"\n">>) /\ input' = after
          /\ phase' = IF after = <<>> THEN "start" ELSE "assemble"
      BY <1>4, <2>1, <2>5 DEF u
    <3> HIDE DEF after
    <3> DEFINE k == e - 1
               c == e + 1
    <3>3. k \in Nat /\ k + 1 = e /\ c - 1 = e /\ c \in 1..n /\ c \in 0..n
      BY <1>1, <3>1
    <3>4. Unfolds(u, k) /\ NoBareTo(k)
      BY <1>5
    <3>5. raw[c] = "\n" /\ IsRest(after, c + 1)
      BY <3>1
    <3> HIDE DEF k, c
    <3>6. ~IsKept(k + 1)
      BY <1>10, <3>3 DEF IsKept
    <3>7. Unfolds(u, k + 1)
      BY <3>3, <3>4, <3>6, UnfoldNothing
    <3>8. NoBareTo(e)
      <4>1. \A i \in 1..e : i \in 1..k \/ i = e
        BY <3>1, <3>3
      <4> QED
        BY <3>1, <3>4, <4>1 DEF NoBareTo
    <3>9. /\ IsText(output') /\ NoBareTo(c) /\ Unfolds(output', c) /\ IsRest(input', c + 1)
          /\ phase' = "assemble" \/ (phase' = "start" /\ c = n)
      BY <1>7, <3>2, <3>3, <3>5, <3>7, <3>8 DEF after
    <3> QED
      BY <3>3, <3>9
  <2> QED
    BY <2>4, <2>5
<1> QED
  BY <1>1, <1>3, <1>8, <1>9, <1>10

\* What is said of the text stays true while the text and what has been
\* assembled stay as they are.
LEMMA SameText ==
  ASSUME raw' = raw, output' = output, ParserInv,
         \/ phase' = phase /\ phase # "assemble" /\ phase # "receive" /\ result' = result
         \/ phase \in {"start", "headers"} /\ phase' \in {"headers", "done"}
  PROVE  ParserInv'
<1>1. /\ IsText(raw)' /\ IsText(output)'
      /\ phase' \in {"receive", "assemble", "start", "headers", "done"}
      /\ phase' # "receive" /\ phase' # "assemble"
      /\ phase \in {"start", "headers", "done"}
  BY DEF ParserInv, IsText
<1>2. HasBareReturn' <=> HasBareReturn
  BY DEF HasBareReturn
<1>3. Unfolds(output, Len(raw)) => Unfolds(output, Len(raw))'
  BY DEF Unfolds, Kept
<1>4. phase' \in {"start", "headers"} => ~HasBareReturn'
  BY <1>2 DEF ParserInv
<1>5. UnfoldsLines'
  <2>1. CASE HasBareReturn
    <3>1. phase' = phase /\ result' = result
      BY <2>1 DEF ParserInv
    <3> QED
      BY <1>1, <1>2, <2>1, <3>1 DEF ParserInv, UnfoldsLines, Wrapped
  <2>2. CASE ~HasBareReturn
    BY <1>1, <1>2, <1>3, <2>2 DEF ParserInv, UnfoldsLines
  <2> QED
    BY <2>1, <2>2
<1> QED
  BY <1>1, <1>4, <1>5 DEF ParserInv

\* A round of the loop of AssembleRawHeaders keeps the invariant.
LEMMA AssembleLineKeeps ==
  ASSUME ParserInv, AssembleLine
  PROVE  ParserInv'
<1>1. raw' = raw /\ IsText(raw) /\ IsText(output) /\ phase = "assemble"
  BY DEF ParserInv, AssembleLine
<1>2. IsText(raw)' /\ (HasBareReturn' <=> HasBareReturn)
  BY <1>1 DEF IsText, HasBareReturn
<1>3. CASE /\ phase' = "done" /\ result' = Wrapped("invalid_line_break")
           /\ UNCHANGED output /\ HasBareReturn
  <2>1. UnfoldsLines'
    BY <1>2, <1>3 DEF UnfoldsLines, Wrapped
  <2>2. IsText(output)'
    BY <1>1, <1>3 DEF IsText
  <2> QED
    BY <1>2, <1>3, <2>1, <2>2 DEF ParserInv
<1>4. ASSUME NEW c \in 0..Len(raw), IsText(output'), NoBareTo(c), Unfolds(output', c),
             IsRest(input', c + 1),
             phase' = "assemble" \/ (phase' = "start" /\ c = Len(raw))
      PROVE  ParserInv'
  <2>1. NoBareTo(c)' /\ Unfolds(output, c)' /\ IsRest(input, c + 1)' /\ IsText(output)'
    <3>1. NoBareTo(c)'
      BY <1>1, <1>4 DEF NoBareTo
    <3>2. Unfolds(output, c)'
      BY <1>1, <1>4 DEF Unfolds, Kept
    <3>3. IsRest(input, c + 1)'
      BY <1>1, <1>4 DEF IsRest, IsLine, IsText
    <3>4. IsText(output)'
      BY <1>4 DEF IsText
    <3> QED
      BY <3>1, <3>2, <3>3, <3>4
  <2>2. CASE phase' = "assemble"
    <3>1. c \in 0..Len(raw')
      BY <1>1, <1>4
    <3> QED
      BY <1>2, <2>1, <2>2, <3>1 DEF ParserInv, AssembledTo, UnfoldsLines
  <2>3. CASE phase' = "start" /\ c = Len(raw)
    <3>1. ~HasBareReturn'
      BY <1>1, <1>2, <1>4, <2>3, AllAssembled
    <3>2. Unfolds(output, Len(raw))'
      BY <1>1, <2>1, <2>3
    <3> QED
      BY <1>2, <2>1, <2>3, <3>1, <3>2 DEF ParserInv, UnfoldsLines
  <2> QED
    BY <1>4, <2>2, <2>3
<1> QED
  BY <1>3, <1>4, AssembleLineStep

\* The text is that of the pieces, and nothing of it has been unfolded when
\* it is received.
LEMMA ReceiveKeeps ==
  ASSUME ParserInv, Receive
  PROVE  ParserInv'
<1>1. /\ raw' = raw /\ IsText(raw) /\ input' = raw /\ output' = <<>>
      /\ phase' = "assemble"
  BY DEF ParserInv, Receive
<1>2. IsText(raw)' /\ IsText(output)'
  BY <1>1 DEF IsText
<1>3. Len(raw') \in Nat /\ 0 \in 0..Len(raw')
  BY <1>2 DEF IsText
<1>4. AssembledTo(0)'
  <2>1. NoBareTo(0)'
    BY DEF NoBareTo
  <2>2. Kept(0)' = {}
    BY DEF Kept
  <2>3. Unfolds(output, 0)'
    <3>1. Cardinality({}) = 0
      BY FS_EmptySet
    <3> QED
      BY <1>1, <2>2, <3>1 DEF Unfolds
  <2>4. IsRest(input, 0 + 1)'
    <3>1. /\ IsText(input') /\ Len(input') = Len(raw') - ((0 + 1) - 1)
          /\ \A k \in 1..Len(raw') - ((0 + 1) - 1) : input'[k] = raw'[k + ((0 + 1) - 1)]
      BY <1>1, <1>3
    <3> QED
      BY <3>1 DEF IsRest, IsLine, IsText
  <2> QED
    BY <2>1, <2>3, <2>4 DEF AssembledTo
<1> QED
  BY <1>1, <1>2, <1>3, <1>4 DEF ParserInv, UnfoldsLines

\* The invariant holds from the start, and every step of Parse keeps it.
LEMMA ParserStarts == Init => ParserInv
<1> SUFFICES ASSUME Init PROVE ParserInv
  OBVIOUS
<1>1. IsText(raw)
  BY TextsAssumption DEF Init, IsText
<1>2. IsText(output) /\ output = <<>> /\ phase = "receive"
  BY DEF Init, IsText
<1> QED
  BY <1>1, <1>2 DEF ParserInv, UnfoldsLines

LEMMA ParserSteps == ParserInv /\ [Next]_vars => ParserInv'
<1> SUFFICES ASSUME ParserInv, [Next]_vars PROVE ParserInv'
  OBVIOUS
<1>1. ASSUME NEW p \in Pieces, Write(p) PROVE ParserInv'
  <2>1. /\ IsText(raw) /\ raw' = raw \o p.text
        /\ output' = output /\ output = <<>> /\ phase' = phase /\ phase = "receive"
    BY <1>1 DEF ParserInv, Write
  <2>2. IsText(p.text)
    BY <1>1, TextsAssumption DEF IsText
  <2>3. IsText(raw)' /\ IsText(output)'
    BY <2>1, <2>2 DEF IsText
  <2> QED
    BY <2>1, <2>3 DEF ParserInv, UnfoldsLines
<1>2. CASE Receive
  BY <1>2, ReceiveKeeps
<1>3. CASE AssembleLine
  BY <1>3, AssembleLineKeeps
<1>4. CASE ParseStartLine
  <2>1. /\ raw' = raw /\ output' = output /\ phase = "start"
        /\ phase' \in {"headers", "done"}
    BY <1>4 DEF ParseStartLine, Return
  <2> QED
    BY <2>1, SameText
<1>5. CASE SkipLine
  <2>1. raw' = raw /\ output' = output /\ phase = "headers" /\ phase' = "headers"
    BY <1>5 DEF SkipLine
  <2> QED
    BY <2>1, SameText
<1>6. CASE PutHeader
  <2>1. /\ raw' = raw /\ output' = output /\ phase = "headers"
        /\ phase' \in {"headers", "done"}
    BY <1>6 DEF PutHeader, Put, Return
  <2> QED
    BY <2>1, SameText
<1>7. CASE Finish
  <2>1. raw' = raw /\ output' = output /\ phase = "headers" /\ phase' = "done"
    BY <1>7 DEF Finish, Return
  <2> QED
    BY <2>1, SameText
<1>8. CASE UNCHANGED vars \/ Done
  <2>1. UNCHANGED vars
    BY <1>8 DEF Done
  <2>2. CASE phase = "assemble"
    <3>1. PICK m \in 0..Len(raw) : AssembledTo(m)
      BY <2>2 DEF ParserInv
    <3>2. AssembledTo(m)' /\ m \in 0..Len(raw')
      BY <2>1, <3>1 DEF vars, AssembledTo, IsRest, IsLine, IsText, NoBareTo, Unfolds, Kept
    <3>3. IsText(raw)' /\ IsText(output)' /\ phase' = "assemble"
      BY <2>1, <2>2 DEF ParserInv, IsText, vars
    <3> QED
      BY <3>2, <3>3 DEF ParserInv, UnfoldsLines
  <2>3. CASE phase = "receive"
    <3>1. /\ IsText(raw)' /\ IsText(output)' /\ phase' = "receive"
          /\ output' = <<>>
      BY <2>1, <2>3 DEF ParserInv, IsText, vars
    <3> QED
      BY <3>1 DEF ParserInv, UnfoldsLines
  <2>4. CASE phase # "assemble" /\ phase # "receive"
    BY <2>1, <2>4, SameText DEF vars
  <2> QED
    BY <2>2, <2>3, <2>4
<1> QED
  BY <1>1, <1>2, <1>3, <1>4, <1>5, <1>6, <1>7, <1>8 DEF Next, Step

\* AssembleRawHeaders keeps every symbol of every line, joins exactly the
\* continuation lines and refuses exactly the texts with a bare carriage
\* return, on every text that can be written with the pieces, however many.
THEOREM AnyTextUnfolds == Spec => []UnfoldsLines
<1>1. ParserInv => UnfoldsLines
  BY DEF ParserInv
<1> QED
  BY <1>1, ParserStarts, ParserSteps, PTL DEF Spec

----------------------------------------------------------------------------
(* The lines that are found in a text *)

\* The position after a token, counted from where the token starts: f says
\* for each position where its token ends, and no mark quotes.
IsEnds(f, s, C) ==
  f = [i \in 1..Len(s) + 2 |->
         IF i > Len(s) THEN Len(s) + 1 ELSE IF s[i] \in C THEN i ELSE f[i + 1]]

\* The lists of tokens from each position on: g leads from the start of a
\* token to that of the next one.
IsChain(f, n, pre, g) ==
  f = [i \in 1..n + 2 |-> IF i > n THEN <<>> ELSE pre[i] \o f[g[i]]]

\* A token ends at the next delimiter, or with the text.
LEMMA EndsExist ==
  ASSUME NEW S, NEW s \in Seq(S), NEW C
  PROVE  \E f : IsEnds(f, s, C)
<1> DEFINE n == Len(s)
           T == {j \in Nat : j > n \/ s[j] \in C}
           f == [i \in 1..n + 2 |->
                   IF i > n THEN n + 1 ELSE CHOOSE j \in i..n + 1 : FirstIn(T, i, j)]
<1>1. n \in Nat
  OBVIOUS
<1>2. \A i \in 1..n + 2 :
        f[i] = IF i > n THEN n + 1 ELSE CHOOSE j \in i..n + 1 : FirstIn(T, i, j)
  <2> HIDE DEF T, n
  <2> QED
    OBVIOUS
<1>3. ASSUME NEW i \in 1..n + 2
      PROVE  f[i] = IF i > n THEN n + 1 ELSE IF s[i] \in C THEN i ELSE f[i + 1]
  <2>1. CASE i > n
    BY <2>1
  <2>2. CASE i <= n
    <3>1. i \in Nat /\ n + 1 \in Nat /\ i <= n + 1 /\ n + 1 \in T
      BY <1>1, <2>2
    <3>2. \E j \in i..n + 1 : FirstIn(T, i, j)
      <4> HIDE DEF T, n
      <4> QED
        BY <3>1, FirstExists
    <3>3. f[i] = CHOOSE j \in i..n + 1 : FirstIn(T, i, j)
      <4>1. ~(i > n)
        BY <1>1, <2>2
      <4> HIDE DEF f, T, n
      <4> QED
        BY <1>2, <4>1, Zenon
    <3> DEFINE d == CHOOSE j \in i..n + 1 : FirstIn(T, i, j)
    <3>4. d \in i..n + 1 /\ FirstIn(T, i, d)
      <4> HIDE DEF T, n
      <4> QED
        BY <3>2
    <3> HIDE DEF d
    <3>5. CASE s[i] \in C
      <4>1. i \in T
        BY <3>1, <3>5
      <4>2. ~(i < d)
        BY <1>1, <3>1, <3>4, <4>1 DEF FirstIn
      <4>3. d = i
        BY <1>1, <3>1, <3>4, <4>2
      <4> HIDE DEF f, T
      <4> QED
        BY <2>2, <3>3, <3>5, <4>3 DEF d
    <3>6. CASE s[i] \notin C
      <4>1. i \notin T
        BY <2>2, <3>1, <3>6
      <4>2. d \in i + 1..n + 1 /\ d \in T /\ \A k \in i + 1..d - 1 : k \notin T
        BY <1>1, <3>1, <3>4, <4>1 DEF FirstIn
      <4>3. f[i + 1] = d
        <5>1. CASE i + 1 > n
          <6>1. f[i + 1] = n + 1 /\ d = n + 1
            BY <1>1, <2>2, <3>1, <4>2, <5>1
          <6> HIDE DEF f
          <6> QED
            BY <6>1
        <5>2. CASE i + 1 <= n
          <6>1. f[i + 1] = CHOOSE j \in i + 1..n + 1 : FirstIn(T, i + 1, j)
            <7>1. i + 1 \in 1..n + 2 /\ ~(i + 1 > n)
              BY <1>1, <3>1, <5>2
            <7> HIDE DEF f, T, n
            <7> QED
              BY <1>2, <7>1, Zenon
          <6>2. \A j \in i + 1..n + 1 : FirstIn(T, i + 1, j) => j = d
            <7> HIDE DEF T
            <7> QED
              BY <1>1, <3>1, <4>2 DEF FirstIn
          <6>3. FirstIn(T, i + 1, d)
            BY <4>2 DEF FirstIn
          <6> HIDE DEF f, T, n
          <6> QED
            BY <4>2, <6>1, <6>2, <6>3
        <5> HIDE DEF f
        <5> QED
          BY <1>1, <3>1, <5>1, <5>2
      <4> HIDE DEF f, T
      <4> QED
        BY <2>2, <3>3, <3>6, <4>3 DEF d
    <3> QED
      BY <3>5, <3>6
  <2> HIDE DEF f
  <2> QED
    BY <1>1, <2>1, <2>2
<1>4. f = [i \in 1..n + 2 |-> f[i]]
  OBVIOUS
<1> DEFINE h == [i \in 1..n + 2 |-> IF i > n THEN n + 1 ELSE IF s[i] \in C THEN i ELSE f[i + 1]]
<1>5. f = h
  <2> HIDE DEF f
  <2> QED
    BY <1>3, <1>4
<1> HIDE DEF f
<1>6. IsEnds(f, s, C)
  BY <1>5 DEF IsEnds
<1> QED
  BY <1>6

\* A token ends where it starts or later, and within the text.
LEMMA EndsFacts ==
  ASSUME NEW S, NEW s \in Seq(S), NEW C, NEW f, IsEnds(f, s, C), NEW i \in 1..Len(s) + 1
  PROVE  f[i] \in i..Len(s) + 1
<1> DEFINE n == Len(s)
           B == {k \in Nat : k <= n /\ f[n + 1 - k] \notin n + 1 - k..n + 1}
<1>1. n \in Nat
  OBVIOUS
<1>2. \A j \in 1..n + 2 : f[j] = IF j > n THEN n + 1 ELSE IF s[j] \in C THEN j ELSE f[j + 1]
  BY DEF IsEnds
<1>3. B = {}
  <2> SUFFICES ASSUME B # {} PROVE FALSE
    OBVIOUS
  <2>1. PICK k \in B : \A y \in B : ~(y < k)
    <3>1. B \subseteq Nat
      OBVIOUS
    <3> HIDE DEF B
    <3> QED
      BY <3>1, LeastOf
  <2>2. k \in Nat /\ k <= n /\ f[n + 1 - k] \notin n + 1 - k..n + 1
    OBVIOUS
  <2>3. n + 1 - k \in 1..n + 2
    BY <1>1, <2>2
  <2>4. k # 0
    BY <1>1, <1>2, <2>2, <2>3
  <2>5. k - 1 \in Nat /\ k - 1 <= n /\ k - 1 < k
    BY <1>1, <2>2, <2>4
  <2>6. k - 1 \notin B
    <3> HIDE DEF B
    <3> QED
      BY <2>1, <2>5
  <2>7. f[n + 1 - (k - 1)] \in n + 1 - (k - 1)..n + 1
    BY <2>5, <2>6
  <2>8. n + 1 - (k - 1) = (n + 1 - k) + 1 /\ n + 1 - k <= n
    BY <1>1, <2>2, <2>4
  <2>9. f[n + 1 - k] = n + 1 - k \/ f[n + 1 - k] = f[(n + 1 - k) + 1]
    BY <1>1, <1>2, <2>3, <2>8
  <2> QED
    BY <1>1, <2>2, <2>3, <2>7, <2>8, <2>9
<1>4. n + 1 - i \in Nat /\ n + 1 - i <= n /\ n + 1 - (n + 1 - i) = i
  BY <1>1
<1>5. n + 1 - i \notin B
  BY <1>3
<1> QED
  BY <1>4, <1>5

\* Without quotes, TokenEnd is such a function.
LEMMA TokenEndIn ==
  ASSUME NEW S, NEW s \in Seq(S), NEW C, NEW i \in 1..Len(s) + 1
  PROVE  TokenEnd(s, i, C, {}) \in i..Len(s) + 1
<1> DEFINE f == CHOOSE end : IsEnds(end, s, C)
<1>1. IsEnds(f, s, C)
  BY EndsExist
<1>2. TokenEnd(s, i, C, {}) = f[i]
  BY DEF TokenEnd, IsEnds
<1> HIDE DEF f
<1> QED
  BY <1>1, <1>2, EndsFacts
\* A chain that always leads on can be followed from every position.
LEMMA ChainExists ==
  ASSUME NEW n \in Nat, NEW pre, NEW g, \A i \in 1..n : g[i] \in i + 1..n + 2
  PROVE  \E f : IsChain(f, n, pre, g)
<1> DEFINE Link(f, i) == IF i > n THEN <<>> ELSE pre[i] \o f[g[i]]
           Good(f, a) == \E h : h = f /\ f = [i \in a..n + 2 |-> Link(f, i)]
           B == {k \in Nat : k <= n + 1 /\ ~\E f : Good(f, n + 2 - k)}
<1>1. B = {}
  <2> SUFFICES ASSUME B # {} PROVE FALSE
    OBVIOUS
  <2>1. PICK k \in B : \A y \in B : ~(y < k)
    <3>1. B \subseteq Nat
      OBVIOUS
    <3> HIDE DEF B
    <3> QED
      BY <3>1, LeastOf
  <2>2. k \in Nat /\ k <= n + 1 /\ ~\E f : Good(f, n + 2 - k)
    OBVIOUS
  <2> DEFINE a == n + 2 - k
  <2>3. a \in 1..n + 2
    BY <2>2
  <2>4. CASE k = 0
    <3> DEFINE f == [i \in n + 2..n + 2 |-> <<>>]
    <3>1. \A i \in n + 2..n + 2 : Link(f, i) = <<>>
      OBVIOUS
    <3>2. f = [i \in n + 2..n + 2 |-> Link(f, i)]
      <4> HIDE DEF Link
      <4> QED
        BY <3>1
    <3>3. Good(f, n + 2 - k)
      <4>1. n + 2 - k = n + 2
        BY <2>4
      <4> HIDE DEF f, Link
      <4> QED
        BY <3>2, <4>1
    <3> QED
      BY <2>2, <3>3
  <2>5. CASE k # 0
    <3>1. k - 1 \in Nat /\ k - 1 <= n + 1 /\ k - 1 < k /\ n + 2 - (k - 1) = a + 1
      BY <2>2, <2>5
    <3>2. k - 1 \notin B
      <4> HIDE DEF B
      <4> QED
        BY <2>1, <3>1
    <3>3. \E f : Good(f, a + 1)
      <4>1. \E f : Good(f, n + 2 - (k - 1))
        <5> HIDE DEF Good
        <5> QED
          BY <3>1, <3>2
      <4> HIDE DEF Good, a
      <4> QED
        BY <3>1, <4>1, Zenon
    <3>4. PICK f : f = [i \in a + 1..n + 2 |-> Link(f, i)]
      <4> HIDE DEF Link
      <4> QED
        BY <3>3
    <3> DEFINE h == [i \in a..n + 2 |-> IF i = a THEN Link(f, a) ELSE f[i]]
    <3>5. ASSUME NEW i \in a..n + 2
          PROVE  h[i] = Link(h, i)
      <4>1. i \in 1..n + 2 /\ (i <= n => g[i] \in a + 1..n + 2)
        BY <2>3, <3>5
      <4>2. i <= n => h[g[i]] = f[g[i]]
        BY <2>3, <4>1
      <4>3. Link(h, i) = Link(f, i)
        <5> HIDE DEF h
        <5> QED
          BY <4>1, <4>2
      <4>4. i # a => i \in a + 1..n + 2
        BY <2>3, <3>5
      <4>5. i # a => f[i] = Link(f, i)
        <5> HIDE DEF Link
        <5> QED
          BY <3>4, <4>4
      <4>6. h[i] = IF i = a THEN Link(f, a) ELSE f[i]
        <5> HIDE DEF Link
        <5> QED
          OBVIOUS
      <4> HIDE DEF Link, h
      <4> QED
        BY <4>3, <4>5, <4>6
    <3>6. h = [i \in a..n + 2 |-> Link(h, i)]
      <4>1. h = [i \in a..n + 2 |-> h[i]]
        <5> HIDE DEF Link
        <5> QED
          OBVIOUS
      <4> HIDE DEF Link, h
      <4> QED
        BY <3>5, <4>1
    <3>7. Good(h, n + 2 - k)
      <4> HIDE DEF h, Link
      <4> QED
        BY <3>6
    <3> QED
      BY <2>2, <3>7
  <2> QED
    BY <2>4, <2>5
<1>2. n + 1 \in Nat /\ n + 1 <= n + 1 /\ n + 2 - (n + 1) = 1
  OBVIOUS
<1>3. \E f : Good(f, n + 2 - (n + 1))
  <2>1. n + 1 \notin B
    BY <1>1
  <2> HIDE DEF Good
  <2> QED
    BY <1>2, <2>1
<1>4. \E f : Good(f, 1)
  <2> HIDE DEF Good
  <2> QED
    BY <1>2, <1>3
<1> QED
  BY <1>4 DEF IsChain

\* A chain whose links have at most one token each has no more tokens than
\* there are positions.
LEMMA ChainFacts ==
  ASSUME NEW n \in Nat, NEW pre, NEW g, \A i \in 1..n : g[i] \in i + 1..n + 2,
         NEW S, \A i \in 1..n : pre[i] \in Seq(S) /\ Len(pre[i]) <= 1,
         NEW f, IsChain(f, n, pre, g)
  PROVE  f[1] \in Seq(S) /\ Len(f[1]) <= n
<1> DEFINE Short(i) == f[i] \in Seq(S) /\ (f[i] = <<>> \/ Len(f[i]) <= n + 1 - i)
           B == {k \in Nat : k <= n + 1 /\ ~Short(n + 2 - k)}
<1>1. \A i \in 1..n + 2 : f[i] = IF i > n THEN <<>> ELSE pre[i] \o f[g[i]]
  BY DEF IsChain
<1>2. B = {}
  <2> SUFFICES ASSUME B # {} PROVE FALSE
    OBVIOUS
  <2>1. PICK k \in B : \A y \in B : ~(y < k)
    <3>1. B \subseteq Nat
      OBVIOUS
    <3> HIDE DEF B
    <3> QED
      BY <3>1, LeastOf
  <2> DEFINE a == n + 2 - k
  <2>2. k \in Nat /\ k <= n + 1 /\ ~Short(a) /\ a \in 1..n + 2
    OBVIOUS
  <2> HIDE DEF B
  <2>3. CASE a > n
    <3>1. f[a] = <<>>
      BY <1>1, <2>2, <2>3
    <3> HIDE DEF a
    <3> QED
      BY <2>2, <3>1
  <2>4. CASE a <= n
    <3> DEFINE b == g[a]
    <3>1. a \in 1..n /\ b \in a + 1..n + 2
      BY <2>2, <2>4
    <3>2. n + 2 - b \in Nat /\ n + 2 - b <= n + 1 /\ n + 2 - b < k /\ n + 2 - (n + 2 - b) = b
      <4> HIDE DEF b
      <4> QED
        BY <2>2, <3>1
    <3>3. Short(b)
      <4>1. n + 2 - b \notin B
        <5> HIDE DEF b, a
        <5> QED
          BY <2>1, <3>2
      <4>2. Short(n + 2 - (n + 2 - b))
        <5> HIDE DEF b, Short, a
        <5> QED
          BY <3>2, <4>1 DEF B
      <4> HIDE DEF b, a, Short
      <4> QED
        BY <3>2, <4>2
    <3>4. f[a] = pre[a] \o f[b] /\ pre[a] \in Seq(S) /\ Len(pre[a]) <= 1
      <4>1. ~(a > n)
        BY <2>4, <3>1
      <4> HIDE DEF a
      <4>2. pre[a] \in Seq(S) /\ Len(pre[a]) <= 1
        BY <3>1
      <4>3. f[a] = pre[a] \o f[g[a]]
        BY <1>1, <2>2, <4>1, Zenon
      <4> QED
        BY <4>2, <4>3
    <3> HIDE DEF a, b
    <3>5. f[a] \in Seq(S) /\ Len(f[a]) = Len(pre[a]) + Len(f[b])
      BY <3>3, <3>4
    <3>6. Len(f[b]) \in Nat /\ Len(pre[a]) \in Nat /\ Len(f[b]) <= n - a
      BY <3>1, <3>3, <3>4
    <3>7. Len(f[a]) <= n + 1 - a
      <4> DEFINE p == Len(pre[a])
                 q == Len(f[b])
      <4>1. p \in Nat /\ q \in Nat /\ p <= 1 /\ q <= n - a /\ Len(f[a]) = p + q
        BY <3>4, <3>5, <3>6, Zenon
      <4> HIDE DEF p, q
      <4> QED
        BY <3>1, <4>1
    <3> QED
      BY <2>2, <3>5, <3>7
  <2> QED
    BY <2>2, <2>3, <2>4
<1>3. n + 1 \in Nat /\ n + 1 <= n + 1 /\ n + 2 - (n + 1) = 1
  OBVIOUS
<1>4. Short(n + 2 - (n + 1))
  <2>1. n + 1 \notin B
    BY <1>2
  <2> HIDE DEF Short
  <2> QED
    BY <1>3, <2>1
<1>5. Short(1)
  <2> HIDE DEF Short
  <2> QED
    BY <1>3, <1>4
<1> QED
  BY <1>5

\* There are no more lines in a text than symbols.
LEMMA TokensFacts ==
  ASSUME NEW S, NEW s \in Seq(S), NEW C
  PROVE  Tokens(s, C, {}) \in Seq(Seq(S)) /\ Len(Tokens(s, C, {})) <= Len(s)
<1> DEFINE n == Len(s)
           e(i) == TokenEnd(s, i, C, {})
           pre == [i \in 1..n |-> IF e(i) = i THEN <<>> ELSE <<SubSeq(s, i, e(i) - 1)>>]
           g == [i \in 1..n |-> e(i) + 1]
           f == CHOOSE h : IsChain(h, n, pre, g)
<1>1. n \in Nat
  OBVIOUS
<1>2. ASSUME NEW i \in 1..n PROVE e(i) \in i..n + 1
  <2>1. i \in 1..Len(s) + 1
    OBVIOUS
  <2> QED
    BY <2>1, TokenEndIn
<1>3. \A i \in 1..n : g[i] \in i + 1..n + 2
  <2> HIDE DEF e
  <2> QED
    BY <1>1, <1>2
<1>4. \A i \in 1..n : pre[i] \in Seq(Seq(S)) /\ Len(pre[i]) <= 1
  <2> SUFFICES ASSUME NEW i \in 1..n PROVE pre[i] \in Seq(Seq(S)) /\ Len(pre[i]) <= 1
    OBVIOUS
  <2> HIDE DEF e
  <2>1. pre[i] = IF e(i) = i THEN <<>> ELSE <<SubSeq(s, i, e(i) - 1)>>
    OBVIOUS
  <2>2. SubSeq(s, i, e(i) - 1) \in Seq(S)
    BY <1>1, <1>2
  <2> QED
    BY <2>1, <2>2
<1>5. IsChain(f, n, pre, g)
  <2> HIDE DEF pre, g
  <2> QED
    BY <1>1, <1>3, ChainExists
<1>6. Tokens(s, C, {}) = f[1]
  <2> DEFINE cut(h, i, end) ==
               (IF end = i THEN <<>> ELSE <<SubSeq(s, i, end - 1)>>) \o h[end + 1]
             Q(h) == h = [i \in 1..n + 2 |-> IF i > n THEN <<>> ELSE cut(h, i, e(i))]
  <2>1. Tokens(s, C, {}) = (CHOOSE h : Q(h))[1]
    BY DEF Tokens
  <2>2. ASSUME NEW h PROVE Q(h) <=> IsChain(h, n, pre, g)
    <3>1. ASSUME NEW i \in 1..n + 2, ~(i > n)
          PROVE  cut(h, i, e(i)) = pre[i] \o h[g[i]]
      <4>1. i \in 1..n
        BY <1>1, <3>1
      <4> HIDE DEF e
      <4> QED
        BY <4>1
    <3> HIDE DEF cut, pre, g, e
    <3> QED
      BY <3>1 DEF IsChain
  <2>3. f = CHOOSE h : Q(h)
    <3> HIDE DEF Q, pre, g
    <3> QED
      BY <2>2
  <2> HIDE DEF Q, f
  <2> QED
    BY <2>1, <2>3
<1> HIDE DEF f, pre, g
<1> QED
  BY <1>1, <1>3, <1>4, <1>5, <1>6, ChainFacts
----------------------------------------------------------------------------
(* Each round of a loop of Parse consumes some of the text. *)

LinesOK == phase = "headers" => lines \in Seq(Seq(Characters))

\* What is left of a text after a line and its line break is shorter, unless
\* nothing is left.
LEMMA RestIsShorter ==
  ASSUME ParserInv, phase = "assemble"
  PROVE  /\ input \in Seq(Characters)
         /\ LET after == AfterBreak(SkipTo(input, {"\r", "\n"}))
            IN \/ after = <<>>
               \/ after \in Seq(Characters) /\ Len(after) < Len(input)
               \/ StartsWith(SkipTo(input, {"\r", "\n"}), "\r")
                  /\ ~StartsWith(Tail(SkipTo(input, {"\r", "\n"})), "\n")
<1> DEFINE C == {"\r", "\n"}
           lineEnd == SkipTo(input, C)
<1>1. IsText(raw) /\ Len(raw) \in Nat
  BY DEF ParserInv, IsText
<1>2. PICK m \in 0..Len(raw) : AssembledTo(m)
  BY DEF ParserInv
<1>3. PICK e \in m + 1..Len(raw) + 1 : IsRest(lineEnd, e)
  BY <1>1, <1>2, NextLine DEF AssembledTo
<1>4. input \in Seq(Characters) /\ Len(input) = Len(raw) - m
  <2>1. IsRest(input, m + 1)
    BY <1>2 DEF AssembledTo
  <2>2. input \in Seq(Characters) /\ Len(input) = Len(raw) - ((m + 1) - 1)
    BY <2>1 DEF IsRest, IsLine, IsText
  <2> QED
    BY <1>1, <2>2
<1>5. lineEnd \in Seq(Characters) /\ Len(lineEnd) = Len(raw) - (e - 1)
  BY <1>3 DEF IsRest, IsLine, IsText
<1> HIDE DEF lineEnd
<1>6. Len(lineEnd) \in Nat /\ Len(lineEnd) <= Len(input)
  BY <1>1, <1>4, <1>5
<1>7. CASE lineEnd = <<>>
  <2>1. AfterBreak(lineEnd) = <<>>
    BY <1>7 DEF AfterBreak, StartsWith, SkipOne
  <2> QED
    BY <1>4, <2>1 DEF lineEnd
<1>8. CASE lineEnd # <<>>
  <2>1. Tail(lineEnd) \in Seq(Characters) /\ Len(Tail(lineEnd)) < Len(input)
    BY <1>4, <1>5, <1>6, <1>8
  <2>2. CASE ~StartsWith(lineEnd, "\r")
    <3>1. AfterBreak(lineEnd) = Tail(lineEnd)
      BY <1>8, <2>2 DEF AfterBreak, SkipOne
    <3> QED
      BY <1>4, <2>1, <3>1 DEF lineEnd
  <2>3. CASE StartsWith(lineEnd, "\r") /\ StartsWith(Tail(lineEnd), "\n")
    <3>1. AfterBreak(lineEnd) = Tail(Tail(lineEnd))
      BY <2>3 DEF AfterBreak
    <3>2. Tail(lineEnd) # <<>>
      BY <2>3 DEF StartsWith
    <3>3. Tail(Tail(lineEnd)) \in Seq(Characters) /\ Len(Tail(Tail(lineEnd))) < Len(input)
      <4> DEFINE t == Tail(lineEnd)
      <4>1. t \in Seq(Characters) /\ Len(t) < Len(input) /\ t # <<>>
        BY <2>1, <3>2
      <4> HIDE DEF t
      <4>2. Tail(t) \in Seq(Characters) /\ Len(Tail(t)) < Len(input)
        BY <1>4, <4>1
      <4> QED
        BY <4>2 DEF t
    <3> QED
      BY <1>4, <3>1, <3>3 DEF lineEnd
  <2>4. CASE StartsWith(lineEnd, "\r") /\ ~StartsWith(Tail(lineEnd), "\n")
    BY <1>4, <2>4 DEF lineEnd
  <2> QED
    BY <2>2, <2>3, <2>4
<1> QED
  BY <1>7, <1>8

\* The unfolded text is no longer than the text.
LEMMA OutputBound ==
  ASSUME ParserInv, phase = "start"
  PROVE  output \in Seq(Characters) /\ Len(output) <= Len(raw) /\ Len(raw) \in Nat
<1>1. output \in Seq(Characters) /\ Len(raw) \in Nat
  BY DEF ParserInv, IsText
<1>2. Len(output) = Cardinality(Kept(Len(raw)))
  BY DEF ParserInv, UnfoldsLines, Unfolds
<1>3. Kept(Len(raw)) \in SUBSET (1..Len(raw))
  BY DEF Kept
<1>4. IsFiniteSet(1..Len(raw)) /\ Cardinality(1..Len(raw)) = Len(raw)
  <2> DEFINE n == Len(raw)
  <2> HIDE DEF n
  <2>1. n \in Nat /\ 1 \in Int /\ n \in Int
    BY <1>1 DEF n
  <2>2. IsFiniteSet(1..n) /\ Cardinality(1..n) = IF 1 > n THEN 0 ELSE n - 1 + 1
    BY <2>1, FS_Interval, Zenon
  <2>3. Cardinality(1..n) = n
    BY <2>1, <2>2
  <2> QED
    BY <2>2, <2>3 DEF n
<1>5. Cardinality(Kept(Len(raw))) <= Cardinality(1..Len(raw))
  BY <1>3, <1>4, FS_Subset
<1> QED
  BY <1>1, <1>2, <1>4, <1>5

\* There are at most as many lines as symbols.
LEMMA LinesBound ==
  ASSUME ParserInv, phase = "start",
         lines' = Tokens(SkipTo(output, {"\r", "\n"}), {"\r", "\n"}, {})
  PROVE  lines' \in Seq(Seq(Characters)) /\ Len(lines') < Len(raw) + 1
<1> DEFINE C == {"\r", "\n"}
           s == SkipTo(output, C)
<1>1. output \in Seq(Characters) /\ Len(output) <= Len(raw) /\ Len(raw) \in Nat
  BY OutputBound
<1>2. s \in Seq(Characters) /\ Len(s) <= Len(output)
  <2>1. PICK i \in 1..Len(output) + 1 : i = FindFirstOf(output, C)
    BY <1>1, FirstOf
  <2>2. s = SubSeq(output, i, Len(output))
    BY <2>1 DEF SkipTo
  <2> HIDE DEF s
  <2> QED
    BY <1>1, <2>1, <2>2
<1> HIDE DEF s, C
<1>3. Tokens(s, C, {}) \in Seq(Seq(Characters)) /\ Len(Tokens(s, C, {})) <= Len(s)
  BY <1>2, TokensFacts
<1>4. lines' = Tokens(s, C, {})
  BY DEF s, C
<1> QED
  BY <1>1, <1>2, <1>3, <1>4

\* An end of Parse leaves nothing to do.
LEMMA EndLeavesNothing ==
  ASSUME phase' = "done"
  PROVE  Left' = -1
BY DEF Left

\* A step of Parse consumes some of what is left.
LEMMA StepConsumes ==
  ASSUME ParserInv, LinesOK, Step
  PROVE  LinesOK' /\ Left' < Left
<1>1. /\ phase = "assemble" => Left = Len(input) + Len(raw) + 2
      /\ phase = "start" => Left = Len(raw) + 1
      /\ phase = "headers" => Left = Len(lines)
  BY DEF Left
<1>2. /\ phase' = "assemble" => Left' = Len(input') + Len(raw') + 2
      /\ phase' = "start" => Left' = Len(raw') + 1
      /\ phase' = "headers" => Left' = Len(lines')
  BY DEF Left
<1>3. Len(raw) \in Nat
  BY DEF ParserInv, IsText
<1>4. phase = "headers" => lines \in Seq(Seq(Characters)) /\ Len(lines) \in Nat
  BY DEF LinesOK
<1>5. CASE AssembleLine
  <2> DEFINE lineEnd == SkipTo(input, {"\r", "\n"})
             after == AfterBreak(lineEnd)
  <2>1. phase = "assemble" /\ raw' = raw
    BY <1>5 DEF AssembleLine
  <2>2. /\ input \in Seq(Characters) /\ Len(input) \in Nat
        /\ \/ after = <<>>
           \/ after \in Seq(Characters) /\ Len(after) < Len(input)
           \/ StartsWith(lineEnd, "\r") /\ ~StartsWith(Tail(lineEnd), "\n")
    BY <2>1, RestIsShorter
  <2>3. IF StartsWith(lineEnd, "\r") /\ ~StartsWith(Tail(lineEnd), "\n")
        THEN phase' = "done"
        ELSE input' = after /\ phase' = IF after = <<>> THEN "start" ELSE "assemble"
    BY <1>5 DEF AssembleLine, Return
  <2> HIDE DEF lineEnd, after
  <2>4. phase' # "headers"
    BY <2>3
  <2>5. CASE phase' = "done"
    BY <1>1, <1>3, <2>1, <2>2, <2>4, <2>5, EndLeavesNothing DEF LinesOK
  <2>6. CASE phase' = "start"
    BY <1>1, <1>2, <1>3, <2>1, <2>2, <2>4, <2>6 DEF LinesOK
  <2>7. CASE phase' = "assemble"
    <3>1. input' = after /\ after \in Seq(Characters) /\ Len(after) < Len(input)
      BY <2>2, <2>3, <2>7
    <3>2. Len(input') \in Nat /\ Len(input') < Len(input)
      BY <3>1
    <3> QED
      BY <1>1, <1>2, <1>3, <2>1, <2>2, <2>4, <2>7, <3>2 DEF LinesOK
  <2> QED
    BY <2>3, <2>5, <2>6, <2>7
<1>6. CASE ParseStartLine
  <2>1. /\ phase = "start" /\ raw' = raw
        /\ \/ phase' = "done"
           \/ /\ phase' = "headers"
              /\ lines' = Tokens(SkipTo(output, {"\r", "\n"}), {"\r", "\n"}, {})
    BY <1>6 DEF ParseStartLine, Return
  <2>2. CASE phase' = "done"
    BY <1>1, <1>3, <2>1, <2>2, EndLeavesNothing DEF LinesOK
  <2>3. CASE phase' = "headers"
    <3>1. lines' \in Seq(Seq(Characters)) /\ Len(lines') < Len(raw) + 1
      BY <2>1, <2>3, LinesBound
    <3> QED
      BY <1>1, <1>2, <2>1, <2>3, <3>1 DEF LinesOK
  <2> QED
    BY <2>1, <2>2, <2>3
<1>7. CASE SkipLine \/ PutHeader
  <2>1. /\ phase = "headers" /\ lines # <<>> /\ lines' = Tail(lines)
        /\ phase' \in {"headers", "done"}
    BY <1>7 DEF SkipLine, PutHeader, Put, Return
  <2>2. lines' \in Seq(Seq(Characters)) /\ Len(lines') < Len(lines)
    BY <1>4, <2>1
  <2>3. CASE phase' = "done"
    BY <1>1, <1>4, <2>1, <2>3, EndLeavesNothing DEF LinesOK
  <2>4. CASE phase' = "headers"
    BY <1>1, <1>2, <2>1, <2>2, <2>4 DEF LinesOK
  <2> QED
    BY <2>1, <2>3, <2>4
<1>8. CASE Finish
  <2>1. phase = "headers" /\ phase' = "done"
    BY <1>8 DEF Finish, Return
  <2> QED
    BY <1>1, <1>4, <2>1, EndLeavesNothing DEF LinesOK
<1> QED
  BY <1>5, <1>6, <1>7, <1>8 DEF Step

\* Each round of a loop of Parse consumes some of the text, whatever the text.
THEOREM ConsumesAnyText == Spec => ConsumesText
<1> DEFINE Consumes == phase # "receive" => Left' < Left
<1>1. Init => LinesOK
  BY DEF Init, LinesOK
<1>2. ParserInv /\ LinesOK /\ [Next]_vars => LinesOK' /\ [Consumes]_vars
  <2> SUFFICES ASSUME ParserInv, LinesOK, [Next]_vars PROVE LinesOK' /\ [Consumes]_vars
    OBVIOUS
  <2>1. CASE \E p \in Pieces : Write(p)
    BY <2>1 DEF Write, LinesOK
  <2>2. CASE Receive
    BY <2>2 DEF Receive, LinesOK
  <2>3. CASE Step
    BY <2>3, StepConsumes
  <2>4. CASE UNCHANGED vars \/ Done
    <3>1. UNCHANGED vars
      BY <2>4 DEF Done
    <3>2. LinesOK'
      BY <3>1 DEF vars, LinesOK
    <3> QED
      BY <3>1, <3>2
  <2> QED
    BY <2>1, <2>2, <2>3, <2>4 DEF Next
<1>3. Spec => [][Consumes]_vars
  <2> HIDE DEF Consumes
  <2> QED
    BY <1>1, <1>2, ParserStarts, ParserSteps, PTL DEF Spec
<1> QED
  BY <1>3 DEF ConsumesText
=============================================================================
