---------------------------- MODULE MCDateParser ----------------------------
EXTENDS DateParser

Moment(y, m, d, h, mi, s) ==
  [Epoch EXCEPT !.year = y, !.month = m - 1, !.mday = d, !.hour = h, !.min = mi, !.sec = s]
Moments ==
  {Moment(1999, 12, 31, 23, 59, 59), Moment(2000, 2, 28, 12, 5, 0),
   Moment(2000, 2, 29, 0, 0, 1), Moment(1995, 3, 1, 4, 1, 33), Moment(1970, 1, 1, 0, 59, 0)}
Extremes ==
  {Moment(9999, 12, 31, 23, 59, 59), Moment(1000, 1, 1, 0, 0, 0), Moment(999, 12, 31, 12, 0, 0),
   Moment(1900, 2, 28, 23, 0, 0), Moment(32767, 12, 31, 20, 0, 0), Moment(0, 1, 1, 1, 0, 0),
   Moment(50, 6, 15, 12, 0, 0)}

Y4(t) == TwoDigits(t.year \div 100) \o TwoDigits(t.year % 100)
Y2(t) == TwoDigits(t.year % 100)
Mon(t) == <<MonthNames[t.month + 1]>>
MM(t) == TwoDigits(t.month + 1)
DD(t) == TwoDigits(t.mday)
Day(t) == <<DayNames[((DayOf(t) + 6) % 7) + 1]>>
H24(t) == TwoDigits(t.hour) \o <<":">> \o TwoDigits(t.min)
H12(t) == Decimal(IF t.hour % 12 = 0 THEN 12 ELSE t.hour % 12) \o <<":">> \o TwoDigits(t.min)
AmPm(t) == IF t.hour < 12 THEN <<"am">> ELSE <<"pm">>
SS(t) == <<":">> \o TwoDigits(t.sec)
sp == <<" ">>
NoSec(t) == [t EXCEPT !.sec = 0]
East(t, minutes) == [t EXCEPT !.gmt_offset = minutes * 60]
Sent(text_, t) == [text |-> text_, meant |-> t]

\* The forms that the comment of the parser lists.
Forms(t) ==
  {Sent(DD(t) \o sp \o Mon(t) \o sp \o Y2(t) \o sp \o H24(t) \o SS(t), t),
   Sent(DD(t) \o sp \o Mon(t) \o sp \o Y2(t) \o sp \o H24(t) \o sp \o <<"GMT">>, NoSec(t)),
   Sent(Day(t) \o <<",", " ">> \o DD(t) \o sp \o Mon(t) \o sp \o Y2(t) \o sp \o H24(t)
        \o sp \o <<"UT">>, NoSec(t)),
   Sent(Day(t) \o sp \o Mon(t) \o sp \o DD(t) \o sp \o H24(t) \o sp \o <<"PDT">> \o sp \o Y4(t),
        [East(NoSec(t), -480) EXCEPT !.dst_offset = 3600]),
   Sent(Day(t) \o sp \o Mon(t) \o sp \o DD(t) \o sp \o H24(t)
        \o <<" ", "+", "0", "1", "3", "0", " ">> \o Y4(t), East(NoSec(t), 90)),
   Sent(Decimal(t.mday) \o sp \o Mon(t) \o sp \o Y4(t) \o sp \o H24(t)
        \o <<"-", "JST", " ", "(">> \o Day(t) \o <<"word", ")">>, East(NoSec(t), 540)),
   Sent(DD(t) \o <<"-">> \o Mon(t) \o <<"-">> \o Y4(t) \o sp \o H24(t) \o SS(t)
        \o <<".", "8", "2">>, [t EXCEPT !.usec = 820000]),
   Sent(DD(t) \o <<"-">> \o Mon(t) \o <<"-">> \o Y4(t) \o sp \o H12(t) \o AmPm(t), NoSec(t)),
   Sent(Day(t) \o <<"word", ",", " ">> \o Mon(t) \o <<"word", " ">> \o DD(t) \o <<",", " ">>
        \o Y4(t) \o sp \o H12(t) \o sp \o AmPm(t), NoSec(t)),
   Sent(MM(t) \o <<"/">> \o DD(t) \o <<"/">> \o Y2(t) \o sp \o H12(t) \o SS(t) \o sp
        \o AmPm(t), t),
   Sent(Y4(t) \o <<"-">> \o MM(t) \o <<"-">> \o DD(t) \o <<"T">> \o H24(t) \o SS(t)
        \o <<".", "3", "4", "2", "1", "5", "6", "7", "Z">>, [t EXCEPT !.usec = 342156])}
  \cup (IF t.mday > 12
          THEN {Sent(DD(t) \o <<"/">> \o MM(t) \o <<"/">> \o Y2(t) \o sp \o H24(t), NoSec(t))}
          ELSE {})
  \cup (IF t.year % 100 \notin 1..31
          THEN {Sent(Y2(t) \o <<"-">> \o MM(t) \o <<"-">> \o DD(t) \o sp \o H24(t) \o SS(t)
                     \o sp \o <<"EDT">>, [East(t, -300) EXCEPT !.dst_offset = 3600])}
          ELSE {})

\* Years that are not of the last century and this.
Far(t) ==
  LET year_ == IF t.year > 9999 THEN Decimal(t.year) ELSE Y4(t)
      at == DD(t) \o sp \o Mon(t) \o sp \o year_ \o sp \o H24(t) \o SS(t)
  IN {Sent(at, t), Sent(at \o <<" ", "-", "0", "8">>, East(t, -480)),
      Sent(at \o <<" ", "GMT", "+", "2">>, East(t, 120))}

\* The tokens of a date in every order.
Orders(t) ==
  LET tokens == <<Day(t), DD(t), Mon(t), Y4(t), H24(t) \o SS(t),
                  <<"-", "0", "8", "0", "0">>>>
      permutations == {p \in [1..6 -> 1..6] : \A i, j \in 1..6 : p[i] = p[j] => i = j}
  IN {Sent(FlattenSeq([i \in 1..6 |-> tokens[p[i]] \o sp]), East(t, -480)) : p \in permutations}

\* Any tokens.
Scraps ==
  {<<"5">>, <<"2", "0", "0", "0">>, <<"2", "3", "4", "5", "6">>, <<"1", "0", ":", "3">>,
   <<"1", "2", "3", ":">>, <<"0", "/", "0", "/", "9">>, <<"3", "0", "-", "1", "3", "-", "1">>,
   <<"-">>, <<"+">>, <<"T">>, <<".">>, <<"Mar">>, <<"JST">>, <<"UT">>, <<" ">>}
Soup == {Sent(FlattenSeq(s), NoMeaning) : s \in UNION {[1..n -> Scraps] : n \in 1..3}}
Long == {Sent(FlattenSeq([i \in 1..10 |-> <<"5", ",">>]), NoMeaning)}

MCDates ==
  UNION {Forms(t) : t \in Moments} \cup UNION {Far(t) : t \in Extremes}
  \cup Orders(Moment(1999, 12, 31, 23, 59, 59)) \cup Soup \cup Long
============================================================================
