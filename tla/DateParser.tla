----------------------------- MODULE DateParser -----------------------------
(* The Date header: PR_ParseTimeStringToExplodedTime of c_src/prtime.cc    *)
(* reads it token by token in whatever order they come, ParseDate of       *)
(* c_src/parser.cc normalizes the result to GMT, and lib/sippet/message.ex *)
(* makes it a NaiveDateTime and writes that when it sends the message on.  *)
(*                                                                         *)
(* A text is a sequence of symbols: a digit, a delimiter, or a word.  The  *)
(* parser looks at three letters of a word in any case, so a word is the   *)
(* name it starts with ("Wed") or "word" for one that starts with none;    *)
(* rest, a char pointer in the code, is a position in the text.            *)
EXTENDS NormalizeTime, Sequences, SequencesExt

CONSTANTS
  Dates,            \* the dates a peer may send: [text, meant]
  MaxIterations,    \* the bound of the loop, 1000 in the code
  MaxHops           \* bound: elements that send the date on

VARIABLES
  sent,             \* history: the date that the peer sent
  hop,              \* the number of elements it has passed
  text,             \* the string to parse
  stage,            \* "scan", "explode", "offset", "read", "raised", "failed"
  rest, iterations,
  dotw, month, zone, zone_offset, date, year, hour, min, sec, usec

fields == <<dotw, month, zone, zone_offset, date, year, hour, min, sec, usec>>
parser == <<text, stage, rest, iterations, fields>>
dateVars == <<sent, hop, parser, time, step, origin>>

----------------------------------------------------------------------------
(* Characters and names *)

EndMark == "NUL"
Numerals == <<"0", "1", "2", "3", "4", "5", "6", "7", "8", "9">>

\* TIME_TOKEN: a name's token is its position; the zones have the minutes
\* east of Greenwich and the minutes of daylight saving time.
TT_UNKNOWN == 0
TT_SUN == 1
TT_JAN == 8
DayNames == <<"Sun", "Mon", "Tue", "Wed", "Thu", "Fri", "Sat">>
MonthNames == <<"Jan", "Feb", "Mar", "Apr", "May", "Jun", "Jul", "Aug", "Sep",
                "Oct", "Nov", "Dec">>
ZoneNames == <<"PST", "PDT", "MST", "MDT", "CST", "CDT", "EST", "EDT", "AST",
               "NST", "GMT", "BST", "MET", "EET", "JST">>
TimeTokens == DayNames \o MonthNames \o ZoneNames
TokenOf(name) == CHOOSE i \in 1..Len(TimeTokens) : TimeTokens[i] = name
TT_GMT == TokenOf("GMT")

ZoneOffsets ==
  <<<<-8 * 60, 0>>, <<-8 * 60, 60>>, <<-7 * 60, 0>>, <<-7 * 60, 60>>,
    <<-6 * 60, 0>>, <<-6 * 60, 60>>, <<-5 * 60, 0>>, <<-5 * 60, 60>>,
    <<-4 * 60, 0>>, <<-3 * 60 - 30, 0>>, <<0, 0>>, <<0, 60>>, <<60, 0>>,
    <<2 * 60, 0>>, <<9 * 60, 0>>>>
OffsetsOf(token) == ZoneOffsets[token - TokenOf("PST") + 1]

Words == ToSet(TimeTokens) \cup {"UT", "T", "Z", "am", "pm", "word"}
Blank == {" ", "\t", ",", ";", "/", "(", ")", "[", "]"}
Symbols == Words \cup ToSet(Numerals) \cup Blank \cup {"-", "+", ":", ".", "other"}

ASSUME DatesAssumption == \A peerDate \in Dates : peerDate.text \in Seq(Symbols)

At(i) == IF i \in 1..Len(text) THEN text[i] ELSE EndMark
IsNumeral(c) == c \in ToSet(Numerals)
IsAlpha(c) == c \in Words
Value(c) == (CHOOSE i \in 1..10 : Numerals[i] = c) - 1

\* The position after the digits that start at i.
DigitsEnd(i) == CHOOSE j \in i..Len(text) + 1 :
                  ~IsNumeral(At(j)) /\ \A k \in i..j - 1 : IsNumeral(At(k))

\* The six positions from i on as digits of a number, where only those from
\* `from` up to `to` count.  The parser uses no number of more digits.
SixDigits(i, from, to) ==
  LET digit(k) == IF from <= k /\ k < to THEN Value(At(k)) ELSE 0
  IN 100000 * digit(i) + 10000 * digit(i + 1) + 1000 * digit(i + 2)
     + 100 * digit(i + 3) + 10 * digit(i + 4) + digit(i + 5)

\* The number that is written from i up to j.
Number(i, j) == SixDigits(j - 6, i, j)

----------------------------------------------------------------------------
(* The end of an iteration: to the next token *)

\* 'T' before a digit delimits the time of ISO 8601.
IsTimeMark(i) == At(i) = "T" /\ IsNumeral(At(i + 1))

DateTokenEnd(i) ==
  LET ends(j) == At(j) \in Blank \cup {"-", "+", EndMark} \/ IsTimeMark(j)
  IN CHOOSE j \in i..Len(text) + 1 : ends(j) /\ \A k \in i..j - 1 : ~ends(k)

\* A dash counts for nothing before a year has been read, if it follows a
\* letter, or if no digit follows it.
IsSkipped(i, y) ==
  \/ At(i) \in Blank
  \/ /\ At(i) = "-"
     /\ (i > 1 /\ IsAlpha(At(i - 1)) /\ y < 0) \/ ~IsNumeral(At(i + 1))

NextToken(i, y) ==
  LET j == CHOOSE j \in DateTokenEnd(i)..Len(text) + 1 :
             ~IsSkipped(j, y) /\ \A k \in DateTokenEnd(i)..j - 1 : IsSkipped(k, y)
  IN IF IsTimeMark(j) THEN j + 1 ELSE j

----------------------------------------------------------------------------
(* The iterations *)

\* The loop head and its end, around one case of the switch that leaves
\* rest at i and the year at y.
Iteration(i, y) ==
  /\ stage = "scan"
  /\ iterations <= MaxIterations
  /\ iterations' = iterations + 1
  /\ rest' = NextToken(i, y)
  /\ year' = y
  /\ UNCHANGED <<sent, hop, text, stage, time, step, origin>>

\* "UT" counts as "GMT" if it is the whole word.
NameAt(i) == IF At(i) = "UT" THEN (IF IsAlpha(At(i + 1)) THEN "word" ELSE "GMT")
             ELSE At(i)

\* A name sets what it names unless that is known already.
Word ==
  LET name == NameAt(rest)
      known == name \in ToSet(TimeTokens)
      set(old, names) ==
        IF known /\ old = TT_UNKNOWN /\ name \in ToSet(names) THEN TokenOf(name) ELSE old
  IN /\ IsAlpha(At(rest))
     /\ dotw' = set(dotw, DayNames)
     /\ month' = set(month, MonthNames)
     /\ zone' = set(zone, ZoneNames)
     /\ Iteration(rest, year)
     /\ UNCHANGED <<zone_offset, date, hour, min, sec, usec>>

\* Mutant: a sign that is not taken is not skipped.
SignStays ==
  /\ At(rest) \in {"+", "-"}
  /\ Iteration(rest, year)
  /\ UNCHANGED <<dotw, month, zone, zone_offset, date, hour, min, sec, usec>>

\* +HHMM, +HH or +H, unless there is an offset or another zone than GMT.
Sign ==
  LET first == rest + 1
      end == DigitsEnd(first)
      n == Number(first, end)
      minutes == IF end - first = 4 THEN (n \div 100) * 60 + (n % 100) ELSE n * 60
      taken == /\ zone_offset = -1
               /\ zone \in {TT_UNKNOWN, TT_GMT}
               /\ end - first \in {1, 2, 4}
  IN /\ At(rest) \in {"+", "-"}
     /\ zone_offset' = IF ~taken THEN zone_offset
                       ELSE IF At(rest) = "+" THEN minutes ELSE -minutes
     /\ zone' = IF taken THEN TT_GMT ELSE zone
     /\ Iteration(rest + 1, year)
     /\ UNCHANGED <<dotw, month, date, hour, min, sec, usec>>

\* Mutant: a seventh digit counts.
MicrosecondsAll(i, end) ==
  IF end - i > 6 THEN 10 * SixDigits(i, i, end) + Value(At(i + 6))
  ELSE SixDigits(i, i, end)

\* The fraction of a second: six digits, the missing ones are zeros and the
\* others are dropped.
Microseconds(i, end) == SixDigits(i, i, end)

\* Mutant: 12 am is noon.
Hour24NoonTwice(h, end) ==
  LET s == CHOOSE j \in end..Len(text) + 1 :
             /\ At(j) \notin {" ", "\t"}
             /\ \A k \in end..j - 1 : At(k) \in {" ", "\t"}
  IN IF h < 12 /\ At(s) = "pm" THEN h + 12 ELSE h

\* 12:05am is 00:05 and 10:05pm is 22:05; blanks may precede the mark.
Hour24(h, end) ==
  LET s == CHOOSE j \in end..Len(text) + 1 :
             /\ At(j) \notin {" ", "\t"}
             /\ \A k \in end..j - 1 : At(k) \in {" ", "\t"}
  IN IF h < 12 /\ At(s) = "pm" THEN h + 12
     ELSE IF h = 12 /\ At(s) = "am" THEN 0
     ELSE h

\* HH:MM[:SS[.fraction]]; what is malformed is skipped from where it is.
Time ==
  LET hourEnd == DigitsEnd(rest)
      minEnd == DigitsEnd(hourEnd + 1)
      secAt == IF At(minEnd) = ":" THEN minEnd + 1 ELSE minEnd
      secEnd == DigitsEnd(secAt)
      fraction == At(secEnd) = "."
      end == IF fraction THEN DigitsEnd(secEnd + 1) ELSE secEnd
      skipTo(i) == Iteration(i, year) /\ UNCHANGED fields
  IN /\ IsNumeral(At(rest)) /\ At(hourEnd) = ":"
     /\ IF (hour >= 0 /\ min >= 0) \/ hourEnd - rest > 2
          THEN skipTo(rest)
        ELSE IF minEnd - (hourEnd + 1) \notin 1..2
          THEN skipTo(hourEnd + 1)
        ELSE IF secEnd - secAt > 2
          THEN skipTo(secAt)
        ELSE /\ zone' = IF At(end) = "Z" THEN TT_GMT ELSE zone
             /\ hour' = IF At(end) = "Z" THEN Number(rest, hourEnd)
                        ELSE Hour24(Number(rest, hourEnd), end)
             /\ min' = Number(hourEnd + 1, minEnd)
             /\ sec' = IF secEnd = secAt THEN -1 ELSE Number(secAt, secEnd)
             /\ usec' = IF fraction THEN Microseconds(secEnd + 1, end) ELSE -1
             /\ Iteration(end, year)
             /\ UNCHANGED <<dotw, month, zone_offset, date>>

Century(n) == IF n < 70 THEN n + 2000 ELSE IF n < 100 THEN n + 1900 ELSE n

\* MM/DD/YY, DD/MM/YY or [YY]YY/MM/DD, with slashes or dashes.
SlashDate ==
  LET e1 == DigitsEnd(rest)
      e2 == DigitsEnd(e1 + 1)
      e3 == DigitsEnd(e2 + 1)
      n1 == Number(rest, e1)
      n2 == Number(e1 + 1, e2)
      n3 == Number(e2 + 1, e3)
      wellFormed ==
        /\ month = TT_UNKNOWN
        /\ e1 - rest \in {1, 2, 4} /\ e2 - e1 \in {2, 3}
        /\ At(e2) \in {"/", "-"} /\ e3 - e2 \in {2, 3, 5, 6}
        /\ IsTimeMark(e3) \/ ~IsAlpha(At(e3))
      yearFirst == n1 > 31 \/ n1 = 0
      set(y, m, d, i) ==
        /\ month' = m + TT_JAN - 1
        /\ date' = d
        /\ Iteration(i, Century(y))
        /\ UNCHANGED <<dotw, zone, zone_offset, hour, min, sec, usec>>
      skipTo(i) == Iteration(i, year) /\ UNCHANGED fields
  IN /\ IsNumeral(At(rest)) /\ At(e1) \in {"/", "-"} /\ IsNumeral(At(e1 + 1))
     /\ IF ~wellFormed \/ (yearFirst /\ (n2 > 12 \/ n3 > 31)) THEN skipTo(rest)
        ELSE IF yearFirst THEN set(n1, n2, n3, e3)
        ELSE IF n1 > 12 /\ n2 > 12 THEN skipTo(e3)
        ELSE IF n1 > 12 THEN set(n3, n2, n1, e3)
        ELSE set(n3, n1, n2, e3)

\* Other digits are a year or a date by their number.
Digit ==
  LET end == DigitsEnd(rest)
      width == end - rest
      n == Number(rest, end)
      alone == ~IsAlpha(At(end))
      isDate == alone /\ date < 0 /\ (width = 1 \/ (width = 2 /\ n < 32))
      isYear == alone /\ year < 0 /\ ~isDate /\ width \in {2, 4, 5}
  IN /\ IsNumeral(At(rest))
     /\ At(end) # ":" /\ ~(At(end) \in {"/", "-"} /\ IsNumeral(At(end + 1)))
     /\ date' = IF isDate THEN n ELSE date
     /\ Iteration(rest, IF ~isYear THEN year ELSE IF width = 2 THEN Century(n) ELSE n)
     /\ UNCHANGED <<dotw, month, zone, zone_offset, hour, min, sec, usec>>

\* A character without a case of the switch.
OtherCharacter ==
  /\ At(rest) # EndMark
  /\ ~IsNumeral(At(rest)) /\ ~IsAlpha(At(rest)) /\ At(rest) \notin {"+", "-"}
  /\ Iteration(rest, year)
  /\ UNCHANGED <<dotw, month, zone, zone_offset, date, hour, min, sec, usec>>

TooManyTokens ==
  /\ stage = "scan"
  /\ At(rest) # EndMark /\ iterations > MaxIterations
  /\ stage' = "failed"
  /\ UNCHANGED <<sent, hop, text, rest, iterations, fields, time, step, origin>>

----------------------------------------------------------------------------
(* After the loop *)

OrZero(n) == IF n = -1 THEN 0 ELSE n

\* Fails without a month, a date or a year.
Explode ==
  /\ stage = "scan"
  /\ At(rest) = EndMark
  /\ IF month = TT_UNKNOWN \/ date = -1 \/ year = -1 \/ year > 32767
       THEN stage' = "failed" /\ UNCHANGED <<time, step, origin>>
       ELSE /\ stage' = "explode"
            /\ time' = [usec |-> OrZero(usec), sec |-> OrZero(sec), min |-> OrZero(min),
                        hour |-> OrZero(hour), mday |-> date, month |-> month - TT_JAN,
                        year |-> Int16(year), wday |-> OrZero(dotw - TT_SUN), yday |-> 0,
                        gmt_offset |-> 0, dst_offset |-> 0]
            /\ step' = "ready"
            /\ origin' = time'
  /\ UNCHANGED <<sent, hop, text, rest, iterations, fields>>

Normalize ==
  /\ stage \in {"explode", "offset"}
  /\ PR_NormalizeTime
  /\ UNCHANGED <<sent, hop, parser>>

\* The offsets of the zone, GMT if there is none.  default_to_gmt is true,
\* so the branch for the local time zone is not taken.
SetOffsets ==
  LET offsets == IF zone = TT_UNKNOWN THEN <<0, 0>>
                 ELSE IF zone_offset = -1 THEN OffsetsOf(zone)
                 ELSE <<zone_offset, 0>>
  IN /\ stage = "explode" /\ step = "normal"
     /\ time' = [time EXCEPT !.gmt_offset = offsets[1] * 60, !.dst_offset = offsets[2] * 60]
     /\ step' = "ready"
     /\ origin' = time'
     /\ stage' = "offset"
     /\ UNCHANGED <<sent, hop, text, rest, iterations, fields>>

\* ParseDate returns and NaiveDateTime.from_erl!/2 takes the tuple, or
\* raises on a year of more than four digits.
ReadDate ==
  /\ stage = "offset" /\ step = "normal"
  /\ stage' = IF Within(time.year, -9999, 9999) THEN "read" ELSE "raised"
  /\ UNCHANGED <<sent, hop, text, rest, iterations, fields, time, step, origin>>

\* Integer.to_string(n), for a year of at most five digits.
Decimal(n) ==
  LET powers == <<1, 10, 100, 1000, 10000, 100000>>
      width == CHOOSE w \in 1..5 : n < powers[w + 1] /\ (w > 1 => n >= powers[w])
  IN [i \in 1..width |-> Numerals[((n \div powers[width - i + 1]) % 10) + 1]]

\* String.pad_leading(Integer.to_string(n), 2, "0")
TwoDigits(n) == <<Numerals[(n \div 10) + 1], Numerals[(n % 10) + 1]>>

\* Mutant: a year of two digits.
WriteDateShort(t) ==
  <<DayNames[((DayOf(t) + 6) % 7) + 1], ",", " ">> \o TwoDigits(t.mday)
  \o <<" ", MonthNames[t.month + 1], " ">> \o TwoDigits(t.year % 100)
  \o <<" ">> \o TwoDigits(t.hour) \o <<":">> \o TwoDigits(t.min)
  \o <<":">> \o TwoDigits(t.sec) \o <<" ", "GMT">>

\* do_header_value(%NaiveDateTime{}), with Calendar.ISO's day of the week.
WriteDate(t) ==
  <<DayNames[((DayOf(t) + 6) % 7) + 1], ",", " ">> \o TwoDigits(t.mday)
  \o <<" ", MonthNames[t.month + 1], " ">>
  \o (IF t.year < 0 THEN <<"-">> \o Decimal(-t.year) ELSE Decimal(t.year))
  \o <<" ">> \o TwoDigits(t.hour) \o <<":">> \o TwoDigits(t.min)
  \o <<":">> \o TwoDigits(t.sec) \o <<" ", "GMT">>

NoMeaning == [Epoch EXCEPT !.wday = 0]

DateInit ==
  /\ sent \in Dates /\ hop = 0
  /\ text = sent.text
  /\ stage = "scan" /\ rest = 1 /\ iterations = 0
  /\ dotw = TT_UNKNOWN /\ month = TT_UNKNOWN /\ zone = TT_UNKNOWN
  /\ zone_offset = -1 /\ date = -1 /\ year = -1
  /\ hour = -1 /\ min = -1 /\ sec = -1 /\ usec = -1
  /\ NormalizeInit

\* The element sends the message on, and the next one parses it.
Forward ==
  /\ stage = "read" /\ hop < MaxHops
  /\ hop' = hop + 1
  /\ text' = WriteDate(time)
  /\ stage' = "scan" /\ rest' = 1 /\ iterations' = 0
  /\ dotw' = TT_UNKNOWN /\ month' = TT_UNKNOWN /\ zone' = TT_UNKNOWN
  /\ zone_offset' = -1 /\ date' = -1 /\ year' = -1
  /\ hour' = -1 /\ min' = -1 /\ sec' = -1 /\ usec' = -1
  /\ UNCHANGED <<sent, time, step, origin>>

Scan == Word \/ Sign \/ Time \/ SlashDate \/ Digit \/ OtherCharacter \/ TooManyTokens

Over == stage \in {"read", "raised", "failed"} /\ UNCHANGED dateVars

DateNext == Scan \/ Explode \/ Normalize \/ SetOffsets \/ ReadDate \/ Forward \/ Over

DateSpec == DateInit /\ [][DateNext]_dateVars

----------------------------------------------------------------------------
(* Properties *)

\* No loop of the date parser runs for ever: an iteration moves on in the
\* text, so that the limit on their number only ever ends a date of too many
\* tokens, and a round of a month loop brings the day closer to the month.
ScanAdvances ==
  [][/\ iterations' > iterations => rest' > rest
     /\ step = "back" => time'.mday > time.mday
     /\ step = "forward" /\ step' = "forward" => time'.mday < time.mday]_dateVars

\* PR_NormalizeTime is only called, whatever the text, with a time that
\* NormalizeTime allows for, and runs as it says there, so that SameInstant
\* and Normalized hold of every date that is parsed.
CallsAreBounded == NormalizeSpec

\* A date in one of the forms that the comment of the parser lists, or with
\* its tokens in another order, is read as the instant that it means.
ReadsAsMeant ==
  /\ hop = 0 /\ sent.meant # NoMeaning => stage # "failed"
  /\ hop = 0 /\ stage = "read" /\ sent.meant # NoMeaning =>
       Instant(time) = Instant(sent.meant)

\* The elements on the way keep the date to the second if and only if its
\* year in GMT has four digits: do_header_value/1 does not pad the year, and
\* a year of one or three digits is none, one of two digits another one.
KeepsDate ==
  LET instant == [Instant(sent.meant) EXCEPT !.usec = 0]
      fourDigits == instant.day \in DaysBefore(1000, 0)..DaysBefore(10000, 0) - 1
  IN hop > 0 /\ sent.meant # NoMeaning =>
       /\ fourDigits => stage \notin {"failed", "raised"}
       /\ stage = "read" => (fourDigits <=> Instant(time) = instant)
============================================================================
