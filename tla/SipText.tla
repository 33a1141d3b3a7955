------------------------------ MODULE SipText ------------------------------
(* The text primitives of the NIF parser (c_src/utils.cc, utils.h,         *)
(* tokenizer.h, string_tokenizer.h), as operators on texts.                *)
(*                                                                         *)
(* A text is a sequence of symbols.  A symbol is one character that the    *)
(* parser tells apart (a delimiter, a quote, a digit, a blank) or a word,  *)
(* which stands for a run of characters that every primitive treats alike. *)
(* A Tokenizer, a pair of iterators [current_, end_), is the text that is  *)
(* left to read; moving current_ forward drops a prefix of it.             *)
EXTENDS Integers, Sequences, SequencesExt

CONSTANTS
  IntMax,    \* std::numeric_limits<int>::max()
  LowerOf    \* the words with capitals, and their lower-case spelling

ASSUME IntMaxAssumption == IntMax \in Nat /\ IntMax >= 9

IntMin == -IntMax - 1

NUL == "NUL"            \* the character '\0'
Quotes == {"\"", "'"}
SIP_LWS == {" ", "\t"}
Digits == <<"0", "1", "2", "3", "4", "5", "6", "7", "8", "9">>

(* The results of a parsing function: a value and the text left to read,   *)
(* or the reason of the failure (an atom, which callers pass on as it is). *)
Ok(value, rest) == [ok |-> value, rest |-> rest]
Fail(reason) == [err |-> reason]
IsAtom(result) == "err" \in DOMAIN result

----------------------------------------------------------------------------
(* Characters *)

IsDigit(c) == \E i \in 1..10 : Digits[i] = c

DigitValue(c) == (CHOOSE i \in 1..10 : Digits[i] = c) - 1

\* strchr finds the terminator of " \t" too, so '\0' is linear white space.
IsLWS(c) == c \in SIP_LWS \cup {NUL}

\* "utf8" stands for the bytes from 0x80 on.
IsTokenChar(c) ==
  c \notin {"utf8", NUL, "\r", "\n", "(", ")", "<", ">", "@", ",", ";", ":",
            "\\", "\"", "/", "[", "]", "?", "=", "{", "}", " ", "\t"}

IsToken(s) == s # <<>> /\ \A i \in 1..Len(s) : IsTokenChar(s[i])

IsQuote(c) == c \in Quotes

ToLowerASCII(c) == IF c \in DOMAIN LowerOf THEN LowerOf[c] ELSE c

LowerCase(s) == [i \in 1..Len(s) |-> ToLowerASCII(s[i])]

----------------------------------------------------------------------------
(* Tokenizer *)

\* The position of the first symbol of s in C, or the one after the last.
FindFirstOf(s, C) ==
  CHOOSE i \in 1..Len(s) + 1 :
    /\ i > Len(s) \/ s[i] \in C
    /\ \A j \in 1..i - 1 : s[j] \notin C

Before(s, C) == SubSeq(s, 1, FindFirstOf(s, C) - 1)

\* SkipNotIn and SkipTo
SkipTo(s, C) == SubSeq(s, FindFirstOf(s, C), Len(s))

Skip(s, C) ==
  LET n == CHOOSE i \in 0..Len(s) :
             /\ i = Len(s) \/ s[i + 1] \notin C
             /\ \A j \in 1..i : s[j] \in C
  IN SubSeq(s, n + 1, Len(s))

SkipOne(s) == IF s = <<>> THEN s ELSE Tail(s)

SkipLWS(s) == Skip(s, SIP_LWS)

TrimLWS(s) ==
  LET inner == {i \in 1..Len(s) : ~IsLWS(s[i])}
  IN IF inner = {} THEN <<>> ELSE SubSeq(s, Min(inner), Max(inner))

----------------------------------------------------------------------------
(* Quoted strings *)

\* The non-strict mode: a quote inside is kept, a final backslash is lost.
Unescape(s) ==
  LET push(a, c) ==
        IF c = "\\" /\ ~a.prev_escape
          THEN [a EXCEPT !.prev_escape = TRUE]
          ELSE [prev_escape |-> FALSE, unescaped |-> Append(a.unescaped, c)]
  IN FoldLeft(push, [prev_escape |-> FALSE, unescaped |-> <<>>], s).unescaped

Unquote(s) ==
  IF Len(s) >= 2 /\ IsQuote(s[1]) /\ s[1] = s[Len(s)]
    THEN Unescape(SubSeq(s, 2, Len(s) - 1))
    ELSE s

----------------------------------------------------------------------------
(* StringTokenizer and the iterators built on it *)

\* Mutant: a backslash escapes nothing.
ClosingQuoteAny(s, marks) ==
  LET closing == {i \in 2..Len(s) : s[i] \in marks}
  IN IF closing = {} THEN Len(s) + 1 ELSE Min(closing)

\* The position of the first mark in marks, after the one s starts with,
\* that no backslash escapes; or the position after the last symbol.
ClosingQuote(s, marks) ==
  LET escaped[i \in 1..Len(s)] ==
        i > 1 /\ s[i - 1] = "\\" /\ ~escaped[i - 1]
      closing == {i \in 2..Len(s) : s[i] \in marks /\ ~escaped[i]}
  IN IF closing = {} THEN Len(s) + 1 ELSE Min(closing)

\* AdvanceOne until it meets a delimiter: a delimiter between two marks of
\* the same kind does not count, and an open quote takes in all the rest.
TokenEnd(s, first, delims, quotes) ==
  LET close(i) == i - 1 + ClosingQuote(SubSeq(s, i, Len(s)), {s[i]})
      end[i \in 1..Len(s) + 2] ==
        IF i > Len(s) THEN Len(s) + 1
        ELSE IF s[i] \in delims THEN i
        ELSE IF s[i] \in quotes THEN end[close(i) + 1]
        ELSE end[i + 1]
  IN end[first]

\* GetNext until it returns false: the tokens, without the empty ones.
Tokens(s, delims, quotes) ==
  LET from[i \in 1..Len(s) + 2] ==
        LET cut(end) == (IF end = i THEN <<>> ELSE <<SubSeq(s, i, end - 1)>>)
                        \o from[end + 1]
        IN IF i > Len(s) THEN <<>> ELSE cut(TokenEnd(s, i, delims, quotes))
  IN from[1]

\* ValuesIterator: trimmed, the empty values bypassed.
Values(s, delimiter) ==
  LET trimmed(tokens) == [i \in 1..Len(tokens) |-> TrimLWS(tokens[i])]
  IN SelectSeq(trimmed(Tokens(s, {delimiter}, Quotes)), LAMBDA t : t # <<>>)

\* A value that opens a quote and does not close it loses its first mark.
LenientUnquote(v) ==
  IF v = <<>> \/ ~IsQuote(v[1]) THEN v
  ELSE IF Len(v) = 1 \/ v[1] # v[Len(v)] THEN Tail(v)
  ELSE Unquote(v)

\* GenericParametersIterator::GetNext: a name alone has the empty value.
GenericParameter(v) ==
  LET equals == FindFirstOf(v, {"="})
      paired == equals \in 2..Len(v)
  IN [name |-> TrimLWS(IF paired THEN SubSeq(v, 1, equals - 1) ELSE v),
      value |-> IF paired
                  THEN LenientUnquote(TrimLWS(SubSeq(v, equals + 1, Len(v))))
                  ELSE <<>>]

\* NameValuePairsIterator, with required values and lenient quotes.
IsPair(v) ==
  LET equals == FindFirstOf(v, {"="})
  IN /\ equals \in 2..Len(v)
     /\ \A i \in 1..equals - 1 : ~IsQuote(v[i])
     /\ TrimLWS(SubSeq(v, equals + 1, Len(v))) # <<>>

AllParameters(values) == [i \in 1..Len(values) |-> GenericParameter(values[i])]

\* The iteration ends at the first malformed pair; the rest is not read.
NameValuePairs(s, delimiter) ==
  LET pairs(values) ==
        {i \in 0..Len(values) : \A j \in 1..i : IsPair(values[j])}
      wellFormed(values) == SubSeq(values, 1, Max(pairs(values)))
  IN AllParameters(wellFormed(Values(s, delimiter)))

\* The map that enif_make_map_put builds of the pairs: the last one wins.
PutAll(pairs, Key(_)) ==
  LET keys == {Key(pairs[i].name) : i \in 1..Len(pairs)}
      at(k) == Max({i \in 1..Len(pairs) : Key(pairs[i].name) = k})
  IN [k \in keys |-> pairs[at(k)].value]

----------------------------------------------------------------------------
(* Numbers *)

\* static_cast<int>: division truncates towards zero, so for the minimum
\* the quotient and the remainder are those of its magnitude.
CheckBounds(output, digit, sign) ==
  LET limit == IF sign = 1 THEN IntMax ELSE IntMax + 1
      magnitude == output * sign
  IN ~( \/ magnitude > limit \div 10
        \/ magnitude = limit \div 10 /\ digit > limit % 10 )

\* One round of the loop of Base::Invoke; first is current == begin.
AddDigit(a, c, sign) ==
  IF ~a.valid \/ ~IsDigit(c) \/ (~a.first /\ ~CheckBounds(a.output, DigitValue(c), sign))
    THEN [a EXCEPT !.valid = FALSE]
    ELSE [valid |-> TRUE, first |-> FALSE,
          output |-> a.output * 10 + sign * DigitValue(c)]

SignedDigits(s, sign) ==
  FoldLeft(LAMBDA a, c : AddDigit(a, c, sign),
           [valid |-> s # <<>>, first |-> TRUE, output |-> 0], s)

\* Leading white space makes the conversion fail, whatever follows.
StringToInt(s) ==
  LET signed == s # <<>> /\ s[1] \in {"-", "+"}
      converted(number) ==
        IF number.valid THEN Ok(number.output, <<>>) ELSE Fail("invalid_digits")
  IN converted(SignedDigits(IF signed THEN Tail(s) ELSE s,
                            IF signed /\ s[1] = "-" THEN -1 ELSE 1))

\* host [":" port]; the brackets of an IPv6 reference stay in the host, and
\* the port is -1 when there is none.
ParseHostAndPort(s) ==
  LET port(digits) ==
        IF digits = <<>> THEN Ok(-1, <<>>)
        ELSE IF \A i \in 1..Len(digits) : IsDigit(digits[i]) THEN StringToInt(digits)
        ELSE Fail("invalid_digits")
      located(host, number) ==
        IF IsAtom(number) THEN Fail("invalid_sentby") ELSE Ok(<<host, number.ok>>, <<>>)
      split(hostEnd) ==
        IF \/ hostEnd > Len(s) + 1                \* no closing bracket
           \/ hostEnd <= Len(s) /\ s[hostEnd] # ":"
          THEN Fail("invalid_sentby")
          ELSE located(SubSeq(s, 1, hostEnd - 1), port(SubSeq(s, hostEnd + 1, Len(s))))
  IN IF s = <<>> THEN Fail("invalid_sentby")
     ELSE IF s[1] = "[" THEN split(FindFirstOf(s, {"]"}) + 1)
     ELSE split(FindFirstOf(s, {":"}))
============================================================================
