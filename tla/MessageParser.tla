--------------------------- MODULE MessageParser ---------------------------
(* Parse of c_src/parser.cc: a received text is unfolded line by line      *)
(* (AssembleRawHeaders), its start line is read, and then one header after *)
(* the other is found (HeadersIterator), parsed (ParseHeader) and put into *)
(* the map of headers.  HeaderValues has the functions that read values.   *)
(*                                                                         *)
(* A peer writes the text from pieces: a start line and then lines, each   *)
(* with its line breaks.                                                   *)
EXTENDS HeaderValues

CONSTANTS
  StartLines,    \* the start lines: [text, value]
  Pieces,        \* the lines that may follow: [text, header, value]
  MaxPieces      \* bound: lines after the start line

\* The symbols that the peer writes.
Characters == UNION {ToSet(line.text) : line \in StartLines \cup Pieces}

ASSUME TextsAssumption ==
  \A line \in StartLines \cup Pieces : line.text \in Seq(Characters)

VARIABLES
  phase,         \* "receive", "assemble", "start", "headers", "done"
  first,         \* history: the start line that the peer wrote
  pieces,        \* history: the pieces that followed it
  raw,           \* the received text
  input,         \* the part of raw that AssembleRawHeaders has not read
  output,        \* what it has assembled
  lines,         \* the lines that HeadersIterator has not returned
  message,       \* the start line, once read
  headers,       \* the map of headers
  result         \* what Parse returns

vars == <<phase, first, pieces, raw, input, output, lines, message, headers, result>>

NoResult == [none |-> TRUE]

(* The errors of a header come wrapped in {error, _}, those of the start   *)
(* line do not.                                                            *)
Wrapped(reason) == [error |-> reason]

EmptyMap == <<>>

----------------------------------------------------------------------------
(* header_list.h: the parser of each header and the compact names.  Date   *)
(* is in module DateParser; Timestamp, which needs floats, is left out.    *)

HeaderList ==
  [MultipleTypeSubtypeParams |-> {"accept"},
   MultipleTokenParams |->
     {"accept_encoding", "accept_language", "p_visited_network_id", "reason"},
   MultipleUriParams |-> {"alert_info", "call_info", "error_info"},
   MultipleTokens |->
     {"allow", "allow_events", "content_encoding", "content_language",
      "in_reply_to", "privacy", "proxy_require", "require", "supported", "unsupported"},
   OnlyAuthParams |-> {"authentication_info"},
   SchemeAndAuthParams |->
     {"authorization", "proxy_authenticate", "proxy_authorization", "www_authenticate"},
   SingleToken |-> {"call_id", "priority"},
   StarOrMultipleContactParams |-> {"contact"},
   SingleTokenParams |->
     {"content_disposition", "event", "p_access_network_info", "p_charging_vector",
      "subscription_state"},
   SingleInteger |->
     {"content_length", "expires", "max_forwards", "min_expires", "min_se", "rseq"},
   SingleTypeSubtypeParams |-> {"content_type"},
   Cseq |-> {"cseq", "rack"},
   SingleContactParams |->
     {"from", "p_called_party_id", "p_served_user", "refer_to", "referred_by",
      "reply_to", "to"},
   MultipleContactParams |->
     {"history_info", "p_asserted_identity", "p_associated_uri", "p_preferred_identity",
      "path", "record_route", "route", "service_route"},
   MimeVersion |-> {"mime_version"},
   TrimmedUtf8 |->
     {"organization", "security_client", "security_server", "security_verify", "server",
      "subject", "user_agent"},
   RetryAfter |-> {"retry_after"},
   MultipleVias |-> {"via"},
   MultipleWarnings |-> {"warning"}]

g_aliases ==
  [u |-> "allow_events", i |-> "call_id", m |-> "contact", e |-> "content_encoding",
   l |-> "content_length", c |-> "content_type", o |-> "event", f |-> "from",
   r |-> "refer_to", b |-> "referred_by", s |-> "subject", k |-> "supported",
   t |-> "to", v |-> "via"]

g_parsers(format, s) ==
  CASE format = "MultipleTypeSubtypeParams" -> ParseMultipleTypeSubtypeParams(s)
    [] format = "MultipleTokenParams" -> ParseMultipleTokenParams(s)
    [] format = "MultipleUriParams" -> ParseMultipleUriParams(s)
    [] format = "MultipleTokens" -> ParseMultipleTokens(s)
    [] format = "OnlyAuthParams" -> Term(ParseOnlyAuthParams(s))
    [] format = "SchemeAndAuthParams" -> ParseSchemeAndAuthParams(s)
    [] format = "SingleToken" -> Term(ParseSingleToken(s))
    [] format = "StarOrMultipleContactParams" -> ParseStarOrMultipleContactParams(s)
    [] format = "SingleTokenParams" -> Term(ParseSingleTokenParams(s))
    [] format = "SingleInteger" -> Term(ParseSingleInteger(s))
    [] format = "SingleTypeSubtypeParams" -> Term(ParseSingleTypeSubtypeParams(s))
    [] format = "Cseq" -> Term(ParseCseq(s))
    [] format = "SingleContactParams" -> Term(ParseSingleContactParams(s))
    [] format = "MultipleContactParams" -> ParseMultipleContactParams(s)
    [] format = "MimeVersion" -> Term(ParseMimeVersion(s))
    [] format = "TrimmedUtf8" -> Term(ParseTrimmedUtf8(s))
    [] format = "RetryAfter" -> Term(ParseRetryAfter(s))
    [] format = "MultipleVias" -> ParseMultipleVias(s)
    [] format = "MultipleWarnings" -> ParseMultipleWarnings(s)

\* Mutant: a compact name counts in lower case only.
HeaderNameCased(name) ==
  IF name \in DOMAIN g_aliases THEN g_aliases[name] ELSE ToLowerASCII(name)

\* The name of a header is one word; a name that is no known atom stays a
\* string, in the case it came in.
HeaderName(name) ==
  LET lower == ToLowerASCII(name)
  IN IF lower \in DOMAIN g_aliases THEN g_aliases[lower] ELSE lower

ParseHeader(name, values) ==
  LET known == {f \in DOMAIN HeaderList : HeaderName(name) \in HeaderList[f]}
  IN IF known # {}
       THEN [name |-> HeaderName(name),
             value |-> g_parsers(CHOOSE f \in known : TRUE, values)]
       ELSE [name |-> name, value |-> Ok([list |-> <<values>>], <<>>)]

----------------------------------------------------------------------------
(* HeadersIterator *)

Colon(line) == FindFirstOf(line, {":"})

NameOf(line) == TrimLWS(SubSeq(line, 1, Colon(line) - 1))

ValuesOf(line) == TrimLWS(SubSeq(line, Colon(line) + 1, Len(line)))

\* The other lines are skipped.
IsHeader(line) ==
  /\ Colon(line) <= Len(line)
  /\ ~IsLWS(line[1])
  /\ IsToken(NameOf(line))

----------------------------------------------------------------------------
(* Steps *)

Init ==
  /\ phase = "receive"
  /\ pieces = <<>>
  /\ first \in StartLines
  /\ raw = first.text
  /\ input = <<>> /\ output = <<>>
  /\ lines = <<>>
  /\ message = NoResult
  /\ headers = EmptyMap
  /\ result = NoResult

Write(p) ==
  /\ phase = "receive"
  /\ Len(pieces) < MaxPieces
  /\ pieces' = Append(pieces, p)
  /\ raw' = raw \o p.text
  /\ UNCHANGED <<phase, first, input, output, lines, message, headers, result>>

\* parse_wrapper is called with the text.  Of a received one the router has
\* cut off the body (parse_message in router.ex): it passes what precedes
\* the first empty line.  Message.parse passes any text.
Receive ==
  /\ phase = "receive"
  /\ phase' = "assemble"
  /\ input' = raw
  /\ UNCHANGED <<first, pieces, raw, output, lines, message, headers, result>>

Return(r) == phase' = "done" /\ result' = r

\* Mutant: no line is a continuation.
IsFoldedNever(after) == after = <<>>

\* A continuation line starts with white space; nothing follows the end.
IsFolded(after) == after = <<>> \/ IsLWS(after[1])

\* The text after the line break CRLF or LF, if there is one.
AfterBreak(lineEnd) ==
  IF StartsWith(lineEnd, "\r") THEN Tail(Tail(lineEnd)) ELSE SkipOne(lineEnd)

\* One round of the loop of AssembleRawHeaders: a line and its line break,
\* which stays as one line feed if the next line is not a continuation.
\* The text that precedes a bad line break is of no consequence.
AssembleLine ==
  LET lineEnd == SkipTo(input, {"\r", "\n"})
      after == AfterBreak(lineEnd)
  IN /\ phase = "assemble"
     /\ IF StartsWith(lineEnd, "\r") /\ ~StartsWith(Tail(lineEnd), "\n")
          THEN Return(Wrapped("invalid_line_break")) /\ UNCHANGED <<input, output>>
          ELSE /\ output' = output \o Before(input, {"\r", "\n"})
                                   \o (IF IsFolded(after) THEN <<>> ELSE <<"\n">>)
               /\ input' = after
               /\ phase' = IF after = <<>> THEN "start" ELSE "assemble"
               /\ UNCHANGED result
     /\ UNCHANGED <<first, pieces, raw, lines, message, headers>>

ParseStartLine ==
  LET startLine(line) ==
        IF IsStatusLine(line) THEN ParseStatusLine(line) ELSE ParseRequestLine(line)
  IN /\ phase = "start"
     /\ \E start \in {startLine(Before(output, {"\r", "\n"}))} :
          IF IsAtom(start)
            THEN Return(start) /\ UNCHANGED <<lines, message>>
            ELSE /\ phase' = "headers"
                 /\ message' = start.ok
                 /\ lines' = Tokens(SkipTo(output, {"\r", "\n"}), {"\r", "\n"}, {})
                 /\ UNCHANGED result
     /\ UNCHANGED <<first, pieces, raw, input, output, headers>>

SkipLine ==
  /\ phase = "headers" /\ lines # <<>>
  /\ ~IsHeader(Head(lines))
  /\ lines' = Tail(lines)
  /\ UNCHANGED <<phase, first, pieces, raw, input, output, message, headers, result>>

\* The values of a list are added to a list; a term that is no list adds
\* nothing to one.
Merge(old, new) ==
  [list |-> old.list \o (IF "list" \in DOMAIN new THEN new.list ELSE <<>>)]

Put(name, value) ==
  IF IsAtom(value)
    THEN Return(Wrapped(value.err)) /\ UNCHANGED headers
  ELSE IF name \notin DOMAIN headers
    THEN headers' = headers @@ (name :> value.ok) /\ UNCHANGED <<phase, result>>
  ELSE IF "list" \notin DOMAIN headers[name]
    THEN Return(Wrapped("multiple_definition")) /\ UNCHANGED headers
  ELSE /\ headers' = [headers EXCEPT ![name] = Merge(@, value.ok)]
       /\ UNCHANGED <<phase, result>>

PutHeader ==
  /\ phase = "headers" /\ lines # <<>>
  /\ IsHeader(Head(lines))
  /\ lines' = Tail(lines)
  /\ \E header \in {ParseHeader(NameOf(Head(lines))[1], ValuesOf(Head(lines)))} :
       Put(header.name, header.value)
  /\ UNCHANGED <<first, pieces, raw, input, output, message>>

Finish ==
  /\ phase = "headers" /\ lines = <<>>
  /\ Return([start_line |-> message, headers |-> headers])
  /\ UNCHANGED <<first, pieces, raw, input, output, lines, message, headers>>

Done == phase = "done" /\ UNCHANGED vars

Step == AssembleLine \/ ParseStartLine \/ SkipLine \/ PutHeader \/ Finish

Next ==
  \/ \E p \in Pieces : Write(p)
  \/ Receive
  \/ Step
  \/ Done

Spec == Init /\ [][Next]_vars

----------------------------------------------------------------------------
(* Properties *)

\* The positions up to m of raw that belong to the unfolded text: all but the
\* line breaks, of which the last line feed stays when the next line starts
\* with something else than white space.
Kept(m) ==
  {i \in 1..m :
     \/ raw[i] \notin {"\r", "\n"}
     \/ raw[i] = "\n" /\ i < Len(raw) /\ ~IsLWS(raw[i + 1])}

\* The text has the kept symbols of the first m of raw, in their order.
Unfolds(text, m) ==
  /\ Len(text) = Cardinality(Kept(m))
  /\ \A i \in Kept(m) : text[Cardinality(Kept(i))] = raw[i]

HasBareReturn ==
  \E i \in 1..Len(raw) : raw[i] = "\r" /\ (i = Len(raw) \/ raw[i + 1] # "\n")

\* AssembleRawHeaders keeps every character of every line, joins exactly
\* the continuation lines, those that start with what IsLWS takes for white
\* space (NUL included, see FoldsAtWhiteSpace), and refuses exactly the
\* texts with a carriage return that no line feed follows.
UnfoldsLines ==
  phase \in {"start", "headers", "done"} =>
    IF HasBareReturn THEN result = Wrapped("invalid_line_break")
    ELSE Unfolds(output, Len(raw))

\* A line starts with NUL, which is no white space of SIP.
HasNulLine == \E i \in 1..Len(raw) - 1 : raw[i] = "\n" /\ raw[i + 1] = NUL

\* AssembleRawHeaders joins a line to the next one if that starts with the
\* white space that c_src/utils.h:59 names, "Return true if the character is
\* SIP "linear white space" (SP | HT)", and it joins others exactly if a line
\* starts with NUL.  The unfolded text has a line feed for each line break
\* that separates lines.
FoldsAtWhiteSpace ==
  phase \in {"start", "headers"} =>
    (Cardinality({i \in 1..Len(output) : output[i] = "\n"}) =
     Cardinality({i \in 1..Len(raw) - 1 : raw[i] = "\n" /\ raw[i + 1] \notin SIP_LWS})
     <=> ~HasNulLine)

IsList(v) == ~IsAtom(v) /\ "list" \in DOMAIN v.ok

\* What the start line and the first n pieces, read as headers, mean.
Meaning(n) ==
  LET named == {i \in 1..n : pieces[i].header # "none"}
      earliest(i) == Min({j \in named : pieces[j].header = pieces[i].header})
      isList(i) == IsList(pieces[i].value)
      bad == {i \in named : \/ IsAtom(pieces[i].value)
                            \/ earliest(i) < i /\ ~isList(earliest(i))}
      lists(h) == SelectSeq(SubSeq(pieces, 1, n),
                            LAMBDA p : p.header = h /\ IsList(p.value))
      valuesOf(h) == FlattenSeq([k \in 1..Len(lists(h)) |-> lists(h)[k].value.ok.list])
      one(i) == IF isList(i) THEN [list |-> valuesOf(pieces[i].header)]
                ELSE pieces[i].value.ok
  IN IF IsAtom(first.value) THEN first.value
     ELSE IF bad # {}
       THEN LET i == Min(bad)
            IN Wrapped(IF IsAtom(pieces[i].value) THEN pieces[i].value.err
                       ELSE "multiple_definition")
       ELSE [start_line |-> first.value.ok,
             headers |-> [h \in {pieces[i].header : i \in named} |->
                            one(CHOOSE i \in named :
                                  pieces[i].header = h /\ earliest(i) = i)]]

\* What Parse returns is what the lines say, whatever their line breaks,
\* folds, compact names and letter case: the error of a bad start line, or
\* the values of a repeated list header in order, or else an error for the
\* first malformed header or the second definition of a header that is no
\* list.  A "*" after a list of contacts is dropped without an error.  An
\* empty line ends nothing here: the router has cut off the body before.
\* The texts with a line that starts with NUL are excepted, and only those
\* are unfolded at another character than the white space of SIP.
ParsesEveryLine ==
  /\ FoldsAtWhiteSpace
  /\ phase = "done" /\ ~HasBareReturn /\ ~HasNulLine => result = Meaning(Len(pieces))

\* What is left to do: the text to unfold, then the start line, then the
\* lines to read.  Every line of the unfolded text is at least one symbol.
Left ==
  CASE phase = "assemble" -> Len(input) + Len(raw) + 2
    [] phase = "start" -> Len(raw) + 1
    [] phase = "headers" -> Len(lines)
    [] OTHER -> -1

\* Each round of the loops of AssembleRawHeaders, HeadersIterator and Parse
\* consumes some of the text, so that Parse returns on every text; that the
\* rounds never get stuck is the absence of deadlock.
ConsumesText == [][phase # "receive" => Left' < Left]_vars
============================================================================
