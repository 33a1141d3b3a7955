---------------------------- MODULE HeaderCodec ----------------------------
(* A header value on its way through elements that read it with the NIF    *)
(* parser and write it with Sippet.Message.to_iodata/1.                    *)
(*                                                                         *)
(* A peer composes a value field by field and writes it as RFC 3261        *)
(* section 25.1 says; each element on the way parses the header line and   *)
(* sends what it understood.  The parser is HeaderValues; the writer is    *)
(* do_header_value/1 of lib/sippet/message.ex and its helpers.             *)
EXTENDS HeaderValues

CONSTANTS
  Kinds,       \* the headers composed, a subset of DOMAIN FieldsOf
  Alphabet,    \* the symbols that each field may hold
  MaxLen,      \* bound: symbols in all fields of one value
  MaxHops      \* bound: elements on the way

(* The fields a peer composes; the rest of each header is fixed.           *)
FieldsOf ==
  [contact |-> {"name", "uri", "param"},     \* Contact, with a second contact
   challenge |-> {"realm", "algorithm"},     \* WWW-Authenticate
   auth_info |-> {"nextnonce"},              \* Authentication-Info
   via |-> {"host", "port"},                 \* Via
   retry_after |-> {"comment"},              \* Retry-After
   warning |-> {"text"},                     \* Warning
   expires |-> {"number"},                   \* Expires
   cseq |-> {"number", "method"},            \* CSeq
   content_type |-> {"type", "subtype"},     \* Content-Type
   mime_version |-> {"major", "minor"},      \* MIME-Version
   alert_info |-> {"uri"}]                   \* Alert-Info

VARIABLES
  kind,      \* the header
  fields,    \* the text of each of its fields, as the peer means them
  wire,      \* the value of the header on the wire
  hop,       \* the number of elements it has passed
  raised     \* an element could not write what it had read

vars == <<kind, fields, wire, hop, raised>>

----------------------------------------------------------------------------
(* Texts and numbers *)

Escape(s, C) ==
  FlattenSeq([i \in 1..Len(s) |->
                IF s[i] \in C THEN <<"\\", s[i]>> ELSE <<s[i]>>])

InQuotes(s) == <<"\"">> \o s \o <<"\"">>

\* Integer.to_string/1
Decimal[n \in Nat] ==
  IF n < 10 THEN <<Digits[n + 1]>> ELSE Decimal[n \div 10] \o <<Digits[(n % 10) + 1]>>

IntegerToString(n) == IF n < 0 THEN <<"-">> \o Decimal[-n] ELSE Decimal[n]

\* The characters of a token or a host, which need no quotes in a parameter.
IsGenValue(s) ==
  s # <<>> /\ \A i \in 1..Len(s) : IsTokenChar(s[i]) \/ s[i] \in {":", "[", "]"}

----------------------------------------------------------------------------
(* What a peer writes *)

\* gen-value = token / host / quoted-string, and quoted-string
QuotedString(s) == InQuotes(Escape(s, {"\"", "\\"}))
GenValue(s) == IF IsGenValue(s) THEN s ELSE QuotedString(s)
Param(name, s) == IF s = <<>> THEN <<";", name>> ELSE <<";", name, "=">> \o GenValue(s)

PeerWrites(k, f) ==
  CASE k = "contact" ->
         (IF f.name = <<>> THEN <<>> ELSE QuotedString(f.name) \o <<" ">>)
         \o <<"<">> \o f.uri \o <<">">> \o Param("q", f.param) \o <<",", "<", "w", ">">>
    [] k = "challenge" ->
         <<"Digest", " ", "realm", "=">> \o QuotedString(f.realm)
         \o <<",", "algorithm", "=">>
         \o (IF IsToken(f.algorithm) THEN f.algorithm ELSE QuotedString(f.algorithm))
    [] k = "auth_info" -> <<"nextnonce", "=">> \o QuotedString(f.nextnonce)
    [] k = "via" ->
         <<"SIP", "/", "2", ".", "0", "/", "UDP", " ">>
         \o (IF ":" \in ToSet(f.host) THEN <<"[">> \o f.host \o <<"]">> ELSE f.host)
         \o (IF f.port = <<>> THEN <<>> ELSE <<":">> \o f.port)
    [] k = "retry_after" ->
         <<"5">> \o (IF f.comment = <<>> THEN <<>> ELSE <<"(">> \o f.comment \o <<")">>)
         \o <<";", "q">>
    [] k = "warning" -> <<"3", "0", "1", " ", "w", " ">> \o QuotedString(f.text)
    [] k = "expires" -> f.number
    [] k = "cseq" -> f.number \o <<" ">> \o f.method
    [] k = "content_type" ->
         IF f.type \o f.subtype = <<>> THEN <<>> ELSE f.type \o <<"/">> \o f.subtype
    [] k = "mime_version" -> f.major \o <<".">> \o f.minor
    [] k = "alert_info" -> <<"<">> \o f.uri \o <<">">>

----------------------------------------------------------------------------
(* What an element reads *)

Read(k, text) ==
  CASE k = "contact" -> ParseStarOrMultipleContactParams(text)
    [] k = "challenge" -> ParseSchemeAndAuthParams(text)
    [] k = "auth_info" -> Term(ParseOnlyAuthParams(text))
    [] k = "via" -> ParseMultipleVias(text)
    [] k = "retry_after" -> Term(ParseRetryAfter(text))
    [] k = "warning" -> ParseMultipleWarnings(text)
    [] k = "expires" -> Term(ParseSingleInteger(text))
    [] k = "cseq" -> Term(ParseCseq(text))
    [] k = "content_type" -> Term(ParseSingleTypeSubtypeParams(text))
    [] k = "mime_version" -> Term(ParseMimeVersion(text))
    [] k = "alert_info" -> ParseMultipleUriParams(text)

----------------------------------------------------------------------------
(* What an element writes *)

\* do_join/3 under do_header_values/2
Join(texts) ==
  FoldLeft(LAMBDA out, t : IF out = <<>> THEN t ELSE out \o <<",", " ">> \o t, <<>>, texts)

\* Only the quote is escaped, not the backslash.
do_maybe_double_quote(name, value) ==
  IF name[1] = "+" \/ ~IsGenValue(value) THEN InQuotes(Escape(value, {"\""})) ELSE value

\* Map.to_list/1 goes through the names in their order.
MapToList(map) ==
  SelectSeq(<<<<"algorithm">>, <<"nextnonce">>, <<"q">>, <<"realm">>>>,
            LAMBDA name : name \in DOMAIN map)

\* The list is built from the front, so the last name comes first.
do_parameters(params) ==
  LET one(name) ==
        <<";">> \o name
        \o (IF params[name] = <<>> THEN <<>>
            ELSE <<"=">> \o do_maybe_double_quote(name, params[name]))
  IN FoldLeft(LAMBDA out, name : one(name) \o out, <<>>, MapToList(params))

\* The display name goes out as it is, between quotes.
WriteContact(v) ==
  (IF v[1] = <<>> THEN <<>> ELSE InQuotes(v[1]) \o <<" ">>)
  \o <<"<">> \o v[2] \o <<">">> \o do_parameters(v[3])

do_quoted_string(value) == InQuotes(Escape(value, {"\\", "\""}))

\* The names quoted in a challenge: of ours, realm.
do_auth_value(name, value) ==
  IF name = <<"realm">> \/ ~IsToken(value) THEN do_quoted_string(value) ELSE value

WriteChallenge(v) ==
  LET names == MapToList(v[2])
      one(name) == name \o <<"=">> \o do_auth_value(name, v[2][name])
  IN v[1] \o <<" ">>
     \o FoldLeft(LAMBDA out, n : IF out = <<>> THEN one(n) ELSE out \o <<",">> \o one(n),
                 <<>>, names)

\* Authentication-Info: name=value, never quoted.
WriteAuthInfo(params) ==
  LET names == Reverse(MapToList(params))
  IN Join([i \in 1..Len(names) |-> names[i] \o <<"=">> \o params[names[i]]])

\* Mutant: an IPv6 address goes out without its brackets.
format_sent_by_host_bare(host) == host

format_sent_by_host(host) ==
  IF ":" \in ToSet(host) /\ ~StartsWith(host, "[") THEN <<"[">> \o host \o <<"]">> ELSE host

upcase_atom_or_string(s) ==
  IF Len(s) = 1 /\ s[1] \in Atoms
    THEN <<CHOOSE w \in DOMAIN LowerOf : LowerOf[w] = s[1]>> ELSE s

WriteVia(v) ==
  <<"SIP", "/">> \o IntegerToString(v[1][1]) \o <<".">> \o IntegerToString(v[1][2])
  \o <<"/">> \o upcase_atom_or_string(v[2]) \o <<" ">> \o format_sent_by_host(v[3][1])
  \o (IF v[3][2] > 0 THEN <<":">> \o IntegerToString(v[3][2]) ELSE <<>>)
  \o do_parameters(v[4])

WriteRetryAfter(v) ==
  IntegerToString(v[1])
  \o (IF v[2] # <<>> THEN <<" ", "(">> \o v[2] \o <<")", " ">> ELSE <<>>)
  \o do_parameters(v[3])

\* The warning text goes out as it is, between quotes.
WriteWarning(v) ==
  IntegerToString(v[1]) \o <<" ">> \o v[2] \o <<" ">> \o InQuotes(v[3])

\* {sequence, method} when is_integer(sequence)
WriteCseq(v) == IntegerToString(v[1]) \o <<" ">> \o upcase_atom_or_string(v[2])

\* A pair of integers meets the same clause first: the minor version goes
\* out as a byte of that value (the symbol "byte"; the byte 0 is NUL).
WriteIntegerPair(v) ==
  IntegerToString(v[1]) \o <<" ", IF v[2] = 0 THEN NUL ELSE "byte">>

WriteTypeSubtype(v) == v[1][1] \o <<"/">> \o v[1][2] \o do_parameters(v[2])

\* A byte of iodata is at most 255, and no clause writes the empty tuple
\* that an empty Content-Type is read as.
Writable(k, value) ==
  /\ k = "mime_version" => value.term[2] <= 255
  /\ k = "content_type" => value.term[1] # <<>>

\* {token, parameters}: a URI is a binary too, and gets no angle brackets.
WriteTokenParams(v) == v[1] \o do_parameters(v[2])

\* Through the list of values, one by one.
WriteList(list, Write(_)) == Join([i \in 1..Len(list) |-> Write(list[i])])

do_header_value(k, value) ==
  CASE k = "contact" ->
         IF "term" \in DOMAIN value THEN value.term ELSE WriteList(value.list, WriteContact)
    [] k = "challenge" -> WriteChallenge(value.list[1])
    [] k = "auth_info" -> WriteAuthInfo(value.term)
    [] k = "via" -> WriteList(value.list, WriteVia)
    [] k = "retry_after" -> WriteRetryAfter(value.term)
    [] k = "warning" -> WriteList(value.list, WriteWarning)
    [] k = "expires" -> IntegerToString(value.term)
    [] k = "cseq" -> WriteCseq(value.term)
    [] k = "content_type" -> WriteTypeSubtype(value.term)
    [] k = "mime_version" -> WriteIntegerPair(value.term)
    [] k = "alert_info" -> WriteList(value.list, WriteTokenParams)

----------------------------------------------------------------------------
(* The value on its way *)

Init ==
  /\ kind \in Kinds
  /\ fields = [x \in FieldsOf[kind] |-> <<>>]
  /\ wire = PeerWrites(kind, fields)
  /\ hop = 0
  /\ raised = FALSE

Length(f) == FoldSet(LAMBDA x, n : n + Len(f[x]), 0, DOMAIN f)

\* The peer writes one more symbol of one field.
Compose(x, c) ==
  /\ hop = 0 /\ ~raised
  /\ x \in DOMAIN fields
  /\ Length(fields) < MaxLen
  /\ c \in Alphabet[x]
  /\ fields' = [fields EXCEPT ![x] = Append(@, c)]
  /\ wire' = PeerWrites(kind, fields')
  /\ UNCHANGED <<kind, hop, raised>>

\* An element parses the header and sends it on.  TrimLWS is what
\* HeadersIterator does with the value before its parser sees it.
Relay ==
  /\ hop < MaxHops /\ ~raised
  /\ \E value \in {Read(kind, TrimLWS(wire))} :
       /\ ~IsAtom(value)
       /\ IF Writable(kind, value.ok)
            THEN wire' = do_header_value(kind, value.ok) /\ hop' = hop + 1 /\ raised' = FALSE
            ELSE raised' = TRUE /\ UNCHANGED <<wire, hop>>
  /\ UNCHANGED <<kind, fields>>

Next ==
  \/ \E x \in DOMAIN Alphabet : \E c \in Alphabet[x] : Compose(x, c)
  \/ Relay

Spec == Init /\ [][Next]_vars

----------------------------------------------------------------------------
(* Properties *)

Natural(digits) ==
  FoldLeft(LAMBDA n, c : n * 10 + DigitValue(c), 0, digits)

\* The term that the composed value means.
Meant ==
  LET f == fields
      param(s) == (<<"q">> :> s)
  IN CASE kind = "contact" ->
            [list |-> <<<<f.name, f.uri, param(f.param)>>, <<<<>>, <<"w">>, <<>>>>>>]
       [] kind = "challenge" ->
            [list |-> <<<<<<"Digest">>,
                          (<<"realm">> :> f.realm) @@ (<<"algorithm">> :> f.algorithm)>>>>]
       [] kind = "auth_info" -> [term |-> (<<"nextnonce">> :> f.nextnonce)]
       [] kind = "via" ->
            [list |-> <<<<<<2, 0>>, <<"udp">>,
                          <<f.host, IF f.port = <<>> THEN 5060 ELSE Natural(f.port)>>, <<>>>>>>]
       [] kind = "retry_after" -> [term |-> <<5, f.comment, param(<<>>)>>]
       [] kind = "warning" -> [list |-> <<<<301, <<"w">>, f.text>>>>]
       [] kind = "expires" -> [term |-> Natural(f.number)]
       [] kind = "cseq" -> [term |-> <<Natural(f.number), AtomOrString(f.method)>>]
       [] kind = "content_type" ->
            [term |-> <<IF f.type \o f.subtype = <<>> THEN <<>>
                        ELSE <<LowerCase(f.type), LowerCase(f.subtype)>>, <<>>>>]
       [] kind = "mime_version" -> [term |-> <<Natural(f.major), Natural(f.minor)>>]
       [] kind = "alert_info" -> [list |-> <<<<f.uri, <<>>>>>>]

Understood == Read(kind, TrimLWS(wire)) = Ok(Meant, <<>>)

Has(s, C) == ToSet(s) \cap C # {}

Count(s, c) == Cardinality({i \in 1..Len(s) : s[i] = c})

InRange(digits) == digits # <<>> /\ Natural(digits) <= IntMax

\* A value that goes out without quotes keeps its apostrophes, and the
\* parser takes an apostrophe for a quote.
BareOk(s) == ~(s # <<>> /\ s[1] = "'") /\ Count(s, "'") % 2 = 0

Balanced(s) ==
  LET opens(i) == Count(SubSeq(s, 1, i), "(")
      closes(i) == Count(SubSeq(s, 1, i), ")")
  IN /\ \A i \in 1..Len(s) : opens(i) >= closes(i)
     /\ opens(Len(s)) = closes(Len(s))

\* The values that ParseContact and its like read as they were meant: no
\* apostrophe in a display name, which closes it, no comma in a URI, which
\* splits the list, no quotes around a quoted value, which is unquoted twice.
Readable(k, f) ==
  CASE k = "contact" ->
         /\ ~Has(f.name, {"'"})
         /\ ~Has(f.uri, {","})
         /\ IsGenValue(f.param) => BareOk(f.param)
    [] k = "challenge" ->
         /\ Unquote(f.realm) = f.realm
         /\ Unquote(f.algorithm) = f.algorithm
         /\ IsToken(f.algorithm) => f.algorithm[1] # "'"
    [] k = "auth_info" -> Unquote(f.nextnonce) = f.nextnonce
    [] k = "via" -> f.host \o f.port # <<>> /\ (f.port = <<>> \/ InRange(f.port))
    [] k = "retry_after" -> Balanced(f.comment)
    [] k = "warning" -> TRUE
    [] k = "expires" -> InRange(f.number)
    [] k = "cseq" -> InRange(f.number) /\ f.method # <<>>
    [] k = "content_type" ->
         \/ f.type = <<>> /\ f.subtype = <<>>
         \/ IsToken(f.type) /\ f.subtype # <<>>
    [] k = "mime_version" -> InRange(f.major) /\ InRange(f.minor)
    [] k = "alert_info" -> ~Has(f.uri, {","})

\* The values that an element also writes as they were meant: no mark that
\* it leaves unescaped, no port 0, which it takes for none, no byte for a
\* minor version, no URI without its angle brackets.
Relayable(k, f) ==
  /\ Readable(k, f)
  /\ CASE k = "contact" ->
            ~Has(f.name, {"\"", "\\"}) /\ ~Has(f.param, {"\\"})
       [] k = "challenge" -> IsToken(f.algorithm) => BareOk(f.algorithm)
       [] k = "auth_info" ->
            f.nextnonce # <<>> /\ TrimLWS(f.nextnonce) = f.nextnonce /\ ~Has(f.nextnonce, {","})
       [] k = "via" -> f.port = <<>> \/ Natural(f.port) # 0
       [] k = "warning" -> ~Has(f.text, {"\"", "\\"})
       [] k = "content_type" -> f.type # <<>>
       [] k \in {"retry_after", "expires", "cseq"} -> TRUE
       [] k \in {"mime_version", "alert_info"} -> FALSE

\* A backslash before a quote may come back by accident: the writer escapes
\* the quote, the backslash it leaves alone escapes that, and the lenient
\* reader keeps the quote.
ByAccident(k, f) == k = "contact" /\ Has(f.param, {"\\"}) /\ Has(f.param, {"\""})

\* The parser reads a value that a peer wrote by the grammar as the peer
\* meant it, if and only if the value is Readable: quotes, escapes, lists,
\* brackets, comments and the bounds of an integer.
ReadsWhatPeerWrote == hop = 0 => (Understood <=> Readable(kind, fields))

\* The elements on the way, however many, change nothing of a Relayable
\* value, and the first one changes, or makes unreadable, any other.
SurvivesRelay ==
  /\ hop > 0 /\ Relayable(kind, fields) => Understood
  /\ hop = 1 /\ Understood /\ ~ByAccident(kind, fields) => Relayable(kind, fields)
============================================================================
