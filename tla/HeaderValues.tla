---------------------------- MODULE HeaderValues ----------------------------
(* The functions of c_src/parser.cc that read a start line or the value of *)
(* a header.  Each takes the text left in its Tokenizer and returns the    *)
(* Erlang term it builds, with the text it has not read, or an atom that   *)
(* says what is wrong.  A term is a tuple, a text (a binary), a number or  *)
(* a function (a map).  A dereference of the end of a value sees the line  *)
(* feed, the blank or the terminator after it: neither quote nor token.    *)
EXTENDS SipText

CONSTANT Atoms    \* the names that on_load makes into atoms

(* MakeLowerCaseExistingAtomOrString: the atom of a known name, whatever   *)
(* its case, and the text as it came of any other.                         *)
AtomOrString(s) ==
  IF Len(s) = 1 /\ ToLowerASCII(s[1]) \in Atoms THEN LowerCase(s) ELSE s

StartsWith(s, c) == s # <<>> /\ s[1] = c

----------------------------------------------------------------------------
(* Start lines *)

\* "SIP" is one word.  Only the first digit of each number is read.
ParseVersion(s) ==
  LET numbers(major, minor) ==
        IF minor = <<>> THEN Fail("malformed_version")
        ELSE IF ~IsDigit(major[1]) \/ ~IsDigit(minor[1])
          THEN Fail("malformed_version_number")
        ELSE Ok(<<DigitValue(major[1]), DigitValue(minor[1])>>, <<>>)
      afterSlash(major) == numbers(major, SkipLWS(SkipOne(SkipTo(major, {"."}))))
      afterName(slash) ==
        IF ~StartsWith(slash, "/") THEN Fail("missing_version")
        ELSE afterSlash(SkipLWS(SkipOne(slash)))
  IN IF ~StartsWith(LowerCase(s), "sip") THEN Fail("missing_version_spec")
     ELSE afterName(SkipLWS(SkipOne(s)))

IsStatusLine(s) ==
  Len(s) > 2 /\ StartsWith(LowerCase(s), "sip") /\ s[2] = "/"

TrimRight(s) ==
  LET kept == {i \in 1..Len(s) : s[i] # " "}
  IN IF kept = {} THEN <<>> ELSE SubSeq(s, 1, Max(kept))

ParseStatusLine(line) ==
  LET statusLine(version, status, reason) ==
        IF IsAtom(status) THEN Fail("invalid_status_code")
        ELSE Ok([version |-> version, status_code |-> status.ok,
                 reason_phrase |-> reason], <<>>)
      withReason(version, code, afterCode) ==
        IF afterCode = code THEN Fail("empty_status_code")
        ELSE statusLine(version, StringToInt(SubSeq(code, 1, Len(code) - Len(afterCode))),
                        TrimRight(Skip(afterCode, {" "})))
      withCode(version, code) == withReason(version, code, Skip(code, ToSet(Digits)))
      afterVersion(version, blank) ==
        IF IsAtom(version) THEN version
        ELSE IF blank = <<>> THEN Fail("missing_status_code")
        ELSE withCode(version.ok, Skip(blank, {" "}))
  IN afterVersion(ParseVersion(line), SkipTo(line, {" "}))

ParseRequestLine(line) ==
  LET requestLine(method, uri, version) ==
        IF IsAtom(version) THEN version
        ELSE Ok([method |-> AtomOrString(method), request_uri |-> uri,
                 version |-> version.ok], <<>>)
      afterUri(method, uri, blank) ==
        IF blank = <<>> THEN Fail("missing_uri")
        ELSE requestLine(method, uri, ParseVersion(Skip(blank, {" "})))
      withUri(method, uri) == afterUri(method, Before(uri, {" "}), SkipTo(uri, {" "}))
      afterMethod(method, blank) ==
        IF blank = <<>> THEN Fail("missing_method") ELSE withUri(method, Skip(blank, {" "}))
      trimmed(start) == afterMethod(Before(start, {" "}), SkipTo(start, {" "}))
  IN trimmed(Skip(line, {" ", "\t", "\r", "\n"}))

----------------------------------------------------------------------------
(* The parts of header values *)

ParseToken(s) ==
  LET stop == SIP_LWS \cup {";"}
      trimmed(token) == IF token = <<>> THEN Fail("empty_value")
                        ELSE Ok(Before(token, stop), SkipTo(token, stop))
  IN trimmed(SkipLWS(s))

\* An empty value is the empty tuple.
ParseTypeSubtype(s) ==
  LET stop == SIP_LWS \cup {";"}
      both(type, subtype, rest) ==
        IF ~IsToken(subtype) THEN Fail("invalid_token")
        ELSE Ok(<<LowerCase(type), LowerCase(subtype)>>, rest)
      afterSlash(type, second) ==
        IF ~IsToken(type) THEN Fail("invalid_token")
        ELSE IF second = <<>> THEN Fail("missing_subtype")
        ELSE both(type, Before(second, stop), SkipTo(second, stop))
      trimmed(start) ==
        IF start = <<>> THEN Ok(<<>>, <<>>)
        ELSE afterSlash(Before(start, SIP_LWS \cup {"/"}),
                        SkipLWS(SkipOne(SkipTo(start, {"/"}))))
  IN trimmed(SkipLWS(s))

\* Whatever precedes the first semicolon is dropped.
ParseParameters(s) ==
  PutAll(AllParameters(Values(SkipOne(SkipTo(s, {";"})), ";")), LowerCase)

ParseAuthScheme(s) ==
  LET scheme == SkipLWS(s)
  IN IF scheme = <<>> THEN Fail("missing_auth_scheme")
     ELSE Ok(Before(scheme, SIP_LWS), SkipTo(scheme, SIP_LWS))

\* The iterator has unquoted the value once; it is unquoted again here.
ParseAuthParams(s) ==
  LET again(pairs) == [i \in 1..Len(pairs) |-> [pairs[i] EXCEPT !.value = Unquote(@)]]
      AsIs(name) == name
  IN PutAll(again(NameValuePairs(s, ",")), AsIs)

\* Nested parentheses count; the comment ends where they balance.
ParseComment(s) ==
  LET inner == SkipOne(SkipTo(s, {"("}))
      count(c, i) == Cardinality({j \in 1..i : inner[j] = c})
      closed == {i \in 1..Len(inner) :
                   inner[i] = ")" /\ count(")", i) = count("(", i) + 1}
  IN IF SkipTo(s, {"("}) = <<>> \/ closed = {} THEN Fail("invalid_comment")
     ELSE Ok(TrimLWS(SubSeq(inner, 1, Min(closed) - 1)),
             SubSeq(inner, Min(closed) + 1, Len(inner)))

\* The text between the next pair of angle brackets.
Bracketed(s, noBracket) ==
  LET inner == SkipOne(SkipTo(s, {"<"}))
  IN IF SkipTo(s, {"<"}) = <<>> THEN Fail(noBracket)
     ELSE IF SkipTo(inner, {">"}) = <<>> THEN Fail("unclosed_laquot")
     ELSE Ok(Before(inner, {">"}), SkipTo(inner, {">"}))

ParseUri(s) == Bracketed(s, "invalid_uri")

\* A quoted display name is taken to end at either kind of quote.
ParseContact(text) ==
  LET stop == SIP_LWS \cup {";"}
      named(name, address) ==
        IF IsAtom(address) THEN address
        ELSE Ok(<<Unquote(name), address.ok>>, address.rest)
      quoted(s, close) ==
        IF close > Len(s) THEN Fail("unclosed_qstring")
        ELSE named(SubSeq(s, 1, close),
                   Bracketed(SubSeq(s, close + 1, Len(s)), "missing_address"))
      trimmed(s) ==
        IF s # <<>> /\ IsQuote(s[1]) THEN quoted(s, ClosingQuote(s, Quotes))
        ELSE IF SkipTo(s, {"<"}) # <<>>
          THEN named(TrimLWS(Before(s, {"<"})), Bracketed(s, "missing_address"))
        ELSE IF s # <<>> /\ IsTokenChar(s[1])
          THEN Ok(<<<<>>, Before(s, stop)>>, SkipTo(s, stop))
        ELSE Fail("invalid_char_found")
  IN trimmed(SkipLWS(text))

ParseWarning(s) ==
  LET withText(code, agent, text, close) ==
        IF close > Len(text) THEN Fail("unclosed_qstring")
        ELSE Ok(<<code, agent, Unquote(SubSeq(text, 1, close))>>, <<>>)
      afterAgent(code, agent, text) ==
        IF text = <<>> THEN Fail("missing_warn_text")
        ELSE IF ~StartsWith(text, "\"") THEN Fail("invalid_warn_text")
        ELSE withText(code, agent, text, ClosingQuote(text, {"\""}))
      afterCode(code, agent) ==
        IF IsAtom(code) \/ code.ok \notin 100..999 THEN Fail("invalid_code")
        ELSE IF agent = <<>> THEN Fail("empty_warn_agent")
        ELSE afterAgent(code.ok, Before(agent, SIP_LWS), SkipLWS(SkipTo(agent, SIP_LWS)))
      trimmed(start) ==
        IF start = <<>> THEN Fail("empty_input")
        ELSE afterCode(StringToInt(Before(start, SIP_LWS)), SkipLWS(SkipTo(start, SIP_LWS)))
  IN trimmed(SkipLWS(s))

\* The port of a protocol when the sent-by names none.
DefaultPort(protocol) ==
  CASE protocol \in {<<"udp">>, <<"tcp">>} -> 5060
    [] protocol = <<"tls">> -> 5061
    [] OTHER -> 0

ParseVia(text) ==
  LET bare(host) == IF StartsWith(host, "[") THEN SubSeq(host, 2, Len(host) - 1) ELSE host
      via(version, protocol, hostPort, rest) ==
        IF IsAtom(hostPort) THEN hostPort
        ELSE Ok(<<version, AtomOrString(protocol),
                  <<bare(hostPort.ok[1]),
                    IF hostPort.ok[2] = -1 THEN DefaultPort(protocol)
                    ELSE hostPort.ok[2]>>>>, rest)
      withSentBy(version, protocol, sentBy, rest) ==
        IF sentBy = <<>> THEN Fail("missing_sentby")
        ELSE via(version, protocol, ParseHostAndPort(sentBy), rest)
      afterProtocol(version, protocol, by) ==
        withSentBy(version, protocol, TrimLWS(Before(by, {";"})), SkipTo(by, {";"}))
      afterVersion(version, transport) ==
        IF IsAtom(version) THEN version
        ELSE IF transport = <<>> THEN Fail("missing_sent_protocol")
        ELSE afterProtocol(version.ok, LowerCase(Before(transport, SIP_LWS)),
                           SkipLWS(SkipTo(transport, SIP_LWS)))
      split(s, slash) ==
        IF ~StartsWith(LowerCase(s), "sip") THEN Fail("unknown_version")
        ELSE afterVersion(ParseVersion(SubSeq(s, 1, Len(s) - Len(slash))),
                          SkipLWS(SkipOne(slash)))
      trimmed(s) == split(s, SkipTo(SkipOne(SkipTo(s, {"/"})), {"/"}))
  IN trimmed(SkipLWS(text))

----------------------------------------------------------------------------
(* The value of a header: one term, or an Erlang list of them *)

Term(result) ==
  IF IsAtom(result) THEN result ELSE Ok([term |-> result.ok], <<>>)

Then(result, Build(_)) == IF IsAtom(result) THEN result ELSE Ok(Build(result), <<>>)

WithParameters(result) == Then(result, LAMBDA r : <<r.ok, ParseParameters(r.rest)>>)

\* Each of the ParseMultiple functions: the first error ends the loop.
Multiple(s, Parse(_)) ==
  LET each(values) == [i \in 1..Len(values) |-> Parse(values[i])]
      all(results) ==
        LET bad == {i \in 1..Len(results) : IsAtom(results[i])}
        IN IF bad # {} THEN results[Min(bad)]
           ELSE Ok([list |-> [i \in 1..Len(results) |-> results[i].ok]], <<>>)
  IN all(each(Values(s, ",")))

ParseSingleToken(s) == ParseToken(s)

ParseSingleTokenParams(s) == WithParameters(ParseToken(s))

ParseMultipleTokens(s) == Multiple(s, ParseSingleToken)

ParseMultipleTokenParams(s) == Multiple(s, ParseSingleTokenParams)

ParseSingleTypeSubtypeParams(s) == WithParameters(ParseTypeSubtype(s))

ParseMultipleTypeSubtypeParams(s) == Multiple(s, ParseSingleTypeSubtypeParams)

ParseMultipleUriParams(s) == Multiple(s, LAMBDA v : WithParameters(ParseUri(v)))

ParseSingleInteger(s) == StringToInt(Before(SkipLWS(s), SIP_LWS))

ParseOnlyAuthParams(s) == Ok(ParseAuthParams(s), <<>>)

\* A list of one element, so that repeated headers add up.
ParseSchemeAndAuthParams(s) ==
  Then(ParseAuthScheme(s), LAMBDA r : [list |-> <<<<r.ok, ParseAuthParams(r.rest)>>>>])

ParseSingleContactParams(s) ==
  Then(ParseContact(s), LAMBDA r : <<r.ok[1], r.ok[2], ParseParameters(r.rest)>>)

ParseMultipleContactParams(s) == Multiple(s, ParseSingleContactParams)

ParseStarOrMultipleContactParams(s) ==
  IF StartsWith(SkipLWS(s), "*") THEN Ok([term |-> <<"*">>], <<>>)
  ELSE ParseMultipleContactParams(s)

ParseTrimmedUtf8(s) == Ok(TrimLWS(s), <<>>)

ParseCseq(s) ==
  LET both(sequence, method) ==
        IF IsAtom(sequence) THEN Fail("invalid_sequence")
        ELSE IF method = <<>> THEN Fail("missing_method")
        ELSE Ok(<<sequence.ok, AtomOrString(Before(method, SIP_LWS))>>, <<>>)
      trimmed(start) ==
        IF start = <<>> THEN Fail("missing_sequence")
        ELSE both(StringToInt(Before(start, SIP_LWS)), SkipLWS(SkipTo(start, SIP_LWS)))
  IN trimmed(SkipLWS(s))

ParseMimeVersion(s) ==
  LET both(major, minor) ==
        IF IsAtom(major) THEN Fail("missing_or_invalid_major")
        ELSE IF IsAtom(minor) THEN Fail("invalid_minor")
        ELSE Ok(<<major.ok, minor.ok>>, <<>>)
      trimmed(start) ==
        IF start = <<>> THEN Fail("missing_major")
        ELSE both(StringToInt(Before(start, {"."})),
                  StringToInt(SkipLWS(SkipOne(SkipTo(start, {"."})))))
  IN trimmed(SkipLWS(s))

\* A parenthesis after the first semicolon does not open a comment.
ParseRetryAfter(s) ==
  LET stop == SIP_LWS \cup {"(", ";"}
      comment(rest) ==
        IF FindFirstOf(rest, {"("}) < FindFirstOf(rest, {";"})
          THEN ParseComment(rest) ELSE Ok(<<>>, rest)
      afterDelta(delta, rest) ==
        IF IsAtom(delta) THEN Fail("missing_or_invalid_delta_secs")
        ELSE Then(comment(rest), LAMBDA r : <<delta.ok, r.ok, ParseParameters(r.rest)>>)
      trimmed(start) ==
        IF start = <<>> THEN Fail("missing_delta_secs")
        ELSE afterDelta(StringToInt(Before(start, stop)), SkipTo(start, stop))
  IN trimmed(SkipLWS(s))

ParseMultipleWarnings(s) == Multiple(s, ParseWarning)

ParseMultipleVias(s) ==
  Multiple(s, LAMBDA v : Then(ParseVia(v), LAMBDA r : Append(r.ok, ParseParameters(r.rest))))
============================================================================
