-------------------------- MODULE MCMessageParser --------------------------
EXTENDS MessageParser
MCLowerOf ==
  [SIP |-> "sip", Supported |-> "supported", K |-> "k", ACK |-> "ack"]
  @@ ("Content-Length" :> "content_length")
CRLF == <<"\r", "\n">>
LF == <<"\n">>
Line(text, header, value) == [text |-> text, header |-> header, value |-> value]
List(values) == Ok([list |-> values], <<>>)
One(value) == Ok([term |-> value], <<>>)
Version == <<"SIP", "/", "2", ".", "0">>
Request == [method |-> <<"ack">>, request_uri |-> <<"w">>, version |-> <<2, 0>>]
MCStartLines ==
  {[text |-> <<"ACK", " ", "w", " ">> \o Version \o CRLF, value |-> Ok(Request, <<>>)],
   [text |-> <<"ACK", "\n", " ", "w", " ">> \o Version \o LF, value |-> Ok(Request, <<>>)],
   [text |-> Version \o <<" ", "2", "0", "0", " ", "w", " ">> \o CRLF,
    value |-> Ok([version |-> <<2, 0>>, status_code |-> 200, reason_phrase |-> <<"w">>], <<>>)],
   [text |-> <<"ACK", " ", "w">> \o CRLF, value |-> Fail("missing_uri")],
   [text |-> <<"SIP", "/", "2", " ", "2">> \o LF, value |-> Fail("malformed_version")]}
MCPieces ==
  {Line(<<"Supported", ":", " ", "a", ",", " ", "b">> \o CRLF, "supported",
        List(<<<<"a">>, <<"b">>>>)),
   Line(<<"K", " ", ":", "\r", "\n", "\t", "c">> \o LF, "supported", List(<<<<"c">>>>)),
   Line(<<"l", ":", "1", "5">> \o CRLF, "content_length", One(15)),
   Line(<<"Content-Length", ":", "w">> \o CRLF, "content_length", Fail("invalid_digits")),
   Line(<<"m", ":", "<", "w", ">", ";", "q", "=", "1">> \o CRLF, "contact",
        List(<<<<<<>>, <<"w">>, (<<"q">> :> <<"1">>)>>>>)),
   Line(<<"m", ":", "*">> \o LF, "contact", One(<<"*">>)),
   Line(<<"X", ":", "a", "\n", " ", "b">> \o CRLF, "X", List(<<<<"a", " ", "b">>>>)),
   Line(<<"X", ":", "a", "\n", NUL, "b">> \o CRLF, "X", List(<<<<"a">>>>)),
   Line(<<"w">> \o LF, "none", One(<<>>)),
   Line(<<"@", ":", "w">> \o CRLF, "none", One(<<>>)),
   Line(<<"w", "\r", "w">> \o LF, "none", One(<<>>)),
   Line(CRLF, "none", One(<<>>))}
============================================================================
