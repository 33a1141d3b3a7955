--------------------------- MODULE MCTcpConnection ---------------------------
(* A message without a content length, one whose body is itself a header end, *)
(* one with a body of one byte whose header holds a URI such as "sip:hotel:2" *)
(* before its Content-Length, and a keep-alive.                               *)
EXTENDS TcpConnection

Plain == <<"x">> \o Ping
Tricky == <<"l4", "CR", "LF", "x">> \o Ping \o Ping
Hotel == <<"hotel2", "l1">> \o Ping \o <<"x">>

MCLengths == [l1 |-> 1, l4 |-> 4, hotel2 |-> 2]
MCLengthHeaders == {"l1", "l4"}

MCUnits == {Plain, Tricky, Hotel, Ping}
=============================================================================
