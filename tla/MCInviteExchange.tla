-------------------------- MODULE MCInviteExchange --------------------------
(* The shortest timers at which every retransmission and every timeout still *)
(* happens: the client sends its INVITE twice, the server its failure twice. *)
EXTENDS InviteExchange

MCResponses == {180, 200, 404}
=============================================================================
