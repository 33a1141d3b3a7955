-------------------------- MODULE MCClientNonInvite --------------------------
(* Small timers for TLC: with E = 1, T2 = 2 and F = 5 ticks the request is     *)
(* retransmitted after 1 and 3 ticks and the third retry fires together with  *)
(* the deadline, in either order.                                             *)
EXTENDS ClientNonInvite

MCTimerE == 1
MCTimerF == 5
MCTimerK == 2
MCT2 == 2
MCResponses == {100, 200, 404}
=============================================================================
