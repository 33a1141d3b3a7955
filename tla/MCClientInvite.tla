--------------------------- MODULE MCClientInvite ---------------------------
(* Small timers for TLC: A = 1 and B = 4 ticks retransmit at 1 and 3 and give *)
(* up at 7, the longest overshoot of timer B there is.                      *)
EXTENDS ClientInvite

MCTimerA == 1
MCTimerB == 4
MCTimerD == 2
MCResponses == {180, 200, 302, 600}
=============================================================================
