--------------------------- MODULE MCServerInvite ---------------------------
(* Small timers for TLC: G = 1, T2 = 3 and H = 4 ticks repeat the response   *)
(* after 1 and 3 ticks and give up at 6, the longest overshoot there is.     *)
(* The core answers with a provisional code, a success and two failures.     *)
EXTENDS ServerInvite

MCBeforeTrying == 2
MCTimerG == 1
MCTimerH == 4
MCTimerI == 2
MCT2 == 3
MCResponses == {180, 200, 404, 600}
=============================================================================
