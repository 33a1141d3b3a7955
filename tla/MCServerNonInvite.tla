-------------------------- MODULE MCServerNonInvite --------------------------
(* Timer J of three ticks; the core answers with a provisional code, a       *)
(* success or a failure, and may answer twice.                               *)
EXTENDS ServerNonInvite

MCTimerJ == 3
MCResponses == {100, 183, 200, 404}
=============================================================================
