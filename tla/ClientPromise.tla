---------------------------- MODULE ClientPromise ----------------------------
(***************************************************************************)
(* What a client transaction promises to the Sippet.Core module that sent  *)
(* the request: any number of provisional responses, then at most one      *)
(* outcome (a final response or an error), then silence; and the process   *)
(* does not end without an outcome unless Sippet.terminate/2 ended it or   *)
(* it crashed when it first sent the request.  A process that the          *)
(* supervisor starts in place of one that crashed makes a promise of its   *)
(* own.                                                                    *)
(* ClientInvite and ClientNonInvite both implement it.                     *)
(***************************************************************************)
EXTENDS Naturals

VARIABLES
    live,        \* the transaction process exists
    told,        \* latest callback into the core
    outcomes,    \* number of final responses and errors delivered
    terminated,  \* the user ended the transaction
    crashed      \* a send ended the process

vars == <<live, told, outcomes, terminated, crashed>>

\* The first thing that the process does is to send the request.
Init ==
    /\ live \in BOOLEAN
    /\ crashed \in BOOLEAN
    /\ crashed <=> ~live
    /\ told = "nothing"
    /\ outcomes = 0
    /\ terminated = FALSE

Provisional ==
    /\ live /\ outcomes = 0
    /\ told' = "provisional"
    /\ UNCHANGED <<live, outcomes, terminated, crashed>>

\* A final response; the process ends at once, lingers to absorb copies, or
\* crashes when it acknowledges the response.
Final ==
    /\ live /\ outcomes = 0
    /\ told' = "final"
    /\ outcomes' = 1
    /\ live' \in BOOLEAN
    /\ crashed' \in BOOLEAN
    /\ ~(live' /\ crashed')
    /\ UNCHANGED terminated

Fail(reason) ==
    /\ live /\ outcomes = 0
    /\ told' = reason
    /\ outcomes' = 1
    /\ live' = FALSE
    /\ UNCHANGED <<terminated, crashed>>

EndLinger ==
    /\ live /\ outcomes = 1
    /\ live' = FALSE
    /\ UNCHANGED <<told, outcomes, terminated, crashed>>

Terminate ==
    /\ live
    /\ live' = FALSE
    /\ terminated' = TRUE
    /\ UNCHANGED <<told, outcomes, crashed>>

Next ==
    \/ Provisional
    \/ Final
    \/ Fail("timeout")
    \/ Fail("error")
    \/ EndLinger
    \/ Terminate

Spec == Init /\ [][Next]_vars
=============================================================================
