---------------------------- MODULE ServerPromise ----------------------------
(***************************************************************************)
(* What a server transaction promises: the first final response given to   *)
(* it is the only one it ever answers with, an error is reported to the    *)
(* Sippet.Core module at most once and is the last thing that happens, and *)
(* the process ends without a report only when it has an answer,           *)
(* Sippet.terminate/2 ended it, or it crashed when it sent a response.     *)
(* ServerInvite and ServerNonInvite both implement it.  A process that the *)
(* supervisor starts in place of one that crashed makes a promise of its   *)
(* own.                                                                    *)
(***************************************************************************)
EXTENDS Naturals

CONSTANT Responses   \* status codes the core may answer with

VARIABLES
    live,        \* the transaction process exists
    answer,      \* the final response, 0 as long as there is none
    told,        \* latest callback into the core
    terminated,  \* the user ended the transaction
    crashed      \* a send ended the process

vars == <<live, answer, told, terminated, crashed>>

Init ==
    /\ live = TRUE
    /\ answer = 0
    /\ told = "request"
    /\ terminated = FALSE
    /\ crashed = FALSE

\* The core's final response; the process ends at once, keeps repeating it,
\* or crashes when it sends it.
Answer(code) ==
    /\ live /\ answer = 0
    /\ code >= 200
    /\ answer' = code
    /\ live' \in BOOLEAN
    /\ crashed' \in BOOLEAN
    /\ ~(live' /\ crashed')
    /\ UNCHANGED <<told, terminated>>

Report(reason) ==
    /\ live
    /\ told' = reason
    /\ live' = FALSE
    /\ UNCHANGED <<answer, terminated, crashed>>

End ==
    /\ live /\ answer # 0
    /\ live' = FALSE
    /\ UNCHANGED <<answer, told, terminated, crashed>>

\* The process crashes when it sends a provisional response or a copy.
Crash ==
    /\ live
    /\ live' = FALSE
    /\ crashed' = TRUE
    /\ UNCHANGED <<answer, told, terminated>>

Terminate ==
    /\ live
    /\ live' = FALSE
    /\ terminated' = TRUE
    /\ UNCHANGED <<answer, told, crashed>>

Next ==
    \/ \E code \in Responses : Answer(code)
    \/ Report("timeout")
    \/ Report("error")
    \/ End
    \/ Crash
    \/ Terminate

Spec == Init /\ [][Next]_vars
=============================================================================
