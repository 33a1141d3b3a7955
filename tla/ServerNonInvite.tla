--------------------------- MODULE ServerNonInvite ---------------------------
(***************************************************************************)
(* The server transaction of every other method:                           *)
(* lib/sippet/transactions/server/non_invite.ex over server.ex.  Actions   *)
(* and mailbox are those of ServerInvite, as are the sends, which may exit *)
(* if the transport is reliable; the only timer is timer J.                *)
(***************************************************************************)
EXTENDS Integers, Sequences

CONSTANTS
    TimerJ,       \* how long completed repeats the final response, in ticks
    Responses,    \* status codes the core may answer with
    MaxMailbox    \* bound: casts from outside wait for a shorter mailbox

ASSUME TimerAssumption == TimerJ \in Nat \ {0}

ASSUME ResponseAssumption == Responses \subseteq 100..699

ASSUME MailboxAssumption == MaxMailbox \in Nat

VARIABLES
    state,          \* gen_statem state; "stopped" or "crashed" once the process is gone
    reliable,       \* what Sippet.reliable?/2 answers for the request's Via
    mailbox,        \* casts waiting to be handled, oldest first
    state_timeout,  \* ticks left of the state timeout, Off when not set
    last_response,  \* extras.last_response, None when there is none
    sent,           \* status code the transport took from the latest callback
    told,           \* latest callback into the Sippet.Core module
    terminated      \* the process was stopped by Sippet.terminate/2

vars == <<state, reliable, mailbox, state_timeout, last_response, sent, told,
          terminated>>

None == 0
Off == -1

IncomingRequest == [type |-> "incoming_request", code |-> None]
OutgoingResponse(code) == [type |-> "outgoing_response", code |-> code]
Error == [type |-> "error", code |-> None]
Terminate == [type |-> "terminate", code |-> None]

Events == {OutgoingResponse(code) : code \in Responses}
            \cup {IncomingRequest, Error, Terminate}

TypeOK ==
    /\ state \in {"trying", "proceeding", "completed", "stopped", "crashed"}
    /\ reliable \in BOOLEAN
    /\ mailbox \in Seq(Events)
    /\ state_timeout \in Nat \cup {Off}
    /\ last_response \in Responses \cup {None}
    /\ sent \in Responses \cup {None}
    /\ told \in {"request", "timeout", "error"}
    /\ terminated \in BOOLEAN

-----------------------------------------------------------------------------
(* What the callbacks do. *)

\* StatusLine.status_code_class/1
StatusClass(code) == code \div 100

Live == state \notin {"stopped", "crashed"}

Oldest(event) == mailbox # <<>> /\ Head(mailbox) = event

\* send_response/2, unless it exits
SendResponse(code, rest) ==
    /\ last_response' = code
    /\ \/ sent' = code /\ mailbox' = rest
       \/ sent' = None /\ mailbox' = Append(rest, Error)

SendNothing(rest) ==
    /\ sent' = None
    /\ mailbox' = rest
    /\ UNCHANGED last_response

\* {:stop, _, data}
Stop ==
    /\ state' = "stopped"
    /\ mailbox' = <<>>
    /\ state_timeout' = Off

\* shutdown/2
Shutdown(reason) ==
    /\ told' = reason
    /\ Stop
    /\ sent' = None
    /\ UNCHANGED last_response

\* Mutant: timer J is not started.
EnterCompletedNoTimer(code, rest) ==
    IF reliable
      THEN sent' \in {code, None} /\ last_response' = code /\ Stop
      ELSE /\ SendResponse(code, rest)
           /\ state' = "completed"
           /\ state_timeout' = Off

\* The final response is sent, and the :enter callback of completed stops on a
\* reliable transport and starts timer J otherwise.
EnterCompleted(code, rest) ==
    IF reliable
      THEN sent' \in {code, None} /\ last_response' = code /\ Stop
      ELSE /\ SendResponse(code, rest)
           /\ state' = "completed"
           /\ state_timeout' = TimerJ

\* The :enter callback of trying hands the request to the core.
Init ==
    /\ state = "trying"
    /\ reliable \in BOOLEAN
    /\ mailbox = <<>>
    /\ state_timeout = Off
    /\ last_response = None
    /\ sent = None
    /\ told = "request"
    /\ terminated = FALSE

-----------------------------------------------------------------------------
(* The environment: the router and the core cast, time passes. *)

\* Server.receive_request/2, send_response/2, receive_error/2, terminate/1
Cast(event) ==
    /\ Live
    /\ Len(mailbox) < MaxMailbox
    /\ SendNothing(Append(mailbox, event))
    /\ UNCHANGED <<state, reliable, state_timeout, told, terminated>>

Tick ==
    /\ state_timeout > 0
    /\ state_timeout' = state_timeout - 1
    /\ SendNothing(mailbox)
    /\ UNCHANGED <<state, reliable, told, terminated>>

-----------------------------------------------------------------------------
(* The state functions. *)

\* trying(:cast, {:incoming_request, _}): nothing to repeat yet
TryingRequest ==
    /\ state = "trying"
    /\ Oldest(IncomingRequest)
    /\ SendNothing(Tail(mailbox))
    /\ UNCHANGED <<state, reliable, state_timeout, told, terminated>>

\* Mutant: a retransmitted request in completed restarts timer J.
RepeatResponseRestart ==
    /\ state \in {"proceeding", "completed"}
    /\ Oldest(IncomingRequest)
    /\ SendResponse(last_response, Tail(mailbox))
    /\ state_timeout' = IF state = "completed" THEN TimerJ ELSE Off
    /\ UNCHANGED <<state, reliable, told, terminated>>

\* proceeding and completed (:cast, {:incoming_request, _})
RepeatResponse ==
    /\ state \in {"proceeding", "completed"}
    /\ Oldest(IncomingRequest)
    /\ SendResponse(last_response, Tail(mailbox))
    /\ UNCHANGED <<state, reliable, state_timeout, told, terminated>>

\* trying and proceeding (:cast, {:outgoing_response, _})
HandleResponse(code) ==
    /\ state \in {"trying", "proceeding"}
    /\ Oldest(OutgoingResponse(code))
    /\ IF StatusClass(code) = 1
         THEN /\ SendResponse(code, Tail(mailbox))
              /\ state' = "proceeding"
              /\ UNCHANGED state_timeout
         ELSE EnterCompleted(code, Tail(mailbox))
    /\ UNCHANGED <<reliable, told, terminated>>

\* trying and proceeding (:cast, {:error, _})
HandleError ==
    /\ state \in {"trying", "proceeding"}
    /\ Oldest(Error)
    /\ Shutdown("error")
    /\ UNCHANGED <<reliable, terminated>>

\* completed(:cast, {:error, _})
CompletedError ==
    /\ state = "completed"
    /\ Oldest(Error)
    /\ SendNothing(Tail(mailbox))
    /\ UNCHANGED <<state, reliable, state_timeout, told, terminated>>

\* completed(:state_timeout, ...)
CompletedTimeout ==
    /\ state = "completed"
    /\ state_timeout = 0
    /\ Stop
    /\ sent' = None
    /\ UNCHANGED <<reliable, last_response, told, terminated>>

\* Mutant: a second final response replaces the first one.
UnhandledResponseSent ==
    /\ state = "completed"
    /\ mailbox # <<>> /\ Head(mailbox).type = "outgoing_response"
    /\ SendResponse(Head(mailbox).code, Tail(mailbox))
    /\ UNCHANGED <<state, reliable, state_timeout, told, terminated>>

\* unhandled_event/3: the core answers again after its final response.
UnhandledResponse ==
    /\ state = "completed"
    /\ mailbox # <<>> /\ Head(mailbox).type = "outgoing_response"
    /\ Stop
    /\ sent' = None
    /\ UNCHANGED <<reliable, last_response, told, terminated>>

\* unhandled_event(:cast, :terminate, _), from every state
HandleTerminate ==
    /\ Live
    /\ Oldest(Terminate)
    /\ terminated' = TRUE
    /\ Stop
    /\ sent' = None
    /\ UNCHANGED <<reliable, last_response, told>>

\* The event at hand makes the transaction send `code`.  On a reliable
\* transport completed is never more than entered.
Sends(code) ==
    \/ state \in {"trying", "proceeding"} /\ Oldest(OutgoingResponse(code))
    \/ state = "proceeding" /\ code = last_response /\ Oldest(IncomingRequest)

\* The call of the transport, which is a GenServer.call when that is reliable,
\* exits.  The transport may have taken the response all the same.
SendExits(code) ==
    /\ reliable
    /\ Sends(code)
    /\ last_response' = code
    /\ sent' \in {code, None}
    /\ state' = "crashed"
    /\ mailbox' = <<>>
    /\ state_timeout' = Off
    /\ UNCHANGED <<reliable, told, terminated>>

-----------------------------------------------------------------------------
HandleCast ==
    \/ TryingRequest
    \/ RepeatResponse
    \/ \E code \in Responses : HandleResponse(code)
    \/ HandleError
    \/ CompletedError
    \/ UnhandledResponse
    \/ HandleTerminate

Next ==
    \/ HandleCast
    \/ \E code \in Responses : SendExits(code)
    \/ CompletedTimeout
    \/ Tick
    \/ \E event \in Events : Cast(event)

Spec == Init /\ [][Next]_vars

\* The scheduler runs a process that has something to handle, a due timeout
\* is not overtaken for ever, and time passes.
FairSpec ==
    /\ Spec
    /\ WF_vars(HandleCast)
    /\ WF_vars(CompletedTimeout)
    /\ WF_vars(Tick)

-----------------------------------------------------------------------------
(* Properties. *)

\* The final response of this transaction, None until there is one.
Answer == IF StatusClass(last_response) > 1 THEN last_response ELSE None

\* The transaction answers with one final response only, reports at most one
\* error and does not end silently without an answer, unless a send exits.
Promise == INSTANCE ServerPromise WITH live <- Live,
                                       crashed <- state = "crashed",
                                       answer <- Answer

KeepsPromise == Promise!Spec

\* Once the final response is out only copies of it are sent, and the core
\* hears nothing more: a failed copy is ignored in completed.
SilentAfterFinal ==
    [][Answer # None => sent' \in {None, Answer} /\ told' = "request"]_vars

\* Timer J ends the transaction after the final response, no matter how often
\* the peer retransmits the request.
EndsAfterFinal == state = "completed" ~> ~Live
=============================================================================
