---------------------------- MODULE ServerInvite ----------------------------
(***************************************************************************)
(* The INVITE server transaction: lib/sippet/transactions/server.ex and    *)
(* server/invite.ex.  As in ClientInvite one action is one whole callback  *)
(* with the :enter callback of the state it moves to, and a failed send    *)
(* comes back as an {:error, _} cast at the end of the own mailbox, or, if *)
(* the transport is reliable, may exit and take the process along.         *)
(*                                                                         *)
(* The process is registered under the INVITE key and under the ACK alias  *)
(* (init/1), so both methods arrive as {:incoming_request, _}.  Other      *)
(* methods have other keys: the `_otherwise` branch of completed has no    *)
(* event that reaches it.                                                  *)
(***************************************************************************)
EXTENDS Integers, Sequences

CONSTANTS
    BeforeTrying,   \* the core's time to answer before 100 Trying, in ticks
    TimerG,         \* first retransmission interval of the final response
    TimerH,         \* when the passed time reaches it, the ACK is given up
    TimerI,         \* how long confirmed absorbs ACK retransmissions
    T2,             \* longest retransmission interval
    Responses,      \* status codes the core may answer with
    MaxMailbox      \* bound: casts from outside wait for a shorter mailbox

ASSUME TimerAssumption ==
    /\ BeforeTrying \in Nat \ {0}
    /\ TimerG \in Nat \ {0}
    /\ TimerH \in Nat \ {0}
    /\ TimerI \in Nat \ {0}
    /\ T2 \in Nat \ {0}

ASSUME ResponseAssumption == Responses \subseteq 100..699

ASSUME MailboxAssumption == MaxMailbox \in Nat

VARIABLES
    state,          \* gen_statem state; "stopped" or "crashed" once the process is gone
    reliable,       \* what Sippet.reliable?/2 answers for the request's Via
    mailbox,        \* casts waiting to be handled, oldest first
    state_timeout,  \* the pending :state_timeout and its event content
    last_response,  \* extras.last_response, 0 when there is none
    sent,           \* status code the transport took from the latest callback
    told,           \* latest callback into the Sippet.Core module
    terminated,     \* the process was stopped by Sippet.terminate/2
    waited          \* ticks spent in completed

vars == <<state, reliable, mailbox, state_timeout, last_response, sent, told,
          terminated, waited>>

None == 0

IncomingRequest(method) == [type |-> method, code |-> None]
OutgoingResponse(code) == [type |-> "outgoing_response", code |-> code]
Error == [type |-> "error", code |-> None]
Terminate == [type |-> "terminate", code |-> None]

Events == {OutgoingResponse(code) : code \in Responses}
            \cup {IncomingRequest("invite"), IncomingRequest("ack")}
            \cup {Error, Terminate}

Timeout(delay, past, passed) ==
    [set |-> TRUE, left |-> delay, past |-> past, passed |-> passed]
NoTimeout == [set |-> FALSE, left |-> 0, past |-> 0, passed |-> 0]

Timeouts == [set : BOOLEAN, left : Nat, past : Nat, passed : Nat]

Codes == Responses \cup {100, None}

TypeOK ==
    /\ state \in {"proceeding", "completed", "confirmed", "stopped", "crashed"}
    /\ reliable \in BOOLEAN
    /\ mailbox \in Seq(Events)
    /\ state_timeout \in Timeouts
    /\ last_response \in Codes
    /\ sent \in Codes
    /\ told \in {"request", "timeout", "error"}
    /\ terminated \in BOOLEAN
    /\ waited \in Nat

-----------------------------------------------------------------------------
(* What the callbacks do. *)

\* StatusLine.status_code_class/1
StatusClass(code) == code \div 100

Live == state \notin {"stopped", "crashed"}

Oldest(event) == mailbox # <<>> /\ Head(mailbox) = event

\* send_response/2 remembers the response and hands it to the transport;
\* unless it exits.
SendResponse(code, rest) ==
    /\ last_response' = code
    /\ \/ sent' = code /\ mailbox' = rest
       \/ sent' = None /\ mailbox' = Append(rest, Error)

\* A callback that sends nothing and leaves `rest` in the mailbox.
SendNothing(rest) ==
    /\ sent' = None
    /\ mailbox' = rest
    /\ UNCHANGED last_response

\* {:stop, _, data}: whatever is still in the mailbox is lost.
Stop ==
    /\ state' = "stopped"
    /\ mailbox' = <<>>
    /\ state_timeout' = NoTimeout

\* shutdown/2
Shutdown(reason) ==
    /\ told' = reason
    /\ Stop
    /\ sent' = None
    /\ UNCHANGED last_response

\* retry/2
NextDelay(past) == IF past * 2 < T2 THEN past * 2 ELSE T2

\* Mutant: the waits are added up before the latest one.
TimedOutLate(passed) == passed - state_timeout.past >= TimerH

\* Mutant: timer H is compared with one wait too many.
TimedOutEarly(passed) == passed + TimerG >= TimerH

TimedOut(passed) == passed >= TimerH

\* The :enter callback of completed.
EnterCompleted ==
    state_timeout' = IF reliable THEN Timeout(TimerH, TimerH, TimerH)
                                 ELSE Timeout(TimerG, TimerG, TimerG)

\* The process starts: init/1, then the :enter callback of proceeding hands
\* the request to the core.
Init ==
    /\ state = "proceeding"
    /\ reliable \in BOOLEAN
    /\ mailbox = <<>>
    /\ state_timeout = Timeout(BeforeTrying, 0, 0)
    /\ last_response = None
    /\ sent = None
    /\ told = "request"
    /\ terminated = FALSE
    /\ waited = 0

-----------------------------------------------------------------------------
(* The environment: the router and the core cast, time passes. *)

\* Server.receive_request/2, send_response/2, receive_error/2, terminate/1
Cast(event) ==
    /\ Live
    /\ Len(mailbox) < MaxMailbox
    /\ SendNothing(Append(mailbox, event))
    /\ UNCHANGED <<state, reliable, state_timeout, told, terminated, waited>>

Tick ==
    /\ state_timeout.set
    /\ state_timeout.left > 0
    /\ state_timeout' = [state_timeout EXCEPT !.left = @ - 1]
    /\ waited' = IF state = "completed" THEN waited + 1 ELSE waited
    /\ SendNothing(mailbox)
    /\ UNCHANGED <<state, reliable, told, terminated>>

-----------------------------------------------------------------------------
(* The state functions. *)

Due == state_timeout.set /\ state_timeout.left = 0

\* Mutant: 100 Trying is sent by whatever timeout comes due.
StillTryingAnyState ==
    /\ Live
    /\ Due
    /\ SendResponse(100, mailbox)
    /\ state_timeout' = NoTimeout
    /\ UNCHANGED <<state, reliable, told, terminated, waited>>

\* proceeding(:state_timeout, :still_trying, ...)
StillTrying ==
    /\ state = "proceeding"
    /\ Due
    /\ SendResponse(100, mailbox)
    /\ state_timeout' = NoTimeout
    /\ UNCHANGED <<state, reliable, told, terminated, waited>>

\* Mutant: a retransmitted request restarts the 100 Trying timer for good.
ProceedingRequestNoTimer(method) ==
    /\ state = "proceeding"
    /\ Oldest(IncomingRequest(method))
    /\ SendNothing(Tail(mailbox))
    /\ state_timeout' = NoTimeout
    /\ UNCHANGED <<state, reliable, told, terminated, waited>>

\* proceeding(:cast, {:incoming_request, _}): repeat the latest response
ProceedingRequest(method) ==
    /\ state = "proceeding"
    /\ Oldest(IncomingRequest(method))
    /\ IF last_response = None THEN SendNothing(Tail(mailbox))
       ELSE SendResponse(last_response, Tail(mailbox))
    /\ UNCHANGED <<state, reliable, state_timeout, told, terminated, waited>>

\* proceeding(:cast, {:outgoing_response, _}).  The 100 Trying timer keeps
\* running after a provisional response and is cancelled by a final one.
ProceedingResponse(code) ==
    /\ state = "proceeding"
    /\ Oldest(OutgoingResponse(code))
    /\ CASE StatusClass(code) = 1 ->
              /\ SendResponse(code, Tail(mailbox))
              /\ UNCHANGED <<state, state_timeout>>
         [] StatusClass(code) = 2 ->
              /\ sent' \in {code, None} /\ last_response' = code
              /\ Stop
         [] OTHER ->
              /\ SendResponse(code, Tail(mailbox))
              /\ state' = "completed"
              /\ EnterCompleted
    /\ UNCHANGED <<reliable, told, terminated, waited>>

\* proceeding and completed (:cast, {:error, _})
HandleError ==
    /\ state \in {"proceeding", "completed"}
    /\ Oldest(Error)
    /\ Shutdown("error")
    /\ UNCHANGED <<reliable, terminated, waited>>

\* Mutant: the retransmission does not start the next wait.
CompletedRetryOnce ==
    /\ state = "completed"
    /\ Due
    /\ ~TimedOut(state_timeout.passed)
    /\ SendResponse(last_response, mailbox)
    /\ state_timeout' = NoTimeout
    /\ UNCHANGED <<state, reliable, told, terminated, waited>>

\* completed(:state_timeout, ...), passed_time < timer_h
CompletedRetry ==
    /\ state = "completed"
    /\ Due
    /\ ~TimedOut(state_timeout.passed)
    /\ SendResponse(last_response, mailbox)
    /\ LET delay == NextDelay(state_timeout.past)
       IN  state_timeout' =
             Timeout(delay, delay, state_timeout.passed + delay)
    /\ UNCHANGED <<state, reliable, told, terminated, waited>>

\* completed(:state_timeout, ...), passed_time >= timer_h
CompletedTimeout ==
    /\ state = "completed"
    /\ Due
    /\ TimedOut(state_timeout.passed)
    /\ Shutdown("timeout")
    /\ UNCHANGED <<reliable, terminated, waited>>

\* completed(:cast, {:incoming_request, _}), method INVITE
CompletedInvite ==
    /\ state = "completed"
    /\ Oldest(IncomingRequest("invite"))
    /\ SendResponse(last_response, Tail(mailbox))
    /\ UNCHANGED <<state, reliable, state_timeout, told, terminated, waited>>

\* completed(:cast, {:incoming_request, _}), method ACK, and the :enter
\* callback of confirmed
CompletedAck ==
    /\ state = "completed"
    /\ Oldest(IncomingRequest("ack"))
    /\ IF reliable
         THEN Stop /\ sent' = None /\ UNCHANGED last_response
         ELSE /\ SendNothing(Tail(mailbox))
              /\ state' = "confirmed"
              /\ state_timeout' = Timeout(TimerI, 0, 0)
    /\ UNCHANGED <<reliable, told, terminated, waited>>

\* confirmed: requests and errors are dropped
ConfirmedIgnore ==
    /\ state = "confirmed"
    /\ mailbox # <<>> /\ Head(mailbox).type \in {"invite", "ack", "error"}
    /\ SendNothing(Tail(mailbox))
    /\ UNCHANGED <<state, reliable, state_timeout, told, terminated, waited>>

\* confirmed(:state_timeout, ...)
ConfirmedTimeout ==
    /\ state = "confirmed"
    /\ Due
    /\ Stop
    /\ sent' = None
    /\ UNCHANGED <<reliable, last_response, told, terminated, waited>>

\* Mutant: a second final response replaces the first one.
UnhandledResponseSent ==
    /\ state \in {"completed", "confirmed"}
    /\ mailbox # <<>> /\ Head(mailbox).type = "outgoing_response"
    /\ SendResponse(Head(mailbox).code, Tail(mailbox))
    /\ UNCHANGED <<state, reliable, state_timeout, told, terminated, waited>>

\* unhandled_event/3: the core answers again after its final response.  The
\* process stops and the core is not told.
UnhandledResponse ==
    /\ state \in {"completed", "confirmed"}
    /\ mailbox # <<>> /\ Head(mailbox).type = "outgoing_response"
    /\ Stop
    /\ sent' = None
    /\ UNCHANGED <<reliable, last_response, told, terminated, waited>>

\* unhandled_event(:cast, :terminate, _), from every state
HandleTerminate ==
    /\ Live
    /\ Oldest(Terminate)
    /\ terminated' = TRUE
    /\ Stop
    /\ sent' = None
    /\ UNCHANGED <<reliable, last_response, told, waited>>

\* The event at hand makes the transaction send `code`.  A reliable transport
\* leaves nothing to CompletedRetry.
Sends(code) ==
    \/ state = "proceeding" /\ Due /\ code = 100
    \/ state = "proceeding" /\ Oldest(OutgoingResponse(code))
    \/ /\ state = "proceeding" /\ code = last_response /\ code # None
       /\ \E method \in {"invite", "ack"} : Oldest(IncomingRequest(method))
    \/ state = "completed" /\ code = last_response /\ Oldest(IncomingRequest("invite"))

\* The call of the transport, which is a GenServer.call when that is reliable,
\* exits.  The transport may have taken the response all the same.
SendExits(code) ==
    /\ reliable
    /\ Sends(code)
    /\ last_response' = code
    /\ sent' \in {code, None}
    /\ state' = "crashed"
    /\ mailbox' = <<>>
    /\ state_timeout' = NoTimeout
    /\ UNCHANGED <<reliable, told, terminated, waited>>

-----------------------------------------------------------------------------
HandleTimeout ==
    StillTrying \/ CompletedRetry \/ CompletedTimeout \/ ConfirmedTimeout

HandleCast ==
    \/ \E method \in {"invite", "ack"} : ProceedingRequest(method)
    \/ \E code \in Responses : ProceedingResponse(code)
    \/ HandleError
    \/ CompletedInvite
    \/ CompletedAck
    \/ ConfirmedIgnore
    \/ UnhandledResponse
    \/ HandleTerminate

Next ==
    \/ HandleTimeout
    \/ HandleCast
    \/ \E code \in Responses \cup {100} : SendExits(code)
    \/ Tick
    \/ \E event \in Events : Cast(event)

Spec == Init /\ [][Next]_vars

\* The scheduler runs a process that has something to handle, a due timeout
\* is not overtaken for ever, and time passes.
FairSpec ==
    /\ Spec
    /\ WF_vars(HandleTimeout)
    /\ WF_vars(HandleCast)
    /\ WF_vars(Tick)

-----------------------------------------------------------------------------
(* Properties. *)

\* The final response of this transaction, None until there is one.
Answer == IF StatusClass(last_response) > 1 THEN last_response ELSE None

\* The transaction answers with one final response only, reports at most one
\* error and does not end silently without an answer, although proceeding and
\* completed can both be shut down by an error and the core may answer twice,
\* unless a send exits.  The promise is that of one process: the one that
\* replaces a crashed process gives the request to the core again.
Promise == INSTANCE ServerPromise WITH live <- Live,
                                       crashed <- state = "crashed",
                                       answer <- Answer

KeepsPromise == Promise!Spec

\* Once the final response is out, nothing else is sent: no late 100 Trying
\* from the proceeding timer, no second answer, only copies of the first.
OnlyCopiesAfterFinal ==
    [][Answer # None => sent' \in {None, Answer}]_vars

\* The longest wait for the ACK.  Timer H is looked at only when a wait of at
\* most T2 ends, so completed can outlast timer H, but by less than T2.
MaxCompleted ==
    IF reliable THEN TimerH
    ELSE IF TimerG >= TimerH THEN TimerG
    ELSE TimerH - 1 + T2

CompletedBounded == waited <= MaxCompleted

\* The ACK is never given up before timer H.
TimeoutNotEarly == told = "timeout" => waited >= TimerH

\* Whatever the core does, the client hears something: 100 Trying is sent when
\* the core has not answered within before_trying.
AnswersOrEnds ==
    state = "proceeding" ~> last_response # None \/ ~Live

\* After the final response the transaction always ends, with or without ACK.
EndsAfterFinal == state \in {"completed", "confirmed"} ~> ~Live
=============================================================================
