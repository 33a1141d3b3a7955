---------------------------- MODULE ClientInvite ----------------------------
(***************************************************************************)
(* The INVITE client transaction: lib/sippet/transactions/client.ex and    *)
(* client/invite.ex, a gen_statem process with one function per state.     *)
(*                                                                         *)
(* One action is one whole callback: the event handler together with the   *)
(* :enter callback of the state it moves to.  A message handed to the      *)
(* transport either leaves, or its failure comes back as an {:error, _}    *)
(* cast that the transaction itself puts at the end of its own mailbox     *)
(* (Router.send_udp_direct, receive_transport_error).  Over a reliable     *)
(* transport a send is a GenServer.call, which may also exit (it times     *)
(* out, or there is no transport, or that crashes) and then takes the      *)
(* process along: the state is "crashed".  The supervisor starts another   *)
(* process, from Init and with the same request, in its place              *)
(* (TransactionSupervision).  Time advances in ticks, none of which passes *)
(* during a callback or past a state timeout that is due.                  *)
(***************************************************************************)
EXTENDS Integers, Sequences

CONSTANTS
    TimerA,         \* first retransmission interval, in ticks
    TimerB,         \* when the passed time reaches it, the request timed out
    TimerD,         \* how long completed absorbs response retransmissions
    Responses,      \* status codes of the responses that may arrive
    MaxMailbox      \* bound: casts from outside wait for a shorter mailbox

\* Timers overridden with Sippet.Timers.set_timers/2 are positive: a zero
\* timer_a would double zero for ever.
ASSUME TimerAssumption ==
    /\ TimerA \in Nat \ {0}
    /\ TimerB \in Nat \ {0}
    /\ TimerD \in Nat \ {0}

ASSUME ResponseAssumption == Responses \subseteq 100..699

ASSUME MailboxAssumption == MaxMailbox \in Nat

VARIABLES
    state,          \* gen_statem state; "stopped" or "crashed" once the process is gone
    reliable,       \* what Sippet.reliable?/2 answers for the request's Via
    mailbox,        \* casts waiting to be handled, oldest first
    state_timeout,  \* the pending :state_timeout and its event content
    sent,           \* message the transport took from the latest callback
    told,           \* latest callback into the Sippet.Core module
    outcomes,       \* how many final responses and errors the core was given
    terminated,     \* the process was stopped by Sippet.terminate/2
    waited          \* ticks spent in calling

vars == <<state, reliable, mailbox, state_timeout, sent, told, outcomes,
          terminated, waited>>

States == {"calling", "proceeding", "completed", "stopped", "crashed"}

Live == state \notin {"stopped", "crashed"}

IncomingResponse(code) == [type |-> "incoming_response", code |-> code]
Error == [type |-> "error", code |-> 0]
Terminate == [type |-> "terminate", code |-> 0]

Events == {IncomingResponse(code) : code \in Responses}
            \cup {Error, Terminate}

Timeout(delay, past, passed) ==
    [set |-> TRUE, left |-> delay, past |-> past, passed |-> passed]
NoTimeout == [set |-> FALSE, left |-> 0, past |-> 0, passed |-> 0]

Timeouts == [set : BOOLEAN, left : Nat, past : Nat, passed : Nat]

TypeOK ==
    /\ state \in States
    /\ reliable \in BOOLEAN
    /\ mailbox \in Seq(Events)
    /\ state_timeout \in Timeouts
    /\ sent \in {"none", "invite", "ack"}
    /\ told \in {"nothing", "provisional", "final", "timeout", "error"}
    /\ outcomes \in Nat
    /\ terminated \in BOOLEAN
    /\ waited \in Nat

-----------------------------------------------------------------------------
(* What the callbacks do. *)

\* send_request/2, with `rest` the mailbox left by the event being handled;
\* unless it exits.
SendRequest(message, rest) ==
    \/ sent' = message /\ mailbox' = rest
    \/ sent' = "none" /\ mailbox' = Append(rest, Error)

\* {:stop, _, data}: whatever is still in the mailbox is lost.
Stop ==
    /\ state' = "stopped"
    /\ mailbox' = <<>>
    /\ state_timeout' = NoTimeout

\* send_request/2 exits.  The transport may have taken the message all the
\* same, or take it later.
SendExits(message) ==
    /\ reliable
    /\ sent' \in {message, "none"}
    /\ state' = "crashed"
    /\ mailbox' = <<>>
    /\ state_timeout' = NoTimeout

\* StatusLine.status_code_class/1
StatusClass(code) == code \div 100

\* receive_response/2
ReceiveResponse(code) ==
    /\ told' = IF StatusClass(code) = 1 THEN "provisional" ELSE "final"
    /\ outcomes' = IF StatusClass(code) = 1 THEN outcomes ELSE outcomes + 1

NoCallback == UNCHANGED <<told, outcomes>>

\* shutdown/2
Shutdown(reason) ==
    /\ told' = reason
    /\ outcomes' = outcomes + 1
    /\ Stop

\* The delay before the next retransmission (retry/2).
NextDelay(past) == past * 2

\* The state timeout that the :enter callback of calling starts.
FirstTimeout(is_reliable) ==
    IF is_reliable THEN Timeout(TimerB, TimerB, TimerB)
                   ELSE Timeout(TimerA, TimerA, TimerA)

\* Mutants: the test one retransmission interval early; the test of the latest
\* wait instead of the sum.
TimedOutEarly(passed) == passed + TimerA >= TimerB
TimedOutOnWait(passed) == passed - state_timeout.past >= TimerB

\* Has the time waited so far used up timer B?
TimedOut(passed) == passed >= TimerB

\* Mutant: timer D is not started.
EnterCompletedNoTimer(rest) ==
    IF reliable
      THEN sent' \in {"ack", "none"} /\ Stop
      ELSE /\ SendRequest("ack", rest)
           /\ state' = "completed"
           /\ state_timeout' = NoTimeout

\* The :enter callback of completed: build and send the ACK, then stop on a
\* reliable transport and wait for timer D otherwise.
EnterCompleted(rest) ==
    IF reliable
      THEN sent' \in {"ack", "none"} /\ Stop
      ELSE /\ SendRequest("ack", rest)
           /\ state' = "completed"
           /\ state_timeout' = Timeout(TimerD, 0, 0)

\* The process starts and its :enter callback sends the INVITE, or exits.
Init ==
    /\ reliable \in BOOLEAN
    /\ \/ /\ state = "calling"
          /\ \/ sent = "invite" /\ mailbox = <<>>
             \/ sent = "none" /\ mailbox = <<Error>>
          /\ state_timeout = FirstTimeout(reliable)
       \/ /\ reliable
          /\ state = "crashed"
          /\ sent \in {"invite", "none"} /\ mailbox = <<>>
          /\ state_timeout = NoTimeout
    /\ told = "nothing"
    /\ outcomes = 0
    /\ terminated = FALSE
    /\ waited = 0

-----------------------------------------------------------------------------
(* The environment: the router casts, time passes. *)

\* Client.receive_response/2, receive_error/2 and terminate/1
Cast(event) ==
    /\ Live
    /\ Len(mailbox) < MaxMailbox
    /\ mailbox' = Append(mailbox, event)
    /\ sent' = "none"
    /\ UNCHANGED <<state, reliable, state_timeout, told, outcomes, terminated,
                   waited>>

Tick ==
    /\ state_timeout.set
    /\ state_timeout.left > 0
    /\ state_timeout' = [state_timeout EXCEPT !.left = @ - 1]
    /\ waited' = IF state = "calling" THEN waited + 1 ELSE waited
    /\ sent' = "none"
    /\ UNCHANGED <<state, reliable, mailbox, told, outcomes, terminated>>

-----------------------------------------------------------------------------
(* The state functions. *)

Due == state_timeout.set /\ state_timeout.left = 0

\* calling(:state_timeout, ...), passed_time < timer_b
CallingRetry ==
    /\ state = "calling"
    /\ Due
    /\ ~TimedOut(state_timeout.passed)
    /\ SendRequest("invite", mailbox)
    /\ LET delay == NextDelay(state_timeout.past)
       IN  state_timeout' =
             Timeout(delay, delay, state_timeout.passed + delay)
    /\ NoCallback
    /\ UNCHANGED <<state, reliable, terminated, waited>>

\* calling(:state_timeout, ...), passed_time >= timer_b
CallingTimeout ==
    /\ state = "calling"
    /\ Due
    /\ TimedOut(state_timeout.passed)
    /\ Shutdown("timeout")
    /\ sent' = "none"
    /\ UNCHANGED <<reliable, terminated, waited>>

\* The oldest cast is a response of this code.
Responds(code) == mailbox # <<>> /\ Head(mailbox) = IncomingResponse(code)

\* calling and proceeding (:cast, {:incoming_response, _}), class 1
HandleProvisional(code) ==
    /\ state \in {"calling", "proceeding"}
    /\ StatusClass(code) = 1
    /\ Responds(code)
    /\ ReceiveResponse(code)
    /\ state' = "proceeding"
    /\ state_timeout' = NoTimeout
    /\ mailbox' = Tail(mailbox)
    /\ sent' = "none"
    /\ UNCHANGED <<reliable, terminated, waited>>

\* calling and proceeding (:cast, {:incoming_response, _}), class 2
HandleSuccess(code) ==
    /\ state \in {"calling", "proceeding"}
    /\ StatusClass(code) = 2
    /\ Responds(code)
    /\ ReceiveResponse(code)
    /\ Stop
    /\ sent' = "none"
    /\ UNCHANGED <<reliable, terminated, waited>>

\* calling and proceeding (:cast, {:incoming_response, _}), other classes
HandleFailure(code) ==
    /\ state \in {"calling", "proceeding"}
    /\ StatusClass(code) \notin {1, 2}
    /\ Responds(code)
    /\ ReceiveResponse(code)
    /\ EnterCompleted(Tail(mailbox))
    /\ UNCHANGED <<reliable, terminated, waited>>

\* HandleFailure when the ACK cannot be handed over: the core has the
\* response already.
HandleFailureExits(code) ==
    /\ state \in {"calling", "proceeding"}
    /\ StatusClass(code) \notin {1, 2}
    /\ Responds(code)
    /\ ReceiveResponse(code)
    /\ SendExits("ack")
    /\ UNCHANGED <<reliable, terminated, waited>>

\* calling and proceeding (:cast, {:error, _})
HandleError ==
    /\ state \in {"calling", "proceeding"}
    /\ mailbox # <<>> /\ Head(mailbox) = Error
    /\ Shutdown("error")
    /\ sent' = "none"
    /\ UNCHANGED <<reliable, terminated, waited>>

\* Mutant: a repeated final response goes to the core once more.
CompletedResponseToCore(code) ==
    /\ state = "completed"
    /\ Responds(code)
    /\ SendRequest("ack", Tail(mailbox))
    /\ ReceiveResponse(code)
    /\ UNCHANGED <<state, reliable, state_timeout, terminated, waited>>

\* completed(:cast, {:incoming_response, _}): a repeated final response is
\* acknowledged again, anything below class 3 is dropped.
CompletedResponse(code) ==
    /\ state = "completed"
    /\ Responds(code)
    /\ IF StatusClass(code) >= 3
         THEN SendRequest("ack", Tail(mailbox))
         ELSE mailbox' = Tail(mailbox) /\ sent' = "none"
    /\ NoCallback
    /\ UNCHANGED <<state, reliable, state_timeout, terminated, waited>>

\* completed(:cast, {:error, _})
CompletedError ==
    /\ state = "completed"
    /\ mailbox # <<>> /\ Head(mailbox) = Error
    /\ mailbox' = Tail(mailbox)
    /\ sent' = "none"
    /\ NoCallback
    /\ UNCHANGED <<state, reliable, state_timeout, terminated, waited>>

\* completed(:state_timeout, ...)
CompletedTimeout ==
    /\ state = "completed"
    /\ Due
    /\ Stop
    /\ sent' = "none"
    /\ NoCallback
    /\ UNCHANGED <<reliable, terminated, waited>>

\* unhandled_event(:cast, :terminate, _), from every state
HandleTerminate ==
    /\ Live
    /\ mailbox # <<>> /\ Head(mailbox) = Terminate
    /\ terminated' = TRUE
    /\ Stop
    /\ sent' = "none"
    /\ NoCallback
    /\ UNCHANGED <<reliable, waited>>

-----------------------------------------------------------------------------
HandleTimeout == CallingRetry \/ CallingTimeout \/ CompletedTimeout

HandleCast ==
    \/ \E code \in Responses : HandleProvisional(code)
    \/ \E code \in Responses : HandleSuccess(code)
    \/ \E code \in Responses : HandleFailure(code)
    \/ HandleError
    \/ \E code \in Responses : CompletedResponse(code)
    \/ CompletedError
    \/ HandleTerminate

Next ==
    \/ HandleTimeout
    \/ HandleCast
    \/ \E code \in Responses : HandleFailureExits(code)
    \/ Tick
    \/ \E event \in Events : Cast(event)

Spec == Init /\ [][Next]_vars

\* The scheduler runs a process that has something to handle, a due timeout
\* is a message in the same first-in first-out mailbox and so is not overtaken
\* for ever, and time passes.
FairSpec ==
    /\ Spec
    /\ WF_vars(HandleTimeout)
    /\ WF_vars(HandleCast)
    /\ WF_vars(Tick)

-----------------------------------------------------------------------------
(* Properties. *)

\* What the core sees of this transaction is what ClientPromise allows: one
\* outcome at most, nothing after it (receive_response/2 is called in calling
\* and proceeding only), and no silent end (shutdown/2 tells the core first)
\* unless the call that sends the INVITE exits.  The promise is that of one
\* process: the one that replaces a crashed process may report once more.
Promise == INSTANCE ClientPromise WITH live <- Live, crashed <- state = "crashed"

KeepsPromise == Promise!Spec

\* A transaction that ended by itself has reported exactly one outcome, and a
\* transaction still waiting for one has reported none: the copies of a final
\* response and the late transport errors handled in completed stay inside.
\* One that crashed has reported one at most.
ExactlyOneOutcome ==
    /\ outcomes <= 1
    /\ state \in {"calling", "proceeding"} => outcomes = 0
    /\ state = "stopped" /\ ~terminated => outcomes = 1

\* The longest stay in calling.  Every retransmission doubles the wait and
\* timer B is looked at only when a wait ends, so the last wait can start just
\* before timer B: the transaction gives up at most 2 * TimerB + TimerA - 2
\* ticks after the request was first sent.
MaxCalling ==
    IF reliable THEN TimerB
    ELSE IF TimerA >= TimerB THEN TimerA
    ELSE 2 * (TimerB - 1) + TimerA

CallingBounded == waited <= MaxCalling

\* A request is never declared timed out before timer B has elapsed
\* (calling(:state_timeout, ...) compares the accumulated waits).
TimeoutNotEarly == told = "timeout" => waited >= TimerB

\* The transaction always moves on: timers A and B bound calling, timer D
\* bounds completed.  Proceeding itself may last for ever
\* (lib/sippet.ex:195-198), until Sippet.terminate/2 ends it, whatever is
\* queued before the :terminate cast.
MovesOn ==
    /\ state \in {"calling", "completed"} ~> state = "proceeding" \/ ~Live
    /\ (\E i \in DOMAIN mailbox : mailbox[i] = Terminate) ~> ~Live
=============================================================================
