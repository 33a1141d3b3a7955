--------------------------- MODULE ClientNonInvite ---------------------------
(***************************************************************************)
(* The client transaction of every other method:                           *)
(* lib/sippet/transactions/client/non_invite.ex over client.ex.            *)
(*                                                                         *)
(* Unlike the INVITE transaction it keeps its retransmission and deadline  *)
(* timers itself with Process.send_after/3, so a timer that fires becomes  *)
(* an ordinary message of the mailbox, and cancel_timers/1 does not remove *)
(* a message that is already there: completed has to expect stale ones.    *)
(* Only timer K is a gen_statem state timeout.                             *)
(*                                                                         *)
(* As in ClientInvite the process crashes when a send over a reliable      *)
(* transport exits; there the request is sent only once, at the start.     *)
(***************************************************************************)
EXTENDS Integers, Sequences

CONSTANTS
    TimerE,         \* first retransmission interval, in ticks
    TimerF,         \* deadline of the transaction
    TimerK,         \* how long completed absorbs response retransmissions
    T2,             \* longest retransmission interval
    Responses,      \* status codes of the responses that may arrive
    MaxMailbox      \* bound: casts from outside wait for a shorter mailbox

ASSUME TimerAssumption ==
    /\ TimerE \in Nat \ {0}
    /\ TimerF \in Nat \ {0}
    /\ TimerK \in Nat \ {0}
    /\ T2 \in Nat \ {0}

ASSUME ResponseAssumption == Responses \subseteq 100..699

ASSUME MailboxAssumption == MaxMailbox \in Nat

VARIABLES
    state,       \* gen_statem state; "stopped" or "crashed" once the process is gone
    reliable,    \* what Sippet.reliable?/2 answers for the request's Via
    mailbox,     \* messages waiting to be handled, oldest first
    timers,      \* ticks left of each running timer, Off for the others
    retry_delay, \* content of the running retry timer
    sent,        \* message the transport took from the latest callback
    told,        \* latest callback into the Sippet.Core module
    outcomes,    \* how many final responses and errors the core was given
    terminated   \* the process was stopped by Sippet.terminate/2

vars == <<state, reliable, mailbox, timers, retry_delay, sent, told, outcomes,
          terminated>>

Off == -1
TimerNames == {"deadline", "retry", "state_timeout"}
AllOff == [t \in TimerNames |-> Off]

IncomingResponse(code) == [type |-> "incoming_response", value |-> code]
Error == [type |-> "error", value |-> 0]
Terminate == [type |-> "terminate", value |-> 0]
Deadline == [type |-> "deadline", value |-> 0]
Retry(delay) == [type |-> "retry", value |-> delay]

Casts == {IncomingResponse(code) : code \in Responses}
           \cup {Error, Terminate}
Messages ==
    [type : {"incoming_response", "error", "terminate", "deadline", "retry"},
     value : Nat]

TypeOK ==
    /\ state \in {"trying", "proceeding", "completed", "stopped", "crashed"}
    /\ reliable \in BOOLEAN
    /\ mailbox \in Seq(Messages)
    /\ timers \in [TimerNames -> Nat \cup {Off}]
    /\ retry_delay \in Nat
    /\ sent \in {"none", "request"}
    /\ told \in {"nothing", "provisional", "final", "timeout", "error"}
    /\ outcomes \in Nat
    /\ terminated \in BOOLEAN

-----------------------------------------------------------------------------
(* What the callbacks do. *)

Live == state \notin {"stopped", "crashed"}

Waiting == state \in {"trying", "proceeding"}

Oldest(message) == mailbox # <<>> /\ Head(mailbox) = message

\* send_request/2, with `rest` the mailbox left by the event being handled.
SendRequest(rest) ==
    \/ sent' = "request" /\ mailbox' = rest
    \/ sent' = "none" /\ mailbox' = Append(rest, Error)

\* {:stop, _, data}: mailbox and timers go with the process.
Stop ==
    /\ state' = "stopped"
    /\ mailbox' = <<>>
    /\ timers' = AllOff
    /\ UNCHANGED retry_delay

\* StatusLine.status_code_class/1
StatusClass(code) == code \div 100

\* receive_response/2
ReceiveResponse(code) ==
    /\ told' = IF StatusClass(code) = 1 THEN "provisional" ELSE "final"
    /\ outcomes' = IF StatusClass(code) = 1 THEN outcomes ELSE outcomes + 1

NoCallback == UNCHANGED <<told, outcomes>>

\* shutdown/2
Shutdown(reason) ==
    /\ told' = reason
    /\ outcomes' = outcomes + 1
    /\ Stop
    /\ sent' = "none"

\* start_timers/1
StartTimers(is_reliable) ==
    [AllOff EXCEPT !["deadline"] = TimerF,
                   !["retry"] = IF is_reliable THEN Off ELSE TimerE]

\* Mutant: the retry timer is armed even though its message is still queued.
RetryTwice(next_wait) ==
    /\ SendRequest(mailbox)
    /\ timers' = [timers EXCEPT !["retry"] = next_wait]
    /\ retry_delay' = next_wait

\* retry/2
RetryAfter(next_wait) ==
    /\ SendRequest(Tail(mailbox))
    /\ timers' = [timers EXCEPT !["retry"] = next_wait]
    /\ retry_delay' = next_wait

\* The wait after the next retransmission, in trying and in proceeding.
NextWait(last_delay) ==
    IF state = "trying" /\ last_delay * 2 < T2 THEN last_delay * 2 ELSE T2

\* Mutant: the state timeout of completed is not started.
EnterCompletedNoTimer(rest) ==
    IF reliable
      THEN Stop
      ELSE /\ state' = "completed"
           /\ mailbox' = rest
           /\ timers' = AllOff
           /\ UNCHANGED retry_delay

\* The :enter callback of completed: cancel_timers/1, then stop on a reliable
\* transport and wait for timer K otherwise.  Fired timers stay in the mailbox.
EnterCompleted(rest) ==
    IF reliable
      THEN Stop
      ELSE /\ state' = "completed"
           /\ mailbox' = rest
           /\ timers' = [AllOff EXCEPT !["state_timeout"] = TimerK]
           /\ UNCHANGED retry_delay

\* The process starts; its :enter callback sends the request, or exits, and
\* starts the timers.
Init ==
    /\ reliable \in BOOLEAN
    /\ \/ /\ state = "trying"
          /\ \/ sent = "request" /\ mailbox = <<>>
             \/ sent = "none" /\ mailbox = <<Error>>
          /\ timers = StartTimers(reliable)
       \/ /\ reliable
          /\ state = "crashed"
          /\ sent \in {"request", "none"} /\ mailbox = <<>>
          /\ timers = AllOff
    /\ retry_delay = TimerE
    /\ told = "nothing"
    /\ outcomes = 0
    /\ terminated = FALSE

-----------------------------------------------------------------------------
(* The environment: the router casts, time passes, timers fire. *)

\* Client.receive_response/2, receive_error/2 and terminate/1
Cast(event) ==
    /\ Live
    /\ Len(mailbox) < MaxMailbox
    /\ mailbox' = Append(mailbox, event)
    /\ sent' = "none"
    /\ UNCHANGED <<state, reliable, timers, retry_delay, told, outcomes,
                   terminated>>

Tick ==
    /\ \A t \in TimerNames : timers[t] # 0
    /\ \E t \in TimerNames : timers[t] > 0
    /\ timers' = [t \in TimerNames |->
                    IF timers[t] > 0 THEN timers[t] - 1 ELSE timers[t]]
    /\ sent' = "none"
    /\ UNCHANGED <<state, reliable, mailbox, retry_delay, told, outcomes,
                   terminated>>

\* A send_after timer fires: its message enters the mailbox.
Fire(t, message) ==
    /\ timers[t] = 0
    /\ timers' = [timers EXCEPT ![t] = Off]
    /\ mailbox' = Append(mailbox, message)
    /\ sent' = "none"
    /\ UNCHANGED <<state, reliable, retry_delay, told, outcomes, terminated>>

FireTimer ==
    \/ Fire("deadline", Deadline)
    \/ Fire("retry", Retry(retry_delay))

-----------------------------------------------------------------------------
(* The state functions. *)

\* trying and proceeding (:info, :deadline)
WaitingDeadline ==
    /\ Waiting
    /\ Oldest(Deadline)
    /\ Shutdown("timeout")
    /\ UNCHANGED <<reliable, terminated>>

\* trying and proceeding (:info, last_delay)
WaitingRetry ==
    /\ Waiting
    /\ mailbox # <<>> /\ Head(mailbox).type = "retry"
    /\ RetryAfter(NextWait(Head(mailbox).value))
    /\ NoCallback
    /\ UNCHANGED <<state, reliable, terminated>>

\* trying and proceeding (:cast, {:incoming_response, _}), class 1
HandleProvisional(code) ==
    /\ Waiting
    /\ StatusClass(code) = 1
    /\ Oldest(IncomingResponse(code))
    /\ ReceiveResponse(code)
    /\ state' = "proceeding"
    /\ mailbox' = Tail(mailbox)
    /\ sent' = "none"
    /\ UNCHANGED <<reliable, timers, retry_delay, terminated>>

\* trying and proceeding (:cast, {:incoming_response, _}), other classes
HandleFinal(code) ==
    /\ Waiting
    /\ StatusClass(code) # 1
    /\ Oldest(IncomingResponse(code))
    /\ ReceiveResponse(code)
    /\ EnterCompleted(Tail(mailbox))
    /\ sent' = "none"
    /\ UNCHANGED <<reliable, terminated>>

\* trying and proceeding (:cast, {:error, _})
HandleError ==
    /\ Waiting
    /\ Oldest(Error)
    /\ Shutdown("error")
    /\ UNCHANGED <<reliable, terminated>>

\* Mutant: completed handles every message the way proceeding does.
CompletedIgnoreLikeProceeding ==
    /\ state = "completed"
    /\ mailbox # <<>> /\ Head(mailbox) # Terminate
    /\ IF Head(mailbox).type = "retry"
         THEN RetryAfter(T2) /\ NoCallback
         ELSE /\ mailbox' = Tail(mailbox)
              /\ sent' = "none"
              /\ IF Head(mailbox).type = "incoming_response"
                   THEN ReceiveResponse(Head(mailbox).value)
                   ELSE NoCallback
              /\ UNCHANGED <<timers, retry_delay>>
    /\ UNCHANGED <<state, reliable, terminated>>

\* completed: responses, errors and stale timers are dropped.
CompletedIgnore ==
    /\ state = "completed"
    /\ mailbox # <<>> /\ Head(mailbox) # Terminate
    /\ mailbox' = Tail(mailbox)
    /\ sent' = "none"
    /\ NoCallback
    /\ UNCHANGED <<state, reliable, timers, retry_delay, terminated>>

\* completed(:state_timeout, ...)
CompletedTimeout ==
    /\ state = "completed"
    /\ timers["state_timeout"] = 0
    /\ Stop
    /\ sent' = "none"
    /\ NoCallback
    /\ UNCHANGED <<reliable, terminated>>

\* unhandled_event(:cast, :terminate, _), from every state
HandleTerminate ==
    /\ Live
    /\ Oldest(Terminate)
    /\ terminated' = TRUE
    /\ Stop
    /\ sent' = "none"
    /\ NoCallback
    /\ UNCHANGED reliable

-----------------------------------------------------------------------------
HandleMessage ==
    \/ WaitingDeadline
    \/ WaitingRetry
    \/ \E code \in Responses : HandleProvisional(code)
    \/ \E code \in Responses : HandleFinal(code)
    \/ HandleError
    \/ CompletedIgnore
    \/ HandleTerminate

Next ==
    \/ HandleMessage
    \/ CompletedTimeout
    \/ FireTimer
    \/ Tick
    \/ \E event \in Casts : Cast(event)

Spec == Init /\ [][Next]_vars

\* The scheduler runs a process that has something to handle, due timers fire
\* and time passes.
FairSpec ==
    /\ Spec
    /\ WF_vars(HandleMessage)
    /\ WF_vars(CompletedTimeout)
    /\ WF_vars(Fire("deadline", Deadline))
    /\ WF_vars(Fire("retry", Retry(retry_delay)))
    /\ WF_vars(Tick)

-----------------------------------------------------------------------------
(* Properties. *)

\* What the core sees of this transaction is what ClientPromise allows: a stale
\* timer or a repeated response met in completed never reaches the core.
Promise == INSTANCE ClientPromise WITH live <- Live, crashed <- state = "crashed"

KeepsPromise == Promise!Spec

\* Where the messages of a timer wait in the mailbox.
Queued(t) == {i \in DOMAIN mailbox : mailbox[i].type = t}

\* The timer is running or its message waits in the mailbox, and no second one.
PendingOnce(t) ==
    IF timers[t] # Off THEN Queued(t) = {} ELSE \E i \in DOMAIN mailbox : Queued(t) = {i}

NotPending(t) == timers[t] = Off /\ Queued(t) = {}

\* Until the outcome, the retransmission chain neither dies nor forks: exactly
\* one retry is pending on an unreliable transport and none on a reliable one,
\* and the deadline is pending exactly once (start_timers/1, retry/2).
TimersAlive ==
    Waiting => /\ IF reliable THEN NotPending("retry") ELSE PendingOnce("retry")
               /\ PendingOnce("deadline")

\* The request is never sent again once the core has an outcome: the retry
\* message that fired before cancel_timers/1 is ignored in completed.
NoLateRetransmission == [][sent' = "request" => outcomes' = 0]_vars

\* Timer F and timer K end every non-INVITE client transaction, whatever the
\* peer does, if the call that sends the request did not.
AlwaysEnds == <>~Live
=============================================================================
