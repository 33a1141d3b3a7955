------------------------ MODULE ClientNonInviteProofs ------------------------
(***************************************************************************)
(* Proofs about the non-INVITE client transaction, for all timer values:   *)
(* stale timer messages and repeated responses never reach the core, and   *)
(* never put the request on the wire again.                                *)
(***************************************************************************)
EXTENDS ClientNonInvite, TLAPS

\* The state tells how many outcomes the core has been given.
OutcomeByState ==
    /\ Waiting => outcomes = 0
    /\ state = "completed" => outcomes = 1

\* The inductive invariant.
Inv == TypeOK /\ OutcomeByState

-----------------------------------------------------------------------------
\* Casts, errors of failed sends and fired timers are messages.
LEMMA MessageTypes ==
    /\ Casts \subseteq Messages
    /\ Error \in Messages
    /\ Deadline \in Messages
    /\ \A delay \in Nat : Retry(delay) \in Messages
    /\ <<>> \in Seq(Messages)
    /\ <<Error>> \in Seq(Messages)
BY ResponseAssumption
   DEF Casts, Messages, IncomingResponse, Error, Terminate, Deadline, Retry

\* No timer runs in a process that has stopped.
LEMMA AllOffType == AllOff \in [TimerNames -> Nat \cup {Off}]
BY DEF AllOff

\* What the two ways into completed have in common.
LEMMA FinalEffect ==
    ASSUME NEW code \in Responses, TypeOK, HandleFinal(code)
    PROVE  /\ Waiting
           /\ state' \in {"completed", "stopped"}
           /\ told' = "final" /\ outcomes' = outcomes + 1
           /\ sent' = "none"
           /\ mailbox' \in Seq(Messages)
           /\ timers' \in [TimerNames -> Nat \cup {Off}]
           /\ UNCHANGED <<reliable, retry_delay, terminated>>
<1>1. /\ Waiting /\ sent' = "none" /\ EnterCompleted(Tail(mailbox))
      /\ told' = "final" /\ outcomes' = outcomes + 1
      /\ UNCHANGED <<reliable, terminated>>
    BY DEF HandleFinal, ReceiveResponse
<1>2. Tail(mailbox) \in Seq(Messages)
    BY DEF HandleFinal, Oldest, TypeOK
<1>3. CASE reliable
    <2>1. Stop
        BY <1>1, <1>3 DEF EnterCompleted
    <2> QED
        BY <1>1, <2>1, MessageTypes, AllOffType DEF Stop
<1>4. CASE ~reliable
    <2>1. /\ state' = "completed" /\ mailbox' = Tail(mailbox)
          /\ timers' = [AllOff EXCEPT !["state_timeout"] = TimerK]
          /\ UNCHANGED retry_delay
        BY <1>1, <1>4 DEF EnterCompleted
    <2>2. timers' \in [TimerNames -> Nat \cup {Off}]
        BY <2>1, AllOffType, TimerAssumption
    <2> QED
        BY <1>1, <1>2, <2>1, <2>2
<1> QED
    BY <1>3, <1>4

\* A retransmission sends the request, or queues the error of the failed send,
\* and starts the next wait.
LEMMA RetryEffect ==
    ASSUME TypeOK, WaitingRetry
    PROVE  /\ Waiting
           /\ sent' \in {"none", "request"}
           /\ mailbox' \in Seq(Messages)
           /\ timers' \in [TimerNames -> Nat \cup {Off}]
           /\ retry_delay' \in Nat
           /\ UNCHANGED <<state, reliable, told, outcomes, terminated>>
<1>1. Head(mailbox) \in Messages /\ Tail(mailbox) \in Seq(Messages)
    BY DEF WaitingRetry, TypeOK
<1>2. PICK next \in Nat : RetryAfter(next)
    <2>1. Head(mailbox).value \in Nat
        BY <1>1 DEF Messages
    <2>2. NextWait(Head(mailbox).value) \in Nat
        BY <2>1, TimerAssumption DEF NextWait
    <2> QED
        BY <2>2 DEF WaitingRetry
<1>3. mailbox' \in Seq(Messages) /\ sent' \in {"none", "request"}
    BY <1>1, <1>2, MessageTypes DEF RetryAfter, SendRequest
<1>4. timers' \in [TimerNames -> Nat \cup {Off}] /\ retry_delay' \in Nat
    BY <1>2 DEF RetryAfter, TypeOK
<1> QED
    BY <1>3, <1>4 DEF WaitingRetry, NoCallback

-----------------------------------------------------------------------------
\* The :enter callback of trying establishes the invariant.
LEMMA InitInv == Init => Inv
<1> SUFFICES ASSUME Init PROVE Inv
    OBVIOUS
<1>1. timers \in [TimerNames -> Nat \cup {Off}]
    BY TimerAssumption, AllOffType DEF Init, StartTimers
<1>2. TypeOK
    BY <1>1, TimerAssumption, MessageTypes DEF Init, TypeOK
<1> QED
    BY <1>2 DEF Init, Inv, OutcomeByState, Waiting

\* Every callback, cast, tick and fired timer keeps the invariant.
LEMMA InvStep == Inv /\ [Next]_vars => Inv'
<1> SUFFICES ASSUME Inv, [Next]_vars PROVE Inv'
    OBVIOUS
<1> USE MessageTypes, AllOffType DEF Inv, TypeOK, OutcomeByState, Waiting
<1>tail. mailbox # <<>> => Tail(mailbox) \in Seq(Messages)
    OBVIOUS
<1>1. CASE WaitingDeadline
    BY <1>1 DEF WaitingDeadline, Shutdown, Stop
<1>2. CASE WaitingRetry
    BY <1>2, RetryEffect
<1>3. ASSUME NEW code \in Responses, HandleProvisional(code)
      PROVE  Inv'
    BY <1>3, <1>tail DEF HandleProvisional, Oldest, ReceiveResponse
<1>4. ASSUME NEW code \in Responses, HandleFinal(code)
      PROVE  Inv'
    BY <1>4, FinalEffect
<1>5. CASE HandleError
    BY <1>5 DEF HandleError, Shutdown, Stop
<1>6. CASE CompletedIgnore
    BY <1>6, <1>tail DEF CompletedIgnore, NoCallback
<1>7. CASE HandleTerminate
    BY <1>7 DEF HandleTerminate, Stop, NoCallback
<1>8. CASE CompletedTimeout
    BY <1>8 DEF CompletedTimeout, Stop, NoCallback
<1>9. ASSUME NEW t \in TimerNames, NEW message \in Messages, Fire(t, message)
      PROVE  Inv'
    BY <1>9 DEF Fire
<1>10. CASE FireTimer
    BY <1>9, <1>10 DEF FireTimer, TimerNames
<1>11. CASE Tick
    <2>1. timers' \in [TimerNames -> Nat \cup {Off}]
        BY <1>11 DEF Tick, Off
    <2> QED
        BY <1>11, <2>1 DEF Tick
<1>12. ASSUME NEW event \in Casts, Cast(event)
       PROVE  Inv'
    BY <1>12 DEF Cast
<1>13. CASE UNCHANGED vars
    BY <1>13 DEF vars
<1> QED
    BY <1>1, <1>2, <1>3, <1>4, <1>5, <1>6, <1>7, <1>8, <1>10, <1>11, <1>12,
       <1>13 DEF Next, HandleMessage

\* Inv holds in every reachable state of the transaction.
THEOREM InvariantHolds == Spec => []Inv
BY InitInv, InvStep, PTL DEF Spec

\* Type correctness of the non-INVITE client transaction.
THEOREM TypeCorrect == Spec => []TypeOK
<1>1. Inv => TypeOK
    BY DEF Inv
<1> QED
    BY InvariantHolds, <1>1, PTL

-----------------------------------------------------------------------------
\* Only the retry handler of trying and proceeding sends.
LEMMA SendStep ==
    Inv /\ [Next]_vars => [sent' = "request" => outcomes' = 0]_vars
<1> SUFFICES ASSUME Inv, Next, sent' = "request" PROVE outcomes' = 0
    OBVIOUS
<1> USE DEF Inv, OutcomeByState
<1>1. CASE WaitingRetry
    BY <1>1, RetryEffect
<1>2. CASE \E code \in Responses : HandleFinal(code)
    BY <1>2, FinalEffect
<1>3. CASE HandleMessage
    BY <1>1, <1>2, <1>3
       DEF HandleMessage, WaitingDeadline, Shutdown, HandleProvisional,
           HandleError, CompletedIgnore, HandleTerminate
<1>4. CASE CompletedTimeout \/ FireTimer \/ Tick
    BY <1>4 DEF CompletedTimeout, FireTimer, Fire, Tick
<1>5. CASE \E event \in Casts : Cast(event)
    BY <1>5 DEF Cast
<1> QED
    BY <1>3, <1>4, <1>5 DEF Next

\* A retry message that fired before cancel_timers/1 never sends the request
\* once the core has an outcome.
THEOREM NoLateRequest == Spec => NoLateRetransmission
BY InvariantHolds, SendStep, PTL DEF Spec, NoLateRetransmission

\* Each step of the transaction is a step of ClientPromise or leaves what the
\* core sees unchanged.
LEMMA PromiseStep == Inv /\ [Next]_vars => [Promise!Next]_Promise!vars
<1> SUFFICES ASSUME Inv, [Next]_vars PROVE [Promise!Next]_Promise!vars
    OBVIOUS
<1> USE DEF Inv, TypeOK, OutcomeByState, Waiting, Live, Promise!vars, Promise!Next
<1>1. CASE WaitingDeadline
    BY <1>1 DEF WaitingDeadline, Shutdown, Stop, Promise!Fail
<1>2. CASE WaitingRetry
    BY <1>2, RetryEffect
<1>3. ASSUME NEW code \in Responses, HandleProvisional(code)
      PROVE  [Promise!Next]_Promise!vars
    BY <1>3 DEF HandleProvisional, ReceiveResponse, Promise!Provisional
<1>4. ASSUME NEW code \in Responses, HandleFinal(code)
      PROVE  [Promise!Next]_Promise!vars
    BY <1>4, FinalEffect DEF Promise!Final
<1>5. CASE HandleError
    BY <1>5 DEF HandleError, Shutdown, Stop, Promise!Fail
<1>6. CASE CompletedIgnore
    BY <1>6 DEF CompletedIgnore, NoCallback
<1>7. CASE HandleTerminate
    BY <1>7 DEF HandleTerminate, Stop, NoCallback, Promise!Terminate
<1>8. CASE CompletedTimeout
    BY <1>8 DEF CompletedTimeout, Stop, NoCallback, Promise!EndLinger
<1>9. CASE FireTimer
    BY <1>9 DEF FireTimer, Fire
<1>10. CASE Tick
    BY <1>10 DEF Tick
<1>11. ASSUME NEW event \in Casts, Cast(event)
       PROVE  [Promise!Next]_Promise!vars
    BY <1>11 DEF Cast
<1>12. CASE UNCHANGED vars
    BY <1>12 DEF vars
<1> QED
    BY <1>1, <1>2, <1>3, <1>4, <1>5, <1>6, <1>7, <1>8, <1>9, <1>10, <1>11,
       <1>12 DEF Next, HandleMessage

\* The non-INVITE client transaction implements ClientPromise.
THEOREM ImplementsPromise == Spec => KeepsPromise
<1>1. Init => Promise!Init
    BY DEF Init, Promise!Init, Live
<1> QED
    BY <1>1, InvariantHolds, PromiseStep, PTL
       DEF Spec, KeepsPromise, Promise!Spec

-----------------------------------------------------------------------------
(* The timers and their messages. *)

\* Where the messages of type `t` are in the queue `q`.
Positions(q, t) == {i \in DOMAIN q : q[i].type = t}

\* A message at the end of the queue is the only one that is new.
LEMMA AppendPositions ==
    ASSUME NEW q \in Seq(Messages), NEW m \in Messages, NEW t
    PROVE  /\ m.type # t => Positions(Append(q, m), t) = Positions(q, t)
           /\ m.type = t =>
                Positions(Append(q, m), t) = Positions(q, t) \cup {Len(q) + 1}
           /\ Positions(q, t) \subseteq DOMAIN Append(q, m)
           /\ Len(q) + 1 \in DOMAIN Append(q, m)
<1>1. /\ Append(q, m) \in Seq(Messages)
      /\ DOMAIN Append(q, m) = 1..(Len(q) + 1) /\ DOMAIN q = 1..Len(q)
      /\ Len(q) \in Nat
      /\ \A i \in 1..Len(q) : Append(q, m)[i] = q[i]
      /\ Append(q, m)[Len(q) + 1] = m
    OBVIOUS
<1> QED
    BY <1>1 DEF Positions

\* Taking the oldest message moves the others up.
LEMMA TailPositions ==
    ASSUME NEW q \in Seq(Messages), q # <<>>, NEW t
    PROVE  /\ Positions(q, t) = {} => Positions(Tail(q), t) = {}
           /\ \A i \in DOMAIN q : Positions(q, t) = {i} =>
                IF Head(q).type = t
                  THEN Positions(Tail(q), t) = {}
                  ELSE i - 1 \in DOMAIN Tail(q) /\ Positions(Tail(q), t) = {i - 1}
           /\ Head(q).type = t => 1 \in Positions(q, t)
<1>1. /\ Tail(q) \in Seq(Messages) /\ Len(q) \in Nat \ {0}
      /\ DOMAIN Tail(q) = 1..(Len(q) - 1) /\ DOMAIN q = 1..Len(q)
      /\ \A j \in 1..(Len(q) - 1) : Tail(q)[j] = q[j + 1]
      /\ Head(q) = q[1]
    OBVIOUS
<1>2. \A j : j \in Positions(Tail(q), t) <=>
               j \in 1..(Len(q) - 1) /\ j + 1 \in Positions(q, t)
    BY <1>1 DEF Positions
<1>3. \A i \in Positions(q, t) : i \in 1..Len(q)
    BY <1>1 DEF Positions
<1>4. Head(q).type = t <=> 1 \in Positions(q, t)
    BY <1>1 DEF Positions
<1>5. ASSUME NEW i \in DOMAIN q, Positions(q, t) = {i}
      PROVE  IF Head(q).type = t
               THEN Positions(Tail(q), t) = {}
               ELSE i - 1 \in DOMAIN Tail(q) /\ Positions(Tail(q), t) = {i - 1}
    <2>1. CASE i = 1
        BY <1>2, <1>4, <1>5, <2>1
    <2>2. CASE i # 1
        <3>1. i - 1 \in 1..(Len(q) - 1) /\ Head(q).type # t
            BY <1>1, <1>4, <1>5, <2>2
        <3>2. \A j : j \in Positions(Tail(q), t) <=> j = i - 1
            BY <1>1, <1>2, <1>5, <3>1
        <3> QED
            BY <1>1, <3>1, <3>2
    <2> QED
        BY <2>1, <2>2
<1> QED
    BY <1>2, <1>4, <1>5

\* What TimersAlive says, of the queue `q` and the timers `running`.
Once(q, running, t) ==
    IF running[t] # Off THEN Positions(q, t) = {}
    ELSE \E i \in DOMAIN q : Positions(q, t) = {i}
Chain(q, running) ==
    /\ IF reliable THEN running["retry"] = Off /\ Positions(q, "retry") = {}
       ELSE Once(q, running, "retry")
    /\ Once(q, running, "deadline")

LEMMA TimersAliveIsChain == TimersAlive <=> (Waiting => Chain(mailbox, timers))
BY DEF TimersAlive, Chain, Once, NotPending, PendingOnce, Queued, Positions

\* Messages other than those of the two timers do not touch the chain.
LEMMA AppendKeepsChain ==
    ASSUME NEW q \in Seq(Messages), NEW m \in Messages, NEW running,
           m.type \notin {"retry", "deadline"}, Chain(q, running)
    PROVE  Chain(Append(q, m), running)
<1>1. ASSUME NEW t \in {"retry", "deadline"}
      PROVE  /\ Positions(Append(q, m), t) = Positions(q, t)
             /\ Positions(q, t) \subseteq DOMAIN Append(q, m)
    BY AppendPositions
<1>2. ASSUME NEW t \in {"retry", "deadline"}, Once(q, running, t)
      PROVE  Once(Append(q, m), running, t)
    BY <1>1, <1>2 DEF Once
<1> QED
    BY <1>1, <1>2 DEF Chain

LEMMA TailKeepsChain ==
    ASSUME NEW q \in Seq(Messages), q # <<>>, NEW running,
           Head(q).type \notin {"retry", "deadline"}, Chain(q, running)
    PROVE  Chain(Tail(q), running)
<1>1. ASSUME NEW t \in {"retry", "deadline"}, Once(q, running, t)
      PROVE  Once(Tail(q), running, t)
    BY <1>1, TailPositions DEF Once
<1> QED
    BY <1>1, TailPositions DEF Chain

\* A retransmission takes the one retry message and starts the one timer.
LEMMA RetryKeepsChain ==
    ASSUME Inv, WaitingRetry, Chain(mailbox, timers)
    PROVE  Chain(mailbox, timers)'
<1>1. /\ mailbox \in Seq(Messages) /\ mailbox # <<>>
      /\ Head(mailbox).type = "retry" /\ UNCHANGED reliable
      /\ Head(mailbox) \in Messages
    BY DEF WaitingRetry, Inv, TypeOK
<1>2. PICK next \in Nat : RetryAfter(next)
    <2>1. Head(mailbox).value \in Nat
        BY <1>1 DEF Messages
    <2>2. NextWait(Head(mailbox).value) \in Nat
        BY <2>1, TimerAssumption DEF NextWait
    <2> QED
        BY <2>2 DEF WaitingRetry
<1>3. Tail(mailbox) \in Seq(Messages) /\ Error \in Messages /\ Error.type = "error"
    BY <1>1, MessageTypes DEF Error
<1>4. /\ timers' = [timers EXCEPT !["retry"] = next]
      /\ timers'["retry"] # Off /\ timers'["deadline"] = timers["deadline"]
    BY <1>2 DEF RetryAfter, Inv, TypeOK, TimerNames, Off
<1>5. ~reliable /\ Positions(Tail(mailbox), "retry") = {}
    <2>1. 1 \in Positions(mailbox, "retry")
        BY <1>1, TailPositions
    <2>2. ~reliable /\ \E i \in DOMAIN mailbox : Positions(mailbox, "retry") = {i}
        BY <2>1 DEF Chain, Once
    <2> QED
        BY <1>1, <2>2, TailPositions
<1>6. Once(Tail(mailbox), timers, "deadline")
    BY <1>1, TailPositions DEF Chain, Once
<1>7. Chain(Tail(mailbox), timers')
    BY <1>4, <1>5, <1>6 DEF Chain, Once
<1>8. mailbox' \in {Tail(mailbox), Append(Tail(mailbox), Error)}
    BY <1>2 DEF RetryAfter, SendRequest
<1>9. Chain(mailbox', timers')
    BY <1>3, <1>7, <1>8, AppendKeepsChain
<1> QED
    BY <1>1, <1>9 DEF Chain, Once, Positions

\* A timer that fires leaves its message in its place.
LEMMA FireKeepsChain ==
    ASSUME Inv, FireTimer, Chain(mailbox, timers)
    PROVE  Chain(mailbox, timers)'
<1>1. ASSUME NEW t \in {"retry", "deadline"}, NEW m \in Messages, m.type = t,
             Fire(t, m)
      PROVE  Chain(mailbox', timers')
    <2>1. /\ mailbox \in Seq(Messages) /\ mailbox' = Append(mailbox, m)
          /\ timers[t] # Off /\ timers'[t] = Off
          /\ \A u \in {"retry", "deadline"} : u # t => timers'[u] = timers[u]
        BY <1>1 DEF Fire, Inv, TypeOK, TimerNames, Off
    <2>2. Positions(mailbox', t) = Positions(mailbox, t) \cup {Len(mailbox) + 1}
          /\ Len(mailbox) + 1 \in DOMAIN mailbox'
        BY <1>1, <2>1, AppendPositions
    <2>3. ASSUME NEW u \in {"retry", "deadline"}, u # t
          PROVE  /\ Positions(mailbox', u) = Positions(mailbox, u)
                 /\ Positions(mailbox, u) \subseteq DOMAIN mailbox'
        BY <1>1, <2>1, <2>3, AppendPositions
    <2>4. Once(mailbox, timers, t) => Once(mailbox', timers', t)
        BY <2>1, <2>2 DEF Once
    <2>5. ASSUME NEW u \in {"retry", "deadline"}, u # t, Once(mailbox, timers, u)
          PROVE  Once(mailbox', timers', u)
        BY <2>1, <2>3, <2>5 DEF Once
    <2>6. t = "retry" => ~reliable
        BY <2>1 DEF Chain
    <2> QED
        BY <2>1, <2>3, <2>4, <2>5, <2>6 DEF Chain
<1>2. Chain(mailbox', timers')
    <2>1. retry_delay \in Nat
        BY DEF Inv, TypeOK
    <2>2. /\ Deadline \in Messages /\ Deadline.type = "deadline"
          /\ Retry(retry_delay) \in Messages /\ Retry(retry_delay).type = "retry"
        BY <2>1, MessageTypes DEF Deadline, Retry
    <2> QED
        BY <1>1, <2>2 DEF FireTimer
<1>3. UNCHANGED reliable
    BY DEF FireTimer, Fire
<1> QED
    BY <1>2, <1>3 DEF Chain, Once, Positions

\* TimersAlive is inductive, given what Inv says of the queue and the timers.
LEMMA TimersAliveStep == Inv /\ TimersAlive /\ [Next]_vars => TimersAlive'
<1> SUFFICES ASSUME Inv, TimersAlive, [Next]_vars, Waiting'
             PROVE  Chain(mailbox, timers)'
    BY TimersAliveIsChain DEF Chain, Once, Positions, TimersAlive, NotPending,
                              PendingOnce, Queued
<1>1. Waiting => Chain(mailbox, timers)
    BY TimersAliveIsChain
<1>2. mailbox \in Seq(Messages) /\ timers \in [TimerNames -> Nat \cup {Off}]
    BY DEF Inv, TypeOK
<1>3. ASSUME Waiting, UNCHANGED reliable, Chain(mailbox', timers')
      PROVE  Chain(mailbox, timers)'
    BY <1>3 DEF Chain, Once, Positions
<1>4. CASE WaitingRetry
    BY <1>1, <1>4, RetryKeepsChain DEF WaitingRetry
<1>5. ASSUME NEW code \in Responses, HandleProvisional(code)
      PROVE  Chain(mailbox, timers)'
    <2>1. /\ Waiting /\ mailbox # <<>> /\ Head(mailbox).type = "incoming_response"
          /\ mailbox' = Tail(mailbox) /\ UNCHANGED <<timers, reliable>>
        BY <1>5 DEF HandleProvisional, Oldest, IncomingResponse
    <2>2. Chain(Tail(mailbox), timers)
        BY <1>1, <1>2, <2>1, TailKeepsChain
    <2> QED
        BY <1>3, <2>1, <2>2
<1>6. CASE FireTimer
    <2>1. Waiting
        BY <1>6 DEF FireTimer, Fire, Waiting
    <2> QED
        BY <1>1, <1>6, <2>1, FireKeepsChain
<1>7. CASE Tick
    <2>1. Waiting /\ UNCHANGED <<mailbox, reliable>>
        BY <1>7 DEF Tick, Waiting
    <2>2. \A t \in {"retry", "deadline"} : timers'[t] = Off <=> timers[t] = Off
        BY <1>2, <1>7 DEF Tick, Off, TimerNames
    <2>3. Chain(mailbox', timers')
        BY <1>1, <2>1, <2>2 DEF Chain, Once
    <2> QED
        BY <1>3, <2>1, <2>3
<1>8. ASSUME NEW event \in Casts, Cast(event)
      PROVE  Chain(mailbox, timers)'
    <2>1. /\ Waiting /\ mailbox' = Append(mailbox, event)
          /\ UNCHANGED <<timers, reliable>>
        BY <1>8 DEF Cast, Waiting
    <2>2. event \in Messages /\ event.type \notin {"retry", "deadline"}
        BY MessageTypes DEF Casts, IncomingResponse, Error, Terminate
    <2>3. Chain(mailbox', timers')
        BY <1>1, <1>2, <2>1, <2>2, AppendKeepsChain
    <2> QED
        BY <1>3, <2>1, <2>3
<1>9. CASE UNCHANGED vars
    BY <1>1, <1>9 DEF vars, Waiting, Chain, Once, Positions
<1>10. ASSUME NEW code \in Responses, HandleFinal(code)
       PROVE  FALSE
    BY <1>10, FinalEffect DEF Inv, Waiting
<1>11. CASE WaitingDeadline \/ HandleError \/ CompletedIgnore \/ HandleTerminate
              \/ CompletedTimeout
    BY <1>11 DEF WaitingDeadline, HandleError, Shutdown, CompletedIgnore,
                 HandleTerminate, CompletedTimeout, Stop, Waiting
<1> QED
    BY <1>4, <1>5, <1>6, <1>7, <1>8, <1>9, <1>10, <1>11 DEF Next, HandleMessage

\* The retransmission chain of a transaction that waits for its outcome neither
\* dies nor forks, and its deadline is pending once.
THEOREM TimersStayAlive == Spec => []TimersAlive
<1>1. Init => TimersAlive
    <2> SUFFICES ASSUME Init, Waiting PROVE TimersAlive
        BY DEF TimersAlive
    <2>0. timers = StartTimers(reliable)
        BY DEF Init, Waiting
    <2>1. /\ timers["deadline"] # Off
          /\ timers["retry"] = IF reliable THEN Off ELSE TimerE
        BY <2>0, TimerAssumption DEF StartTimers, AllOff, TimerNames, Off
    <2>2. \A t \in {"retry", "deadline"} : Positions(mailbox, t) = {}
        BY DEF Init, Positions, Error
    <2>3. Chain(mailbox, timers)
        BY <2>1, <2>2, TimerAssumption DEF Chain, Once, Off
    <2> QED
        BY <2>3, TimersAliveIsChain
<1> QED
    BY <1>1, InvariantHolds, TimersAliveStep, PTL DEF Spec
=============================================================================
