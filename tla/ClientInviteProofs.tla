------------------------- MODULE ClientInviteProofs -------------------------
(***************************************************************************)
(* Proofs about the INVITE client transaction, for all timer values.       *)
(***************************************************************************)
EXTENDS ClientInvite, TLAPS

\* While calling, the content of the state timeout accounts for the time: the
\* accumulated waits are the time already spent plus the rest of this wait,
\* and on an unreliable transport they are twice the latest wait less timer A.
TimerAccount ==
    state = "calling" =>
        /\ state_timeout.set
        /\ waited + state_timeout.left = state_timeout.passed
        /\ state_timeout.passed <= MaxCalling
        /\ reliable => state_timeout.passed = TimerB
        /\ ~reliable =>
             /\ state_timeout.past >= TimerA
             /\ state_timeout.passed = 2 * state_timeout.past - TimerA

\* The state tells how many outcomes the core has been given.
OutcomeByState ==
    /\ state \in {"calling", "proceeding"} => outcomes = 0
    /\ state = "completed" => outcomes = 1
    /\ state \in {"stopped", "crashed"} => outcomes \in {0, 1}
    /\ state = "stopped" /\ ~terminated => outcomes = 1
    /\ outcomes = 0 => told \in {"nothing", "provisional"}

\* The inductive invariant.
Inv ==
    /\ TypeOK
    /\ OutcomeByState
    /\ TimerAccount
    /\ CallingBounded
    /\ TimeoutNotEarly

-----------------------------------------------------------------------------
\* The events the environment casts are events.
LEMMA EventTypes ==
    /\ Error \in Events
    /\ Terminate \in Events
    /\ <<>> \in Seq(Events)
    /\ <<Error>> \in Seq(Events)
BY DEF Events

\* A send leaves the mailbox well typed whether or not it fails.
LEMMA SendRequestType ==
    ASSUME NEW message, NEW rest \in Seq(Events), SendRequest(message, rest)
    PROVE  mailbox' \in Seq(Events)
BY EventTypes DEF SendRequest

\* The :enter callback of calling establishes the invariant.
LEMMA InitInv == Init => Inv
<1> SUFFICES ASSUME Init PROVE Inv
    OBVIOUS
<1> USE TimerAssumption
<1>1. TypeOK
    <2>1. state_timeout \in Timeouts
        <3>1. FirstTimeout(reliable) \in Timeouts /\ NoTimeout \in Timeouts
            BY DEF Timeouts, FirstTimeout, Timeout, NoTimeout
        <3> QED
            BY <3>1 DEF Init
    <2> QED
        BY <2>1, EventTypes DEF Init, TypeOK, States
<1>2. OutcomeByState
    BY DEF Init, OutcomeByState
<1>3. TimerAccount
    BY DEF Init, TimerAccount, FirstTimeout, Timeout, MaxCalling
<1>4. CallingBounded /\ TimeoutNotEarly
    BY DEF Init, CallingBounded, TimeoutNotEarly, MaxCalling
<1> QED
    BY <1>1, <1>2, <1>3, <1>4 DEF Inv

\* Every callback, every cast and every tick keeps the variables well typed.
LEMMA TypeStep == Inv /\ [Next]_vars => TypeOK'
<1> SUFFICES ASSUME Inv, [Next]_vars PROVE TypeOK'
    OBVIOUS
<1> USE TimerAssumption, EventTypes DEF Inv, TypeOK, States, Timeouts
<1>tail. mailbox # <<>> => Tail(mailbox) \in Seq(Events)
    OBVIOUS
<1>1. CASE CallingRetry
    <2>1. mailbox' \in Seq(Events)
        BY <1>1, SendRequestType DEF CallingRetry
    <2>2. state_timeout' \in Timeouts
        BY <1>1 DEF CallingRetry, Timeout, NextDelay
    <2> QED
        BY <1>1, <2>1, <2>2 DEF CallingRetry, SendRequest, NoCallback
<1>2. CASE CallingTimeout
    BY <1>2 DEF CallingTimeout, Shutdown, Stop, NoTimeout
<1>3. CASE CompletedTimeout
    BY <1>3 DEF CompletedTimeout, Stop, NoTimeout, NoCallback
<1>4. ASSUME NEW code \in Responses, HandleProvisional(code)
      PROVE  TypeOK'
    BY <1>4, <1>tail DEF HandleProvisional, Responds, ReceiveResponse, NoTimeout
<1>5. ASSUME NEW code \in Responses, HandleSuccess(code)
      PROVE  TypeOK'
    BY <1>5 DEF HandleSuccess, ReceiveResponse, Stop, NoTimeout
<1>6. ASSUME NEW code \in Responses, HandleFailure(code)
      PROVE  TypeOK'
    <2>1. Responds(code) /\ EnterCompleted(Tail(mailbox))
        BY <1>6 DEF HandleFailure
    <2>2. /\ told' \in {"provisional", "final"} /\ outcomes' \in Nat
          /\ UNCHANGED <<reliable, terminated, waited>>
        BY <1>6 DEF HandleFailure, ReceiveResponse
    <2>3. CASE reliable
        <3>1. sent' \in {"ack", "none"} /\ Stop
            BY <2>1, <2>3 DEF EnterCompleted
        <3> QED
            BY <2>2, <3>1 DEF Stop, NoTimeout
    <2>4. CASE ~reliable
        <3>1. /\ SendRequest("ack", Tail(mailbox))
              /\ state' = "completed"
              /\ state_timeout' = Timeout(TimerD, 0, 0)
            BY <2>1, <2>4 DEF EnterCompleted
        <3>2. mailbox' \in Seq(Events) /\ sent' \in {"ack", "none"}
            BY <2>1, <3>1, <1>tail, SendRequestType DEF Responds, SendRequest
        <3> QED
            BY <2>2, <3>1, <3>2 DEF Timeout
    <2> QED
        BY <2>3, <2>4
<1>7. CASE HandleError
    BY <1>7 DEF HandleError, Shutdown, Stop, NoTimeout
<1>8. ASSUME NEW code \in Responses, CompletedResponse(code)
      PROVE  TypeOK'
    <2>1. mailbox' \in Seq(Events) /\ sent' \in {"none", "ack"}
        BY <1>8, <1>tail, SendRequestType
           DEF CompletedResponse, Responds, SendRequest
    <2> QED
        BY <1>8, <2>1 DEF CompletedResponse, NoCallback
<1>9. CASE CompletedError
    BY <1>9, <1>tail DEF CompletedError, NoCallback
<1>10. CASE HandleTerminate
    BY <1>10 DEF HandleTerminate, Stop, NoTimeout, NoCallback
<1>11. CASE Tick
    BY <1>11 DEF Tick
<1>12. ASSUME NEW event \in Events, Cast(event)
       PROVE  TypeOK'
    BY <1>12 DEF Cast
<1>13. CASE UNCHANGED vars
    BY <1>13 DEF vars
<1>14. ASSUME NEW code \in Responses, HandleFailureExits(code)
       PROVE  TypeOK'
    BY <1>14 DEF HandleFailureExits, ReceiveResponse, SendExits, NoTimeout
<1> QED
    BY <1>1, <1>2, <1>3, <1>4, <1>5, <1>6, <1>7, <1>8, <1>9, <1>10, <1>11,
       <1>12, <1>13, <1>14 DEF Next, HandleTimeout, HandleCast

\* What the two ways to end up in completed have in common: the core is given
\* one final response, and on a reliable transport the process is gone.
LEMMA FailureEffect ==
    ASSUME NEW code \in Responses, TypeOK, HandleFailure(code)
    PROVE  /\ state \in {"calling", "proceeding"}
           /\ state' \in {"completed", "stopped"}
           /\ told' = "final" /\ outcomes' = outcomes + 1
           /\ UNCHANGED <<reliable, terminated, waited>>
<1>1. state' \in {"completed", "stopped"}
    BY DEF HandleFailure, EnterCompleted, Stop
<1> QED
    BY <1>1 DEF HandleFailure, ReceiveResponse, TypeOK

\* The same when the call that sends the ACK exits.
LEMMA ExitEffect ==
    ASSUME NEW code \in Responses, TypeOK, HandleFailureExits(code)
    PROVE  /\ state \in {"calling", "proceeding"}
           /\ state' = "crashed"
           /\ told' = "final" /\ outcomes' = outcomes + 1
           /\ UNCHANGED <<reliable, terminated, waited>>
BY DEF HandleFailureExits, ReceiveResponse, SendExits, TypeOK

\* No step gives the core a second outcome, a callback after the outcome, or
\* ends the process silently.
LEMMA OutcomeStep == Inv /\ [Next]_vars => OutcomeByState'
<1> SUFFICES ASSUME Inv, [Next]_vars PROVE OutcomeByState'
    OBVIOUS
<1> USE DEF Inv, TypeOK, States, OutcomeByState
<1>1. CASE CallingRetry
    BY <1>1 DEF CallingRetry, NoCallback
<1>2. CASE CallingTimeout
    BY <1>2 DEF CallingTimeout, Shutdown, Stop
<1>3. CASE CompletedTimeout
    BY <1>3 DEF CompletedTimeout, Stop, NoCallback
<1>4. ASSUME NEW code \in Responses, HandleProvisional(code)
      PROVE  OutcomeByState'
    BY <1>4 DEF HandleProvisional, ReceiveResponse
<1>5. ASSUME NEW code \in Responses, HandleSuccess(code)
      PROVE  OutcomeByState'
    BY <1>5 DEF HandleSuccess, ReceiveResponse, Stop
<1>6. ASSUME NEW code \in Responses, HandleFailure(code)
      PROVE  OutcomeByState'
    BY <1>6, FailureEffect
<1>7. CASE HandleError
    BY <1>7 DEF HandleError, Shutdown, Stop
<1>8. ASSUME NEW code \in Responses, CompletedResponse(code)
      PROVE  OutcomeByState'
    BY <1>8 DEF CompletedResponse, NoCallback
<1>9. CASE CompletedError
    BY <1>9 DEF CompletedError, NoCallback
<1>10. CASE HandleTerminate
    BY <1>10 DEF HandleTerminate, Stop, NoCallback
<1>11. CASE Tick
    BY <1>11 DEF Tick
<1>12. ASSUME NEW event \in Events, Cast(event)
       PROVE  OutcomeByState'
    BY <1>12 DEF Cast
<1>13. CASE UNCHANGED vars
    BY <1>13 DEF vars
<1>14. ASSUME NEW code \in Responses, HandleFailureExits(code)
       PROVE  OutcomeByState'
    BY <1>14, ExitEffect
<1> QED
    BY <1>1, <1>2, <1>3, <1>4, <1>5, <1>6, <1>7, <1>8, <1>9, <1>10, <1>11,
       <1>12, <1>13, <1>14 DEF Next, HandleTimeout, HandleCast

\* The time account is kept by every step.  The retransmission is the step
\* that matters: it happens only while the passed time is below timer B, and
\* the wait it adds is the passed time plus timer A.
LEMMA TimerStep ==
    Inv /\ [Next]_vars => TimerAccount' /\ CallingBounded' /\ TimeoutNotEarly'
<1> SUFFICES ASSUME Inv, [Next]_vars
             PROVE  TimerAccount' /\ CallingBounded' /\ TimeoutNotEarly'
    OBVIOUS
<1> USE TimerAssumption
        DEF Inv, TypeOK, States, Timeouts, TimerAccount, CallingBounded,
            TimeoutNotEarly, MaxCalling
<1>0. ASSUME UNCHANGED <<reliable, waited>>, state' # "calling",
             told' # "timeout"
      PROVE  TimerAccount' /\ CallingBounded' /\ TimeoutNotEarly'
    BY <1>0
<1>1. CASE CallingRetry
    <2>1. ~reliable /\ state_timeout.passed < TimerB
        BY <1>1 DEF CallingRetry, TimedOut
    <2>2. state_timeout.left = 0 /\ waited = state_timeout.passed
        BY <1>1 DEF CallingRetry, Due
    <2>3. /\ UNCHANGED <<state, reliable, told, waited>>
          /\ state_timeout'.set
          /\ state_timeout'.left = 2 * state_timeout.past
          /\ state_timeout'.past = 2 * state_timeout.past
          /\ state_timeout'.passed =
               state_timeout.passed + 2 * state_timeout.past
        BY <1>1 DEF CallingRetry, Timeout, NextDelay, NoCallback
    <2>4. /\ state_timeout.past >= TimerA
          /\ state_timeout.passed = 2 * state_timeout.past - TimerA
        BY <1>1, <2>1 DEF CallingRetry
    <2>5. TimerA < TimerB
        BY <2>1, <2>4, <1>1 DEF CallingRetry
    <2>6. TimerAccount'
        BY <1>1, <2>1, <2>2, <2>3, <2>4, <2>5 DEF CallingRetry
    <2>7. CallingBounded' /\ TimeoutNotEarly'
        BY <2>3
    <2> QED
        BY <2>6, <2>7
<1>2. CASE CallingTimeout
    BY <1>2 DEF CallingTimeout, Due, TimedOut, Shutdown, Stop
<1>3. CASE CompletedTimeout
    BY <1>3 DEF CompletedTimeout, Stop, NoCallback
<1>4. ASSUME NEW code \in Responses, HandleProvisional(code)
      PROVE  TimerAccount' /\ CallingBounded' /\ TimeoutNotEarly'
    BY <1>4, <1>0 DEF HandleProvisional, ReceiveResponse
<1>5. ASSUME NEW code \in Responses, HandleSuccess(code)
      PROVE  TimerAccount' /\ CallingBounded' /\ TimeoutNotEarly'
    BY <1>5, <1>0 DEF HandleSuccess, ReceiveResponse, Stop
<1>6. ASSUME NEW code \in Responses, HandleFailure(code)
      PROVE  TimerAccount' /\ CallingBounded' /\ TimeoutNotEarly'
    BY <1>6, <1>0, FailureEffect
<1>7. CASE HandleError
    BY <1>7, <1>0 DEF HandleError, Shutdown, Stop
<1>8. ASSUME NEW code \in Responses, CompletedResponse(code)
      PROVE  TimerAccount' /\ CallingBounded' /\ TimeoutNotEarly'
    BY <1>8 DEF CompletedResponse, NoCallback
<1>9. CASE CompletedError
    BY <1>9 DEF CompletedError, NoCallback
<1>10. CASE HandleTerminate
    BY <1>10 DEF HandleTerminate, Stop, NoCallback
<1>11. CASE Tick
    <2>1. /\ UNCHANGED <<state, reliable, told>>
          /\ state_timeout'.left = state_timeout.left - 1
          /\ state_timeout'.set = state_timeout.set
          /\ state_timeout'.past = state_timeout.past
          /\ state_timeout'.passed = state_timeout.passed
          /\ state_timeout.left > 0
        BY <1>11 DEF Tick
    <2>2. CASE state = "calling"
        <3>1. waited' = waited + 1
            BY <1>11, <2>2 DEF Tick
        <3>2. TimerAccount'
            BY <2>1, <2>2, <3>1
        <3>3. CallingBounded' /\ TimeoutNotEarly'
            BY <2>1, <2>2, <3>1
        <3> QED
            BY <3>2, <3>3
    <2>3. CASE state # "calling"
        BY <1>11, <2>1, <2>3 DEF Tick
    <2> QED
        BY <2>2, <2>3
<1>12. ASSUME NEW event \in Events, Cast(event)
       PROVE  TimerAccount' /\ CallingBounded' /\ TimeoutNotEarly'
    BY <1>12 DEF Cast
<1>13. CASE UNCHANGED vars
    BY <1>13 DEF vars
<1>14. ASSUME NEW code \in Responses, HandleFailureExits(code)
       PROVE  TimerAccount' /\ CallingBounded' /\ TimeoutNotEarly'
    BY <1>14, <1>0, ExitEffect
<1> HIDE DEF Inv, TypeOK, TimerAccount, CallingBounded, TimeoutNotEarly
<1> QED
    BY <1>1, <1>2, <1>3, <1>4, <1>5, <1>6, <1>7, <1>8, <1>9, <1>10, <1>11,
       <1>12, <1>13, <1>14 DEF Next, HandleTimeout, HandleCast

-----------------------------------------------------------------------------
\* Inv holds in every reachable state of the transaction.
THEOREM InvariantHolds == Spec => []Inv
<1>1. Inv /\ [Next]_vars => Inv'
    BY TypeStep, OutcomeStep, TimerStep DEF Inv
<1> QED
    BY InitInv, <1>1, PTL DEF Spec

\* Type correctness of the INVITE client transaction.
THEOREM TypeCorrect == Spec => []TypeOK
<1>1. Inv => TypeOK
    BY DEF Inv
<1> QED
    BY InvariantHolds, <1>1, PTL

\* An INVITE client transaction reports at most one outcome to the core, none
\* before it is completed, and exactly one if it ended by itself, for all
\* timers and all orders of responses, transport errors and timeouts.
THEOREM OneOutcome == Spec => []ExactlyOneOutcome
<1>1. Inv => ExactlyOneOutcome
    BY DEF Inv, TypeOK, States, OutcomeByState, ExactlyOneOutcome
<1> QED
    BY InvariantHolds, <1>1, PTL

\* The stay in calling never exceeds 2 * TimerB + TimerA - 2 ticks (TimerB on
\* a reliable transport), whatever the timers are.
THEOREM CallingIsBounded == Spec => []CallingBounded
<1>1. Inv => CallingBounded
    BY DEF Inv
<1> QED
    BY InvariantHolds, <1>1, PTL

\* The core is told of a timeout only after timer B has elapsed.
THEOREM NoEarlyTimeout == Spec => []TimeoutNotEarly
<1>1. Inv => TimeoutNotEarly
    BY DEF Inv
<1> QED
    BY InvariantHolds, <1>1, PTL

-----------------------------------------------------------------------------
\* Each step of the transaction is a step of ClientPromise or leaves what the
\* core sees unchanged.
LEMMA PromiseStep == Inv /\ [Next]_vars => [Promise!Next]_Promise!vars
<1> SUFFICES ASSUME Inv, [Next]_vars PROVE [Promise!Next]_Promise!vars
    OBVIOUS
<1> USE DEF Inv, TypeOK, States, OutcomeByState, Promise!vars, Promise!Next, Live
<1>1. CASE CallingRetry
    BY <1>1 DEF CallingRetry, NoCallback
<1>2. CASE CallingTimeout
    BY <1>2 DEF CallingTimeout, Shutdown, Stop, Promise!Fail
<1>3. CASE CompletedTimeout
    BY <1>3 DEF CompletedTimeout, Stop, NoCallback, Promise!EndLinger
<1>4. ASSUME NEW code \in Responses, HandleProvisional(code)
      PROVE  [Promise!Next]_Promise!vars
    BY <1>4 DEF HandleProvisional, ReceiveResponse, Promise!Provisional
<1>5. ASSUME NEW code \in Responses, HandleSuccess(code)
      PROVE  [Promise!Next]_Promise!vars
    BY <1>5 DEF HandleSuccess, ReceiveResponse, Stop, Promise!Final
<1>6. ASSUME NEW code \in Responses, HandleFailure(code)
      PROVE  [Promise!Next]_Promise!vars
    BY <1>6, FailureEffect DEF Promise!Final
<1>7. CASE HandleError
    BY <1>7 DEF HandleError, Shutdown, Stop, Promise!Fail
<1>8. ASSUME NEW code \in Responses, CompletedResponse(code)
      PROVE  [Promise!Next]_Promise!vars
    BY <1>8 DEF CompletedResponse, NoCallback
<1>9. CASE CompletedError
    BY <1>9 DEF CompletedError, NoCallback
<1>10. CASE HandleTerminate
    BY <1>10 DEF HandleTerminate, Stop, NoCallback, Promise!Terminate
<1>11. CASE Tick
    BY <1>11 DEF Tick
<1>12. ASSUME NEW event \in Events, Cast(event)
       PROVE  [Promise!Next]_Promise!vars
    BY <1>12 DEF Cast
<1>13. CASE UNCHANGED vars
    BY <1>13 DEF vars
<1>14. ASSUME NEW code \in Responses, HandleFailureExits(code)
       PROVE  [Promise!Next]_Promise!vars
    BY <1>14, ExitEffect DEF Promise!Final
<1> QED
    BY <1>1, <1>2, <1>3, <1>4, <1>5, <1>6, <1>7, <1>8, <1>9, <1>10, <1>11,
       <1>12, <1>13, <1>14 DEF Next, HandleTimeout, HandleCast

\* The INVITE client transaction implements ClientPromise.
THEOREM ImplementsPromise == Spec => KeepsPromise
<1>1. Init => Promise!Init
    BY DEF Init, Promise!Init, Live
<1> QED
    BY <1>1, InvariantHolds, PromiseStep, PTL
       DEF Spec, KeepsPromise, Promise!Spec
=============================================================================
