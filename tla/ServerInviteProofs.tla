------------------------- MODULE ServerInviteProofs -------------------------
(***************************************************************************)
(* Proofs about the INVITE server transaction, for all timer values and    *)
(* all status codes the core may answer with.                              *)
(***************************************************************************)
EXTENDS ServerInvite, TLAPS

\* While waiting for the ACK, the accumulated waits are the time already spent
\* plus the rest of this wait; a wait is added only below timer H and is at most
\* T2.  On a reliable transport the only wait is timer H itself.
TimerAccount ==
    state = "completed" =>
        /\ state_timeout.set
        /\ waited + state_timeout.left = state_timeout.passed
        /\ state_timeout.passed <= MaxCompleted
        /\ reliable => state_timeout.passed = TimerH
        /\ ~reliable => state_timeout.passed >= TimerG

\* The state tells whether there is a final response, and the core has been
\* told of no failure as long as the process lives.
AnswerByState ==
    /\ state = "proceeding" => StatusClass(last_response) <= 1 /\ waited = 0
    /\ state \in {"completed", "confirmed"} => StatusClass(last_response) > 1
    /\ Live => told = "request"

\* The inductive invariant.
Inv ==
    /\ TypeOK
    /\ AnswerByState
    /\ TimerAccount
    /\ CompletedBounded
    /\ TimeoutNotEarly

-----------------------------------------------------------------------------
\* The casts the environment makes are events, and so are the errors that a
\* failed send puts in the mailbox.
LEMMA EventTypes ==
    /\ Error \in Events
    /\ <<>> \in Seq(Events)
    /\ <<Error>> \in Seq(Events)
BY DEF Events

\* The status classes that decide between the clauses of proceeding.
LEMMA Classes ==
    /\ StatusClass(None) = 0
    /\ StatusClass(100) = 1
    /\ \A code \in Responses : /\ StatusClass(code) \in 1..6
                               /\ StatusClass(code) > 1 <=> code >= 200
BY ResponseAssumption DEF StatusClass, None

\* send_response/2 keeps the types and remembers the code, whether or not the
\* transport takes the response.
LEMMA SendResponseEffect ==
    ASSUME NEW code \in Codes, NEW rest \in Seq(Events),
           SendResponse(code, rest)
    PROVE  /\ mailbox' \in Seq(Events)
           /\ last_response' = code
           /\ sent' \in {None, code}
BY EventTypes DEF SendResponse

\* The :enter callback of completed starts timer G, or timer H when reliable.
LEMMA EnterCompletedEffect ==
    ASSUME EnterCompleted
    PROVE  /\ state_timeout' \in Timeouts
           /\ state_timeout'.set
           /\ state_timeout'.left = state_timeout'.passed
           /\ reliable => state_timeout'.passed = TimerH
           /\ ~reliable => state_timeout'.passed = TimerG
BY TimerAssumption DEF EnterCompleted, Timeout, Timeouts

\* The three ways in which the core's response is handled in proceeding.
LEMMA ResponseEffect ==
    ASSUME NEW code \in Responses, TypeOK, ProceedingResponse(code)
    PROVE  /\ state = "proceeding"
           /\ last_response' = code /\ sent' \in {None, code}
           /\ mailbox' \in Seq(Events)
           /\ UNCHANGED <<reliable, told, terminated, waited>>
           /\ \/ StatusClass(code) = 1 /\ UNCHANGED <<state, state_timeout>>
              \/ StatusClass(code) = 2 /\ Stop
              \/ StatusClass(code) > 2 /\ state' = "completed" /\ EnterCompleted
<1>1. Tail(mailbox) \in Seq(Events) /\ code \in Codes
    BY DEF TypeOK, ProceedingResponse, Oldest, Codes
<1>2. StatusClass(code) \in 1..6
    BY Classes
<1>3. CASE StatusClass(code) = 1
    <2>1. SendResponse(code, Tail(mailbox)) /\ UNCHANGED <<state, state_timeout>>
        BY <1>3 DEF ProceedingResponse
    <2> QED
        BY <1>1, <1>3, <2>1, SendResponseEffect DEF ProceedingResponse
<1>4. CASE StatusClass(code) = 2
    <2>1. sent' \in {code, None} /\ last_response' = code /\ Stop
        BY <1>4 DEF ProceedingResponse
    <2> QED
        BY <1>4, <2>1, EventTypes DEF ProceedingResponse, Stop
<1>5. CASE StatusClass(code) > 2
    <2>1. SendResponse(code, Tail(mailbox)) /\ state' = "completed"
          /\ EnterCompleted
        BY <1>2, <1>5 DEF ProceedingResponse
    <2> QED
        BY <1>1, <1>5, <2>1, SendResponseEffect DEF ProceedingResponse
<1> QED
    BY <1>2, <1>3, <1>4, <1>5

\* A send that exits ends the process.  What it sent in completed is the
\* final response once more.
LEMMA ExitEffect ==
    ASSUME NEW code \in Responses \cup {100}, SendExits(code)
    PROVE  /\ state \in {"proceeding", "completed"} /\ state' = "crashed"
           /\ state = "completed" => code = last_response
           /\ last_response' = code /\ sent' \in {None, code}
           /\ mailbox' = <<>> /\ state_timeout' = NoTimeout
           /\ UNCHANGED <<reliable, told, terminated, waited>>
BY DEF SendExits, Sends

\* A repeated request in proceeding is answered with the latest response, or
\* not at all.
LEMMA RequestEffect ==
    ASSUME NEW method, TypeOK, ProceedingRequest(method)
    PROVE  /\ state = "proceeding"
           /\ mailbox' \in Seq(Events)
           /\ last_response' = last_response
           /\ sent' \in {None, last_response}
           /\ UNCHANGED <<state, reliable, state_timeout, told, terminated,
                          waited>>
<1>1. Tail(mailbox) \in Seq(Events) /\ last_response \in Codes
    BY DEF TypeOK, ProceedingRequest, Oldest
<1>2. CASE last_response = None
    BY <1>1, <1>2 DEF ProceedingRequest, SendNothing
<1>3. CASE last_response # None
    <2>1. SendResponse(last_response, Tail(mailbox))
        BY <1>3 DEF ProceedingRequest
    <2> QED
        BY <1>1, <2>1, SendResponseEffect DEF ProceedingRequest
<1> QED
    BY <1>2, <1>3

-----------------------------------------------------------------------------
\* init/1 and the :enter callback of proceeding establish the invariant.
LEMMA InitInv == Init => Inv
<1> SUFFICES ASSUME Init PROVE Inv
    OBVIOUS
<1> USE TimerAssumption
<1>1. TypeOK
    BY EventTypes DEF Init, TypeOK, Timeouts, Timeout, Codes
<1>2. AnswerByState
    BY Classes DEF Init, AnswerByState, Live
<1>3. TimerAccount
    BY DEF Init, TimerAccount
<1>4. CompletedBounded /\ TimeoutNotEarly
    BY DEF Init, CompletedBounded, TimeoutNotEarly, MaxCompleted
<1> QED
    BY <1>1, <1>2, <1>3, <1>4 DEF Inv

\* Every callback, every cast and every tick keeps the variables well typed.
LEMMA TypeStep == Inv /\ [Next]_vars => TypeOK'
<1> SUFFICES ASSUME Inv, [Next]_vars PROVE TypeOK'
    OBVIOUS
<1> USE TimerAssumption, EventTypes DEF Inv, TypeOK, Timeouts
<1>tail. mailbox # <<>> => Tail(mailbox) \in Seq(Events)
    OBVIOUS
<1>codes. None \in Codes /\ 100 \in Codes /\ Responses \subseteq Codes
    BY DEF Codes
<1>1. CASE StillTrying
    <2>1. SendResponse(100, mailbox)
        BY <1>1 DEF StillTrying
    <2> QED
        BY <1>1, <2>1, <1>codes, SendResponseEffect DEF StillTrying, NoTimeout
<1>2. CASE CompletedRetry
    <2>1. SendResponse(last_response, mailbox)
        BY <1>2 DEF CompletedRetry
    <2>2. state_timeout' \in Timeouts
        BY <1>2 DEF CompletedRetry, Timeout, NextDelay
    <2> QED
        BY <1>2, <2>1, <2>2, <1>codes, SendResponseEffect DEF CompletedRetry
<1>3. CASE CompletedTimeout
    BY <1>3, <1>codes DEF CompletedTimeout, Shutdown, Stop, NoTimeout
<1>4. CASE ConfirmedTimeout
    BY <1>4, <1>codes DEF ConfirmedTimeout, Stop, NoTimeout
<1>5. ASSUME NEW method, ProceedingRequest(method)
      PROVE  TypeOK'
    BY <1>5, <1>codes, RequestEffect
<1>6. ASSUME NEW code \in Responses, ProceedingResponse(code)
      PROVE  TypeOK'
    <2>1. /\ last_response' \in Codes /\ sent' \in Codes
          /\ mailbox' \in Seq(Events)
          /\ UNCHANGED <<reliable, told, terminated, waited>>
        BY <1>6, <1>codes, ResponseEffect
    <2>2. CASE UNCHANGED <<state, state_timeout>>
        BY <2>1, <2>2
    <2>3. CASE Stop
        BY <2>1, <2>3 DEF Stop, NoTimeout
    <2>4. CASE state' = "completed" /\ EnterCompleted
        BY <2>1, <2>4, EnterCompletedEffect
    <2> QED
        BY <1>6, <2>2, <2>3, <2>4, ResponseEffect
<1>7. CASE HandleError
    BY <1>7, <1>codes DEF HandleError, Shutdown, Stop, NoTimeout
<1>8. CASE CompletedInvite
    <2>1. SendResponse(last_response, Tail(mailbox)) /\ mailbox # <<>>
        BY <1>8 DEF CompletedInvite, Oldest
    <2> QED
        BY <1>8, <2>1, <1>tail, <1>codes, SendResponseEffect DEF CompletedInvite
<1>9. CASE CompletedAck
    <2>1. UNCHANGED <<reliable, last_response, told, terminated, waited>>
          /\ sent' = None
        BY <1>9 DEF CompletedAck, SendNothing
    <2>2. CASE reliable
        <3>1. Stop
            BY <1>9, <2>2 DEF CompletedAck
        <3> QED
            BY <2>1, <3>1, <1>codes DEF Stop, NoTimeout
    <2>3. CASE ~reliable
        <3>1. /\ SendNothing(Tail(mailbox))
              /\ state' = "confirmed"
              /\ state_timeout' = Timeout(TimerI, 0, 0)
            BY <1>9, <2>3 DEF CompletedAck
        <3>2. mailbox' \in Seq(Events)
            BY <1>9, <3>1, <1>tail DEF CompletedAck, Oldest, SendNothing
        <3> QED
            BY <2>1, <3>1, <3>2, <1>codes DEF Timeout
    <2> QED
        BY <2>2, <2>3
<1>10. CASE ConfirmedIgnore
    BY <1>10, <1>tail, <1>codes DEF ConfirmedIgnore, SendNothing
<1>11. CASE UnhandledResponse
    BY <1>11, <1>codes DEF UnhandledResponse, Stop, NoTimeout
<1>12. CASE HandleTerminate
    BY <1>12, <1>codes DEF HandleTerminate, Stop, NoTimeout
<1>13. CASE Tick
    BY <1>13, <1>codes DEF Tick, SendNothing
<1>14. ASSUME NEW event \in Events, Cast(event)
       PROVE  TypeOK'
    BY <1>14, <1>codes DEF Cast, SendNothing
<1>16. ASSUME NEW code \in Responses \cup {100}, SendExits(code)
       PROVE  TypeOK'
    <2>1. state_timeout' \in Timeouts
        BY <1>16 DEF SendExits, NoTimeout
    <2>2. code \in Codes
        BY <1>codes
    <2>3. last_response' \in Codes /\ sent' \in Codes /\ mailbox' \in Seq(Events)
        BY <1>16, <1>codes, <2>2, ExitEffect
    <2> QED
        BY <1>16, <2>1, <2>3, ExitEffect
<1>15. CASE UNCHANGED vars
    BY <1>15 DEF vars
<1> QED
    BY <1>1, <1>2, <1>3, <1>4, <1>5, <1>6, <1>7, <1>8, <1>9, <1>10, <1>11,
       <1>12, <1>13, <1>14, <1>15, <1>16 DEF Next, HandleTimeout, HandleCast

\* A final response is there exactly from completed on, and the core hears of a
\* failure only when the process ends.
LEMMA AnswerStep == Inv /\ [Next]_vars => AnswerByState'
<1> SUFFICES ASSUME Inv, [Next]_vars PROVE AnswerByState'
    OBVIOUS
<1> USE Classes DEF Inv, TypeOK, AnswerByState, Live
<1>1. CASE StillTrying
    BY <1>1 DEF StillTrying, SendResponse
<1>2. CASE CompletedRetry
    BY <1>2 DEF CompletedRetry, SendResponse
<1>3. CASE CompletedTimeout
    BY <1>3 DEF CompletedTimeout, Shutdown, Stop
<1>4. CASE ConfirmedTimeout
    BY <1>4 DEF ConfirmedTimeout, Stop
<1>5. ASSUME NEW method, ProceedingRequest(method)
      PROVE  AnswerByState'
    BY <1>5, RequestEffect
<1>6. ASSUME NEW code \in Responses, ProceedingResponse(code)
      PROVE  AnswerByState'
    BY <1>6, ResponseEffect DEF Stop
<1>7. CASE HandleError
    BY <1>7 DEF HandleError, Shutdown, Stop
<1>8. CASE CompletedInvite
    BY <1>8 DEF CompletedInvite, SendResponse
<1>9. CASE CompletedAck
    BY <1>9 DEF CompletedAck, SendNothing, Stop
<1>10. CASE ConfirmedIgnore
    BY <1>10 DEF ConfirmedIgnore, SendNothing
<1>11. CASE UnhandledResponse
    BY <1>11 DEF UnhandledResponse, Stop
<1>12. CASE HandleTerminate
    BY <1>12 DEF HandleTerminate, Stop
<1>13. CASE Tick
    BY <1>13 DEF Tick, SendNothing
<1>14. ASSUME NEW event \in Events, Cast(event)
       PROVE  AnswerByState'
    BY <1>14 DEF Cast, SendNothing
<1>16. ASSUME NEW code \in Responses \cup {100}, SendExits(code)
       PROVE  AnswerByState'
    BY <1>16, ExitEffect
<1>15. CASE UNCHANGED vars
    BY <1>15 DEF vars
<1> QED
    BY <1>1, <1>2, <1>3, <1>4, <1>5, <1>6, <1>7, <1>8, <1>9, <1>10, <1>11,
       <1>12, <1>13, <1>14, <1>15, <1>16 DEF Next, HandleTimeout, HandleCast

\* The time account is kept by every step.  Only three steps touch it: entering
\* completed, a retransmission (below timer H, adding at most T2) and a tick.
LEMMA TimerStep ==
    Inv /\ [Next]_vars => TimerAccount' /\ CompletedBounded' /\ TimeoutNotEarly'
<1> SUFFICES ASSUME Inv, [Next]_vars
             PROVE  TimerAccount' /\ CompletedBounded' /\ TimeoutNotEarly'
    OBVIOUS
<1> USE TimerAssumption
        DEF Inv, TypeOK, Timeouts, TimerAccount, CompletedBounded,
            TimeoutNotEarly, MaxCompleted
<1>0. ASSUME UNCHANGED <<reliable, waited>>, state' # "completed",
             told' # "timeout" \/ UNCHANGED told
      PROVE  TimerAccount' /\ CompletedBounded' /\ TimeoutNotEarly'
    BY <1>0
<1>00. ASSUME UNCHANGED <<state, reliable, state_timeout, told, waited>>
       PROVE  TimerAccount' /\ CompletedBounded' /\ TimeoutNotEarly'
    BY <1>00
<1>1. CASE StillTrying
    BY <1>1, <1>0 DEF StillTrying
<1>2. CASE CompletedRetry
    <2>1. /\ state_timeout.passed < TimerH
          /\ state_timeout.left = 0 /\ waited = state_timeout.passed
          /\ ~reliable /\ TimerG < TimerH
        BY <1>2 DEF CompletedRetry, TimedOut, Due
    <2>2. PICK delay \in Nat : /\ delay <= T2
                               /\ state_timeout' = Timeout(delay, delay,
                                    state_timeout.passed + delay)
        BY <1>2 DEF CompletedRetry, NextDelay
    <2>3. /\ UNCHANGED <<state, reliable, told, waited>>
          /\ state_timeout'.set
          /\ state_timeout'.left = delay
          /\ state_timeout'.passed = state_timeout.passed + delay
        BY <1>2, <2>2 DEF CompletedRetry, Timeout
    <2> QED
        BY <1>2, <2>1, <2>2, <2>3
<1>3. CASE CompletedTimeout
    BY <1>3 DEF CompletedTimeout, Due, TimedOut, Shutdown, Stop
<1>4. CASE ConfirmedTimeout
    BY <1>4, <1>0 DEF ConfirmedTimeout, Stop
<1>5. ASSUME NEW method, ProceedingRequest(method)
      PROVE  TimerAccount' /\ CompletedBounded' /\ TimeoutNotEarly'
    BY <1>5, <1>00, RequestEffect
<1>6. ASSUME NEW code \in Responses, ProceedingResponse(code)
      PROVE  TimerAccount' /\ CompletedBounded' /\ TimeoutNotEarly'
    <2>1. /\ state = "proceeding" /\ waited = 0 /\ told = "request"
          /\ UNCHANGED <<reliable, told, waited>>
        BY <1>6, ResponseEffect DEF AnswerByState, Live
    <2>2. CASE state' = "completed" /\ EnterCompleted
        BY <2>1, <2>2, EnterCompletedEffect
    <2>3. CASE state' # "completed"
        BY <2>1, <2>3, <1>0
    <2> QED
        BY <1>6, <2>2, <2>3, ResponseEffect DEF Stop
<1>7. CASE HandleError
    BY <1>7, <1>0 DEF HandleError, Shutdown, Stop
<1>8. CASE CompletedInvite
    BY <1>8, <1>00 DEF CompletedInvite
<1>9. CASE CompletedAck
    <2>1. UNCHANGED <<reliable, told, waited>> /\ state' # "completed"
        BY <1>9 DEF CompletedAck, Stop
    <2> QED
        BY <2>1, <1>0
<1>10. CASE ConfirmedIgnore
    BY <1>10, <1>00 DEF ConfirmedIgnore
<1>11. CASE UnhandledResponse
    BY <1>11, <1>0 DEF UnhandledResponse, Stop
<1>12. CASE HandleTerminate
    BY <1>12, <1>0 DEF HandleTerminate, Stop
<1>13. CASE Tick
    <2>1. /\ UNCHANGED <<state, reliable, told>>
          /\ state_timeout.left > 0
          /\ state_timeout'.left = state_timeout.left - 1
          /\ state_timeout'.set = state_timeout.set
          /\ state_timeout'.passed = state_timeout.passed
        BY <1>13 DEF Tick
    <2>2. CASE state = "completed"
        <3>1. waited' = waited + 1
            BY <1>13, <2>2 DEF Tick
        <3> QED
            BY <2>1, <2>2, <3>1
    <2>3. CASE state # "completed"
        BY <1>13, <2>1, <2>3, <1>0 DEF Tick
    <2> QED
        BY <2>2, <2>3
<1>14. ASSUME NEW event \in Events, Cast(event)
       PROVE  TimerAccount' /\ CompletedBounded' /\ TimeoutNotEarly'
    BY <1>14, <1>00 DEF Cast
<1>16. ASSUME NEW code \in Responses \cup {100}, SendExits(code)
       PROVE  TimerAccount' /\ CompletedBounded' /\ TimeoutNotEarly'
    BY <1>16, <1>0, ExitEffect
<1>15. CASE UNCHANGED vars
    BY <1>15, <1>00 DEF vars
<1> HIDE DEF Inv, TypeOK, TimerAccount, CompletedBounded, TimeoutNotEarly
<1> QED
    BY <1>1, <1>2, <1>3, <1>4, <1>5, <1>6, <1>7, <1>8, <1>9, <1>10, <1>11,
       <1>12, <1>13, <1>14, <1>15, <1>16 DEF Next, HandleTimeout, HandleCast

-----------------------------------------------------------------------------
\* Inv holds in every reachable state of the transaction.
THEOREM InvariantHolds == Spec => []Inv
<1>1. Inv /\ [Next]_vars => Inv'
    BY TypeStep, AnswerStep, TimerStep DEF Inv
<1> QED
    BY InitInv, <1>1, PTL DEF Spec

\* Type correctness of the INVITE server transaction.
THEOREM TypeCorrect == Spec => []TypeOK
<1>1. Inv => TypeOK
    BY DEF Inv
<1> QED
    BY InvariantHolds, <1>1, PTL

\* The wait for the ACK is shorter than TimerH + T2, whatever the timers are,
\* unless TimerG alone is longer than TimerH.
THEOREM CompletedIsBounded == Spec => []CompletedBounded
<1>1. Inv => CompletedBounded
    BY DEF Inv
<1> QED
    BY InvariantHolds, <1>1, PTL

\* The core is told of a missing ACK only after timer H has elapsed.
THEOREM NoEarlyTimeout == Spec => []TimeoutNotEarly
<1>1. Inv => TimeoutNotEarly
    BY DEF Inv
<1> QED
    BY InvariantHolds, <1>1, PTL

-----------------------------------------------------------------------------
\* What a step may do once there is a final response: send it again or nothing.
LEMMA CopiesStep ==
    Inv /\ [Next]_vars => [Answer # None => sent' \in {None, Answer}]_vars
<1> SUFFICES ASSUME Inv, Next, Answer # None
             PROVE  sent' \in {None, Answer}
    OBVIOUS
<1> USE Classes DEF Inv, TypeOK, AnswerByState, Answer
<1>0. state # "proceeding" /\ Answer = last_response
    BY DEF Codes
<1>1. CASE HandleTimeout
    BY <1>0, <1>1 DEF HandleTimeout, StillTrying, CompletedRetry, SendResponse,
       CompletedTimeout, Shutdown, ConfirmedTimeout
<1>2. CASE HandleCast
    BY <1>0, <1>2 DEF HandleCast, ProceedingRequest, ProceedingResponse,
       HandleError, Shutdown, CompletedInvite, SendResponse, CompletedAck,
       SendNothing, ConfirmedIgnore, UnhandledResponse, HandleTerminate
<1>4. CASE \E code \in Responses \cup {100} : SendExits(code)
    BY <1>0, <1>4, ExitEffect
<1>3. CASE Tick \/ \E event \in Events : Cast(event)
    BY <1>3 DEF Tick, Cast, SendNothing
<1> QED
    BY <1>1, <1>2, <1>3, <1>4 DEF Next

\* Once it has a final response, the transaction sends nothing but copies of it.
THEOREM OnlyCopies == Spec => OnlyCopiesAfterFinal
BY InvariantHolds, CopiesStep, PTL DEF Spec, OnlyCopiesAfterFinal

\* Each step of the transaction is a step of ServerPromise or leaves what it
\* speaks of unchanged.
LEMMA PromiseStep == Inv /\ [Next]_vars => [Promise!Next]_Promise!vars
<1> SUFFICES ASSUME Inv, [Next]_vars PROVE [Promise!Next]_Promise!vars
    OBVIOUS
<1> USE Classes DEF Inv, TypeOK, AnswerByState, Answer, Codes, None, Live,
                    Promise!vars, Promise!Next
<1>1. CASE StillTrying
    BY <1>1 DEF StillTrying, SendResponse
<1>2. CASE CompletedRetry
    BY <1>2 DEF CompletedRetry, SendResponse
<1>3. CASE CompletedTimeout
    BY <1>3 DEF CompletedTimeout, Shutdown, Stop, Promise!Report
<1>4. CASE ConfirmedTimeout
    BY <1>4 DEF ConfirmedTimeout, Stop, Promise!End
<1>5. ASSUME NEW method, ProceedingRequest(method)
      PROVE  [Promise!Next]_Promise!vars
    BY <1>5, RequestEffect
<1>6. ASSUME NEW code \in Responses, ProceedingResponse(code)
      PROVE  [Promise!Next]_Promise!vars
    <2>1. CASE StatusClass(code) = 1
        BY <1>6, <2>1, ResponseEffect
    <2>2. CASE StatusClass(code) > 1
        <3>1. /\ last_response' = code /\ code >= 200
              /\ state = "proceeding"
              /\ UNCHANGED <<told, terminated>>
            BY <1>6, <2>2, ResponseEffect
        <3>2. Answer = None /\ Answer' = code
            BY <3>1, <2>2
        <3> QED
            BY <3>1, <3>2 DEF Promise!Answer
    <2> QED
        BY <2>1, <2>2
<1>7. CASE HandleError
    BY <1>7 DEF HandleError, Shutdown, Stop, Promise!Report
<1>8. CASE CompletedInvite
    BY <1>8 DEF CompletedInvite, SendResponse
<1>9. CASE CompletedAck
    BY <1>9 DEF CompletedAck, SendNothing, Stop, Promise!End
<1>10. CASE ConfirmedIgnore
    BY <1>10 DEF ConfirmedIgnore, SendNothing
<1>11. CASE UnhandledResponse
    BY <1>11 DEF UnhandledResponse, Stop, Promise!End
<1>12. CASE HandleTerminate
    BY <1>12 DEF HandleTerminate, Stop, Promise!Terminate
<1>13. CASE Tick
    BY <1>13 DEF Tick, SendNothing
<1>14. ASSUME NEW event \in Events, Cast(event)
       PROVE  [Promise!Next]_Promise!vars
    BY <1>14 DEF Cast, SendNothing
<1>16. ASSUME NEW code \in Responses \cup {100}, SendExits(code)
       PROVE  [Promise!Next]_Promise!vars
    <2>1. CASE StatusClass(code) > 1 /\ state = "proceeding"
        <3>1. code \in Responses /\ code >= 200
            BY <2>1
        <3>2. Answer = None /\ Answer' = code
            BY <1>16, <2>1, ExitEffect
        <3> QED
            BY <1>16, <2>1, <3>1, <3>2, ExitEffect DEF Promise!Answer
    <2>2. CASE StatusClass(code) <= 1 \/ state = "completed"
        <3>1. Answer' = Answer
            BY <1>16, <2>2, ExitEffect
        <3> QED
            BY <1>16, <3>1, ExitEffect DEF Promise!Crash
    <2> QED
        BY <1>16, <2>1, <2>2, ExitEffect
<1>15. CASE UNCHANGED vars
    BY <1>15 DEF vars
<1> QED
    BY <1>1, <1>2, <1>3, <1>4, <1>5, <1>6, <1>7, <1>8, <1>9, <1>10, <1>11,
       <1>12, <1>13, <1>14, <1>15, <1>16 DEF Next, HandleTimeout, HandleCast

\* The INVITE server transaction implements ServerPromise.
THEOREM ImplementsPromise == Spec => KeepsPromise
<1>1. Init => Promise!Init
    BY Classes DEF Init, Promise!Init, Answer, None, Live
<1> QED
    BY <1>1, InvariantHolds, PromiseStep, PTL
       DEF Spec, KeepsPromise, Promise!Spec
=============================================================================
