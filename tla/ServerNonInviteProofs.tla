------------------------ MODULE ServerNonInviteProofs ------------------------
(***************************************************************************)
(* Proofs about the non-INVITE server transaction, for every timer J and   *)
(* all status codes the core may answer with.                              *)
(***************************************************************************)
EXTENDS ServerNonInvite, TLAPS

\* The state tells whether there is a final response, and a live process has
\* not told the core of a failure.
AnswerByState ==
    /\ state \in {"trying", "proceeding"} => StatusClass(last_response) <= 1
    /\ state = "completed" => StatusClass(last_response) > 1
    /\ Live => told = "request"

\* A process that is gone takes no step, so what it last said stands.
GoneIsSilent == ~Live => mailbox = <<>> /\ state_timeout = Off

\* The inductive invariant.
Inv == TypeOK /\ AnswerByState /\ GoneIsSilent

-----------------------------------------------------------------------------
\* Casts and the errors of failed sends are events.
LEMMA EventTypes ==
    /\ Error \in Events
    /\ <<>> \in Seq(Events)
BY DEF Events

\* The status classes that decide between provisional and final.
LEMMA Classes ==
    /\ StatusClass(None) = 0
    /\ \A code \in Responses : /\ StatusClass(code) \in 1..6
                               /\ StatusClass(code) > 1 <=> code >= 200
BY ResponseAssumption DEF StatusClass, None

\* send_response/2 keeps the types and remembers the code, whether or not the
\* transport takes the response.
LEMMA SendResponseEffect ==
    ASSUME NEW code \in Responses \cup {None}, NEW rest \in Seq(Events),
           SendResponse(code, rest)
    PROVE  /\ mailbox' \in Seq(Events)
           /\ last_response' = code
           /\ sent' \in {None, code}
BY EventTypes DEF SendResponse

\* How the core's response is handled in trying and proceeding: a provisional
\* one leads to proceeding, a final one to completed or to the end.
LEMMA ResponseEffect ==
    ASSUME NEW code \in Responses, TypeOK, HandleResponse(code)
    PROVE  /\ state \in {"trying", "proceeding"}
           /\ last_response' = code /\ sent' \in {None, code}
           /\ mailbox' \in Seq(Events)
           /\ UNCHANGED <<reliable, told, terminated>>
           /\ \/ /\ StatusClass(code) = 1 /\ state' = "proceeding"
                 /\ UNCHANGED state_timeout
              \/ StatusClass(code) > 1 /\ Stop
              \/ /\ StatusClass(code) > 1 /\ state' = "completed"
                 /\ state_timeout' = TimerJ
<1>1. Tail(mailbox) \in Seq(Events) /\ code \in Responses \cup {None}
    BY DEF TypeOK, HandleResponse, Oldest
<1>2. StatusClass(code) \in 1..6
    BY Classes
<1>3. CASE StatusClass(code) = 1
    <2>1. /\ SendResponse(code, Tail(mailbox))
          /\ state' = "proceeding" /\ UNCHANGED state_timeout
        BY <1>3 DEF HandleResponse
    <2> QED
        BY <1>1, <1>3, <2>1, SendResponseEffect DEF HandleResponse
<1>4. CASE StatusClass(code) # 1 /\ reliable
    <2>1. sent' \in {code, None} /\ last_response' = code /\ Stop
        BY <1>4 DEF HandleResponse, EnterCompleted
    <2> QED
        BY <1>2, <1>4, <2>1, EventTypes DEF HandleResponse, Stop
<1>5. CASE StatusClass(code) # 1 /\ ~reliable
    <2>1. /\ SendResponse(code, Tail(mailbox))
          /\ state' = "completed" /\ state_timeout' = TimerJ
        BY <1>5 DEF HandleResponse, EnterCompleted
    <2>2. /\ mailbox' \in Seq(Events)
          /\ last_response' = code /\ sent' \in {None, code}
        BY <1>1, <2>1, SendResponseEffect
    <2>3. StatusClass(code) > 1
        BY <1>2, <1>5
    <2> QED
        BY <2>1, <2>2, <2>3 DEF HandleResponse
<1> QED
    BY <1>3, <1>4, <1>5

\* A send that exits ends the process.
LEMMA ExitEffect ==
    ASSUME NEW code \in Responses, SendExits(code)
    PROVE  /\ state \in {"trying", "proceeding"} /\ state' = "crashed"
           /\ last_response' = code /\ sent' \in {None, code}
           /\ mailbox' = <<>> /\ state_timeout' = Off
           /\ UNCHANGED <<reliable, told, terminated>>
BY DEF SendExits, Sends

\* A repeated request is answered with the latest response.
LEMMA RepeatEffect ==
    ASSUME TypeOK, RepeatResponse
    PROVE  /\ state \in {"proceeding", "completed"}
           /\ mailbox' \in Seq(Events)
           /\ last_response' = last_response
           /\ sent' \in {None, last_response}
           /\ UNCHANGED <<state, reliable, state_timeout, told, terminated>>
<1>1. /\ Tail(mailbox) \in Seq(Events)
      /\ last_response \in Responses \cup {None}
      /\ SendResponse(last_response, Tail(mailbox))
    BY DEF TypeOK, RepeatResponse, Oldest
<1> QED
    BY <1>1, SendResponseEffect DEF RepeatResponse

-----------------------------------------------------------------------------
\* The :enter callback of trying establishes the invariant.
LEMMA InitInv == Init => Inv
<1> SUFFICES ASSUME Init PROVE Inv
    OBVIOUS
<1>1. TypeOK
    BY EventTypes DEF Init, TypeOK
<1>2. AnswerByState
    BY Classes DEF Init, AnswerByState, Live
<1>3. GoneIsSilent
    BY DEF Init, GoneIsSilent, Live
<1> QED
    BY <1>1, <1>2, <1>3 DEF Inv

\* Every callback, cast and tick keeps the invariant.
LEMMA InvStep == Inv /\ [Next]_vars => Inv'
<1> SUFFICES ASSUME Inv, [Next]_vars PROVE Inv'
    OBVIOUS
<1> USE EventTypes, TimerAssumption
        DEF Inv, TypeOK, AnswerByState, GoneIsSilent, Live
<1>tail. mailbox # <<>> => Tail(mailbox) \in Seq(Events)
    OBVIOUS
<1>1. CASE TryingRequest
    BY <1>1, <1>tail DEF TryingRequest, Oldest, SendNothing
<1>2. CASE RepeatResponse
    BY <1>2, RepeatEffect
<1>3. ASSUME NEW code \in Responses, HandleResponse(code)
      PROVE  Inv'
    <2>1. CASE StatusClass(code) = 1
        BY <1>3, <2>1, ResponseEffect
    <2>2. CASE StatusClass(code) > 1 /\ Stop
        BY <1>3, <2>2, ResponseEffect DEF Stop
    <2>3. CASE StatusClass(code) > 1 /\ state' = "completed"
        BY <1>3, <2>3, ResponseEffect DEF Stop
    <2> QED
        BY <1>3, <2>1, <2>2, <2>3, ResponseEffect
<1>4. CASE HandleError
    BY <1>4 DEF HandleError, Shutdown, Stop
<1>5. CASE CompletedError
    BY <1>5, <1>tail DEF CompletedError, Oldest, SendNothing
<1>6. CASE UnhandledResponse
    BY <1>6 DEF UnhandledResponse, Stop
<1>7. CASE HandleTerminate
    BY <1>7 DEF HandleTerminate, Stop
<1>8. CASE CompletedTimeout
    BY <1>8 DEF CompletedTimeout, Stop
<1>9. CASE Tick
    BY <1>9 DEF Tick, SendNothing, Off
<1>10. ASSUME NEW event \in Events, Cast(event)
       PROVE  Inv'
    BY <1>10 DEF Cast, SendNothing
<1>12. ASSUME NEW code \in Responses, SendExits(code)
       PROVE  Inv'
    BY <1>12, ExitEffect
<1>11. CASE UNCHANGED vars
    BY <1>11 DEF vars
<1> QED
    BY <1>1, <1>2, <1>3, <1>4, <1>5, <1>6, <1>7, <1>8, <1>9, <1>10, <1>11,
       <1>12
       DEF Next, HandleCast

\* Inv holds in every reachable state of the transaction.
THEOREM InvariantHolds == Spec => []Inv
BY InitInv, InvStep, PTL DEF Spec

\* Type correctness of the non-INVITE server transaction.
THEOREM TypeCorrect == Spec => []TypeOK
<1>1. Inv => TypeOK
    BY DEF Inv
<1> QED
    BY InvariantHolds, <1>1, PTL

-----------------------------------------------------------------------------
\* What a step may do once there is a final response: repeat it, and tell the
\* core nothing.
LEMMA SilentStep ==
    Inv /\ [Next]_vars =>
      [Answer # None => sent' \in {None, Answer} /\ told' = "request"]_vars
<1> SUFFICES ASSUME Inv, Next, Answer # None
             PROVE  sent' \in {None, Answer} /\ told' = "request"
    OBVIOUS
<1> USE Classes DEF Inv, TypeOK, AnswerByState, GoneIsSilent, Answer, Live
<1>0. state \in {"completed", "stopped", "crashed"} /\ Answer = last_response
    OBVIOUS
<1>1. state = "completed"
    BY <1>0 DEF Next, HandleCast, TryingRequest, RepeatResponse, HandleResponse,
       HandleError, CompletedError, UnhandledResponse, HandleTerminate, Oldest,
       CompletedTimeout, Tick, Cast, SendExits, Sends, Off
<1>2. CASE HandleCast
    BY <1>0, <1>1, <1>2, RepeatEffect
       DEF HandleCast, TryingRequest, HandleResponse, HandleError,
           CompletedError, SendNothing, UnhandledResponse, HandleTerminate
<1>3. CASE CompletedTimeout \/ Tick
    BY <1>1, <1>3 DEF CompletedTimeout, Tick, SendNothing
<1>4. CASE \E event \in Events : Cast(event)
    BY <1>1, <1>4 DEF Cast, SendNothing
<1>5. CASE \E code \in Responses : SendExits(code)
    BY <1>1, <1>5 DEF SendExits, Sends
<1> QED
    BY <1>2, <1>3, <1>4, <1>5 DEF Next

\* After its final response the transaction sends only copies of it and the
\* core hears nothing more, failed copies included.
THEOREM Silence == Spec => SilentAfterFinal
BY InvariantHolds, SilentStep, PTL DEF Spec, SilentAfterFinal

\* Each step of the transaction is a step of ServerPromise or leaves what it
\* speaks of unchanged.
LEMMA PromiseStep == Inv /\ [Next]_vars => [Promise!Next]_Promise!vars
<1> SUFFICES ASSUME Inv, [Next]_vars PROVE [Promise!Next]_Promise!vars
    OBVIOUS
<1> USE Classes DEF Inv, TypeOK, AnswerByState, Answer, None, Live,
                    Promise!vars, Promise!Next
<1>1. CASE TryingRequest
    BY <1>1 DEF TryingRequest, SendNothing
<1>2. CASE RepeatResponse
    BY <1>2, RepeatEffect
<1>3. ASSUME NEW code \in Responses, HandleResponse(code)
      PROVE  [Promise!Next]_Promise!vars
    <2>1. CASE StatusClass(code) = 1
        BY <1>3, <2>1, ResponseEffect
    <2>2. CASE StatusClass(code) > 1
        <3>1. /\ last_response' = code /\ code >= 200
              /\ state \in {"trying", "proceeding"}
              /\ UNCHANGED <<told, terminated>>
            BY <1>3, <2>2, ResponseEffect
        <3>2. Answer = None /\ Answer' = code
            BY <3>1, <2>2
        <3> QED
            BY <3>1, <3>2 DEF Promise!Answer
    <2> QED
        BY <1>3, <2>1, <2>2, ResponseEffect
<1>4. CASE HandleError
    BY <1>4 DEF HandleError, Shutdown, Stop, Promise!Report
<1>5. CASE CompletedError
    BY <1>5 DEF CompletedError, SendNothing
<1>6. CASE UnhandledResponse
    BY <1>6 DEF UnhandledResponse, Stop, Promise!End
<1>7. CASE HandleTerminate
    BY <1>7 DEF HandleTerminate, Stop, Promise!Terminate
<1>8. CASE CompletedTimeout
    BY <1>8 DEF CompletedTimeout, Stop, Promise!End
<1>9. CASE Tick
    BY <1>9 DEF Tick, SendNothing
<1>10. ASSUME NEW event \in Events, Cast(event)
       PROVE  [Promise!Next]_Promise!vars
    BY <1>10 DEF Cast, SendNothing
<1>12. ASSUME NEW code \in Responses, SendExits(code)
       PROVE  [Promise!Next]_Promise!vars
    <2>1. CASE StatusClass(code) > 1
        <3>1. code >= 200 /\ Answer = None /\ Answer' = code
            BY <1>12, <2>1, ExitEffect
        <3> QED
            BY <1>12, <3>1, ExitEffect DEF Promise!Answer
    <2>2. CASE StatusClass(code) <= 1
        <3>1. Answer' = Answer
            BY <1>12, <2>2, ExitEffect
        <3> QED
            BY <1>12, <3>1, ExitEffect DEF Promise!Crash
    <2> QED
        BY <2>1, <2>2
<1>11. CASE UNCHANGED vars
    BY <1>11 DEF vars
<1> QED
    BY <1>1, <1>2, <1>3, <1>4, <1>5, <1>6, <1>7, <1>8, <1>9, <1>10, <1>11,
       <1>12
       DEF Next, HandleCast

\* The non-INVITE server transaction implements ServerPromise.
THEOREM ImplementsPromise == Spec => KeepsPromise
<1>1. Init => Promise!Init
    BY Classes DEF Init, Promise!Init, Answer, None, Live
<1> QED
    BY <1>1, InvariantHolds, PromiseStep, PTL
       DEF Spec, KeepsPromise, Promise!Spec
=============================================================================
