------------------------ MODULE InviteExchangeProofs ------------------------
(***************************************************************************)
(* Proofs about the INVITE exchange, for all timers, all sets of status    *)
(* codes, mailboxes of any length and any number of server transactions:   *)
(* what either side concludes from a datagram is true of the other side,   *)
(* whatever the network does with the datagrams.                           *)
(***************************************************************************)
EXTENDS InviteExchange, TLAPS, SequenceTheorems

Codes == Responses \cup {100}

Datagrams == {Invite, Ack} \cup {Response(code) : code \in Codes}

\* The casts that the router, the core and failed sends can have made so far:
\* a response or an ACK is only cast when it has been on the wire.
ClientEvents ==
    {C!Error, C!Terminate}
      \cup {C!IncomingResponse(code) : code \in {c \in Codes : Response(c) \in net}}
ServerEvents ==
    {S!Error, S!Terminate, S!IncomingRequest("invite")}
      \cup {S!OutgoingResponse(code) : code \in Responses}
      \cup {e \in {S!IncomingRequest("ack")} : Ack \in net}

TypeInv ==
    /\ c_state \in C!States \ {"crashed"}
    /\ c_reliable = FALSE
    /\ c_mailbox \in Seq(ClientEvents)
    /\ s_state \in {"proceeding", "completed", "confirmed", "stopped"}
    /\ s_reliable = FALSE
    /\ s_mailbox \in Seq(ServerEvents)
    /\ s_last_response \in Codes \cup {0}
    /\ net \subseteq Datagrams
    /\ started \in Nat
    /\ c_final \in Codes \cup {0}
    /\ heard \subseteq Codes
    /\ repeated \subseteq heard

\* The caller's core has heard what its transaction's state says.
HeardByState ==
    /\ c_state \in {"calling", "proceeding"} =>
         c_final = 0 /\ \A code \in heard : code < 200
    /\ c_state = "completed" =>
         c_final # 0 /\ \A code \in repeated : code < 200

\* A final response or an ACK is evidence of what was done before it was sent.
Evidence ==
    /\ c_final # 0 => c_final >= 200 /\ Response(c_final) \in net
    /\ Ack \in net => c_final # 0
    /\ s_state = "confirmed" => Ack \in net

\* Before the first server transaction there are no responses, and while it is
\* the only one its answer is the only final response on the wire.
OneAnswer ==
    /\ s_state = "proceeding" => s_last_response < 200
    /\ started = 0 =>
         s_state = "stopped" /\ \A code \in Codes : Response(code) \notin net
    /\ started = 1 =>
         \A code \in Codes : code >= 200 /\ Response(code) \in net =>
           code = s_last_response /\ s_state # "proceeding"

\* The inductive invariant.
Inv == TypeInv /\ HeardByState /\ Evidence /\ OneAnswer

-----------------------------------------------------------------------------
(* Status codes and events. *)

\* Sorting the codes by class is sorting them by size.
LEMMA CodeClasses ==
    ASSUME NEW code \in Codes
    PROVE  /\ code \in 100..699
           /\ code \div 100 = 1 <=> code < 200
BY ExchangeAssumption, SMT DEF Codes

\* The casts made so far remain possible as the set of datagrams grows.
LEMMA EventsGrow ==
    ASSUME net \subseteq net'
    PROVE  /\ Seq(ClientEvents) \subseteq Seq(ClientEvents')
           /\ Seq(ServerEvents) \subseteq Seq(ServerEvents')
<1>1. ClientEvents \subseteq ClientEvents'
    BY DEF ClientEvents
<1>2. ServerEvents \subseteq ServerEvents'
    BY DEF ServerEvents
<1> QED
    BY <1>1, <1>2, SeqMonotonic

\* A response that the client transaction handles has been on the wire.
LEMMA RespondsFromNet ==
    ASSUME TypeInv, NEW code \in Codes, C!Responds(code)
    PROVE  Response(code) \in net
<1>1. Head(c_mailbox) \in ClientEvents
    BY DEF TypeInv, C!Responds
<1> QED
    BY <1>1 DEF C!Responds, ClientEvents, C!IncomingResponse, C!Error, C!Terminate

\* An ACK that the server transaction handles has been on the wire.
LEMMA AckFromNet ==
    ASSUME TypeInv, S!Oldest(S!IncomingRequest("ack"))
    PROVE  Ack \in net
<1>1. Head(s_mailbox) \in ServerEvents
    BY DEF TypeInv, S!Oldest
<1> QED
    BY <1>1 DEF S!Oldest, ServerEvents, S!IncomingRequest, S!Error, S!Terminate,
                S!OutgoingResponse

-----------------------------------------------------------------------------
(* What the steps of either transaction do to the rest of the exchange. *)

\* The rest of the mailbox, and the error of a failed send, are client events.
LEMMA ClientMailbox ==
    ASSUME TypeInv
    PROVE  /\ c_mailbox # <<>> => Tail(c_mailbox) \in Seq(ClientEvents)
           /\ \A rest \in Seq(ClientEvents) :
                Append(rest, C!Error) \in Seq(ClientEvents)
           /\ <<>> \in Seq(ClientEvents)
<1>1. C!Error \in ClientEvents
    BY DEF ClientEvents
<1> QED
    BY <1>1 DEF TypeInv

LEMMA ServerMailbox ==
    ASSUME TypeInv
    PROVE  /\ s_mailbox # <<>> => Tail(s_mailbox) \in Seq(ServerEvents)
           /\ \A rest \in Seq(ServerEvents) :
                Append(rest, S!Error) \in Seq(ServerEvents)
           /\ <<>> \in Seq(ServerEvents)
<1>1. S!Error \in ServerEvents
    BY DEF ServerEvents
<1> QED
    BY <1>1 DEF TypeInv

\* The client transaction hands a response to the core only while it waits for
\* the final one, and moves on accordingly.
LEMMA HearsEffect ==
    ASSUME Inv, NEW code \in Codes, ClientHears(code)
    PROVE  /\ c_state \in {"calling", "proceeding"}
           /\ Response(code) \in net
           /\ c_reliable' = FALSE
           /\ c_mailbox' \in Seq(ClientEvents)
           /\ \/ code < 200 /\ c_state' = "proceeding" /\ c_sent' = "none"
              \/ /\ code >= 200
                 /\ c_state' \in {"completed", "stopped"}
                 /\ c_sent' \in {"none", "ack"}
<1>class. code \in 100..699 /\ (C!StatusClass(code) = 1 <=> code < 200)
    BY CodeClasses DEF C!StatusClass
<1>heard. C!Responds(code) => Response(code) \in net
    BY RespondsFromNet DEF Inv
<1>type. TypeInv /\ c_reliable = FALSE
    BY DEF Inv, TypeInv
<1> USE <1>class, <1>heard, <1>type, ClientMailbox
<1>1. CASE C!HandleProvisional(code)
    BY <1>1 DEF C!HandleProvisional, C!Responds
<1>2. CASE C!HandleSuccess(code)
    BY <1>2 DEF C!HandleSuccess, C!Stop
<1>3. CASE C!HandleFailure(code)
    BY <1>3 DEF C!HandleFailure, C!Responds, C!EnterCompleted, C!SendRequest
<1> QED
    BY <1>1, <1>2, <1>3 DEF ClientHears

\* The other steps of the client transaction hand no response to the core, and
\* an ACK is sent again in completed only.
LEMMA ClientStepEffect ==
    ASSUME Inv, ClientStep
    PROVE  /\ c_reliable' = FALSE
           /\ c_mailbox' \in Seq(ClientEvents)
           /\ c_state' \in {c_state, "stopped"}
           /\ \/ c_sent' \in {"none", "invite"}
              \/ c_sent' = "ack" /\ c_state = "completed"
<1> USE ClientMailbox DEF Inv, TypeInv
<1>1. CASE C!HandleTimeout
    BY <1>1 DEF C!HandleTimeout, C!CallingRetry, C!CallingTimeout, C!Shutdown,
                C!CompletedTimeout, C!Stop, C!SendRequest
<1>2. ASSUME NEW code \in Responses \cup {100}, C!CompletedResponse(code)
      PROVE  /\ c_reliable' = FALSE
             /\ c_mailbox' \in Seq(ClientEvents)
             /\ c_state' = c_state
             /\ \/ c_sent' = "none"
                \/ c_sent' = "ack" /\ c_state = "completed"
    BY <1>2 DEF C!CompletedResponse, C!Responds, C!SendRequest
<1>3. CASE C!HandleError \/ C!CompletedError \/ C!HandleTerminate
    BY <1>3 DEF C!HandleError, C!Shutdown, C!CompletedError, C!HandleTerminate,
                C!Stop
<1>4. CASE C!Tick
    BY <1>4 DEF C!Tick
<1> QED
    BY <1>1, <1>2, <1>3, <1>4 DEF ClientStep

\* The server transaction sends its latest response or nothing, leaves
\* proceeding with its one final response, and is confirmed by an ACK.
LEMMA ServerStepEffect ==
    ASSUME Inv, ServerStep
    PROVE  /\ s_reliable' = FALSE
           /\ s_mailbox' \in Seq(ServerEvents)
           /\ s_last_response' \in Codes \cup {0}
           /\ s_sent' \in {0, s_last_response'}
           /\ s_sent' # 0 => s_state # "stopped"
           /\ \/ /\ s_state = "proceeding" /\ s_state' = "proceeding"
                 /\ s_last_response' < 200
              \/ /\ s_state = "proceeding"
                 /\ s_state' \in {"completed", "stopped"}
                 /\ s_last_response' >= 200
              \/ /\ UNCHANGED s_last_response
                 /\ s_state' \in {s_state, "stopped"}
              \/ /\ UNCHANGED s_last_response
                 /\ s_state = "completed" /\ Ack \in net
                 /\ s_state' = "confirmed"
<1>type. TypeInv /\ s_reliable = FALSE /\ s_last_response \in Codes \cup {0}
           /\ s_mailbox \in Seq(ServerEvents)
    BY DEF Inv, TypeInv
<1> USE <1>type, ServerMailbox DEF S!None, S!SendResponse, S!SendNothing,
                                  S!Shutdown, S!Stop
<1>1. CASE S!StillTrying
    BY <1>1 DEF S!StillTrying, Codes
<1>2. CASE S!CompletedRetry \/ S!CompletedTimeout \/ S!ConfirmedTimeout
    BY <1>2 DEF S!CompletedRetry, S!CompletedTimeout, S!ConfirmedTimeout
<1>3. ASSUME NEW method \in {"invite", "ack"}, S!ProceedingRequest(method)
      PROVE  /\ s_reliable' = FALSE
             /\ s_mailbox' \in Seq(ServerEvents)
             /\ s_sent' \in {0, s_last_response'}
             /\ s_state = "proceeding"
             /\ UNCHANGED <<s_state, s_last_response>>
    BY <1>3 DEF S!ProceedingRequest, S!Oldest
<1>4. ASSUME NEW code \in Responses, S!ProceedingResponse(code)
      PROVE  /\ s_reliable' = FALSE
             /\ s_mailbox' \in Seq(ServerEvents)
             /\ s_last_response' = code
             /\ s_sent' \in {0, s_last_response'}
             /\ s_state = "proceeding"
             /\ \/ code < 200 /\ s_state' = "proceeding"
                \/ code >= 200 /\ s_state' \in {"completed", "stopped"}
    <2>1. code \in 100..699 /\ (S!StatusClass(code) = 1 <=> code < 200)
        BY CodeClasses DEF Codes, S!StatusClass
    <2>2. CASE S!StatusClass(code) = 1
        BY <1>4, <2>1, <2>2 DEF S!ProceedingResponse, S!Oldest
    <2>3. CASE S!StatusClass(code) = 2
        <3>1. /\ s_sent' \in {code, 0} /\ s_last_response' = code
              /\ S!Stop /\ s_state = "proceeding" /\ UNCHANGED s_reliable
            BY <1>4, <2>3 DEF S!ProceedingResponse
        <3> QED
            BY <2>1, <2>3, <3>1
    <2>4. CASE S!StatusClass(code) \notin {1, 2}
        <3>1. /\ S!SendResponse(code, Tail(s_mailbox)) /\ s_mailbox # <<>>
              /\ s_state' = "completed"
              /\ s_state = "proceeding" /\ UNCHANGED s_reliable
            BY <1>4, <2>4 DEF S!ProceedingResponse, S!Oldest
        <3> QED
            BY <2>1, <2>4, <3>1
    <2> QED
        BY <2>2, <2>3, <2>4
<1>5. CASE S!HandleError \/ S!CompletedInvite \/ S!ConfirmedIgnore
             \/ S!UnhandledResponse \/ S!HandleTerminate
    BY <1>5 DEF S!HandleError, S!CompletedInvite, S!ConfirmedIgnore,
                S!UnhandledResponse, S!HandleTerminate, S!Oldest
<1>6. CASE S!CompletedAck
    BY <1>6, AckFromNet DEF S!CompletedAck, S!Oldest
<1>7. CASE S!Tick
    BY <1>7 DEF S!Tick
<1> QED
    BY <1>1, <1>2, <1>3, <1>4, <1>5, <1>6, <1>7
       DEF ServerStep, S!HandleTimeout, S!HandleCast, Codes

-----------------------------------------------------------------------------
(* The invariant. *)

\* The three kinds of datagrams are told apart.
LEMMA DatagramKinds ==
    /\ Invite # Ack
    /\ \A code : Response(code) # Ack /\ Response(code) # Invite
    /\ \A code, other : Response(code) = Response(other) => code = other
BY DEF Invite, Ack, Response

LEMMA InitInv == Init => Inv
<1> SUFFICES ASSUME Init PROVE Inv
    OBVIOUS
<1>1. net \in {{}, {Invite}}
    BY DEF Init
<1>2. C!Error \in ClientEvents
    BY DEF ClientEvents
<1>3. c_mailbox \in Seq(ClientEvents) /\ s_mailbox \in Seq(ServerEvents)
    <2>1. c_mailbox \in {<<>>, <<C!Error>>} /\ s_mailbox = <<>>
        BY DEF Init, C!Init
    <2>2. <<C!Error>> \in Seq(ClientEvents) /\ <<>> \in Seq(ClientEvents)
        BY <1>2
    <2>3. <<>> \in Seq(ServerEvents)
        OBVIOUS
    <2> QED
        BY <2>1, <2>2, <2>3, Zenon
<1>4. c_reliable = FALSE
    BY Zenon DEF Init, C!Init
<1>5. TypeInv
    BY <1>1, <1>3, <1>4 DEF Init, C!Init, TypeInv, C!States, Datagrams
<1> QED
    BY <1>1, <1>5, DatagramKinds
       DEF Init, C!Init, Inv, HeardByState, Evidence, OneAnswer

\* A response handed to the core by the client transaction.
LEMMA HearsKeepsInv ==
    ASSUME Inv, NEW code \in Codes, ClientHears(code)
    PROVE  Inv'
<1> USE DatagramKinds
<1>1. /\ net' = net \cup ClientSends
      /\ Hear(code)
      /\ UNCHANGED <<s_state, s_reliable, s_mailbox, s_last_response, started>>
    BY DEF ClientHears, serverVars
<1>2. /\ c_state \in {"calling", "proceeding"}
      /\ Response(code) \in net
      /\ c_reliable' = FALSE
      /\ c_mailbox' \in Seq(ClientEvents)
      /\ \/ code < 200 /\ c_state' = "proceeding" /\ c_sent' = "none"
         \/ /\ code >= 200
            /\ c_state' \in {"completed", "stopped"}
            /\ c_sent' \in {"none", "ack"}
    BY HearsEffect
<1>3. code \in 100..699 /\ c_final = 0 /\ \A c \in heard : c < 200
    BY <1>2, CodeClasses DEF Inv, HeardByState
<1>4. heard' = heard \cup {code} /\ repeated' \subseteq repeated \cup {code}
    BY <1>1 DEF Hear
<1>5. ClientSends \in {{}, {Ack}}
    BY HearsEffect DEF ClientSends
<1>6. c_final' = IF code >= 200 THEN code ELSE 0
    BY <1>1, <1>3 DEF Hear
<1>7. TypeInv'
    <2>1. c_state' \in C!States \ {"crashed"}
        BY HearsEffect DEF C!States
    <2> QED
        BY <1>1, <1>2, <1>4, <1>5, <1>6, <2>1, EventsGrow
           DEF Inv, TypeInv, Datagrams
<1>8. CASE code < 200
    <2>1. c_state' = "proceeding" /\ c_sent' = "none"
        BY <1>2, <1>3, <1>8
    <2>2. net' = net /\ c_final' = 0
        BY <1>1, <1>3, <1>6, <1>8, <2>1 DEF ClientSends
    <2>3. HeardByState'
        BY <1>3, <1>4, <1>8, <2>1, <2>2 DEF HeardByState
    <2> QED
        BY <1>1, <1>3, <1>7, <2>2, <2>3 DEF Inv, Evidence, OneAnswer
<1>9. CASE code >= 200
    <2>1. c_state' \in {"completed", "stopped"} /\ c_final' = code
        BY <1>2, <1>3, <1>6, <1>9
    <2>2. repeated' = repeated /\ \A c \in repeated : c \in heard
        BY <1>1, <1>3, <1>9 DEF Hear, Inv, TypeInv
    <2>3. HeardByState'
        BY <1>3, <2>1, <2>2 DEF HeardByState
    <2>4. Evidence'
        BY <1>1, <1>2, <1>3, <1>5, <1>9, <2>1 DEF Evidence, Inv
    <2> QED
        BY <1>1, <1>5, <1>7, <2>3, <2>4 DEF Inv, OneAnswer
<1> QED
    BY <1>3, <1>8, <1>9

\* Every other callback of the client transaction.
LEMMA ClientStepKeepsInv ==
    ASSUME Inv, ClientStep
    PROVE  Inv'
<1> USE DatagramKinds, ClientStepEffect
<1>1. /\ net' = net \cup ClientSends
      /\ UNCHANGED <<s_state, s_reliable, s_mailbox, s_last_response, started,
                     c_final, heard, repeated>>
    BY DEF ClientStep, serverVars, coreVars
<1>2. /\ ClientSends \in {{}, {Invite}, {Ack}}
      /\ ClientSends = {Ack} => c_state = "completed"
    BY DEF ClientSends
<1>3. TypeInv'
    BY <1>1, <1>2, EventsGrow DEF Inv, TypeInv, C!States, Datagrams
<1>4. HeardByState'
    BY <1>1 DEF Inv, HeardByState
<1>5. Evidence'
    BY <1>1, <1>2 DEF Inv, Evidence, HeardByState
<1>6. OneAnswer'
    BY <1>1, <1>2 DEF Inv, OneAnswer
<1> QED
    BY <1>3, <1>4, <1>5, <1>6 DEF Inv

\* Every callback of the server transaction.
LEMMA ServerStepKeepsInv ==
    ASSUME Inv, ServerStep
    PROVE  Inv'
<1> USE DatagramKinds, ServerStepEffect
<1>1. /\ net' = net \cup ServerSends
      /\ UNCHANGED <<c_state, c_reliable, c_mailbox, started, c_final, heard,
                     repeated>>
    BY DEF ServerStep, clientVars, coreVars
<1>2. /\ ServerSends \in {{}, {Response(s_last_response')}}
      /\ ServerSends # {} => s_last_response' # 0 /\ s_state # "stopped"
    BY DEF ServerSends
<1>3. TypeInv'
    <2>1. net' \subseteq Datagrams
        BY <1>1, <1>2 DEF Inv, TypeInv, Datagrams
    <2> QED
        BY <1>1, <2>1, EventsGrow DEF Inv, TypeInv
<1>4. HeardByState'
    BY <1>1 DEF Inv, HeardByState
<1>5. Evidence'
    BY <1>1, <1>2 DEF Inv, Evidence
<1>6. OneAnswer'
    <2>1. s_state' = "proceeding" => s_last_response' < 200
        BY DEF Inv, OneAnswer
    <2>2. ASSUME started' = 0
          PROVE  s_state' = "stopped" /\ net' = net
        <3>1. s_state = "stopped"
            BY <1>1, <2>2 DEF Inv, OneAnswer
        <3> QED
            BY <1>1, <1>2, <3>1
    <2>3. ASSUME started' = 1, NEW code \in Codes, code >= 200,
                 Response(code) \in net'
          PROVE  code = s_last_response' /\ s_state' # "proceeding"
        <3>1. code \in 100..699
            BY CodeClasses
        <3>2. CASE Response(code) \in net
            BY <1>1, <2>3, <3>2 DEF Inv, OneAnswer
        <3>3. CASE code = s_last_response'
            BY <2>1, <2>3, <3>1, <3>3
        <3> QED
            BY <1>1, <1>2, <2>3, <3>2, <3>3
    <2> QED
        BY <1>1, <2>1, <2>2, <2>3 DEF Inv, OneAnswer
<1> QED
    BY <1>3, <1>4, <1>5, <1>6 DEF Inv

\* The router, the answering core or the user puts `event` in the mailbox of
\* the client or of the server transaction.
LEMMA ClientCastKeepsInv ==
    ASSUME Inv, NEW event \in ClientEvents, C!Cast(event),
           UNCHANGED <<serverVars, net, started, coreVars>>
    PROVE  Inv'
<1>1. /\ c_mailbox' \in Seq(ClientEvents)
      /\ UNCHANGED <<c_state, c_reliable, s_state, s_reliable, s_mailbox,
                     s_last_response, net, started, c_final, heard, repeated>>
    BY DEF Inv, TypeInv, C!Cast, serverVars, coreVars
<1>2. ClientEvents' = ClientEvents /\ ServerEvents' = ServerEvents
    BY <1>1 DEF ClientEvents, ServerEvents
<1> QED
    BY <1>1, <1>2 DEF Inv, TypeInv, HeardByState, Evidence, OneAnswer

LEMMA ServerCastKeepsInv ==
    ASSUME Inv, NEW event \in ServerEvents, S!Cast(event),
           UNCHANGED <<clientVars, net, started, coreVars>>
    PROVE  Inv'
<1>1. /\ s_mailbox' \in Seq(ServerEvents)
      /\ UNCHANGED <<c_state, c_reliable, c_mailbox, s_state, s_reliable,
                     s_last_response, net, started, c_final, heard, repeated>>
    BY DEF Inv, TypeInv, S!Cast, S!SendNothing, clientVars, coreVars
<1>2. ClientEvents' = ClientEvents /\ ServerEvents' = ServerEvents
    BY <1>1 DEF ClientEvents, ServerEvents
<1> QED
    BY <1>1, <1>2 DEF Inv, TypeInv, HeardByState, Evidence, OneAnswer

\* A response that finds no client transaction goes straight to the core.
LEMMA ToCoreKeepsInv ==
    ASSUME Inv, NEW code \in Codes, ResponseToCore(code)
    PROVE  Inv'
<1>1. /\ Response(code) \in net /\ c_state = "stopped" /\ Hear(code)
      /\ UNCHANGED <<c_state, c_reliable, c_mailbox, s_state, s_reliable,
                     s_mailbox, s_last_response, net, started>>
    BY DEF ResponseToCore, clientVars, serverVars
<1>2. code \in 100..699
    BY CodeClasses
<1>3. ClientEvents' = ClientEvents /\ ServerEvents' = ServerEvents
    BY <1>1 DEF ClientEvents, ServerEvents
<1>4. /\ heard' = heard \cup {code} /\ repeated' \subseteq repeated \cup {code}
      /\ c_final' \in {c_final, code}
      /\ c_final # 0 => c_final' = c_final
      /\ c_final' # c_final => code >= 200
    BY <1>1 DEF Hear
<1>5. TypeInv'
    BY <1>1, <1>3, <1>4 DEF Inv, TypeInv
<1>6. Evidence'
    BY <1>1, <1>2, <1>4 DEF Inv, Evidence
<1> QED
    BY <1>1, <1>5, <1>6 DEF Inv, HeardByState, OneAnswer

\* A further server transaction starts as the first one did.
LEMMA StartKeepsInv ==
    ASSUME Inv, StartServer
    PROVE  Inv'
<1>1. /\ s_state = "stopped" /\ s_state' = "proceeding" /\ s_mailbox' = <<>>
      /\ s_last_response' = 0 /\ started' = started + 1
      /\ UNCHANGED <<c_state, c_reliable, c_mailbox, s_reliable, net, c_final,
                     heard, repeated>>
    BY DEF StartServer, clientVars, coreVars
<1>2. ClientEvents' = ClientEvents /\ ServerEvents' = ServerEvents
    BY <1>1 DEF ClientEvents, ServerEvents
<1>3. TypeInv'
    BY <1>1, <1>2 DEF Inv, TypeInv
<1>4. OneAnswer'
    <2>1. started \in Nat
        BY DEF Inv, TypeInv
    <2> QED
        BY <1>1, <2>1 DEF Inv, OneAnswer
<1> QED
    BY <1>1, <1>3, <1>4 DEF Inv, HeardByState, Evidence

\* Every step of the exchange keeps the invariant.
LEMMA InvStep == Inv /\ [Next]_vars => Inv'
<1> SUFFICES ASSUME Inv, [Next]_vars PROVE Inv'
    OBVIOUS
<1>1. ASSUME NEW code \in Codes, ClientHears(code)
      PROVE  Inv'
    BY <1>1, HearsKeepsInv
<1>2. ASSUME NEW code \in Codes, ResponseToTransaction(code)
      PROVE  Inv'
    <2>1. C!IncomingResponse(code) \in ClientEvents
        BY <1>2 DEF ResponseToTransaction, ClientEvents
    <2> QED
        BY <1>2, <2>1, ClientCastKeepsInv DEF ResponseToTransaction
<1>3. ASSUME NEW code \in Codes, ResponseToCore(code)
      PROVE  Inv'
    BY <1>3, ToCoreKeepsInv
<1>4. CASE ClientStep
    BY <1>4, ClientStepKeepsInv
<1>5. CASE ServerStep
    BY <1>5, ServerStepKeepsInv
<1>6. CASE StartServer
    BY <1>6, StartKeepsInv
<1>7. ASSUME NEW m \in {Invite, Ack}, RequestToTransaction(m)
      PROVE  Inv'
    <2>1. S!IncomingRequest(m.type) \in ServerEvents
        <3>1. m \in net /\ m.type = IF m = Invite THEN "invite" ELSE "ack"
            BY <1>7, DatagramKinds DEF RequestToTransaction, Invite, Ack
        <3> QED
            BY <1>7, <3>1 DEF ServerEvents
    <2> QED
        BY <1>7, <2>1, ServerCastKeepsInv DEF RequestToTransaction
<1>8. ASSUME NEW code \in Responses, CoreAnswers(code)
      PROVE  Inv'
    <2>1. S!OutgoingResponse(code) \in ServerEvents
        BY DEF ServerEvents
    <2> QED
        BY <1>8, <2>1, ServerCastKeepsInv DEF CoreAnswers
<1>9. CASE UserTerminates
    <2>1. C!Terminate \in ClientEvents /\ S!Terminate \in ServerEvents
        BY DEF ClientEvents, ServerEvents
    <2>2. CASE C!Cast(C!Terminate) /\ UNCHANGED serverVars
        BY <1>9, <2>1, <2>2, ClientCastKeepsInv DEF UserTerminates
    <2>3. CASE S!Cast(S!Terminate) /\ UNCHANGED clientVars
        BY <1>9, <2>1, <2>3, ServerCastKeepsInv DEF UserTerminates
    <2> QED
        BY <1>9, <2>2, <2>3 DEF UserTerminates
<1>10. CASE UNCHANGED vars
    <2>1. UNCHANGED <<c_state, c_reliable, c_mailbox, s_state, s_reliable,
                      s_mailbox, s_last_response, net, started, c_final, heard,
                      repeated>>
        BY <1>10 DEF vars, clientVars, serverVars, coreVars
    <2>2. ClientEvents' = ClientEvents /\ ServerEvents' = ServerEvents
        BY <2>1 DEF ClientEvents, ServerEvents
    <2> QED
        BY <2>1, <2>2 DEF Inv, TypeInv, HeardByState, Evidence, OneAnswer
<1> QED
    BY <1>1, <1>2, <1>3, <1>4, <1>5, <1>6, <1>7, <1>8, <1>9, <1>10
       DEF Next, Codes

\* Inv holds in every reachable state of the exchange.
THEOREM InvariantHolds == Spec => []Inv
BY InitInv, InvStep, PTL DEF Spec

-----------------------------------------------------------------------------
(* The properties. *)

\* confirmed is reached by an ACK alone, and an ACK is sent only after the
\* calling core was given a final response.
THEOREM AckIsEvidence == Spec => []AckMeansFinal
<1>1. Inv => AckMeansFinal
    BY DEF Inv, Evidence, AckMeansFinal
<1> QED
    BY InvariantHolds, <1>1, PTL

\* With one server transaction, what the calling core was given is what that
\* transaction answered.
THEOREM CoresAgree == Spec => []AgreeOnFinal
<1>1. Inv => AgreeOnFinal
    BY DEF Inv, TypeInv, Evidence, OneAnswer, AgreeOnFinal
<1> QED
    BY InvariantHolds, <1>1, PTL

\* No final response is handed to the core twice by the client transaction,
\* however often it is retransmitted or duplicated.
THEOREM HeardOnce == Spec => []FinalOnce
<1>1. Inv => FinalOnce
    BY DEF Inv, TypeInv, HeardByState, FinalOnce, C!States
<1> QED
    BY InvariantHolds, <1>1, PTL

-----------------------------------------------------------------------------
(* The exchange as an environment of the client transaction. *)

\* What the network, the router and the user do to the client transaction are
\* casts that ClientInvite allows for, and every callback is one of its own.
LEMMA ClientIsTransaction == [Next]_vars => [C!Next]_C!vars
<1> SUFFICES ASSUME [Next]_vars PROVE [C!Next]_C!vars
    OBVIOUS
<1>1. ASSUME NEW code \in Responses \cup {100}, ClientHears(code)
      PROVE  C!Next
    BY <1>1 DEF ClientHears, C!Next, C!HandleCast
<1>2. CASE ClientStep
    BY <1>2 DEF ClientStep, C!Next, C!HandleCast
<1>3. ASSUME NEW event \in C!Events, C!Cast(event)
      PROVE  C!Next
    BY <1>3 DEF C!Next
<1>4. C!Terminate \in C!Events
      /\ \A code \in Responses \cup {100} : C!IncomingResponse(code) \in C!Events
    BY DEF C!Events
<1>5. ASSUME NEW code \in Responses \cup {100}, ResponseToTransaction(code)
      PROVE  C!Next
    BY <1>3, <1>4, <1>5 DEF ResponseToTransaction
<1>6. CASE UserTerminates
    BY <1>3, <1>4, <1>6 DEF UserTerminates, clientVars, C!vars
<1>7. CASE UNCHANGED clientVars
    BY <1>7 DEF clientVars, C!vars
<1> QED
    BY <1>1, <1>2, <1>5, <1>6, <1>7
       DEF Next, ResponseToCore, ServerStep, StartServer, RequestToTransaction,
           CoreAnswers, vars

\* The client transaction of the exchange behaves as ClientInvite says, so that
\* what is proved of ClientInvite alone holds of it here.
THEOREM ImplementsClientInvite == Spec => C!Spec
<1>1. Init => C!Init
    BY DEF Init
<1> QED
    BY <1>1, ClientIsTransaction, PTL DEF Spec, C!Spec
=============================================================================
