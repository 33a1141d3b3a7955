--------------------------- MODULE InviteExchange ---------------------------
(***************************************************************************)
(* One INVITE between two Sippet stacks over UDP: the client transaction,  *)
(* the network, the router of either side and the server transactions that *)
(* the INVITE gives rise to.  A datagram once sent is delivered at any     *)
(* later moment, any number of times or never, so the network loses,       *)
(* duplicates, delays and reorders.  The clocks of the two sides are       *)
(* independent.                                                            *)
(*                                                                         *)
(* The router (lib/sippet/router.ex) finds the transaction of an incoming  *)
(* message in the Registry.  A server transaction that ended leaves no     *)
(* trace there: a further copy of the INVITE starts a new one.  An ACK     *)
(* that finds no transaction goes to the answering core, which changes     *)
(* nothing that is modelled here.                                          *)
(*                                                                         *)
(* The transactions send over UDP themselves: no call to a transport       *)
(* process crashes them, as HandleFailureExits and SendExits do in their   *)
(* modules.                                                                *)
(***************************************************************************)
EXTENDS Integers, Sequences

CONSTANTS
    TimerA, TimerB, TimerD,
    BeforeTrying, TimerG, TimerH, TimerI, T2,
    Responses,       \* status codes the answering core chooses from
    MaxMailbox,      \* bound on the mailboxes
    MaxTransactions  \* bound: server transactions started for the INVITE

ASSUME ExchangeAssumption ==
    Responses \subseteq 100..699 /\ MaxTransactions \in Nat

VARIABLES
    c_state, c_reliable, c_mailbox, c_timeout, c_sent, c_told, c_outcomes,
    c_terminated, c_waited,
    s_state, s_reliable, s_mailbox, s_timeout, s_last_response, s_sent, s_told,
    s_terminated, s_waited,
    net,       \* datagrams sent so far
    started,   \* server transactions started so far
    c_final,   \* final response given to the calling core, 0 for none
    heard,     \* status codes given to the calling core
    repeated   \* those given to it more than once

clientVars == <<c_state, c_reliable, c_mailbox, c_timeout, c_sent, c_told,
                c_outcomes, c_terminated, c_waited>>
serverVars == <<s_state, s_reliable, s_mailbox, s_timeout, s_last_response,
                s_sent, s_told, s_terminated, s_waited>>
coreVars == <<c_final, heard, repeated>>
vars == <<clientVars, serverVars, net, started, coreVars>>

C == INSTANCE ClientInvite WITH
       state <- c_state, reliable <- c_reliable, mailbox <- c_mailbox,
       state_timeout <- c_timeout, sent <- c_sent, told <- c_told,
       outcomes <- c_outcomes, terminated <- c_terminated, waited <- c_waited,
       Responses <- Responses \cup {100}

S == INSTANCE ServerInvite WITH
       state <- s_state, reliable <- s_reliable, mailbox <- s_mailbox,
       state_timeout <- s_timeout, last_response <- s_last_response,
       sent <- s_sent, told <- s_told, terminated <- s_terminated,
       waited <- s_waited

Invite == [type |-> "invite", code |-> 0]
Ack == [type |-> "ack", code |-> 0]
Response(code) == [type |-> "response", code |-> code]

-----------------------------------------------------------------------------
\* Router.to_core/3 with :receive_response: the calling core is handed `code`.
Hear(code) ==
    /\ heard' = heard \cup {code}
    /\ repeated' = IF code \in heard THEN repeated \cup {code} ELSE repeated
    /\ c_final' = IF code >= 200 /\ c_final = 0 THEN code ELSE c_final

\* What the client transaction's step put on the wire.
ClientSends == CASE c_sent' = "invite" -> {Invite}
                 [] c_sent' = "ack" -> {Ack}
                 [] OTHER -> {}

ServerSends == IF s_sent' = 0 THEN {} ELSE {Response(s_sent')}

Init ==
    /\ C!Init /\ ~c_reliable
    /\ s_state = "stopped" /\ s_reliable = FALSE /\ s_mailbox = <<>>
    /\ s_timeout = S!NoTimeout /\ s_last_response = 0 /\ s_sent = 0
    /\ s_told = "request" /\ s_terminated = FALSE /\ s_waited = 0
    /\ net = IF c_sent = "invite" THEN {Invite} ELSE {}
    /\ started = 0
    /\ c_final = 0 /\ heard = {} /\ repeated = {}

\* A callback of the client transaction that hands a response to the core.
ClientHears(code) ==
    /\ C!HandleProvisional(code) \/ C!HandleSuccess(code)
         \/ C!HandleFailure(code)
    /\ Hear(code)
    /\ net' = net \cup ClientSends
    /\ UNCHANGED <<serverVars, started>>

\* Every other callback of the client transaction, and its clock.
ClientStep ==
    /\ \/ C!HandleTimeout
       \/ \E code \in Responses \cup {100} : C!CompletedResponse(code)
       \/ C!HandleError
       \/ C!CompletedError
       \/ C!HandleTerminate
       \/ C!Tick
    /\ net' = net \cup ClientSends
    /\ UNCHANGED <<serverVars, started, coreVars>>

\* A callback of the server transaction, or its clock.
ServerStep ==
    /\ S!HandleTimeout \/ S!HandleCast \/ S!Tick
    /\ net' = net \cup ServerSends
    /\ UNCHANGED <<clientVars, started, coreVars>>

\* receive_transport_message/2, response, client transaction registered
ResponseToTransaction(code) ==
    /\ Response(code) \in net
    /\ C!Cast(C!IncomingResponse(code))
    /\ UNCHANGED <<serverVars, net, started, coreVars>>

\* Mutant: the response is not matched with the client transaction.
ResponseToCoreUnmatched(code) ==
    /\ Response(code) \in net
    /\ Hear(code)
    /\ UNCHANGED <<clientVars, serverVars, net, started>>

\* receive_transport_message/2, response, no client transaction: straight to
\* the core with a nil key
ResponseToCore(code) ==
    /\ Response(code) \in net
    /\ c_state = "stopped"
    /\ Hear(code)
    /\ UNCHANGED <<clientVars, serverVars, net, started>>

\* Mutant: every request that finds the transaction is taken for the ACK.
RequestTakenForAck(m) ==
    /\ m \in net \cap {Invite, Ack}
    /\ S!Cast(S!IncomingRequest("ack"))
    /\ UNCHANGED <<clientVars, net, started, coreVars>>

\* receive_transport_message/2, request, server transaction registered under
\* the key of the INVITE or under its ACK alias
RequestToTransaction(m) ==
    /\ m \in net \cap {Invite, Ack}
    /\ S!Cast(S!IncomingRequest(m.type))
    /\ UNCHANGED <<clientVars, net, started, coreVars>>

\* receive_transport_message/2, INVITE, no server transaction: start_server/3
StartServer ==
    /\ Invite \in net
    /\ s_state = "stopped"
    /\ started < MaxTransactions
    /\ started' = started + 1
    /\ s_state' = "proceeding" /\ s_mailbox' = <<>>
    /\ s_timeout' = S!Timeout(BeforeTrying, 0, 0)
    /\ s_last_response' = 0 /\ s_sent' = 0 /\ s_told' = "request"
    /\ s_terminated' = FALSE /\ s_waited' = 0
    /\ UNCHANGED <<s_reliable, clientVars, net, coreVars>>

\* Sippet.send/2 with a response, server transaction registered
CoreAnswers(code) ==
    /\ S!Cast(S!OutgoingResponse(code))
    /\ UNCHANGED <<clientVars, net, started, coreVars>>

\* Sippet.terminate/2 on either side
UserTerminates ==
    /\ \/ C!Cast(C!Terminate) /\ UNCHANGED serverVars
       \/ S!Cast(S!Terminate) /\ UNCHANGED clientVars
    /\ UNCHANGED <<net, started, coreVars>>

Next ==
    \/ \E code \in Responses \cup {100} :
         ClientHears(code) \/ ResponseToTransaction(code) \/ ResponseToCore(code)
    \/ ClientStep
    \/ ServerStep
    \/ StartServer
    \/ \E m \in {Invite, Ack} : RequestToTransaction(m)
    \/ \E code \in Responses : CoreAnswers(code)
    \/ UserTerminates

Spec == Init /\ [][Next]_vars

-----------------------------------------------------------------------------
(* Properties. *)

\* The server transaction stops repeating its failure response only when the
\* calling core has been given a final response: an ACK is evidence of that,
\* however late, duplicated or out of order it arrives.
AckMeansFinal == s_state = "confirmed" => c_final # 0

\* As long as the INVITE was handed to the answering core once, both cores hold
\* the same outcome: the final response the caller was given is the one that
\* the server transaction answered with.
AgreeOnFinal ==
    c_final # 0 /\ started = 1 => c_final = s_last_response

\* While the client transaction is there, the calling core is given every
\* final response once: completed acknowledges the copies and keeps them to
\* itself.  Provisional responses are repeated, and after the end so is all.
FinalOnce == c_state # "stopped" => \A code \in repeated : code < 200
=============================================================================
