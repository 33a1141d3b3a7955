---------------------------- MODULE TcpTransport ----------------------------
(***************************************************************************)
(* The TCP transport (lib/sippet/transports/tcp.ex): one GenServer that    *)
(* owns the connection pool, and one linked Connection process per socket  *)
(* (lib/sippet/transports/tcp/connection.ex).                              *)
(*                                                                         *)
(* The transport handles one message at a time, and while it sends it is   *)
(* blocked in a call to a connection; that call is where the handler is    *)
(* split into several actions here, as is the sweep, which asks twice who  *)
(* is alive while the connections run.  A connection about to stop (a      *)
(* socket event, a timer or :force_close is in its mailbox) still counts   *)
(* as alive for Process.alive?/1: it is `doomed`.  A call it finds after   *)
(* the stop message is never answered, and the caller exits with it.       *)
(*                                                                         *)
(* A connection delivers what it reads from its own process, so a callback *)
(* that sends over the same transport (the 400 of Router.maybe_send_400/5, *)
(* or a core that answers a message handed to it with a nil key) calls the *)
(* transport from inside the connection: it is `blocked` until then.       *)
(***************************************************************************)
EXTENDS Integers, Sequences, FiniteSets

CONSTANTS
    Peers,           \* remote {ip, port} pairs
    None,            \* no peer, no connection
    MaxConnections,  \* option max_connections, 0 for unlimited
    ConnsPerPeer,    \* option conns_per_peer
    EgressOnly,      \* option egress_only: no listening socket
    MaxPids,         \* bound: connection processes ever started
    MaxCalls         \* bound: send calls waiting for the transport

ASSUME PoolAssumption ==
    /\ MaxConnections \in Nat
    /\ ConnsPerPeer \in Nat \ {0}
    /\ EgressOnly \in BOOLEAN
    /\ None \notin Peers \cup (1..MaxPids)
    /\ MaxPids \in Nat
    /\ MaxCalls \in Nat

VARIABLES
    transport,    \* "idle", "calling" a connection, "sweeping" or "crashed"
    connections,  \* peer -> pool of connection pids, in round-robin order
    monitors,     \* pids with an entry in the monitors map
    downs,        \* :DOWN messages the transport has not handled yet
    conn,         \* pid -> connection process
    doomed,       \* pids with a message in the mailbox that will stop them
    calls,        \* {:send_message, ...} calls waiting for the transport
    call,         \* what the transport is blocked on
    crash         \* why the transport crashed

vars == <<transport, connections, monitors, downs, conn, doomed,
          calls, call, crash>>

Pids == 1..MaxPids

\* A send_message call: the process that made it (None for a transaction), the
\* source_peer of a response (None for requests) and the target.
Sends == [caller : Pids \cup {None}, source : Peers \cup {None}, target : Peers]

\* The pid being called, for which job, whether as reuse_connection/2 chose it,
\* whether the call got there before the stop message, and the state that
\* send_to_target/4 falls back to when the send fails.
NoCall == [pid |-> None]

Statuses == {"none", "open", "blocked", "dead"}

TypeOK ==
    /\ transport \in {"idle", "calling", "sweeping", "crashed"}
    /\ connections \in [Peers -> Seq(Pids)]
    /\ monitors \subseteq Pids
    /\ downs \subseteq Pids
    /\ conn \in [Pids -> [status : Statuses, peer : Peers \cup {None}]]
    /\ doomed \subseteq Pids
    /\ calls \in Seq(Sends)
    /\ transport = "calling" <=> call # NoCall
    /\ crash \in {"none", "call_exit", "timeout", "link"}

-----------------------------------------------------------------------------
(* Pool helpers. *)

\* Process.alive?/1
Alive(pid) == conn[pid].status \in {"open", "blocked"}

\* Enum.filter/2, prefix by prefix of the list.
Kept(pids, keep) ==
    LET kept[n \in 0..Len(pids)] ==
          IF n = 0 THEN <<>>
          ELSE IF pids[n] \in keep THEN Append(kept[n - 1], pids[n])
          ELSE kept[n - 1]
    IN  kept

Filter(pids, keep) == Kept(pids, keep)[Len(pids)]

Live(pids) == Filter(pids, {pid \in Pids : Alive(pid)})

\* The places in the pool.
Places(pool) == UNION {{peer} \X DOMAIN pool[peer] : peer \in Peers}

\* total_connections/1
TotalConnections(pool) == Cardinality(Places(pool))

\* Mutant: one connection more than the limit.
PoolFullLate(pool) ==
    MaxConnections # 0 /\ TotalConnections(pool) > MaxConnections

\* pool_full?/1
PoolFull(pool) == MaxConnections # 0 /\ TotalConnections(pool) >= MaxConnections

\* drop_conn/3
DropConn(pool, pid) ==
    [peer \in Peers |-> Filter(pool[peer], Pids \ {pid})]

Rotate(pids) == Append(Tail(pids), Head(pids))

FreePid == CHOOSE pid \in Pids : conn[pid].status = "none"
HasFreePid == \E pid \in Pids : conn[pid].status = "none"

-----------------------------------------------------------------------------
(* Replies, calls and crashes. *)

\* What happens to the connection that made the call when it gets its reply.
Unblock(processes, job) ==
    IF job.caller = None THEN processes
    ELSE [processes EXCEPT ![job.caller].status = "open"]

\* The handler ends with a reply to the caller of `job`; a failed send has been
\* reported to the transaction with receive_transport_error/3 before.
Reply(job, pool, refs, processes) ==
    /\ transport' = "idle"
    /\ call' = NoCall
    /\ connections' = pool
    /\ monitors' = refs
    /\ conn' = Unblock(processes, job)
    /\ UNCHANGED crash

\* Connection.send_message/2: the transport blocks on `pid`.
Call(pid, job, reuse, pool, refs, processes) ==
    /\ transport' = "calling"
    /\ call' = [pid |-> pid, job |-> job, reuse |-> reuse,
                served |-> pid \notin doomed',
                old |-> <<connections, monitors>>]
    /\ connections' = pool
    /\ monitors' = refs
    /\ conn' = processes
    /\ UNCHANGED crash

\* The transport process exits; the links take every connection with it.
Crash(reason) ==
    /\ transport' = "crashed"
    /\ crash' = reason
    /\ call' = NoCall
    /\ conn' = [pid \in Pids |->
                 IF Alive(pid) THEN [conn[pid] EXCEPT !.status = "dead"]
                 ELSE conn[pid]]
    /\ connections' = [peer \in Peers |-> <<>>]
    /\ monitors' = {} /\ downs' = {} /\ doomed' = {} /\ calls' = <<>>

-----------------------------------------------------------------------------
(* start_connection/4, get_or_connect/3, send_to_target/4. *)

Started(pid, peer) == [conn EXCEPT ![pid] = [status |-> "open", peer |-> peer]]

Added(pool, pid, peer) == [pool EXCEPT ![peer] = Append(@, pid)]

\* Find or open a connection to the target and send over it.  Every error
\* (a name that does not resolve, a refused connection, a full pool) leaves the
\* state the handler started with.
SendToTarget(job) ==
    LET peer == job.target
        live == Live(connections[peer])
        pool == [connections EXCEPT ![peer] = live]
        Fail == Reply(job, connections, monitors, conn)
    IN  \/ Fail
        \/ /\ Len(live) >= ConnsPerPeer
           /\ Call(Head(live), job, FALSE,
                   [pool EXCEPT ![peer] = Rotate(live)], monitors, conn)
        \/ /\ Len(live) < ConnsPerPeer
           /\ PoolFull(pool)
           /\ live # <<>>
           /\ Call(Head(live), job, FALSE, pool, monitors, conn)
        \/ /\ Len(live) < ConnsPerPeer
           /\ ~PoolFull(pool)
           /\ HasFreePid
           /\ Call(FreePid, job, FALSE, Added(pool, FreePid, peer),
                   monitors \cup {FreePid}, Started(FreePid, peer))

Init ==
    /\ transport = "idle"
    /\ connections = [peer \in Peers |-> <<>>]
    /\ monitors = {} /\ downs = {} /\ doomed = {}
    /\ conn = [pid \in Pids |-> [status |-> "none", peer |-> None]]
    /\ calls = <<>>
    /\ call = NoCall
    /\ crash = "none"

-----------------------------------------------------------------------------
(* The processes that use the transport. *)

\* A transaction process sends a request or a response.
TransactionSends(job) ==
    /\ transport # "crashed"
    /\ Len(calls) < MaxCalls
    /\ calls' = Append(calls, job)
    /\ UNCHANGED <<transport, connections, monitors, downs, conn,
                   doomed, call, crash>>

\* A connection delivers a message and the callback sends over this transport
\* from the connection's own process: a 400 to its own peer, or what the core
\* sends (Router.send_transport_message/3 with a nil key).  The data may have
\* been in the mailbox before the transport's own call or the stop message.
ConnectionSends(pid, target) ==
    /\ transport # "crashed"
    /\ conn[pid].status = "open"
    /\ Len(calls) < MaxCalls
    /\ calls' = Append(calls, [caller |-> pid, source |-> None,
                               target |-> target])
    /\ conn' = [conn EXCEPT ![pid].status = "blocked"]
    /\ UNCHANGED <<transport, connections, monitors, downs,
                   doomed, call, crash>>

-----------------------------------------------------------------------------
(* The transport's handlers. *)

\* handle_call({:send_message, ...}), up to the first call to a connection:
\* reuse_connection/2, else send_to_target/4.
HandleSend ==
    /\ transport = "idle"
    /\ calls # <<>>
    /\ calls' = Tail(calls)
    /\ UNCHANGED <<downs, doomed>>
    /\ LET job == Head(calls)
           live == IF job.source = None THEN <<>>
                   ELSE Live(connections[job.source])
       IN  IF live # <<>>
             THEN Call(Head(live), job, TRUE, connections, monitors, conn)
             ELSE SendToTarget(job)

\* The connection took the message: Connection.handle_call({:send, _}), :ok
SendSucceeds ==
    /\ transport = "calling"
    /\ call.served /\ conn[call.pid].status = "open"
    /\ Reply(call.job, connections, monitors, conn)
    /\ UNCHANGED <<downs, doomed, calls>>

\* Mutant: a connection whose send failed stays.
SendFailsStays ==
    /\ transport = "calling"
    /\ call.served /\ conn[call.pid].status = "open"
    /\ UNCHANGED <<downs, doomed, calls>>
    /\ IF call.reuse
         THEN SendToTarget(call.job)
         ELSE Reply(call.job, call.old[1], call.old[2], conn)

\* The socket refused the message: the connection replies {:error, _} and stops
\* after that.  A reused connection falls back to the target; otherwise the
\* error is reported and the handler's state is the one it began with.
SendFails ==
    /\ transport = "calling"
    /\ call.served /\ conn[call.pid].status = "open"
    /\ doomed' = doomed \cup {call.pid}
    /\ UNCHANGED <<downs, calls>>
    /\ IF call.reuse
         THEN SendToTarget(call.job)
         ELSE Reply(call.job, call.old[1], call.old[2], conn)

\* Connection.send_message/2 gives up after 10 s: the connection is blocked, or
\* the socket does not take the message.
SendTimesOut ==
    /\ transport = "calling"
    /\ Crash("timeout")

\* handle_info({:tcp_accepted, _}) below the limit; at the limit the socket is
\* closed and nothing changes.
Accept(peer) ==
    /\ transport = "idle"
    /\ ~EgressOnly
    /\ ~PoolFull(connections)
    /\ HasFreePid
    /\ connections' = Added(connections, FreePid, peer)
    /\ monitors' = monitors \cup {FreePid}
    /\ conn' = Started(FreePid, peer)
    /\ UNCHANGED <<transport, downs, doomed, calls, call, crash>>

\* Mutant: the pool keeps the pid of a connection that went down.
DownKeepsPid(pid) ==
    /\ transport = "idle"
    /\ pid \in downs
    /\ downs' = downs \ {pid}
    /\ monitors' = monitors \ {pid}
    /\ UNCHANGED <<transport, connections, conn, doomed, calls,
                   call, crash>>

\* handle_info({:DOWN, ...}); unknown references are ignored
Down(pid) ==
    /\ transport = "idle"
    /\ pid \in downs
    /\ downs' = downs \ {pid}
    /\ connections' = IF pid \in monitors THEN DropConn(connections, pid)
                                           ELSE connections
    /\ monitors' = monitors \ {pid}
    /\ UNCHANGED <<transport, conn, doomed, calls, call, crash>>

\* handle_info(:sweep_stale), sweep_stale_connections/1, its first loop: the
\* pool keeps the connections that are alive now.  A loop asks after one pid at a
\* time; the deaths in it commute, so that one instant has every outcome.
SweepPool ==
    /\ transport = "idle"
    /\ transport' = "sweeping"
    /\ connections' = [peer \in Peers |-> Live(connections[peer])]
    /\ UNCHANGED <<monitors, downs, conn, doomed, calls, call,
                   crash>>

\* Its second loop: the monitors of the connections that are alive by then stay.
\* One that died since the first loop is in the pool and loses its monitor.
SweepMonitors ==
    /\ transport = "sweeping"
    /\ transport' = "idle"
    /\ monitors' = {pid \in monitors : Alive(pid)}
    /\ UNCHANGED <<connections, downs, conn, doomed, calls, call,
                   crash>>

\* handle_cast({:close_peers, matcher}): :force_close to every pooled match
ClosePeers(peers) ==
    /\ transport = "idle"
    /\ doomed' = doomed \cup
         {pid \in Pids : Alive(pid) /\ \E peer \in peers :
                           \E i \in DOMAIN connections[peer] :
                             connections[peer][i] = pid}
    /\ UNCHANGED <<transport, connections, monitors, downs, conn,
                   calls, call, crash>>

-----------------------------------------------------------------------------
(* The connection processes. *)

\* :tcp_closed, :tcp_error, :idle_timeout, :message_timeout, or a keep-alive
\* that cannot be sent: the connection will stop.
Doom(pid) ==
    /\ Alive(pid)
    /\ pid \notin doomed
    /\ doomed' = doomed \cup {pid}
    /\ UNCHANGED <<transport, connections, monitors, downs, conn,
                   calls, call, crash>>

\* The stop message is handled.  A call that came after it gets no reply: the
\* transport exits.
ConnectionStops(pid) ==
    /\ pid \in doomed
    /\ conn[pid].status = "open"
    /\ ~(transport = "calling" /\ call.pid = pid /\ call.served)
    /\ IF transport = "calling" /\ call.pid = pid
         THEN Crash("call_exit")
         ELSE /\ conn' = [conn EXCEPT ![pid].status = "dead"]
              /\ doomed' = doomed \ {pid}
              /\ downs' = downs \cup {pid}
              /\ UNCHANGED <<transport, connections, monitors,
                             calls, call, crash>>

\* The connection's call to the transport is not answered in 5 s: it exits, and
\* the link takes the transport down.
CallerTimesOut(pid) ==
    /\ conn[pid].status = "blocked"
    /\ Crash("link")

\* A core callback raises in the connection process.
CallbackRaises(pid) ==
    /\ conn[pid].status = "open"
    /\ Crash("link")

-----------------------------------------------------------------------------
Next ==
    \/ \E source \in Peers \cup {None}, target \in Peers :
         TransactionSends([caller |-> None, source |-> source,
                           target |-> target])
    \/ \E pid \in Pids, target \in Peers : ConnectionSends(pid, target)
    \/ HandleSend
    \/ SendSucceeds
    \/ SendFails
    \/ SendTimesOut
    \/ \E peer \in Peers : Accept(peer)
    \/ \E pid \in Pids : Down(pid)
    \/ SweepPool
    \/ SweepMonitors
    \/ \E peers \in SUBSET Peers : ClosePeers(peers)
    \/ \E pid \in Pids : Doom(pid)
    \/ \E pid \in Pids : ConnectionStops(pid)
    \/ \E pid \in Pids : CallerTimesOut(pid)
    \/ \E pid \in Pids : CallbackRaises(pid)

Spec == Init /\ [][Next]_vars

\* A process that has a message handles it, and the transport's mailbox is
\* first-in first-out, so a :DOWN is not overtaken for ever.  No fairness is
\* assumed of the periodic sweep, but one that has begun is finished.
FairSpec ==
    /\ Spec
    /\ WF_vars(SendSucceeds \/ SendFails \/ SendTimesOut)
    /\ WF_vars(SweepMonitors)
    /\ \A pid \in Pids :
         /\ SF_vars(Down(pid))
         /\ WF_vars(ConnectionStops(pid))

-----------------------------------------------------------------------------
(* Properties. *)

Pooled(pid) ==
    \E peer \in Peers : \E i \in DOMAIN connections[peer] :
      connections[peer][i] = pid

\* The pool never holds more than max_connections connections, although it is
\* grown from the accepting side and the sending side (pool_full?/1).
PoolBounded ==
    MaxConnections # 0 => TotalConnections(connections) <= MaxConnections

\* A connection that stays up can be found: it is in its own peer's pool, once.
\* The state that send_to_target/4 discards after a failed send only ever hides
\* a connection that is stopping.
OpenIsPooled ==
    \A pid \in Pids : Alive(pid) /\ pid \notin doomed =>
      \A peer \in Peers :
        Cardinality({i \in DOMAIN connections[peer] :
                       connections[peer][i] = pid})
          = IF peer = conn[pid].peer THEN 1 ELSE 0

\* Every connection of the pool that still runs is monitored, in spite of the
\* sweep, the filters and the discarded states.  (A dead one need not be: it may
\* have died between the two loops of a sweep.)
LiveIsMonitored ==
    \A pid \in Pids : Pooled(pid) => pid \in monitors \/ conn[pid].status = "dead"

\* The pool, the processes and the monitors agree with one another through
\* accepts, sends, failures, sweeps and closes.
PoolConsistent == TypeOK /\ OpenIsPooled /\ LiveIsMonitored

\* A dead connection leaves the pool by its :DOWN alone, without waiting for the
\* next sweep (handle_info({:DOWN, ...})), unless it died between the two loops of
\* a sweep: its monitor is then forgotten, its :DOWN ignored, and it keeps one of
\* the max_connections places until the next sweep.
DeadLeavePool ==
    \A pid \in Pids :
      /\ conn[pid].status = "dead" /\ Pooled(pid)
      /\ pid \in monitors /\ transport # "sweeping"
      ~> ~Pooled(pid)

\* "for malformed requests, SHOULD send 400 Bad Request"
\* (lib/sippet/router.ex:79): a 400 that a connection sends to its own peer is
\* not handed to that same connection, which cannot take it while it waits for
\* the transport (the wait ends in a timeout that takes both down).
BadRequestCanLeave == transport = "calling" => call.pid # call.job.caller
=============================================================================
