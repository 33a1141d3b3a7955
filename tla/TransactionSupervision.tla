----------------------- MODULE TransactionSupervision -----------------------
(***************************************************************************)
(* How the copies of one request become one server transaction: the        *)
(* processes that receive them look the key up in the Registry and ask the *)
(* DynamicSupervisor to start a transaction (lib/sippet/router.ex), the    *)
(* transaction calls the core from its own process, where the core may     *)
(* raise, and the supervisor restarts what crashed (restart: :transient in *)
(* lib/sippet/transactions/server.ex) under the same name.                 *)
(*                                                                         *)
(* The supervisor handles one message at a time.  Its messages come from   *)
(* different processes, each with a delay of its own, so that any of those *)
(* on their way may be the next one.                                       *)
(***************************************************************************)
EXTENDS Naturals, FiniteSets

CONSTANTS
  Receivers,     \* processes that receive copies: a UDP transport, TCP connections
  MaxRestarts,   \* max_restarts of the DynamicSupervisor, 3 by default
  MaxCopies,     \* bound: copies of the request
  MaxCrashes     \* bound: transaction processes that crash

ASSUME SupervisionAssumption ==
  {MaxRestarts, MaxCopies, MaxCrashes} \subseteq Nat /\ IsFiniteSet(Receivers)

VARIABLES
  at,          \* receiver -> "idle", "found" a pid, found it "absent", or "starting" one
  pending,     \* messages to the supervisor
  supervisor,  \* "up" or "down"
  restarts,    \* restarts in the last max_seconds
  proc,        \* pid -> transaction process; "new" before its first :enter
  told,        \* times that the core was given the request
  copies, crashes, collapsed   \* history

vars == <<at, pending, supervisor, restarts, proc, told, copies, crashes, collapsed>>

Pids == 1..(MaxCopies + MaxCrashes + 1)

Start(r) == [type |-> "start", from |-> r]
Exit(pid, reason) == [type |-> "exit", pid |-> pid, reason |-> reason]
Retry(pid) == [type |-> "gen_restart", pid |-> pid]

\* Registry.lookup/2 of the key: a process that is not alive is not found.
Alive == {pid \in Pids : proc[pid] \in {"new", "running"}}

Init ==
  /\ at = [r \in Receivers |-> "idle"]
  /\ pending = {} /\ supervisor = "up" /\ restarts = 0
  /\ proc = [pid \in Pids |-> "none"]
  /\ told = 0 /\ copies = 0 /\ crashes = 0 /\ collapsed = FALSE

----------------------------------------------------------------------------
(* The receivers *)

\* receive_transport_message/2 looks the transaction up.
Lookup(r) ==
  /\ at[r] = "idle" /\ copies < MaxCopies
  /\ copies' = copies + 1
  /\ at' = [at EXCEPT ![r] = IF Alive = {} THEN "absent" ELSE "found"]
  /\ UNCHANGED <<pending, supervisor, restarts, proc, told, crashes, collapsed>>

\* Server.receive_request/2 casts the copy to the pid that was found, alive
\* or not.  What the transaction does with it is the business of its module.
ReceiveRequest(r) ==
  /\ at[r] = "found"
  /\ at' = [at EXCEPT ![r] = "idle"]
  /\ UNCHANGED <<pending, supervisor, restarts, proc, told, copies, crashes, collapsed>>

\* start_server/3 calls the supervisor; without one the receiver exits, and
\* whoever supervises the transport starts it again.
StartServer(r) ==
  /\ at[r] = "absent"
  /\ IF supervisor = "up"
       THEN at' = [at EXCEPT ![r] = "starting"] /\ pending' = pending \cup {Start(r)}
       ELSE at' = [at EXCEPT ![r] = "idle"] /\ UNCHANGED pending
  /\ UNCHANGED <<supervisor, restarts, proc, told, copies, crashes, collapsed>>

----------------------------------------------------------------------------
(* The supervisor *)

FreePid == CHOOSE pid \in Pids : proc[pid] = "none"

\* Mutant: the process is started without a name.
SpawnNameless(message, ifTaken) ==
  /\ proc' = [proc EXCEPT ![FreePid] = "new"]
  /\ pending' = pending \ {message}

\* start_link with the name {:via, Registry, _}.  A name that is taken makes
\* it {:error, {:already_started, _}}, after which `ifTaken` is left to do.
Spawn(message, ifTaken) ==
  IF Alive = {}
    THEN /\ proc' = [proc EXCEPT ![FreePid] = "new"]
         /\ pending' = pending \ {message}
    ELSE /\ pending' = (pending \ {message}) \cup ifTaken
         /\ UNCHANGED proc

\* Mutant: the supervisor ignores the child.
HandleStartIgnored(r) ==
  /\ supervisor = "up" /\ Start(r) \in pending
  /\ pending' = pending \ {Start(r)}
  /\ at' = [at EXCEPT ![r] = "idle"]
  /\ UNCHANGED <<supervisor, restarts, proc, told, copies, crashes, collapsed>>

\* DynamicSupervisor.start_child/2; the receiver drops the copy on an error.
HandleStart(r) ==
  /\ supervisor = "up" /\ Start(r) \in pending
  /\ Spawn(Start(r), {})
  /\ at' = [at EXCEPT ![r] = "idle"]
  /\ UNCHANGED <<supervisor, restarts, told, copies, crashes, collapsed>>

\* The supervisor stops, and everything that it supervises with it; whoever
\* waits for its answer exits.
Collapse ==
  /\ supervisor' = "down" /\ collapsed' = TRUE
  /\ pending' = {} /\ restarts' = 0
  /\ proc' = [pid \in Pids |-> IF pid \in Alive THEN "dead" ELSE proc[pid]]
  /\ at' = [r \in Receivers |-> IF at[r] = "starting" THEN "idle" ELSE at[r]]

\* Mutant: a retry is not counted.
RestartUncounted(message, pid) ==
  IF message.type = "exit" /\ restarts >= MaxRestarts THEN Collapse
  ELSE /\ restarts' = IF message.type = "exit" THEN restarts + 1 ELSE restarts
       /\ Spawn(message, {Retry(pid)})
       /\ UNCHANGED <<at, supervisor, collapsed>>

\* Mutant: the supervisor gives up one restart early.
RestartEarly(message, pid) ==
  IF restarts + 1 >= MaxRestarts THEN Collapse
  ELSE /\ restarts' = restarts + 1
       /\ Spawn(message, {Retry(pid)})
       /\ UNCHANGED <<at, supervisor, collapsed>>

\* Every attempt counts, also one that finds the name taken by the process
\* that a copy has started meanwhile: it is tried again at once.
Restart(message, pid) ==
  IF restarts >= MaxRestarts THEN Collapse
  ELSE /\ restarts' = restarts + 1
       /\ Spawn(message, {Retry(pid)})
       /\ UNCHANGED <<at, supervisor, collapsed>>

\* restart: :transient; {:stop, :normal, _} and {:stop, :shutdown, _} are the end.
IsRestarted(reason) == reason \notin {"normal", "shutdown"}

HandleExit(pid) ==
  /\ supervisor = "up"
  /\ \E message \in pending :
       /\ message.type \in {"exit", "gen_restart"} /\ message.pid = pid
       /\ IF message.type = "gen_restart" \/ IsRestarted(message.reason)
            THEN Restart(message, pid)
            ELSE /\ pending' = pending \ {message}
                 /\ UNCHANGED <<at, supervisor, restarts, proc, collapsed>>
  /\ UNCHANGED <<told, copies, crashes>>

\* max_seconds pass.  They do not while the supervisor is busy with retries.
RestartsForgotten ==
  /\ restarts > 0
  /\ \A message \in pending : message.type # "gen_restart"
  /\ restarts' \in 0..(restarts - 1)
  /\ UNCHANGED <<at, pending, supervisor, proc, told, copies, crashes, collapsed>>

\* The supervisor of the stack, in Sippet.init/1, starts it again.
SupervisorRestarts ==
  /\ supervisor = "down"
  /\ supervisor' = "up"
  /\ UNCHANGED <<at, pending, restarts, proc, told, copies, crashes, collapsed>>

----------------------------------------------------------------------------
(* The transactions *)

Dies(pid, reason) ==
  /\ proc' = [proc EXCEPT ![pid] = "dead"]
  /\ pending' = pending \cup {Exit(pid, reason)}

\* The first :enter, after start_link has returned, gives the core the
\* request.  The core may raise.
Enter(pid) ==
  /\ proc[pid] = "new"
  /\ told' = told + 1
  /\ \/ /\ proc' = [proc EXCEPT ![pid] = "running"]
        /\ UNCHANGED <<pending, crashes>>
     \/ /\ crashes < MaxCrashes
        /\ crashes' = crashes + 1
        /\ Dies(pid, "error")
  /\ UNCHANGED <<at, supervisor, restarts, copies, collapsed>>

\* A callback raises, or a call to the transport exits.
Crash(pid) ==
  /\ proc[pid] = "running" /\ crashes < MaxCrashes
  /\ crashes' = crashes + 1
  /\ Dies(pid, "error")
  /\ UNCHANGED <<at, supervisor, restarts, told, copies, collapsed>>

\* The transaction is over, timed out, or terminated.
End(pid) ==
  /\ proc[pid] = "running"
  /\ \E reason \in {"normal", "shutdown"} : Dies(pid, reason)
  /\ UNCHANGED <<at, supervisor, restarts, told, copies, crashes, collapsed>>

Next ==
  \/ \E r \in Receivers :
       Lookup(r) \/ ReceiveRequest(r) \/ StartServer(r) \/ HandleStart(r)
  \/ \E pid \in Pids : HandleExit(pid) \/ Enter(pid) \/ Crash(pid) \/ End(pid)
  \/ RestartsForgotten \/ SupervisorRestarts

\* Every process takes its next step, and every message is handled.  Nothing
\* makes a transaction end, crash or a copy arrive.
Fairness ==
  /\ \A r \in Receivers :
       WF_vars(ReceiveRequest(r)) /\ WF_vars(StartServer(r)) /\ WF_vars(HandleStart(r))
  /\ \A pid \in Pids : WF_vars(HandleExit(pid)) /\ WF_vars(Enter(pid))
  /\ WF_vars(SupervisorRestarts)

Spec == Init /\ [][Next]_vars /\ Fairness

----------------------------------------------------------------------------
(* Properties *)

\* However the copies and the restarts race, there is one transaction at a
\* time: the Registry's name decides, not the lookup.
OneTransaction == Cardinality(Alive) <= 1

\* A core that raises brings the supervisor down, and every transaction with
\* it, by more than max_restarts crashes.  Fewer are enough only if a copy
\* of the request came in, which may take the name that a restart needs.
CollapseExplained == collapsed /\ copies <= 1 => crashes > MaxRestarts

\* A restart that finds its name taken is not tried for ever: it succeeds
\* when the name is free, or the supervisor gives up.
RestartSettles == \A pid \in Pids : Retry(pid) \in pending ~> Retry(pid) \notin pending

\* A request that was received is given to the core, whichever of the
\* receivers wins, and although the others drop their copies.
EventuallyTold == copies > 0 ~> told > 0
============================================================================
