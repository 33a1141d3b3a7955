-------------------- MODULE TransactionSupervisionProofs --------------------
(***************************************************************************)
(* Proofs about the supervision of transactions, for any number of         *)
(* receivers, copies and crashes and any max_restarts.                     *)
(***************************************************************************)
EXTENDS TransactionSupervision, TLAPS, FiniteSetTheorems

Messages ==
  {Start(r) : r \in Receivers}
    \cup {Exit(pid, reason) : pid \in Pids, reason \in {"normal", "shutdown", "error"}}
    \cup {Retry(pid) : pid \in Pids}

TypeInv ==
  /\ at \in [Receivers -> {"idle", "found", "absent", "starting"}]
  /\ pending \subseteq Messages
  /\ supervisor \in {"up", "down"}
  /\ restarts \in Nat
  /\ proc \in [Pids -> {"none", "new", "running", "dead"}]
  /\ copies \in Nat /\ crashes \in Nat
  /\ collapsed \in BOOLEAN

\* The Registry has one process under the name.
OneAlive == \A pid, other \in Alive : pid = other

\* A receiver waits for an answer exactly while its call is on the way, and
\* nothing is left of the transactions when the supervisor is down.
NobodyForgotten ==
  /\ \A r \in Receivers : at[r] = "starting" <=> Start(r) \in pending
  /\ supervisor = "down" => pending = {} /\ Alive = {}

Inv == TypeInv /\ OneAlive /\ NobodyForgotten

\* The ways in which a request asks for a process: a receiver that found none,
\* a process, or a crash that the supervisor has still to handle.
Asking == {r \in Receivers : at[r] \in {"absent", "starting"}}
Failed == {pid \in Pids : Exit(pid, "error") \in pending}

\* As long as there was one copy of the request, there is one process that it
\* asks for: no restart meets a name that is taken, and every restart and
\* every crash yet to be handled is a crash of its own.
SingleCopy ==
  copies <= 1 =>
    /\ \A pid \in Pids : Retry(pid) \notin pending
    /\ copies = 0 => Asking = {} /\ Alive = {} /\ Failed = {}
    /\ \A r, other \in Asking : r = other
    /\ Asking # {} => Alive = {} /\ Failed = {}
    /\ Alive # {} => Failed = {}
    /\ \A pid, other \in Failed : pid = other
    /\ restarts <= crashes
    /\ Failed # {} => restarts < crashes
    /\ collapsed => crashes > MaxRestarts

----------------------------------------------------------------------------
(* Messages, and what handling them does. *)

\* A message to the supervisor says what it is about.
LEMMA MessageKinds ==
  /\ \A r, s : Start(r) = Start(s) => r = s
  /\ \A r, pid, reason : Start(r) # Exit(pid, reason) /\ Start(r) # Retry(pid)
  /\ \A pid, other, reason : Exit(pid, reason) # Retry(other)
  /\ \A pid, other : Retry(pid) = Retry(other) => pid = other
  /\ \A pid, other, reason, cause :
       Exit(pid, reason) = Exit(other, cause) => pid = other /\ reason = cause
BY DEF Start, Exit, Retry

\* The name is given to one process, and only when it is free.
LEMMA SpawnEffect ==
  ASSUME TypeInv, OneAlive, NEW message, NEW ifTaken, Spawn(message, ifTaken)
  PROVE  /\ proc' \in [Pids -> {"none", "new", "running", "dead"}]
         /\ OneAlive'
         /\ \/ Alive = {} /\ pending' = pending \ {message}
            \/ /\ Alive # {} /\ Alive' = Alive
               /\ pending' = (pending \ {message}) \cup ifTaken
<1>1. CASE Alive = {}
  <2>1. /\ proc' = [proc EXCEPT ![FreePid] = "new"]
        /\ pending' = pending \ {message}
    BY <1>1 DEF Spawn
  <2>2. \A pid \in Pids : pid # FreePid => proc'[pid] \notin {"new", "running"}
    BY <1>1, <2>1 DEF Alive, TypeInv
  <2>3. proc' \in [Pids -> {"none", "new", "running", "dead"}]
    BY <2>1 DEF TypeInv
  <2> QED
    BY <1>1, <2>1, <2>2, <2>3 DEF OneAlive, Alive
<1>2. CASE Alive # {}
  BY <1>2 DEF Spawn, TypeInv, OneAlive, Alive
<1> QED
  BY <1>1, <1>2

\* The process that dies is the one that was alive.
LEMMA DiesEffect ==
  ASSUME TypeInv, OneAlive, NEW pid \in Alive, NEW reason, Dies(pid, reason)
  PROVE  /\ proc' \in [Pids -> {"none", "new", "running", "dead"}]
         /\ Alive' = {}
         /\ pending' = pending \cup {Exit(pid, reason)}
BY DEF TypeInv, OneAlive, Alive, Dies

\* Nothing survives the supervisor.
LEMMA CollapseEffect ==
  ASSUME TypeInv, Collapse
  PROVE  /\ proc' \in [Pids -> {"none", "new", "running", "dead"}]
         /\ Alive' = {} /\ pending' = {} /\ restarts' = 0
         /\ supervisor' = "down" /\ collapsed' = TRUE
         /\ at' \in [Receivers -> {"idle", "found", "absent", "starting"}]
         /\ \A r \in Receivers :
              /\ at'[r] # "starting"
              /\ at'[r] \in {at[r], "idle"}
<1>1. /\ proc' = [pid \in Pids |-> IF pid \in Alive THEN "dead" ELSE proc[pid]]
      /\ at' = [r \in Receivers |-> IF at[r] = "starting" THEN "idle" ELSE at[r]]
  BY DEF Collapse
<1>2. proc' \in [Pids -> {"none", "new", "running", "dead"}] /\ Alive' = {}
  BY <1>1 DEF TypeInv, Alive
<1>3. at' \in [Receivers -> {"idle", "found", "absent", "starting"}]
  BY <1>1 DEF TypeInv
<1> QED
  BY <1>1, <1>2, <1>3 DEF Collapse

----------------------------------------------------------------------------
(* The invariant. *)

LEMMA InitInv == Init => Inv
<1> SUFFICES ASSUME Init PROVE Inv
  OBVIOUS
<1>1. TypeInv
  BY DEF Init, TypeInv
<1>2. Alive = {}
  BY DEF Init, Alive
<1> QED
  BY <1>1, <1>2 DEF Init, Inv, OneAlive, NobodyForgotten

\* What the supervisor does with an exit or a retry: it drops it, restarts the
\* process or gives up.
LEMMA HandleExitCases ==
  ASSUME Inv, NEW pid \in Pids, HandleExit(pid)
  PROVE  /\ supervisor = "up"
         /\ UNCHANGED <<told, copies, crashes>>
         /\ \E message \in pending :
              /\ message \in {Exit(pid, "normal"), Exit(pid, "shutdown"),
                              Exit(pid, "error"), Retry(pid)}
              /\ \/ /\ message \in {Exit(pid, "normal"), Exit(pid, "shutdown")}
                    /\ pending' = pending \ {message}
                    /\ UNCHANGED <<at, supervisor, restarts, proc, collapsed>>
                 \/ /\ message \in {Exit(pid, "error"), Retry(pid)}
                    /\ restarts >= MaxRestarts
                    /\ Collapse
                 \/ /\ message \in {Exit(pid, "error"), Retry(pid)}
                    /\ restarts < MaxRestarts
                    /\ restarts' = restarts + 1
                    /\ Spawn(message, {Retry(pid)})
                    /\ UNCHANGED <<at, supervisor, collapsed>>
<1>1. PICK message \in pending :
        /\ message.type \in {"exit", "gen_restart"} /\ message.pid = pid
        /\ IF message.type = "gen_restart" \/ IsRestarted(message.reason)
             THEN Restart(message, pid)
             ELSE /\ pending' = pending \ {message}
                  /\ UNCHANGED <<at, supervisor, restarts, proc, collapsed>>
  BY DEF HandleExit
<1>2. message \in Messages
  BY <1>1 DEF Inv, TypeInv
<1>3. message \in {Exit(pid, "normal"), Exit(pid, "shutdown"),
                   Exit(pid, "error"), Retry(pid)}
  BY <1>1, <1>2 DEF Messages, Start, Exit, Retry
<1>4. restarts \in Nat /\ MaxRestarts \in Nat
  BY SupervisionAssumption DEF Inv, TypeInv
<1>5. CASE message \in {Exit(pid, "normal"), Exit(pid, "shutdown")}
  BY <1>1, <1>3, <1>5 DEF HandleExit, IsRestarted, Exit
<1>6. CASE message \in {Exit(pid, "error"), Retry(pid)}
  <2>1. Restart(message, pid)
    BY <1>1, <1>6 DEF IsRestarted, Exit, Retry
  <2> QED
    BY <1>1, <1>3, <1>4, <1>6, <2>1 DEF Restart, HandleExit
<1> QED
  BY <1>3, <1>5, <1>6

\* The steps of a receiver.
LEMMA ReceiverKeepsInv ==
  ASSUME Inv, NEW r \in Receivers,
         Lookup(r) \/ ReceiveRequest(r) \/ StartServer(r) \/ HandleStart(r)
  PROVE  Inv'
<1> USE DEF Inv
<1>1. CASE Lookup(r)
  BY <1>1 DEF Lookup, TypeInv, OneAlive, NobodyForgotten, Alive
<1>2. CASE ReceiveRequest(r)
  BY <1>2 DEF ReceiveRequest, TypeInv, OneAlive, NobodyForgotten, Alive
<1>3. CASE StartServer(r)
  <2>1. TypeInv'
    BY <1>3 DEF StartServer, TypeInv, Messages
  <2>2. OneAlive'
    BY <1>3 DEF StartServer, OneAlive, Alive
  <2>3. NobodyForgotten'
    BY <1>3, MessageKinds DEF StartServer, TypeInv, NobodyForgotten, Alive
  <2> QED
    BY <2>1, <2>2, <2>3
<1>4. CASE HandleStart(r)
  <2>1. /\ at' = [at EXCEPT ![r] = "idle"] /\ supervisor = "up"
        /\ UNCHANGED <<supervisor, restarts, copies, crashes, collapsed>>
        /\ pending' = pending \ {Start(r)}
        /\ proc' \in [Pids -> {"none", "new", "running", "dead"}] /\ OneAlive'
    <3>1. Spawn(Start(r), {})
      BY <1>4 DEF HandleStart
    <3> QED
      BY <1>4, <3>1, SpawnEffect DEF HandleStart
  <2>2. TypeInv'
    BY <2>1 DEF TypeInv
  <2>3. NobodyForgotten'
    BY <2>1, MessageKinds DEF TypeInv, NobodyForgotten
  <2> QED
    BY <2>1, <2>2, <2>3
<1> QED
  BY <1>1, <1>2, <1>3, <1>4

\* The supervisor handles an exit or a retry.
LEMMA HandleExitKeepsInv ==
  ASSUME Inv, NEW pid \in Pids, HandleExit(pid)
  PROVE  Inv'
<1>1. PICK message \in {Exit(pid, "normal"), Exit(pid, "shutdown"),
                        Exit(pid, "error"), Retry(pid)} :
        \/ /\ pending' = pending \ {message}
           /\ UNCHANGED <<at, supervisor, restarts, proc, collapsed>>
        \/ Collapse
        \/ /\ restarts' = restarts + 1
           /\ Spawn(message, {Retry(pid)})
           /\ UNCHANGED <<at, supervisor, collapsed>>
  BY HandleExitCases
<1>2. supervisor = "up" /\ UNCHANGED <<copies, crashes>>
  BY HandleExitCases
<1>3. \A r : message # Start(r) /\ Retry(pid) # Start(r)
  BY <1>1, MessageKinds
<1>4. CASE /\ pending' = pending \ {message}
           /\ UNCHANGED <<at, supervisor, restarts, proc, collapsed>>
  BY <1>2, <1>3, <1>4 DEF Inv, TypeInv, OneAlive, NobodyForgotten, Alive
<1>5. CASE Collapse
  <2>1. TypeInv'
    <3>1. /\ proc' \in [Pids -> {"none", "new", "running", "dead"}]
          /\ pending' = {} /\ restarts' = 0 /\ supervisor' = "down"
          /\ at' \in [Receivers -> {"idle", "found", "absent", "starting"}]
      BY <1>5, CollapseEffect DEF Inv
    <3>2. collapsed' \in BOOLEAN
      BY <1>5 DEF Collapse
    <3> QED
      BY <1>2, <3>1, <3>2 DEF Inv, TypeInv
  <2> QED
    BY <1>5, <2>1, CollapseEffect DEF Inv, OneAlive, NobodyForgotten
<1>6. CASE /\ restarts' = restarts + 1
           /\ Spawn(message, {Retry(pid)})
           /\ UNCHANGED <<at, supervisor, collapsed>>
  <2>1. /\ proc' \in [Pids -> {"none", "new", "running", "dead"}]
        /\ OneAlive'
        /\ pending' \in {pending \ {message},
                         (pending \ {message}) \cup {Retry(pid)}}
    BY <1>6, SpawnEffect DEF Inv
  <2>2. Retry(pid) \in Messages
    BY DEF Messages
  <2>3. TypeInv'
    BY <1>2, <1>6, <2>1, <2>2 DEF Inv, TypeInv
  <2>4. NobodyForgotten'
    BY <1>2, <1>3, <1>6, <2>1 DEF Inv, NobodyForgotten
  <2> QED
    BY <2>1, <2>3, <2>4 DEF Inv
<1> QED
  BY <1>1, <1>4, <1>5, <1>6

\* The steps of a transaction process.
LEMMA ProcessKeepsInv ==
  ASSUME Inv, NEW pid \in Pids, Enter(pid) \/ Crash(pid) \/ End(pid)
  PROVE  Inv'
<1>1. /\ pid \in Alive /\ supervisor = "up"
      /\ UNCHANGED <<at, supervisor, restarts, copies, collapsed>>
      /\ crashes' \in {crashes, crashes + 1}
  <2>1. pid \in Alive
    BY DEF Enter, Crash, End, Alive
  <2> QED
    BY <2>1 DEF Enter, Crash, End, Inv, TypeInv, NobodyForgotten
<1>2. CASE proc' = [proc EXCEPT ![pid] = "running"] /\ UNCHANGED pending
  BY <1>1, <1>2 DEF Inv, TypeInv, OneAlive, NobodyForgotten, Alive
<1>3. ASSUME NEW reason \in {"normal", "shutdown", "error"}, Dies(pid, reason)
      PROVE  Inv'
  <2>1. Exit(pid, reason) \in Messages /\ \A r : Exit(pid, reason) # Start(r)
    BY MessageKinds DEF Messages
  <2>2. /\ proc' \in [Pids -> {"none", "new", "running", "dead"}]
        /\ Alive' = {}
        /\ pending' = pending \cup {Exit(pid, reason)}
    BY <1>1, <1>3, DiesEffect DEF Inv
  <2> QED
    BY <1>1, <2>1, <2>2 DEF Inv, TypeInv, OneAlive, NobodyForgotten
<1> QED
  BY <1>2, <1>3 DEF Enter, Crash, End

\* Every step keeps the invariant.
LEMMA InvStep == Inv /\ [Next]_vars => Inv'
<1> SUFFICES ASSUME Inv, [Next]_vars PROVE Inv'
  OBVIOUS
<1>1. CASE RestartsForgotten
  BY <1>1 DEF RestartsForgotten, Inv, TypeInv, OneAlive, NobodyForgotten, Alive
<1>2. CASE SupervisorRestarts
  BY <1>2 DEF SupervisorRestarts, Inv, TypeInv, OneAlive, NobodyForgotten, Alive
<1>3. CASE UNCHANGED vars
  BY <1>3 DEF vars, Inv, TypeInv, OneAlive, NobodyForgotten, Alive
<1> QED
  BY <1>1, <1>2, <1>3, ReceiverKeepsInv, HandleExitKeepsInv, ProcessKeepsInv
     DEF Next

THEOREM InvariantHolds == Spec => []Inv
BY InitInv, InvStep, PTL DEF Spec

\* However the copies and the restarts race, the name belongs to one process.
THEOREM OneTransactionAtATime == Spec => []OneTransaction
<1>1. Inv => OneTransaction
  <2> SUFFICES ASSUME Inv PROVE Cardinality(Alive) <= 1
    BY DEF OneTransaction
  <2>1. CASE Alive = {}
    BY <2>1, FS_EmptySet
  <2>2. CASE Alive # {}
    <3>1. PICK pid : Alive = {pid}
      BY <2>2 DEF Inv, OneAlive
    <3> QED
      BY <3>1, FS_Singleton
  <2> QED
    BY <2>1, <2>2
<1> QED
  BY InvariantHolds, <1>1, PTL

\* No receiver waits for an answer that will not come: its call is with the
\* supervisor, which is up, and takes every transaction along when it is not.
THEOREM CallersAreKnown == Spec => []NobodyForgotten
<1>1. Inv => NobodyForgotten
  BY DEF Inv
<1> QED
  BY InvariantHolds, <1>1, PTL

----------------------------------------------------------------------------
(* One copy of the request. *)

LEMMA InitSingleCopy == Init => SingleCopy
<1> SUFFICES ASSUME Init PROVE SingleCopy
  OBVIOUS
<1>1. Alive = {} /\ Asking = {} /\ Failed = {}
  BY DEF Init, Alive, Asking, Failed
<1> QED
  BY <1>1 DEF Init, SingleCopy

\* The steps of a receiver: a copy is looked up once, and the process that it
\* asks for is started once.
LEMMA ReceiverKeepsSingleCopy ==
  ASSUME Inv, SingleCopy, copies' <= 1, NEW r \in Receivers,
         Lookup(r) \/ ReceiveRequest(r) \/ StartServer(r) \/ HandleStart(r)
  PROVE  SingleCopy'
<1> USE DEF Inv
<1>1. CASE Lookup(r)
  <2>1. copies = 0 /\ copies' = 1 /\ at' = [at EXCEPT ![r] = IF Alive = {} THEN "absent" ELSE "found"]
        /\ UNCHANGED <<pending, proc, restarts, crashes, collapsed>>
    BY <1>1 DEF Lookup, TypeInv
  <2>2. Asking = {} /\ Alive = {} /\ Failed = {}
    BY <2>1 DEF SingleCopy
  <2>3. Asking' = {r} /\ Alive' = {} /\ Failed' = {}
    BY <2>1, <2>2 DEF Asking, Alive, Failed, TypeInv
  <2> QED
    BY <2>1, <2>3 DEF SingleCopy
<1>2. CASE ReceiveRequest(r)
  <2>1. UNCHANGED <<pending, proc, restarts, copies, crashes, collapsed>>
    BY <1>2 DEF ReceiveRequest
  <2>2. Asking' = Asking /\ Alive' = Alive /\ Failed' = Failed
    BY <1>2, <2>1 DEF ReceiveRequest, Asking, Alive, Failed, TypeInv
  <2> QED
    BY <2>1, <2>2 DEF SingleCopy
<1>3. CASE StartServer(r)
  <2>1. /\ UNCHANGED <<proc, restarts, copies, crashes, collapsed>>
        /\ pending' \in {pending, pending \cup {Start(r)}}
    BY <1>3 DEF StartServer
  <2>2. Asking' \subseteq Asking
    BY <1>3 DEF StartServer, Asking, TypeInv
  <2>3. Alive' = Alive /\ Failed' = Failed
    BY <2>1, MessageKinds DEF Alive, Failed
  <2>4. \A pid \in Pids : Retry(pid) \in pending' => Retry(pid) \in pending
    BY <2>1, MessageKinds
  <2> QED
    BY <2>1, <2>2, <2>3, <2>4 DEF SingleCopy
<1>4. CASE HandleStart(r)
  <2>1. /\ at' = [at EXCEPT ![r] = "idle"] /\ Start(r) \in pending
        /\ UNCHANGED <<restarts, copies, crashes, collapsed>>
        /\ Spawn(Start(r), {})
    BY <1>4 DEF HandleStart
  <2>2. r \in Asking
    BY <2>1 DEF NobodyForgotten, Asking
  <2>3. copies = 1 /\ Alive = {} /\ Failed = {} /\ \A s \in Asking : s = r
    BY <2>1, <2>2 DEF SingleCopy, TypeInv
  <2>4. pending' = pending \ {Start(r)}
    BY <2>1, <2>3, SpawnEffect
  <2>5. Asking' = {}
    BY <2>1, <2>3 DEF Asking, TypeInv
  <2>6. Failed' = {}
    BY <2>3, <2>4 DEF Failed
  <2> QED
    BY <2>1, <2>3, <2>4, <2>5, <2>6 DEF SingleCopy
<1> QED
  BY <1>1, <1>2, <1>3, <1>4

\* The supervisor: no restart finds the name taken, and each is for a crash of
\* its own.
LEMMA HandleExitKeepsSingleCopy ==
  ASSUME Inv, SingleCopy, copies' <= 1, NEW pid \in Pids, HandleExit(pid)
  PROVE  SingleCopy'
<1>1. PICK message \in pending :
        /\ message \in {Exit(pid, "normal"), Exit(pid, "shutdown"),
                        Exit(pid, "error"), Retry(pid)}
        /\ \/ /\ message \in {Exit(pid, "normal"), Exit(pid, "shutdown")}
              /\ pending' = pending \ {message}
              /\ UNCHANGED <<at, supervisor, restarts, proc, collapsed>>
           \/ /\ message \in {Exit(pid, "error"), Retry(pid)}
              /\ restarts >= MaxRestarts
              /\ Collapse
           \/ /\ message \in {Exit(pid, "error"), Retry(pid)}
              /\ restarts < MaxRestarts
              /\ restarts' = restarts + 1
              /\ Spawn(message, {Retry(pid)})
              /\ UNCHANGED <<at, supervisor, collapsed>>
  BY HandleExitCases
<1>2. UNCHANGED <<copies, crashes>> /\ copies <= 1
  BY HandleExitCases
<1>3. restarts \in Nat /\ crashes \in Nat /\ MaxRestarts \in Nat
  BY SupervisionAssumption DEF Inv, TypeInv
<1>4. CASE message \in {Exit(pid, "normal"), Exit(pid, "shutdown")}
  <2>1. /\ pending' = pending \ {message}
        /\ UNCHANGED <<at, restarts, proc, collapsed>>
    BY <1>1, <1>4, MessageKinds
  <2>2. Asking' = Asking /\ Alive' = Alive
    BY <2>1 DEF Asking, Alive
  <2>3. Failed' = Failed
    BY <1>4, <2>1, MessageKinds DEF Failed
  <2> QED
    BY <1>2, <2>1, <2>2, <2>3 DEF SingleCopy
<1>5. CASE message = Exit(pid, "error")
  <2>1. pid \in Failed
    BY <1>1, <1>5 DEF Failed
  <2>2. /\ Alive = {} /\ Asking = {} /\ Failed = {pid} /\ copies # 0
        /\ restarts < crashes
    BY <1>2, <2>1 DEF SingleCopy
  <2>3. CASE Collapse /\ restarts >= MaxRestarts
    <3>1. /\ Alive' = {} /\ pending' = {} /\ restarts' = 0
          /\ \A r \in Receivers : at'[r] \in {at[r], "idle"}
      BY <2>3, CollapseEffect DEF Inv
    <3>2. Asking' = {} /\ Failed' = {}
      BY <2>2, <3>1 DEF Asking, Failed
    <3>3. crashes' > MaxRestarts
      BY <1>2, <1>3, <2>2, <2>3
    <3> QED
      BY <1>2, <1>3, <3>1, <3>2, <3>3 DEF SingleCopy
  <2>4. CASE /\ restarts' = restarts + 1
             /\ Spawn(message, {Retry(pid)})
             /\ UNCHANGED <<at, supervisor, collapsed>>
    <3>1. pending' = pending \ {message}
      BY <2>2, <2>4, SpawnEffect DEF Inv
    <3>2. Asking' = {}
      BY <2>2, <2>4 DEF Asking
    <3>3. Failed' = {}
      BY <1>5, <2>2, <3>1 DEF Failed
    <3> QED
      BY <1>2, <1>3, <2>2, <2>4, <3>1, <3>2, <3>3 DEF SingleCopy
  <2> QED
    BY <1>1, <1>5, <2>3, <2>4, MessageKinds
<1>6. CASE message = Retry(pid)
  BY <1>1, <1>2, <1>6 DEF SingleCopy
<1> QED
  BY <1>1, <1>4, <1>5, <1>6

\* The transaction process: its crash is the only one to be handled.
LEMMA ProcessKeepsSingleCopy ==
  ASSUME Inv, SingleCopy, copies' <= 1, NEW pid \in Pids,
         Enter(pid) \/ Crash(pid) \/ End(pid)
  PROVE  SingleCopy'
<1>1. pid \in Alive /\ UNCHANGED <<at, restarts, copies, collapsed>>
  BY DEF Enter, Crash, End, Alive
<1>2. Asking' = Asking
  BY <1>1 DEF Asking
<1>3. Asking = {} /\ Failed = {} /\ copies # 0 /\ copies <= 1
  BY <1>1 DEF SingleCopy
<1>4. restarts \in Nat /\ crashes \in Nat /\ MaxRestarts \in Nat
  BY SupervisionAssumption DEF Inv, TypeInv
<1>5. CASE /\ proc[pid] = "new" /\ proc' = [proc EXCEPT ![pid] = "running"]
           /\ UNCHANGED <<pending, crashes>>
  <2>1. Alive' = Alive /\ Failed' = Failed
    BY <1>5 DEF Alive, Failed, Inv, TypeInv
  <2> QED
    BY <1>1, <1>2, <1>5, <2>1 DEF SingleCopy
<1>6. ASSUME NEW reason \in {"normal", "shutdown", "error"}, Dies(pid, reason),
             crashes' = IF reason = "error" THEN crashes + 1 ELSE crashes
      PROVE  SingleCopy'
  <2>1. Alive' = {} /\ pending' = pending \cup {Exit(pid, reason)}
    BY <1>1, <1>6, DiesEffect DEF Inv
  <2>2. \A other \in Pids : Retry(other) \in pending' => Retry(other) \in pending
    BY <2>1, MessageKinds
  <2>3. CASE reason = "error"
    <3>1. \A other : other \in Failed' <=> other = pid
      BY <1>3, <2>1, <2>3, MessageKinds DEF Failed
    <3>2. crashes' = crashes + 1
      BY <1>6, <2>3
    <3> QED
      BY <1>1, <1>2, <1>3, <1>4, <2>1, <2>2, <3>1, <3>2 DEF SingleCopy
  <2>4. CASE reason # "error"
    <3>1. Failed' = {}
      BY <1>3, <2>1, <2>4, MessageKinds DEF Failed
    <3> QED
      BY <1>1, <1>2, <1>3, <1>6, <2>1, <2>2, <2>4, <3>1 DEF SingleCopy
  <2> QED
    BY <2>3, <2>4
<1> QED
  BY <1>5, <1>6 DEF Enter, Crash, End

LEMMA SingleCopyStep == Inv /\ SingleCopy /\ [Next]_vars => SingleCopy'
<1> SUFFICES ASSUME Inv, SingleCopy, [Next]_vars, copies' <= 1
             PROVE  SingleCopy'
  BY DEF SingleCopy
<1>1. CASE RestartsForgotten
  <2>1. /\ UNCHANGED <<at, pending, proc, copies, crashes, collapsed>>
        /\ restarts' \in Nat /\ restarts' <= restarts
    BY <1>1 DEF RestartsForgotten, Inv, TypeInv
  <2>2. Asking' = Asking /\ Alive' = Alive /\ Failed' = Failed
    BY <2>1 DEF Asking, Alive, Failed
  <2> QED
    BY <2>1, <2>2 DEF SingleCopy, Inv, TypeInv
<1>2. CASE SupervisorRestarts \/ UNCHANGED vars
  <2>1. UNCHANGED <<at, pending, proc, restarts, copies, crashes, collapsed>>
    BY <1>2 DEF SupervisorRestarts, vars
  <2>2. Asking' = Asking /\ Alive' = Alive /\ Failed' = Failed
    BY <2>1 DEF Asking, Alive, Failed
  <2> QED
    BY <2>1, <2>2 DEF SingleCopy
<1> QED
  BY <1>1, <1>2, ReceiverKeepsSingleCopy, HandleExitKeepsSingleCopy,
     ProcessKeepsSingleCopy
     DEF Next

\* Without a second copy of the request it takes more than max_restarts crashes
\* to bring the supervisor down.
THEOREM CollapseNeedsCrashes == Spec => []CollapseExplained
<1>1. SingleCopy => CollapseExplained
  BY DEF SingleCopy, CollapseExplained
<1> QED
  BY InvariantHolds, InitSingleCopy, SingleCopyStep, <1>1, PTL DEF Spec
============================================================================
