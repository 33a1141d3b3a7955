------------------------------ MODULE TcpProofs ------------------------------
(***************************************************************************)
(* Proofs about the TCP transport's pool and about one of its connections, *)
(* for any peers, limits, timeouts, units and segments.                    *)
(*                                                                         *)
(* The pool holds every connection that stays up, once and for its own     *)
(* peer, monitors those that run, and keeps to max_connections.            *)
(*                                                                         *)
(* A connection is woken when it is due and by nothing that it has given   *)
(* up, it does not wait for a header longer than message_timeout, and it   *)
(* frames the stream into the messages that the peer wrote.                *)
(***************************************************************************)
EXTENDS TcpTransport, TcpConnection, TLAPS, FiniteSetTheorems, WellFoundedInduction

-----------------------------------------------------------------------------
(* The pool. *)

Members(pids) == {pids[i] : i \in DOMAIN pids}

NoDuplicates(pids) == \A i, j \in DOMAIN pids : pids[i] = pids[j] => i = j

PidsOf(pool) == {pid \in Pids : \E peer \in Peers : pid \in Members(pool[peer])}

\* The connections that are up, and a table of connection processes.
Up(processes) == {pid \in Pids : processes[pid].status \in {"open", "blocked"}}

ProcessesOK(processes) ==
    /\ processes \in [Pids -> [status : Statuses, peer : Peers \cup {None}]]
    /\ \A pid \in Pids :
         processes[pid].status # "none" => processes[pid].peer \in Peers

\* A pool that the transport may hold or fall back to, with its monitors.  A
\* connection that has died may stand in it without one.
PoolOK(pool, refs, processes) ==
    /\ pool \in [Peers -> Seq(Pids)]
    /\ \A peer \in Peers : NoDuplicates(pool[peer])
    /\ \A peer \in Peers : \A pid \in Members(pool[peer]) :
         processes[pid].peer = peer /\ processes[pid].status # "none"
    /\ PidsOf(pool) \cap Up(processes) \subseteq refs
    /\ refs \subseteq Pids
    /\ MaxConnections # 0 => Cardinality(PidsOf(pool)) <= MaxConnections

\* The connections that are up are in the pool, but for those in `gone`.
Covers(pool, processes, gone) ==
    \A pid \in Up(processes) \ gone : pid \in Members(pool[processes[pid].peer])

\* A connection that waits for the transport has one call, which is in the
\* queue (`jobs`) or being served.
Waits(job, jobs, processes) ==
    job.caller # None =>
      /\ processes[job.caller].status = "blocked"
      /\ \A i \in DOMAIN jobs : jobs[i].caller # job.caller

CallersBlocked(jobs, processes) ==
    /\ jobs \in Seq(Sends)
    /\ \A i \in DOMAIN jobs :
         jobs[i].caller # None => processes[jobs[i].caller].status = "blocked"
    /\ \A i, j \in DOMAIN jobs :
         jobs[i].caller # None /\ jobs[i].caller = jobs[j].caller => i = j

\* What the transport remembers while it is blocked in a call.  The state that
\* it falls back to misses no connection but the one it is calling.
CallOK ==
    /\ call.pid \in Pids /\ call.job \in Sends /\ call.reuse \in BOOLEAN
    /\ PoolOK(call.old[1], call.old[2], conn)
    /\ ~call.reuse => Covers(call.old[1], conn, doomed \cup {call.pid})
    /\ Waits(call.job, calls, conn)

\* The inductive invariant.
Inv ==
    /\ TypeOK
    /\ ProcessesOK(conn)
    /\ \A pid \in downs : conn[pid].status = "dead"
    /\ PoolOK(connections, monitors, conn)
    /\ Covers(connections, conn, doomed)
    /\ CallersBlocked(calls, conn)
    /\ transport = "calling" => CallOK

-----------------------------------------------------------------------------
(* Sequences without duplicates, and Enum.filter/2. *)

\* Induction, as the least number that is not in a set.
LEMMA Induction ==
    ASSUME NEW T, T \subseteq Nat, 0 \in T, \A n \in Nat : n \in T => n + 1 \in T
    PROVE  T = Nat
<1> SUFFICES ASSUME Nat \ T # {} PROVE FALSE
    OBVIOUS
<1>1. PICK x \in Nat \ T : \A y \in Nat \ T : ~(<<y, x>> \in OpToRel(<, Nat))
    <2>1. Nat \ T \subseteq Nat
        OBVIOUS
    <2> QED
        BY <2>1, WFMin, NatLessThanWellFounded
<1>2. \A y \in Nat \ T : ~(y < x)
    BY <1>1 DEF OpToRel
<1>3. x # 0 /\ x - 1 \in Nat
    OBVIOUS
<1> QED
    BY <1>2, <1>3

\* The recursive function of Enum.filter/2 satisfies its equation.
LEMMA KeptDef ==
    ASSUME NEW Q, NEW pids \in Seq(Q), NEW keep
    PROVE  Kept(pids, keep) =
             [n \in 0..Len(pids) |->
                IF n = 0 THEN <<>>
                ELSE IF pids[n] \in keep
                  THEN Append(Kept(pids, keep)[n - 1], pids[n])
                ELSE Kept(pids, keep)[n - 1]]
<1> DEFINE Step(f, n) == IF n = 0 THEN <<>>
                         ELSE IF pids[n] \in keep THEN Append(f[n - 1], pids[n])
                         ELSE f[n - 1]
           Good(f, m) == f = [n \in 0..m |-> Step(f, n)]
           T == {m \in Nat : \E f : Good(f, m)}
<1>1. 0 \in T
    <2> DEFINE f == [n \in 0..0 |-> <<>>]
    <2>1. Good(f, 0)
        OBVIOUS
    <2> QED
        BY <2>1
<1>2. ASSUME NEW m \in Nat, m \in T
      PROVE  m + 1 \in T
    <2>1. PICK f : Good(f, m)
        BY <1>2
    <2> DEFINE g == [n \in 0..(m + 1) |-> IF n = m + 1 THEN Step(f, n) ELSE f[n]]
    <2>2. ASSUME NEW n \in 0..(m + 1)
          PROVE  g[n] = Step(g, n)
        <3>1. n # 0 => g[n - 1] = f[n - 1]
            OBVIOUS
        <3>2. Step(g, n) = Step(f, n)
            BY <3>1
        <3>3. n \in 0..m => f[n] = Step(f, n)
            BY <2>1
        <3> QED
            BY <3>2, <3>3
    <2>3. Good(g, m + 1)
        BY <2>2
    <2> HIDE DEF g
    <2> QED
        BY <2>3, SMTT(30)
<1>3. Len(pids) \in T
    <2>1. T \subseteq Nat
        OBVIOUS
    <2>2. \A m \in Nat : m \in T => m + 1 \in T
        <3> HIDE DEF T
        <3> QED
            BY <1>2
    <2>3. T = Nat
        <3> HIDE DEF T
        <3> QED
            BY <1>1, <2>1, <2>2, Induction
    <2>4. Len(pids) \in Nat
        OBVIOUS
    <2> HIDE DEF T
    <2> QED
        BY <2>3, <2>4
<1>4. \E f : Good(f, Len(pids))
    BY <1>3
<1>5. Kept(pids, keep) = CHOOSE f : Good(f, Len(pids))
    BY DEF Kept
<1>6. Good(Kept(pids, keep), Len(pids))
    <2> HIDE DEF Good
    <2> QED
        BY <1>4, <1>5
<1> QED
    BY <1>6

\* A list with one pid more.
LEMMA AppendFacts ==
    ASSUME NEW Q, NEW s \in Seq(Q), NEW x \in Q
    PROVE  /\ Append(s, x) \in Seq(Q)
           /\ Members(Append(s, x)) = Members(s) \cup {x}
           /\ NoDuplicates(s) /\ x \notin Members(s) =>
                NoDuplicates(Append(s, x))
<1>1. /\ DOMAIN s = 1..Len(s) /\ Len(s) \in Nat
      /\ Append(s, x) \in Seq(Q)
      /\ DOMAIN Append(s, x) = 1..(Len(s) + 1)
      /\ \A i \in 1..Len(s) : Append(s, x)[i] = s[i]
      /\ Append(s, x)[Len(s) + 1] = x
    OBVIOUS
<1>2. Members(Append(s, x)) = Members(s) \cup {x}
    <2>1. ASSUME NEW y \in Members(Append(s, x))
          PROVE  y \in Members(s) \cup {x}
        BY <1>1, <2>1 DEF Members
    <2>2. ASSUME NEW y \in Members(s)
          PROVE  y \in Members(Append(s, x))
        BY <1>1, <2>2 DEF Members
    <2>3. x \in Members(Append(s, x))
        BY <1>1 DEF Members
    <2> QED
        BY <2>1, <2>2, <2>3
<1>3. ASSUME NoDuplicates(s), x \notin Members(s)
      PROVE  NoDuplicates(Append(s, x))
    <2>1. \A i \in 1..Len(s) : s[i] # x
        BY <1>1, <1>3 DEF Members
    <2> QED
        BY <1>1, <1>3, <2>1 DEF NoDuplicates
<1> QED
    BY <1>1, <1>2, <1>3

\* What Enum.filter/2 returns.
LEMMA FilterFacts ==
    ASSUME NEW Q, NEW pids \in Seq(Q), NEW keep
    PROVE  /\ Filter(pids, keep) \in Seq(Q)
           /\ Members(Filter(pids, keep)) = Members(pids) \cap keep
           /\ NoDuplicates(pids) => NoDuplicates(Filter(pids, keep))
<1> DEFINE kept == Kept(pids, keep)
           Before(n) == {pids[i] : i \in 1..n}
           Good(n) == n <= Len(pids) =>
                        /\ kept[n] \in Seq(Q)
                        /\ Members(kept[n]) = Before(n) \cap keep
                        /\ NoDuplicates(pids) => NoDuplicates(kept[n])
           T == {n \in Nat : Good(n)}
<1>0. /\ Len(pids) \in Nat /\ DOMAIN pids = 1..Len(pids)
      /\ \A i \in 1..Len(pids) : pids[i] \in Q
    OBVIOUS
<1>1. kept[0] = <<>> /\ \A n \in 1..Len(pids) :
          kept[n] = IF pids[n] \in keep THEN Append(kept[n - 1], pids[n])
                                        ELSE kept[n - 1]
    <2> HIDE DEF kept
    <2>1. kept = [n \in 0..Len(pids) |->
                IF n = 0 THEN <<>>
                ELSE IF pids[n] \in keep
                  THEN Append(kept[n - 1], pids[n])
                ELSE kept[n - 1]]
        BY KeptDef DEF kept
    <2> DEFINE Step(n) == IF n = 0 THEN <<>>
                          ELSE IF pids[n] \in keep
                            THEN Append(kept[n - 1], pids[n])
                          ELSE kept[n - 1]
    <2>2. \A n \in 0..Len(pids) : kept[n] = Step(n)
        <3> HIDE DEF Step
        <3>1. kept = [n \in 0..Len(pids) |-> Step(n)]
            BY <2>1 DEF Step
        <3> QED
            BY <3>1
    <2>3. 0 \in 0..Len(pids) /\ \A n \in 1..Len(pids) : n \in 0..Len(pids) /\ n # 0
        BY <1>0
    <2> QED
        BY <2>2, <2>3
<1> HIDE DEF kept
<1>2. 0 \in T
    <2>1. Before(0) = {}
        OBVIOUS
    <2>2. kept[0] \in Seq(Q) /\ Members(kept[0]) = {} /\ NoDuplicates(kept[0])
        BY <1>1 DEF Members, NoDuplicates
    <2> QED
        BY <2>1, <2>2
<1>3. ASSUME NEW n \in Nat, Good(n)
      PROVE  Good(n + 1)
    <2> SUFFICES ASSUME n + 1 <= Len(pids)
                 PROVE  /\ kept[n + 1] \in Seq(Q)
                        /\ Members(kept[n + 1]) = Before(n + 1) \cap keep
                        /\ NoDuplicates(pids) => NoDuplicates(kept[n + 1])
        OBVIOUS
    <2>1. /\ kept[n] \in Seq(Q)
          /\ Members(kept[n]) = Before(n) \cap keep
          /\ NoDuplicates(pids) => NoDuplicates(kept[n])
        BY <1>0, <1>3
    <2>2. Before(n + 1) = Before(n) \cup {pids[n + 1]}
        OBVIOUS
    <2>3. n + 1 \in 1..Len(pids) /\ (n + 1) - 1 = n
        BY <1>0
    <2>4. pids[n + 1] \in Q
        BY <1>0, <2>3
    <2>5. kept[n + 1] = IF pids[n + 1] \in keep
                          THEN Append(kept[n], pids[n + 1]) ELSE kept[n]
        BY <1>1, <2>3
    <2>6. NoDuplicates(pids) => pids[n + 1] \notin Before(n)
        BY <1>0, <2>3 DEF NoDuplicates
    <2> HIDE DEF Before
    <2>7. CASE pids[n + 1] \in keep
        <3>1. kept[n + 1] = Append(kept[n], pids[n + 1])
            BY <2>5, <2>7
        <3>2. /\ Append(kept[n], pids[n + 1]) \in Seq(Q)
              /\ Members(Append(kept[n], pids[n + 1]))
                   = Members(kept[n]) \cup {pids[n + 1]}
              /\ NoDuplicates(kept[n]) /\ pids[n + 1] \notin Members(kept[n]) =>
                   NoDuplicates(Append(kept[n], pids[n + 1]))
            BY <2>1, <2>4, AppendFacts
        <3> QED
            BY <2>1, <2>2, <2>6, <2>7, <3>1, <3>2
    <2>8. CASE pids[n + 1] \notin keep
        <3>1. kept[n + 1] = kept[n]
            BY <2>5, <2>8
        <3> QED
            BY <2>1, <2>2, <2>8, <3>1
    <2> QED
        BY <2>7, <2>8
<1>4. Len(pids) \in T
    <2>1. T \subseteq Nat
        OBVIOUS
    <2>2. \A n \in Nat : n \in T => n + 1 \in T
        <3> HIDE DEF Good
        <3> QED
            BY <1>3
    <2> HIDE DEF T
    <2>3. T = Nat
        BY <1>2, <2>1, <2>2, Induction
    <2> QED
        BY <1>0, <2>3
<1>5. Good(Len(pids))
    <2> HIDE DEF Good
    <2> QED
        BY <1>4
<1>6. Before(Len(pids)) = Members(pids)
    BY <1>0 DEF Members
<1>7. Filter(pids, keep) = kept[Len(pids)]
    BY DEF Filter, kept
<1> HIDE DEF Before
<1> QED
    BY <1>0, <1>5, <1>6, <1>7

\* The round robin keeps the pids it had.
LEMMA RotateFacts ==
    ASSUME NEW Q, NEW s \in Seq(Q), s # <<>>
    PROVE  /\ Rotate(s) \in Seq(Q)
           /\ Members(Rotate(s)) = Members(s)
           /\ NoDuplicates(s) => NoDuplicates(Rotate(s))
<1>1. /\ Len(s) \in Nat \ {0} /\ DOMAIN s = 1..Len(s)
      /\ Head(s) = s[1] /\ Head(s) \in Q
      /\ Tail(s) \in Seq(Q) /\ DOMAIN Tail(s) = 1..(Len(s) - 1)
      /\ \A i \in 1..(Len(s) - 1) : Tail(s)[i] = s[i + 1]
    OBVIOUS
<1>2. /\ Rotate(s) \in Seq(Q)
      /\ Members(Rotate(s)) = Members(Tail(s)) \cup {Head(s)}
      /\ NoDuplicates(Tail(s)) /\ Head(s) \notin Members(Tail(s)) =>
           NoDuplicates(Rotate(s))
    BY <1>1, AppendFacts DEF Rotate
<1>3. Members(s) = Members(Tail(s)) \cup {Head(s)}
    <2>1. ASSUME NEW i \in 1..Len(s)
          PROVE  s[i] \in Members(Tail(s)) \cup {Head(s)}
        <3>1. CASE i = 1
            BY <1>1, <3>1
        <3>2. CASE i # 1
            <4>1. i - 1 \in 1..(Len(s) - 1) /\ (i - 1) + 1 = i
                BY <1>1, <3>2
            <4> QED
                BY <1>1, <4>1, ZenonT(30) DEF Members
        <3> QED
            BY <3>1, <3>2
    <2>2. ASSUME NEW i \in 1..(Len(s) - 1)
          PROVE  Tail(s)[i] \in Members(s)
        <3>1. i + 1 \in 1..Len(s)
            BY <1>1
        <3> QED
            BY <1>1, <3>1 DEF Members
    <2>3. Head(s) \in Members(s)
        BY <1>1 DEF Members
    <2> QED
        BY <1>1, <2>1, <2>2, <2>3 DEF Members
<1>4. ASSUME NoDuplicates(s)
      PROVE  NoDuplicates(Tail(s)) /\ Head(s) \notin Members(Tail(s))
    <2>1. \A i \in 1..(Len(s) - 1) : i + 1 \in 1..Len(s) /\ i + 1 # 1
        BY <1>1
    <2>2. 1 \in 1..Len(s)
        BY <1>1
    <2> QED
        BY <1>1, <1>4, <2>1, <2>2 DEF NoDuplicates, Members
<1> QED
    BY <1>2, <1>3, <1>4

-----------------------------------------------------------------------------
(* Counting the connections of a pool. *)

\* The pids of a pool are finitely many.
LEMMA PidsFinite ==
    ASSUME NEW pool
    PROVE  IsFiniteSet(PidsOf(pool)) /\ Cardinality(PidsOf(pool)) \in Nat
<1>1. IsFiniteSet(Pids)
    BY PoolAssumption, FS_Interval DEF Pids
<1>2. PidsOf(pool) \in SUBSET Pids
    BY DEF PidsOf
<1>3. IsFiniteSet(PidsOf(pool))
    BY <1>1, <1>2, FS_Subset
<1> QED
    BY <1>3, FS_CardinalityType

\* total_connections/1 counts every connection once: the sum of the lengths of
\* the lists is the number of connections.
LEMMA TotalIsPids ==
    ASSUME NEW pool, NEW refs, NEW processes, PoolOK(pool, refs, processes)
    PROVE  TotalConnections(pool) = Cardinality(PidsOf(pool))
<1> DEFINE P == Places(pool)
           S == PidsOf(pool)
           f == [place \in P |-> pool[place[1]][place[2]]]
<1>1. /\ \A peer \in Peers : pool[peer] \in Seq(Pids) /\ NoDuplicates(pool[peer])
      /\ \A peer \in Peers : \A pid \in Members(pool[peer]) :
           processes[pid].peer = peer
    BY DEF PoolOK
<1>2. ASSUME NEW place \in P
      PROVE  \E peer \in Peers : \E i \in DOMAIN pool[peer] :
               /\ place = <<peer, i>> /\ place[1] = peer /\ place[2] = i
               /\ f[place] = pool[peer][i]
               /\ f[place] \in Members(pool[peer]) /\ f[place] \in Pids
    <2>1. PICK peer \in Peers : place \in {peer} \X DOMAIN pool[peer]
        BY <1>2 DEF Places
    <2>2. PICK i \in DOMAIN pool[peer] : place = <<peer, i>>
        BY <2>1
    <2>3. f[place] = pool[peer][i]
        BY <2>2
    <2>4. pool[peer][i] \in Members(pool[peer]) /\ pool[peer][i] \in Pids
        BY <1>1 DEF Members
    <2> QED
        BY <2>2, <2>3, <2>4
<1>3. \A place \in P : f[place] \in S
    BY <1>2 DEF PidsOf
<1>4. ASSUME NEW p1 \in P, NEW p2 \in P, f[p1] = f[p2]
      PROVE  p1 = p2
    <2> HIDE DEF P, f
    <2>1. PICK peer \in Peers : \E i \in DOMAIN pool[peer] :
               /\ p1 = <<peer, i>> /\ f[p1] = pool[peer][i]
               /\ f[p1] \in Members(pool[peer]) /\ f[p1] \in Pids
        BY <1>2
    <2>2. PICK peer2 \in Peers : \E i \in DOMAIN pool[peer2] :
               /\ p2 = <<peer2, i>> /\ f[p2] = pool[peer2][i]
               /\ f[p2] \in Members(pool[peer2]) /\ f[p2] \in Pids
        BY <1>2
    <2>3. peer = peer2
        BY <1>1, <1>4, <2>1, <2>2, ZenonT(30)
    <2> QED
        BY <1>1, <1>4, <2>1, <2>2, <2>3 DEF NoDuplicates
<1>5. ASSUME NEW pid \in S
      PROVE  \E place \in P : f[place] = pid
    <2>1. PICK peer \in Peers : pid \in Members(pool[peer])
        BY <1>5 DEF PidsOf
    <2>2. PICK i \in DOMAIN pool[peer] : pool[peer][i] = pid
        BY <2>1 DEF Members
    <2>3. <<peer, i>> \in P
        BY <2>1, <2>2 DEF Places
    <2>4. f[<<peer, i>>] = pid
        BY <2>2, <2>3
    <2> QED
        BY <2>3, <2>4
<1>6. f \in [P -> S]
    BY <1>3
<1>7. f \in Injection(P, S) /\ f \in Surjection(P, S)
    <2> HIDE DEF f, P, S
    <2> QED
        BY <1>4, <1>5, <1>6 DEF Injection, Surjection, IsInjective
<1>8. IsFiniteSet(S)
    BY PidsFinite
<1>9. Cardinality(P) = Cardinality(S)
    <2> HIDE DEF f, P, S
    <2> QED
        BY <1>7, <1>8, FS_Injection
<1> QED
    BY <1>9 DEF TotalConnections

\* How often a pid stands in a list without duplicates.
LEMMA CountOnce ==
    ASSUME NEW s, NoDuplicates(s), NEW x
    PROVE  Cardinality({i \in DOMAIN s : s[i] = x}) = IF x \in Members(s) THEN 1 ELSE 0
<1> DEFINE At == {i \in DOMAIN s : s[i] = x}
<1>1. CASE x \in Members(s)
    <2>1. PICK i \in DOMAIN s : s[i] = x
        BY <1>1 DEF Members
    <2>2. At = {i}
        BY <2>1 DEF NoDuplicates
    <2> HIDE DEF At
    <2>3. Cardinality(At) = 1
        BY <2>2, FS_Singleton
    <2> QED
        BY <1>1, <2>3 DEF At
<1>2. CASE x \notin Members(s)
    <2>1. At = {}
        BY <1>2 DEF Members
    <2> HIDE DEF At
    <2>2. Cardinality(At) = 0
        BY <2>1, FS_EmptySet
    <2> QED
        BY <1>2, <2>2 DEF At
<1> QED
    BY <1>1, <1>2

-----------------------------------------------------------------------------
(* Changes of a pool. *)

\* Connections keep their peer, none goes back to not being started, and none
\* comes to life again.
LEMMA PoolStays ==
    ASSUME NEW pool, NEW refs, NEW before, NEW after, PoolOK(pool, refs, before),
           \A pid \in Pids : before[pid].status # "none" =>
             /\ after[pid].status # "none" /\ after[pid].peer = before[pid].peer
             /\ pid \in Up(after) => pid \in Up(before)
    PROVE  PoolOK(pool, refs, after)
<1>1. \A peer \in Peers : \A pid \in Members(pool[peer]) : pid \in Pids
    BY DEF PoolOK, Members
<1>2. PidsOf(pool) \cap Up(after) \subseteq PidsOf(pool) \cap Up(before)
    BY DEF PoolOK, PidsOf
<1> QED
    BY <1>1, <1>2 DEF PoolOK

\* A pool that only loses connections.
LEMMA PoolShrinks ==
    ASSUME NEW pool, NEW refs, NEW processes, PoolOK(pool, refs, processes),
           NEW smaller \in [Peers -> Seq(Pids)],
           \A peer \in Peers : /\ NoDuplicates(smaller[peer])
                               /\ Members(smaller[peer]) \subseteq Members(pool[peer]),
           NEW others \in SUBSET Pids, PidsOf(smaller) \cap Up(processes) \subseteq others
    PROVE  PoolOK(smaller, others, processes)
<1>1. PidsOf(smaller) \in SUBSET PidsOf(pool)
    BY DEF PidsOf
<1>2. /\ IsFiniteSet(PidsOf(pool)) /\ Cardinality(PidsOf(pool)) \in Nat
      /\ Cardinality(PidsOf(smaller)) \in Nat
    BY PidsFinite
<1>3. Cardinality(PidsOf(smaller)) <= Cardinality(PidsOf(pool))
    BY <1>1, <1>2, FS_Subset
<1>4. MaxConnections # 0 => Cardinality(PidsOf(smaller)) <= MaxConnections
    BY <1>2, <1>3, PoolAssumption DEF PoolOK
<1> QED
    BY <1>4 DEF PoolOK

\* A new connection below the limit.
LEMMA PoolGrows ==
    ASSUME NEW pool, NEW refs, NEW processes, PoolOK(pool, refs, processes),
           NEW pid \in Pids, NEW peer \in Peers, ProcessesOK(processes),
           processes[pid].status = "none", ~PoolFull(pool)
    PROVE  PoolOK(Added(pool, pid, peer), refs \cup {pid},
                  [processes EXCEPT ![pid] = [status |-> "open", peer |-> peer]])
<1> DEFINE bigger == Added(pool, pid, peer)
           after == [processes EXCEPT ![pid] = [status |-> "open", peer |-> peer]]
<1>1. /\ pool \in [Peers -> Seq(Pids)]
      /\ \A p \in Peers : NoDuplicates(pool[p])
      /\ \A p \in Peers : \A q \in Members(pool[p]) :
           processes[q].peer = p /\ processes[q].status # "none"
      /\ PidsOf(pool) \cap Up(processes) \subseteq refs
      /\ refs \subseteq Pids
      /\ MaxConnections # 0 => Cardinality(PidsOf(pool)) <= MaxConnections
    BY DEF PoolOK
<1>2. \A p \in Peers : pid \notin Members(pool[p])
    BY <1>1
<1>3. /\ Append(pool[peer], pid) \in Seq(Pids)
      /\ Members(Append(pool[peer], pid)) = Members(pool[peer]) \cup {pid}
      /\ NoDuplicates(Append(pool[peer], pid))
    BY <1>1, <1>2, AppendFacts
<1>4. /\ bigger \in [Peers -> Seq(Pids)]
      /\ bigger[peer] = Append(pool[peer], pid)
      /\ \A p \in Peers : p # peer => bigger[p] = pool[p]
    BY <1>1, <1>3 DEF Added
<1>5. /\ after[pid] = [status |-> "open", peer |-> peer]
      /\ \A q \in Pids : q # pid => after[q] = processes[q]
    BY DEF ProcessesOK
<1> HIDE DEF bigger, after
<1>6. \A p \in Peers : NoDuplicates(bigger[p])
    BY <1>1, <1>3, <1>4
<1>7. \A p \in Peers : Members(bigger[p]) = IF p = peer THEN Members(pool[p]) \cup {pid}
                                            ELSE Members(pool[p])
    BY <1>3, <1>4
<1>8. \A p \in Peers : \A q \in Members(pool[p]) : q \in Pids /\ q # pid
    BY <1>1, <1>2 DEF Members
<1>9. ASSUME NEW p \in Peers, NEW q \in Members(bigger[p])
      PROVE  after[q].peer = p /\ after[q].status # "none"
    <2>1. CASE q = pid
        <3>1. p = peer
            BY <1>2, <1>7, <1>9, <2>1
        <3> QED
            BY <1>5, <2>1, <3>1
    <2>2. CASE q # pid
        <3>1. q \in Members(pool[p])
            BY <1>7, <1>9, <2>2
        <3> QED
            BY <1>1, <1>5, <1>8, <3>1
    <2> QED
        BY <2>1, <2>2
<1>10. PidsOf(bigger) = PidsOf(pool) \cup {pid}
    BY <1>7 DEF PidsOf
<1>11. MaxConnections # 0 => Cardinality(PidsOf(bigger)) <= MaxConnections
    <2> SUFFICES ASSUME MaxConnections # 0
                 PROVE  Cardinality(PidsOf(bigger)) <= MaxConnections
        OBVIOUS
    <2>1. ~(Cardinality(PidsOf(pool)) >= MaxConnections)
        BY TotalIsPids DEF PoolFull
    <2>2. IsFiniteSet(PidsOf(pool)) /\ Cardinality(PidsOf(pool)) \in Nat
        BY PidsFinite
    <2>3. Cardinality(PidsOf(pool) \cup {pid}) = Cardinality(PidsOf(pool)) + 1
        <3>1. pid \notin PidsOf(pool)
            BY <1>2 DEF PidsOf
        <3>2. Cardinality(PidsOf(pool) \cup {pid}) =
                IF pid \in PidsOf(pool) THEN Cardinality(PidsOf(pool))
                ELSE Cardinality(PidsOf(pool)) + 1
            BY <2>2, FS_AddElement, Zenon
        <3> QED
            BY <3>1, <3>2
    <2>4. Cardinality(PidsOf(pool) \cup {pid}) \in Nat
        BY <1>10, PidsFinite
    <2>5. MaxConnections \in Nat
        BY PoolAssumption
    <2>6. Cardinality(PidsOf(pool) \cup {pid}) <= MaxConnections
        BY <2>1, <2>2, <2>3, <2>4, <2>5
    <2> QED
        BY <1>10, <2>6
<1>12. PidsOf(bigger) \cap Up(after) \subseteq refs \cup {pid}
    BY <1>1, <1>5, <1>10 DEF Up
<1> QED
    BY <1>1, <1>4, <1>6, <1>9, <1>11, <1>12 DEF PoolOK, bigger, after

\* A pool that loses only connections that are down still covers the others.
LEMMA PoolFiltered ==
    ASSUME NEW pool, NEW refs, NEW processes, PoolOK(pool, refs, processes),
           ProcessesOK(processes), NEW gone, Covers(pool, processes, gone),
           NEW smaller \in [Peers -> Seq(Pids)],
           \A peer \in Peers :
             /\ NoDuplicates(smaller[peer])
             /\ Members(smaller[peer]) \subseteq Members(pool[peer])
             /\ Members(pool[peer]) \cap Up(processes) \subseteq Members(smaller[peer])
    PROVE  PoolOK(smaller, refs, processes) /\ Covers(smaller, processes, gone)
<1>1. PidsOf(smaller) \subseteq PidsOf(pool)
    BY DEF PidsOf
<1>2. refs \in SUBSET Pids /\ PidsOf(smaller) \cap Up(processes) \subseteq refs
    BY <1>1 DEF PoolOK
<1>3. PoolOK(smaller, refs, processes)
    BY <1>2, PoolShrinks
<1>4. \A pid \in Up(processes) : processes[pid].peer \in Peers
    BY DEF Up, ProcessesOK
<1>5. Covers(smaller, processes, gone)
    BY <1>4 DEF Covers
<1> QED
    BY <1>3, <1>5

\* What Enum.filter(pids, &Process.alive?/1) leaves.
LEMMA LiveFacts ==
    ASSUME NEW pids \in Seq(Pids)
    PROVE  /\ Live(pids) \in Seq(Pids)
           /\ Members(Live(pids)) = Members(pids) \cap Up(conn)
           /\ NoDuplicates(pids) => NoDuplicates(Live(pids))
<1>1. {pid \in Pids : Alive(pid)} = Up(conn)
    BY DEF Up, Alive
<1>2. Live(pids) = Filter(pids, Up(conn))
    BY <1>1 DEF Live
<1> QED
    BY <1>2, FilterFacts

\* What the transport sends over after get_or_connect/3 found no need to open a
\* connection: the pool with the peer's list filtered, or filtered and rotated.
LEMMA LivePool ==
    ASSUME Inv, NEW peer \in Peers, NEW gone, doomed \subseteq gone,
           NEW list, list \in {Live(connections[peer]),
                               Rotate(Live(connections[peer]))},
           list = Live(connections[peer]) \/ Live(connections[peer]) # <<>>
    PROVE  /\ PoolOK([connections EXCEPT ![peer] = list], monitors, conn)
           /\ Covers([connections EXCEPT ![peer] = list], conn, gone)
<1> DEFINE live == Live(connections[peer])
           pool == [connections EXCEPT ![peer] = list]
<1>1. /\ PoolOK(connections, monitors, conn) /\ ProcessesOK(conn)
      /\ Covers(connections, conn, gone)
      /\ connections \in [Peers -> Seq(Pids)]
      /\ \A p \in Peers : NoDuplicates(connections[p])
    BY DEF Inv, PoolOK, Covers
<1>2. /\ live \in Seq(Pids)
      /\ Members(live) = Members(connections[peer]) \cap Up(conn)
      /\ NoDuplicates(live)
    BY <1>1, LiveFacts
<1> HIDE DEF live
<1>3. list = live \/ (list = Rotate(live) /\ live # <<>>)
    BY DEF live
<1>4. list \in Seq(Pids) /\ Members(list) = Members(live) /\ NoDuplicates(list)
    BY <1>2, <1>3, RotateFacts
<1>5. /\ pool \in [Peers -> Seq(Pids)] /\ pool[peer] = list
      /\ \A p \in Peers : p # peer => pool[p] = connections[p]
    BY <1>1, <1>4
<1> HIDE DEF pool
<1>6. ASSUME NEW p \in Peers
      PROVE  /\ NoDuplicates(pool[p])
             /\ Members(pool[p]) \subseteq Members(connections[p])
             /\ Members(connections[p]) \cap Up(conn) \subseteq Members(pool[p])
    BY <1>1, <1>2, <1>4, <1>5
<1>7. PoolOK(pool, monitors, conn) /\ Covers(pool, conn, gone)
    BY <1>1, <1>5, <1>6, PoolFiltered
<1> QED
    BY <1>7 DEF pool

\* A free pid is not started.
LEMMA FreePidFacts ==
    ASSUME HasFreePid
    PROVE  FreePid \in Pids /\ conn[FreePid].status = "none"
BY DEF HasFreePid, FreePid

\* A connection is started: the pool has it, and nothing that is covered or
\* waiting is disturbed.
LEMMA StartFacts ==
    ASSUME Inv, HasFreePid, NEW peer \in Peers, NEW gone,
           NEW pool, PoolOK(pool, monitors, conn), Covers(pool, conn, gone),
           ~PoolFull(pool)
    PROVE  /\ ProcessesOK(Started(FreePid, peer))
           /\ \A pid \in Pids : conn[pid].status # "none" =>
                Started(FreePid, peer)[pid] = conn[pid]
           /\ PoolOK(Added(pool, FreePid, peer), monitors \cup {FreePid},
                     Started(FreePid, peer))
           /\ Covers(Added(pool, FreePid, peer), Started(FreePid, peer), gone)
<1> DEFINE new == FreePid
           after == Started(FreePid, peer)
           bigger == Added(pool, FreePid, peer)
<1>1. new \in Pids /\ conn[new].status = "none"
    BY FreePidFacts
<1>2. ProcessesOK(conn)
    BY DEF Inv
<1>3. PoolOK(bigger, monitors \cup {new}, after)
    BY <1>1, <1>2, PoolGrows DEF Started
<1>4. /\ after \in [Pids -> [status : Statuses, peer : Peers \cup {None}]]
      /\ after[new] = [status |-> "open", peer |-> peer]
      /\ \A pid \in Pids : pid # new => after[pid] = conn[pid]
    BY <1>1, <1>2 DEF Started, ProcessesOK, Statuses
<1>5. pool \in [Peers -> Seq(Pids)]
    BY DEF PoolOK
<1>6. /\ bigger[peer] = Append(pool[peer], new)
      /\ \A p \in Peers : p # peer => bigger[p] = pool[p]
    BY <1>5 DEF Added
<1>7. Members(Append(pool[peer], new)) = Members(pool[peer]) \cup {new}
    BY <1>1, <1>5, AppendFacts
<1> HIDE DEF new, after, bigger
<1>8. ProcessesOK(after)
    BY <1>2, <1>4 DEF ProcessesOK
<1>9. \A pid \in Pids : conn[pid].status # "none" => after[pid] = conn[pid]
    BY <1>1, <1>4
<1>10. \A p \in Peers : Members(pool[p]) \subseteq Members(bigger[p])
    BY <1>6, <1>7
<1>11. new \in Members(bigger[peer])
    BY <1>6, <1>7
<1>12. ASSUME NEW pid \in Up(after) \ gone
       PROVE  pid \in Members(bigger[after[pid].peer])
    <2>1. CASE pid = new
        BY <1>4, <1>11, <2>1
    <2>2. CASE pid # new
        <3>1. pid \in Up(conn) \ gone /\ after[pid] = conn[pid]
            BY <1>4, <1>12, <2>2 DEF Up
        <3>2. conn[pid].peer \in Peers
            BY <1>2, <3>1 DEF Up, ProcessesOK
        <3>3. pid \in Members(pool[conn[pid].peer])
            BY <3>1 DEF Covers
        <3> QED
            BY <1>10, <3>1, <3>2, <3>3
    <2> QED
        BY <2>1, <2>2
<1>13. Covers(bigger, after, gone)
    BY <1>12 DEF Covers
<1> QED
    BY <1>3, <1>8, <1>9, <1>13 DEF new, after, bigger

-----------------------------------------------------------------------------
(* Replies, calls and crashes keep the invariant. *)

\* The queue of calls when the transport takes one.
LEMMA TakeJob ==
    ASSUME NEW jobs, NEW processes, CallersBlocked(jobs, processes), jobs # <<>>
    PROVE  /\ Head(jobs) \in Sends
           /\ CallersBlocked(Tail(jobs), processes)
           /\ Waits(Head(jobs), Tail(jobs), processes)
<1>1. jobs \in Seq(Sends)
    BY DEF CallersBlocked
<1>2. /\ Len(jobs) \in Nat \ {0} /\ DOMAIN jobs = 1..Len(jobs)
      /\ Head(jobs) = jobs[1] /\ Head(jobs) \in Sends
      /\ Tail(jobs) \in Seq(Sends) /\ DOMAIN Tail(jobs) = 1..(Len(jobs) - 1)
      /\ \A i \in 1..(Len(jobs) - 1) : Tail(jobs)[i] = jobs[i + 1]
    BY <1>1
<1>3. /\ \A i \in 1..(Len(jobs) - 1) : i + 1 \in 1..Len(jobs) /\ i + 1 # 1
      /\ 1 \in 1..Len(jobs)
      /\ \A i, j \in 1..(Len(jobs) - 1) : i + 1 = j + 1 => i = j
    BY <1>2
<1>4. CallersBlocked(Tail(jobs), processes)
    BY <1>2, <1>3, SMTT(30) DEF CallersBlocked
<1>5. Waits(Head(jobs), Tail(jobs), processes)
    BY <1>2, <1>3 DEF CallersBlocked, Waits
<1> QED
    BY <1>2, <1>4, <1>5

\* Who makes the calls in the queue.
LEMMA CallerType ==
    ASSUME NEW jobs, NEW processes, CallersBlocked(jobs, processes)
    PROVE  \A i \in DOMAIN jobs : jobs[i].caller \in Pids \cup {None}
<1>1. \A i \in DOMAIN jobs : jobs[i] \in Sends
    BY DEF CallersBlocked
<1> QED
    BY <1>1 DEF Sends

\* The handler ends with a reply, with a pool that is as good as the one it had.
LEMMA ReplyKeeps ==
    ASSUME Inv, NEW job \in Sends, NEW pool, NEW refs,
           PoolOK(pool, refs, conn), Covers(pool, conn, doomed'),
           doomed' \subseteq Pids, downs' = downs,
           CallersBlocked(calls', conn), Waits(job, calls', conn),
           Reply(job, pool, refs, conn)
    PROVE  Inv'
<1>1. /\ transport' = "idle" /\ call' = NoCall /\ connections' = pool
      /\ monitors' = refs /\ conn' = Unblock(conn, job)
      /\ crash' = crash
    BY DEF Reply
<1>2. ProcessesOK(conn)
    BY DEF Inv
<1>3. job.caller \in Pids \cup {None} /\ None \notin Pids
    BY PoolAssumption DEF Sends, Pids
<1>4. /\ conn' \in [Pids -> [status : Statuses, peer : Peers \cup {None}]]
      /\ \A pid \in Pids : conn'[pid].peer = conn[pid].peer
      /\ \A pid \in Pids : pid # job.caller => conn'[pid] = conn[pid]
      /\ job.caller # None => conn'[job.caller].status = "open"
    BY <1>1, <1>2, <1>3 DEF Unblock, ProcessesOK, Statuses
<1>5. job.caller # None => conn[job.caller].status = "blocked"
    BY DEF Waits
<1>6. \A pid \in Pids : conn[pid].status # "none" <=> conn'[pid].status # "none"
    BY <1>3, <1>4, <1>5
<1>7. ProcessesOK(conn')
    BY <1>2, <1>4, <1>6 DEF ProcessesOK
<1>8. Up(conn') = Up(conn)
    BY <1>3, <1>4, <1>5 DEF Up
<1>9. PoolOK(connections', monitors', conn')
    BY <1>1, <1>4, <1>6, <1>8, PoolStays
<1>10. Covers(connections', conn', doomed')
    BY <1>1, <1>4, <1>8 DEF Covers, Up
<1>11. CallersBlocked(calls', conn')
    <2>1. \A i \in DOMAIN calls' : calls'[i].caller \in Pids \cup {None}
        BY CallerType
    <2>2. ASSUME NEW i \in DOMAIN calls', calls'[i].caller # None
          PROVE  conn'[calls'[i].caller].status = "blocked"
        <3>1. conn[calls'[i].caller].status = "blocked"
            BY <2>2 DEF CallersBlocked
        <3>2. job.caller # None => calls'[i].caller # job.caller
            BY DEF Waits
        <3> QED
            BY <1>4, <2>1, <2>2, <3>1, <3>2
    <2> QED
        BY <2>2 DEF CallersBlocked
<1>12. \A pid \in downs' : conn'[pid].status = "dead"
    <2>1. \A pid \in downs : pid \in Pids /\ conn[pid].status = "dead"
        BY DEF Inv, TypeOK
    <2> QED
        BY <1>3, <1>4, <1>5, <2>1
<1>13. TypeOK'
    <2>1. connections' \in [Peers -> Seq(Pids)] /\ monitors' \subseteq Pids
        BY <1>9 DEF PoolOK
    <2>2. calls' \in Seq(Sends)
        BY DEF CallersBlocked
    <2> QED
        BY <1>1, <1>4, <2>1, <2>2 DEF Inv, TypeOK
<1> QED
    BY <1>1, <1>7, <1>9, <1>10, <1>11, <1>12, <1>13 DEF Inv

\* The transport blocks on a connection, with the state it may fall back to.
LEMMA CallKeeps ==
    ASSUME Inv, NEW pid \in Pids, NEW job \in Sends, NEW reuse \in BOOLEAN,
           NEW pool, NEW refs, NEW processes, ProcessesOK(processes),
           \A q \in Pids : conn[q].status # "none" => processes[q] = conn[q],
           PoolOK(pool, refs, processes), Covers(pool, processes, doomed'),
           ~reuse => Covers(connections, processes, doomed' \cup {pid}),
           doomed' \subseteq Pids, downs' = downs,
           CallersBlocked(calls', conn), Waits(job, calls', conn),
           Call(pid, job, reuse, pool, refs, processes)
    PROVE  Inv'
<1>1. /\ transport' = "calling" /\ connections' = pool
      /\ monitors' = refs /\ conn' = processes
      /\ crash' = crash
      /\ call' = [pid |-> pid, job |-> job, reuse |-> reuse,
                  served |-> pid \notin doomed',
                  old |-> <<connections, monitors>>]
    BY DEF Call
<1>2. /\ call'.pid = pid /\ call'.job = job /\ call'.reuse = reuse
      /\ call'.old[1] = connections /\ call'.old[2] = monitors
    BY <1>1
<1>3. call' # NoCall
    <2>1. pid # None /\ NoCall.pid = None
        BY PoolAssumption DEF Pids, NoCall
    <2> QED
        BY <1>2, <2>1
<1>4. PoolOK(connections, monitors, processes)
    <2>1. PoolOK(connections, monitors, conn)
        BY DEF Inv
    <2>2. \A q \in Pids : conn[q].status # "none" =>
            (q \in Up(processes) => q \in Up(conn))
        BY DEF Up
    <2> QED
        BY <2>1, <2>2, PoolStays
<1>5. \A q \in Pids : conn[q].status = "blocked" => processes[q] = conn[q]
    OBVIOUS
<1>6. Waits(job, calls', processes)
    BY <1>5 DEF Waits, Sends
<1>7. CallersBlocked(calls', processes)
    <2>1. \A i \in DOMAIN calls' : calls'[i].caller \in Pids \cup {None}
        BY CallerType
    <2> QED
        BY <1>5, <2>1 DEF CallersBlocked
<1>8. \A q \in downs' : conn'[q].status = "dead"
    <2>1. \A q \in downs : q \in Pids /\ conn[q].status = "dead"
        BY DEF Inv, TypeOK
    <2> QED
        BY <1>1, <2>1
<1>9. TypeOK'
    <2>1. connections' \in [Peers -> Seq(Pids)] /\ monitors' \subseteq Pids
        BY <1>1 DEF PoolOK
    <2>2. calls' \in Seq(Sends)
        BY DEF CallersBlocked
    <2>3. conn' \in [Pids -> [status : Statuses, peer : Peers \cup {None}]]
        BY <1>1 DEF ProcessesOK
    <2> QED
        BY <1>1, <1>3, <2>1, <2>2, <2>3 DEF Inv, TypeOK
<1>10. CallOK'
    BY <1>1, <1>2, <1>4, <1>6 DEF CallOK
<1> QED
    BY <1>1, <1>7, <1>8, <1>9, <1>10 DEF Inv

\* The transport exits and takes every connection with it.
LEMMA CrashKeeps ==
    ASSUME Inv, NEW reason \in {"call_exit", "timeout", "link"}, Crash(reason)
    PROVE  Inv'
<1>1. /\ transport' = "crashed" /\ crash' = reason /\ call' = NoCall
      /\ connections' = [peer \in Peers |-> <<>>]
      /\ monitors' = {} /\ downs' = {} /\ doomed' = {} /\ calls' = <<>>
    BY DEF Crash
<1>2. ProcessesOK(conn)
    BY DEF Inv
<1>3. conn' = [pid \in Pids |->
                IF Alive(pid) THEN [conn[pid] EXCEPT !.status = "dead"]
                ELSE conn[pid]]
    BY DEF Crash
<1>4. ASSUME NEW pid \in Pids
      PROVE  /\ conn'[pid] \in [status : Statuses, peer : Peers \cup {None}]
             /\ conn'[pid].peer = conn[pid].peer
             /\ conn'[pid].status \notin {"open", "blocked"}
             /\ conn'[pid].status # "none" => conn[pid].status # "none"
    BY <1>2, <1>3 DEF Alive, ProcessesOK, Statuses
<1>5. ProcessesOK(conn')
    <2>1. conn' \in [Pids -> [status : Statuses, peer : Peers \cup {None}]]
        BY <1>3, <1>4
    <2> QED
        BY <1>2, <1>4, <2>1 DEF ProcessesOK
<1>6. \A peer \in Peers : connections'[peer] = <<>>
    BY <1>1
<1>7. PidsOf(connections') = {}
    BY <1>6 DEF PidsOf, Members
<1>8. PoolOK(connections', monitors', conn')
    <2>1. MaxConnections # 0 => Cardinality(PidsOf(connections')) <= MaxConnections
        BY <1>7, FS_EmptySet, PoolAssumption
    <2>2. connections' \in [Peers -> Seq(Pids)]
        BY <1>1
    <2>3. \A peer \in Peers : /\ NoDuplicates(connections'[peer])
                              /\ Members(connections'[peer]) = {}
        BY <1>6 DEF NoDuplicates, Members
    <2> QED
        BY <1>1, <1>7, <2>1, <2>2, <2>3 DEF PoolOK
<1>9. Covers(connections', conn', doomed')
    BY <1>4 DEF Covers, Up
<1>10. CallersBlocked(calls', conn')
    BY <1>1 DEF CallersBlocked
<1>11. TypeOK'
    <2>1. connections' \in [Peers -> Seq(Pids)]
        BY <1>8 DEF PoolOK
    <2>2. conn' \in [Pids -> [status : Statuses, peer : Peers \cup {None}]]
        BY <1>5 DEF ProcessesOK
    <2> QED
        BY <1>1, <2>1, <2>2 DEF Inv, TypeOK
<1> QED
    BY <1>1, <1>5, <1>8, <1>9, <1>10, <1>11 DEF Inv

\* send_to_target/4, whichever way get_or_connect/3 ends.
LEMMA SendToTargetKeeps ==
    ASSUME Inv, NEW job \in Sends, doomed \subseteq doomed',
           doomed' \subseteq Pids, downs' = downs,
           CallersBlocked(calls', conn), Waits(job, calls', conn),
           SendToTarget(job)
    PROVE  Inv'
<1> DEFINE peer == job.target
           live == Live(connections[peer])
           pool == [connections EXCEPT ![peer] = live]
           turned == [pool EXCEPT ![peer] = Rotate(live)]
<1>1. \/ Reply(job, connections, monitors, conn)
      \/ /\ Len(live) >= ConnsPerPeer
         /\ Call(Head(live), job, FALSE, turned, monitors, conn)
      \/ /\ live # <<>>
         /\ Call(Head(live), job, FALSE, pool, monitors, conn)
      \/ /\ ~PoolFull(pool) /\ HasFreePid
         /\ Call(FreePid, job, FALSE, Added(pool, FreePid, peer),
                 monitors \cup {FreePid}, Started(FreePid, peer))
    BY DEF SendToTarget
<1>2. /\ peer \in Peers /\ ProcessesOK(conn) /\ connections \in [Peers -> Seq(Pids)]
      /\ PoolOK(connections, monitors, conn) /\ Covers(connections, conn, doomed')
    BY DEF Sends, Inv, TypeOK, Covers
<1>3. live \in Seq(Pids)
    BY <1>2, LiveFacts
<1>4. \A gone : doomed \subseteq gone => Covers(connections, conn, gone)
    BY DEF Inv, Covers
<1>5. PoolOK(pool, monitors, conn) /\ Covers(pool, conn, doomed')
    BY <1>2, LivePool
<1>6. live # <<>> => Head(live) \in Pids
    BY <1>3
<1>7. ASSUME live # <<>>
      PROVE  PoolOK(turned, monitors, conn) /\ Covers(turned, conn, doomed')
    <2>1. turned = [connections EXCEPT ![peer] = Rotate(live)]
        BY <1>2
    <2> QED
        BY <1>2, <1>7, <2>1, LivePool
<1>8. \A pid : Covers(connections, conn, doomed' \cup {pid})
    BY <1>4
<1>9. CASE Reply(job, connections, monitors, conn)
    BY <1>2, <1>9, ReplyKeeps
<1>10. CASE /\ Len(live) >= ConnsPerPeer
            /\ Call(Head(live), job, FALSE, turned, monitors, conn)
    <2>1. live # <<>>
        BY <1>3, <1>10, PoolAssumption
    <2> HIDE DEF live, pool, turned, peer
    <2> QED
        BY <1>2, <1>6, <1>7, <1>8, <1>10, <2>1, CallKeeps
<1>11. CASE /\ live # <<>>
            /\ Call(Head(live), job, FALSE, pool, monitors, conn)
    <2> HIDE DEF live, pool, turned, peer
    <2> QED
        BY <1>2, <1>5, <1>6, <1>8, <1>11, CallKeeps
<1>12. CASE /\ ~PoolFull(pool) /\ HasFreePid
            /\ Call(FreePid, job, FALSE, Added(pool, FreePid, peer),
                    monitors \cup {FreePid}, Started(FreePid, peer))
    <2> HIDE DEF live, pool, turned, peer
    <2> DEFINE after == Started(FreePid, peer)
               bigger == Added(pool, FreePid, peer)
    <2>1. FreePid \in Pids /\ conn[FreePid].status = "none"
        BY <1>12, FreePidFacts
    <2>2. /\ ProcessesOK(after)
          /\ \A pid \in Pids : conn[pid].status # "none" => after[pid] = conn[pid]
          /\ PoolOK(bigger, monitors \cup {FreePid}, after)
          /\ Covers(bigger, after, doomed')
        BY <1>2, <1>5, <1>12, StartFacts
    <2>3. \A pid \in Pids : pid # FreePid => after[pid] = conn[pid]
        BY <1>2, <2>1 DEF Started, ProcessesOK
    <2>4. Covers(connections, after, doomed' \cup {FreePid})
        BY <1>2, <2>3 DEF Covers, Up
    <2>5. Call(FreePid, job, FALSE, bigger, monitors \cup {FreePid}, after)
        BY <1>12
    <2> HIDE DEF after, bigger
    <2> QED
        BY <2>1, <2>2, <2>4, <2>5, CallKeeps
<1> HIDE DEF live, pool, turned, peer
<1> QED
    BY <1>1, <1>9, <1>10, <1>11, <1>12

-----------------------------------------------------------------------------
(* One lemma for each action. *)

\* The transport starts with an empty pool.
LEMMA InitInv == Init => Inv
<1> SUFFICES ASSUME Init PROVE Inv
    OBVIOUS
<1>1. /\ \A peer \in Peers : connections[peer] = <<>>
      /\ connections \in [Peers -> Seq(Pids)]
      /\ \A pid \in Pids : conn[pid] = [status |-> "none", peer |-> None]
      /\ conn \in [Pids -> [status : Statuses, peer : Peers \cup {None}]]
    BY DEF Init, Statuses
<1>2. TypeOK
    BY <1>1 DEF Init, TypeOK
<1>3. ProcessesOK(conn) /\ Up(conn) = {}
    BY <1>1 DEF ProcessesOK, Up
<1>4. PidsOf(connections) = {}
    BY <1>1 DEF PidsOf, Members
<1>5. MaxConnections # 0 => Cardinality(PidsOf(connections)) <= MaxConnections
    BY <1>4, FS_EmptySet, PoolAssumption
<1>6. \A peer \in Peers : /\ NoDuplicates(connections[peer])
                          /\ Members(connections[peer]) = {}
    BY <1>1 DEF NoDuplicates, Members
<1>7. PoolOK(connections, monitors, conn)
    BY <1>1, <1>4, <1>5, <1>6 DEF Init, PoolOK
<1>8. Covers(connections, conn, doomed) /\ CallersBlocked(calls, conn)
    BY <1>3 DEF Init, Covers, CallersBlocked
<1> QED
    BY <1>2, <1>3, <1>7, <1>8 DEF Init, Inv

\* A transaction's call waits for the transport.
LEMMA TransactionSendsKeeps ==
    ASSUME Inv, NEW source \in Peers \cup {None}, NEW target \in Peers,
           TransactionSends([caller |-> None, source |-> source, target |-> target])
    PROVE  Inv'
<1> DEFINE job == [caller |-> None, source |-> source, target |-> target]
<1>1. /\ calls' = Append(calls, job)
      /\ UNCHANGED <<transport, connections, monitors, downs, conn,
                     doomed, call, crash>>
    BY DEF TransactionSends
<1>2. job \in Sends /\ job.caller = None
    BY DEF Sends
<1>3. calls \in Seq(Sends) /\ CallersBlocked(calls, conn)
    BY DEF Inv, TypeOK
<1> HIDE DEF job
<1>4. /\ calls' \in Seq(Sends) /\ Len(calls) \in Nat
      /\ DOMAIN calls = 1..Len(calls) /\ DOMAIN calls' = 1..(Len(calls) + 1)
      /\ \A i \in 1..Len(calls) : calls'[i] = calls[i]
      /\ calls'[Len(calls) + 1] = job
    BY <1>1, <1>2, <1>3
<1>5. \A i \in DOMAIN calls' :
        \/ i \in DOMAIN calls /\ calls'[i] = calls[i]
        \/ calls'[i].caller = None
    BY <1>2, <1>4
<1>6. CallersBlocked(calls', conn')
    BY <1>1, <1>3, <1>4, <1>5 DEF CallersBlocked
<1>7. transport = "calling" => CallOK'
    <2> SUFFICES ASSUME transport = "calling" PROVE CallOK'
        OBVIOUS
    <2>1. CallOK
        BY DEF Inv
    <2>2. Waits(call.job, calls', conn)
        BY <1>5, <2>1 DEF CallOK, Waits
    <2> QED
        BY <1>1, <2>1, <2>2 DEF CallOK
<1>8. TypeOK'
    BY <1>1, <1>4 DEF Inv, TypeOK
<1> QED
    BY <1>1, <1>6, <1>7, <1>8 DEF Inv

\* A connection's own call waits for the transport, and blocks the connection.
LEMMA ConnectionSendsKeeps ==
    ASSUME Inv, NEW pid \in Pids, NEW target \in Peers, ConnectionSends(pid, target)
    PROVE  Inv'
<1> DEFINE job == [caller |-> pid, source |-> None, target |-> target]
<1>1. /\ conn[pid].status = "open"
      /\ calls' = Append(calls, job)
      /\ conn' = [conn EXCEPT ![pid].status = "blocked"]
      /\ UNCHANGED <<transport, connections, monitors, downs,
                     doomed, call, crash>>
    BY DEF ConnectionSends
<1>2. job \in Sends /\ job.caller = pid /\ pid # None
    BY PoolAssumption DEF Sends, Pids
<1>3. calls \in Seq(Sends) /\ CallersBlocked(calls, conn) /\ ProcessesOK(conn)
    BY DEF Inv, TypeOK
<1>4. /\ conn' \in [Pids -> [status : Statuses, peer : Peers \cup {None}]]
      /\ \A q \in Pids : conn'[q].peer = conn[q].peer
      /\ \A q \in Pids : q # pid => conn'[q] = conn[q]
      /\ conn'[pid].status = "blocked"
    BY <1>1, <1>3 DEF ProcessesOK, Statuses
<1> HIDE DEF job
<1>5. /\ calls' \in Seq(Sends) /\ Len(calls) \in Nat
      /\ DOMAIN calls = 1..Len(calls) /\ DOMAIN calls' = 1..(Len(calls) + 1)
      /\ \A i \in 1..Len(calls) : calls'[i] = calls[i]
      /\ calls'[Len(calls) + 1] = job
    BY <1>1, <1>2, <1>3
<1>6. \A i \in DOMAIN calls : calls[i].caller \in Pids \cup {None} /\ calls[i].caller # pid
    <2>1. \A i \in DOMAIN calls : calls[i].caller \in Pids \cup {None}
        BY <1>3, CallerType
    <2>2. \A i \in DOMAIN calls :
            calls[i].caller # None => conn[calls[i].caller].status = "blocked"
        BY <1>3 DEF CallersBlocked
    <2> QED
        BY <1>1, <1>2, <2>1, <2>2
<1>7. \A i \in DOMAIN calls' :
        \/ i \in DOMAIN calls /\ calls'[i] = calls[i]
        \/ i = Len(calls) + 1 /\ calls'[i].caller = pid
    BY <1>2, <1>5
<1>8. CallersBlocked(calls', conn')
    <2>1. ASSUME NEW i \in DOMAIN calls', calls'[i].caller # None
          PROVE  conn'[calls'[i].caller].status = "blocked"
        <3>1. CASE i \in DOMAIN calls /\ calls'[i] = calls[i]
            BY <1>3, <1>4, <1>6, <2>1, <3>1 DEF CallersBlocked
        <3>2. CASE calls'[i].caller = pid
            BY <1>4, <3>2
        <3> QED
            BY <1>7, <3>1, <3>2
    <2>2. ASSUME NEW i \in DOMAIN calls', NEW j \in DOMAIN calls',
                 calls'[i].caller # None, calls'[i].caller = calls'[j].caller
          PROVE  i = j
        <3>1. calls'[i].caller = pid => i = j
            BY <1>6, <1>7, <2>2
        <3>2. calls'[i].caller # pid => i = j
            BY <1>3, <1>7, <2>2 DEF CallersBlocked
        <3> QED
            BY <3>1, <3>2
    <2> QED
        BY <1>5, <2>1, <2>2 DEF CallersBlocked
<1>9. \A q \in Pids : conn[q].status # "none" =>
        conn'[q].status # "none" /\ conn'[q].peer = conn[q].peer
    BY <1>4
<1>10. ProcessesOK(conn') /\ Up(conn') = Up(conn)
    BY <1>1, <1>3, <1>4 DEF ProcessesOK, Up
<1>11. \A q \in downs' : conn'[q].status = "dead"
    BY <1>1, <1>4 DEF Inv, TypeOK
<1>12. PoolOK(connections', monitors', conn') /\ Covers(connections', conn', doomed')
    <2>1. PoolOK(connections, monitors, conn) /\ Covers(connections, conn, doomed)
        BY DEF Inv
    <2>2. PoolOK(connections, monitors, conn')
        BY <1>9, <1>10, <2>1, PoolStays
    <2>3. Covers(connections, conn', doomed)
        BY <1>4, <1>10, <2>1 DEF Covers, Up
    <2> QED
        BY <1>1, <2>2, <2>3
<1>13. transport = "calling" => CallOK'
    <2> SUFFICES ASSUME transport = "calling" PROVE CallOK'
        OBVIOUS
    <2>1. CallOK
        BY DEF Inv
    <2>2. Waits(call.job, calls', conn')
        <3>1. call.job.caller # None => call.job.caller \in Pids
            BY <2>1 DEF CallOK, Sends
        <3>2. call.job.caller # None =>
                /\ conn[call.job.caller].status = "blocked"
                /\ \A i \in DOMAIN calls : calls[i].caller # call.job.caller
            BY <2>1 DEF CallOK, Waits
        <3>3. call.job.caller # pid
            BY <1>1, <1>2, <3>2
        <3> QED
            BY <1>4, <1>7, <3>1, <3>2, <3>3 DEF Waits
    <2>3. PoolOK(call.old[1], call.old[2], conn')
        <3>1. PoolOK(call.old[1], call.old[2], conn)
            BY <2>1 DEF CallOK
        <3> QED
            BY <1>9, <1>10, <3>1, PoolStays
    <2>4. ~call.reuse => Covers(call.old[1], conn', doomed \cup {call.pid})
        BY <1>4, <1>10, <2>1 DEF CallOK, Covers, Up
    <2> QED
        BY <1>1, <2>1, <2>2, <2>3, <2>4 DEF CallOK
<1>14. TypeOK'
    BY <1>1, <1>4, <1>5 DEF Inv, TypeOK
<1> QED
    BY <1>1, <1>8, <1>10, <1>11, <1>12, <1>13, <1>14 DEF Inv

\* handle_call({:send_message, ...}).
LEMMA HandleSendKeeps ==
    ASSUME Inv, HandleSend
    PROVE  Inv'
<1> DEFINE job == Head(calls)
           live == IF job.source = None THEN <<>> ELSE Live(connections[job.source])
<1>1. /\ calls # <<>> /\ calls' = Tail(calls) /\ downs' = downs /\ doomed' = doomed
      /\ IF live # <<>>
           THEN Call(Head(live), job, TRUE, connections, monitors, conn)
           ELSE SendToTarget(job)
    BY DEF HandleSend
<1>2. /\ CallersBlocked(calls, conn) /\ ProcessesOK(conn) /\ doomed \subseteq Pids
      /\ PoolOK(connections, monitors, conn) /\ Covers(connections, conn, doomed)
      /\ connections \in [Peers -> Seq(Pids)]
    BY DEF Inv, TypeOK
<1>3. job \in Sends /\ CallersBlocked(calls', conn) /\ Waits(job, calls', conn)
    BY <1>1, <1>2, TakeJob
<1>4. live # <<>> => Head(live) \in Pids
    <2>1. job.source # None => job.source \in Peers
        BY <1>3 DEF Sends
    <2>2. live \in Seq(Pids)
        BY <1>2, <2>1, LiveFacts
    <2> HIDE DEF live
    <2> QED
        BY <2>2
<1> HIDE DEF live, job
<1>5. CASE live # <<>>
    <2>1. Call(Head(live), job, TRUE, connections, monitors, conn)
        BY <1>1, <1>5
    <2> QED
        BY <1>1, <1>2, <1>3, <1>4, <1>5, <2>1, CallKeeps
<1>6. CASE live = <<>>
    BY <1>1, <1>2, <1>3, <1>6, SendToTargetKeeps
<1> QED
    BY <1>5, <1>6

\* The connection took the message.
LEMMA SendSucceedsKeeps ==
    ASSUME Inv, SendSucceeds
    PROVE  Inv'
<1>1. /\ transport = "calling" /\ Reply(call.job, connections, monitors, conn)
      /\ downs' = downs /\ doomed' = doomed /\ calls' = calls
    BY DEF SendSucceeds
<1>2. /\ CallersBlocked(calls, conn) /\ doomed \subseteq Pids
      /\ PoolOK(connections, monitors, conn) /\ Covers(connections, conn, doomed)
      /\ call.job \in Sends /\ Waits(call.job, calls, conn)
    BY <1>1 DEF Inv, TypeOK, CallOK
<1> QED
    BY <1>1, <1>2, ReplyKeeps

\* The connection did not: the target is tried, or the old state comes back, which
\* misses only a connection that is stopping.
LEMMA SendFailsKeeps ==
    ASSUME Inv, SendFails
    PROVE  Inv'
<1>1. /\ transport = "calling" /\ doomed' = doomed \cup {call.pid}
      /\ downs' = downs /\ calls' = calls
      /\ IF call.reuse THEN SendToTarget(call.job)
                       ELSE Reply(call.job, call.old[1], call.old[2], conn)
    BY DEF SendFails
<1>2. CallOK
    BY <1>1 DEF Inv
<1>3. /\ CallersBlocked(calls', conn) /\ doomed \subseteq doomed' /\ doomed' \subseteq Pids
      /\ call.job \in Sends /\ Waits(call.job, calls', conn)
    BY <1>1, <1>2 DEF Inv, TypeOK, CallOK
<1>4. CASE call.reuse
    <2>1. SendToTarget(call.job)
        BY <1>1, <1>4
    <2> QED
        BY <1>1, <1>3, <2>1, SendToTargetKeeps
<1>5. CASE ~call.reuse
    <2>1. /\ Reply(call.job, call.old[1], call.old[2], conn)
          /\ PoolOK(call.old[1], call.old[2], conn)
          /\ Covers(call.old[1], conn, doomed')
        BY <1>1, <1>2, <1>5 DEF CallOK
    <2> QED
        BY <1>1, <1>3, <2>1, ReplyKeeps
<1> QED
    BY <1>4, <1>5

\* handle_info({:tcp_accepted, _}).
LEMMA AcceptKeeps ==
    ASSUME Inv, NEW peer \in Peers, Accept(peer)
    PROVE  Inv'
<1>1. /\ transport = "idle" /\ ~PoolFull(connections) /\ HasFreePid
      /\ connections' = Added(connections, FreePid, peer)
      /\ monitors' = monitors \cup {FreePid}
      /\ conn' = Started(FreePid, peer)
      /\ UNCHANGED <<transport, downs, doomed, calls, call, crash>>
    BY DEF Accept
<1>2. PoolOK(connections, monitors, conn) /\ Covers(connections, conn, doomed)
    BY DEF Inv
<1>3. /\ ProcessesOK(conn')
      /\ \A pid \in Pids : conn[pid].status # "none" => conn'[pid] = conn[pid]
      /\ PoolOK(connections', monitors', conn')
      /\ Covers(connections', conn', doomed')
    BY <1>1, <1>2, StartFacts
<1>4. CallersBlocked(calls', conn')
    <2>1. CallersBlocked(calls, conn)
        BY DEF Inv
    <2>2. \A i \in DOMAIN calls : calls[i].caller \in Pids \cup {None}
        BY <2>1, CallerType
    <2> QED
        BY <1>1, <1>3, <2>1, <2>2 DEF CallersBlocked
<1>5. \A pid \in downs' : conn'[pid].status = "dead"
    <2>1. \A pid \in downs : pid \in Pids /\ conn[pid].status = "dead"
        BY DEF Inv, TypeOK
    <2> QED
        BY <1>1, <1>3, <2>1
<1>6. TypeOK'
    <2>1. connections' \in [Peers -> Seq(Pids)] /\ monitors' \subseteq Pids
        BY <1>3 DEF PoolOK
    <2>2. conn' \in [Pids -> [status : Statuses, peer : Peers \cup {None}]]
        BY <1>3 DEF ProcessesOK
    <2> QED
        BY <1>1, <2>1, <2>2 DEF Inv, TypeOK
<1> QED
    BY <1>1, <1>3, <1>4, <1>5, <1>6 DEF Inv

\* handle_info({:DOWN, ...}): the connection that leaves the pool is dead.
LEMMA DownKeeps ==
    ASSUME Inv, NEW pid \in Pids, Down(pid)
    PROVE  Inv'
<1>1. /\ transport = "idle" /\ pid \in downs /\ downs' = downs \ {pid}
      /\ connections' = IF pid \in monitors THEN DropConn(connections, pid)
                                             ELSE connections
      /\ monitors' = monitors \ {pid}
      /\ UNCHANGED <<transport, conn, doomed, calls, call, crash>>
    BY DEF Down
<1>2. /\ PoolOK(connections, monitors, conn) /\ Covers(connections, conn, doomed)
      /\ ProcessesOK(conn) /\ conn[pid].status = "dead"
      /\ connections \in [Peers -> Seq(Pids)] /\ monitors \subseteq Pids
      /\ \A peer \in Peers : NoDuplicates(connections[peer])
    BY <1>1 DEF Inv, TypeOK, PoolOK
<1>3. CASE pid \in monitors
    <2>1. connections' = [peer \in Peers |-> Filter(connections[peer], Pids \ {pid})]
        BY <1>1, <1>3 DEF DropConn
    <2>2. ASSUME NEW peer \in Peers
          PROVE  /\ connections'[peer] \in Seq(Pids)
                 /\ NoDuplicates(connections'[peer])
                 /\ Members(connections'[peer])
                      = Members(connections[peer]) \cap (Pids \ {pid})
        <3>1. connections'[peer] = Filter(connections[peer], Pids \ {pid})
            BY <2>1
        <3>2. connections[peer] \in Seq(Pids) /\ NoDuplicates(connections[peer])
            BY <1>2
        <3> QED
            BY <3>1, <3>2, FilterFacts
    <2>3. connections' \in [Peers -> Seq(Pids)]
        BY <2>1, <2>2
    <2>4. pid \notin Up(conn) /\ Up(conn) \subseteq Pids
        BY <1>2 DEF Up
    <2>5. PoolOK(connections', monitors, conn) /\ Covers(connections', conn, doomed)
        BY <1>2, <2>2, <2>3, <2>4, PoolFiltered
    <2>6. PidsOf(connections') \cap Up(conn) \subseteq monitors \ {pid}
        BY <2>4, <2>5 DEF PoolOK
    <2>7. PoolOK(connections', monitors \ {pid}, conn)
        BY <1>2, <2>5, <2>6 DEF PoolOK
    <2> QED
        BY <1>1, <2>3, <2>5, <2>7 DEF Inv, TypeOK
<1>4. CASE pid \notin monitors
    <2>1. connections' = connections /\ monitors' = monitors
        BY <1>1, <1>4
    <2> QED
        BY <1>1, <2>1 DEF Inv, TypeOK
<1> QED
    BY <1>3, <1>4

\* The first loop of the sweep: the pool loses only dead connections.
LEMMA SweepPoolKeeps ==
    ASSUME Inv, SweepPool
    PROVE  Inv'
<1>1. /\ transport = "idle" /\ transport' = "sweeping"
      /\ connections' = [peer \in Peers |-> Live(connections[peer])]
      /\ UNCHANGED <<monitors, downs, conn, doomed, calls, call,
                     crash>>
    BY DEF SweepPool
<1>2. /\ PoolOK(connections, monitors, conn) /\ Covers(connections, conn, doomed)
      /\ ProcessesOK(conn)
      /\ connections \in [Peers -> Seq(Pids)] /\ monitors \subseteq Pids
      /\ \A peer \in Peers : NoDuplicates(connections[peer])
    BY DEF Inv, TypeOK, PoolOK
<1>3. ASSUME NEW peer \in Peers
      PROVE  /\ connections'[peer] \in Seq(Pids)
             /\ NoDuplicates(connections'[peer])
             /\ Members(connections'[peer]) = Members(connections[peer]) \cap Up(conn)
    <2>1. connections'[peer] = Live(connections[peer])
        BY <1>1
    <2>2. connections[peer] \in Seq(Pids) /\ NoDuplicates(connections[peer])
        BY <1>2
    <2> QED
        BY <2>1, <2>2, LiveFacts
<1>4. connections' \in [Peers -> Seq(Pids)]
    BY <1>1, <1>3
<1>5. PoolOK(connections', monitors, conn) /\ Covers(connections', conn, doomed)
    BY <1>2, <1>3, <1>4, PoolFiltered
<1> QED
    BY <1>1, <1>4, <1>5 DEF Inv, TypeOK

\* The second loop: the connections that lose their monitor are dead.
LEMMA SweepMonitorsKeeps ==
    ASSUME Inv, SweepMonitors
    PROVE  Inv'
<1>1. /\ transport = "sweeping" /\ transport' = "idle"
      /\ monitors' = {pid \in monitors : Alive(pid)}
      /\ UNCHANGED <<connections, downs, conn, doomed, calls, call,
                     crash>>
    BY DEF SweepMonitors
<1>2. PoolOK(connections, monitors, conn) /\ monitors \subseteq Pids
    BY DEF Inv, TypeOK
<1>3. PidsOf(connections) \cap Up(conn) \subseteq monitors' /\ monitors' \subseteq Pids
    BY <1>1, <1>2 DEF PoolOK, Up, Alive
<1>4. PoolOK(connections, monitors', conn)
    BY <1>2, <1>3 DEF PoolOK
<1> QED
    BY <1>1, <1>3, <1>4 DEF Inv, TypeOK

\* More connections are about to stop (a socket event, a timer, :force_close).
LEMMA DoomKeeps ==
    ASSUME Inv, doomed \subseteq doomed', doomed' \subseteq Pids,
           UNCHANGED <<transport, connections, monitors, downs, conn,
                       calls, call, crash>>
    PROVE  Inv'
<1>1. Covers(connections, conn, doomed')
    BY DEF Inv, Covers
<1>2. transport = "calling" => CallOK'
    BY DEF Inv, CallOK, Covers
<1> QED
    BY <1>1, <1>2 DEF Inv, TypeOK

\* A connection that stops was about to, so the pool owes it nothing.
LEMMA ConnectionStopsKeeps ==
    ASSUME Inv, NEW pid \in Pids, ConnectionStops(pid)
    PROVE  Inv'
<1>1. CASE transport = "calling" /\ call.pid = pid
    <2>1. Crash("call_exit")
        BY <1>1 DEF ConnectionStops
    <2> QED
        BY <2>1, CrashKeeps
<1>2. CASE ~(transport = "calling" /\ call.pid = pid)
    <2>1. /\ conn[pid].status = "open"
          /\ conn' = [conn EXCEPT ![pid].status = "dead"]
          /\ doomed' = doomed \ {pid} /\ downs' = downs \cup {pid}
          /\ UNCHANGED <<transport, connections, monitors, calls, call,
                         crash>>
        BY <1>2 DEF ConnectionStops
    <2>2. ProcessesOK(conn) /\ downs \subseteq Pids /\ doomed \subseteq Pids
        BY DEF Inv, TypeOK
    <2>3. /\ conn' \in [Pids -> [status : Statuses, peer : Peers \cup {None}]]
          /\ \A q \in Pids : conn'[q].peer = conn[q].peer
          /\ \A q \in Pids : q # pid => conn'[q] = conn[q]
          /\ conn'[pid].status = "dead"
        BY <2>1, <2>2 DEF ProcessesOK, Statuses
    <2>4. \A q \in Pids : conn[q].status # "none" =>
            /\ conn'[q].status # "none" /\ conn'[q].peer = conn[q].peer
            /\ q \in Up(conn') => q \in Up(conn)
        BY <2>3 DEF Up
    <2>5. \A q \in Pids : conn[q].status = "blocked" => conn'[q] = conn[q]
        BY <2>1, <2>3
    <2>6. ProcessesOK(conn') /\ Up(conn') = Up(conn) \ {pid}
        BY <2>1, <2>2, <2>3 DEF ProcessesOK, Up
    <2>7. \A pool, gone : Covers(pool, conn, gone) => Covers(pool, conn', gone \ {pid})
        BY <2>3, <2>6 DEF Covers, Up
    <2>8. PoolOK(connections', monitors', conn') /\ Covers(connections', conn', doomed')
        <3>1. PoolOK(connections, monitors, conn) /\ Covers(connections, conn, doomed)
            BY DEF Inv
        <3>2. PoolOK(connections, monitors, conn')
            BY <2>4, <3>1, PoolStays
        <3> QED
            BY <2>1, <2>7, <3>1, <3>2
    <2>9. CallersBlocked(calls', conn')
        <3>1. CallersBlocked(calls, conn)
            BY DEF Inv
        <3>2. \A i \in DOMAIN calls : calls[i].caller \in Pids \cup {None}
            BY <3>1, CallerType
        <3> QED
            BY <2>1, <2>5, <3>1, <3>2 DEF CallersBlocked
    <2>10. transport = "calling" => CallOK'
        <3> SUFFICES ASSUME transport = "calling" PROVE CallOK'
            OBVIOUS
        <3>1. CallOK /\ call.pid # pid
            BY <1>2 DEF Inv
        <3>2. Waits(call.job, calls, conn')
            BY <2>5, <3>1 DEF CallOK, Waits, Sends
        <3>3. PoolOK(call.old[1], call.old[2], conn')
            <4>1. PoolOK(call.old[1], call.old[2], conn)
                BY <3>1 DEF CallOK
            <4> QED
                BY <2>4, <4>1, PoolStays
        <3>4. ~call.reuse => Covers(call.old[1], conn', doomed' \cup {call.pid})
            <4>1. (doomed \cup {call.pid}) \ {pid} = doomed' \cup {call.pid}
                BY <2>1, <3>1
            <4>2. ~call.reuse => Covers(call.old[1], conn, doomed \cup {call.pid})
                BY <3>1 DEF CallOK
            <4> QED
                BY <2>7, <4>1, <4>2
        <3> QED
            BY <2>1, <3>1, <3>2, <3>3, <3>4 DEF CallOK
    <2>11. \A q \in downs' : conn'[q].status = "dead"
        <3>1. \A q \in downs : conn[q].status = "dead"
            BY DEF Inv
        <3> QED
            BY <2>1, <2>2, <2>3, <3>1
    <2>12. TypeOK'
        BY <2>1, <2>2, <2>3 DEF Inv, TypeOK
    <2> QED
        BY <2>1, <2>6, <2>8, <2>9, <2>10, <2>11, <2>12 DEF Inv
<1> QED
    BY <1>1, <1>2

\* Every step keeps the invariant.
LEMMA InvStep == Inv /\ [Next]_vars => Inv'
<1> SUFFICES ASSUME Inv, [Next]_vars
             PROVE  Inv'
    OBVIOUS
<1>1. CASE \E source \in Peers \cup {None}, target \in Peers :
             TransactionSends([caller |-> None, source |-> source,
                               target |-> target])
    BY <1>1, TransactionSendsKeeps
<1>2. CASE \E pid \in Pids, target \in Peers : ConnectionSends(pid, target)
    BY <1>2, ConnectionSendsKeeps
<1>3. CASE HandleSend
    BY <1>3, HandleSendKeeps
<1>4. CASE SendSucceeds
    BY <1>4, SendSucceedsKeeps
<1>5. CASE SendFails
    BY <1>5, SendFailsKeeps
<1>6. CASE SendTimesOut
    BY <1>6, CrashKeeps DEF SendTimesOut
<1>7. CASE \E peer \in Peers : Accept(peer)
    BY <1>7, AcceptKeeps
<1>8. CASE \E pid \in Pids : Down(pid)
    BY <1>8, DownKeeps
<1>9. CASE SweepPool
    BY <1>9, SweepPoolKeeps
<1>16. CASE SweepMonitors
    BY <1>16, SweepMonitorsKeeps
<1>10. CASE \E peers \in SUBSET Peers : ClosePeers(peers)
    <2>1. /\ doomed \subseteq doomed' /\ doomed' \subseteq Pids
          /\ UNCHANGED <<transport, connections, monitors, downs,
                         conn, calls, call, crash>>
        BY <1>10 DEF ClosePeers, Inv, TypeOK
    <2> QED
        BY <2>1, DoomKeeps
<1>11. CASE \E pid \in Pids : Doom(pid)
    <2>1. /\ doomed \subseteq doomed' /\ doomed' \subseteq Pids
          /\ UNCHANGED <<transport, connections, monitors, downs,
                         conn, calls, call, crash>>
        BY <1>11 DEF Doom, Inv, TypeOK
    <2> QED
        BY <2>1, DoomKeeps
<1>12. CASE \E pid \in Pids : ConnectionStops(pid)
    BY <1>12, ConnectionStopsKeeps
<1>13. CASE \E pid \in Pids : CallerTimesOut(pid)
    BY <1>13, CrashKeeps DEF CallerTimesOut
<1>14. CASE \E pid \in Pids : CallbackRaises(pid)
    BY <1>14, CrashKeeps DEF CallbackRaises
<1>15. CASE UNCHANGED vars
    <2>1. UNCHANGED <<transport, connections, monitors, downs, conn,
                      doomed, calls, call, crash>>
        BY <1>15 DEF vars
    <2> QED
        BY <2>1 DEF Inv, TypeOK, CallOK
<1> QED
    BY <1>1, <1>2, <1>3, <1>4, <1>5, <1>6, <1>7, <1>8, <1>9, <1>10, <1>11,
       <1>12, <1>13, <1>14, <1>15, <1>16 DEF Next

-----------------------------------------------------------------------------
(* The theorems. *)

\* The transport keeps its invariant, for any peers, limits and number of
\* connection processes.
THEOREM InvariantHolds == Spec => []Inv
<1> QED
    BY InitInv, InvStep, PTL DEF Spec

\* A connection that stays up stands once in the pool of its own peer and in no
\* other, and everything pooled that still runs is monitored, through accepts,
\* sends, failures that discard the handler's state, closes, and sweeps during
\* which connections die (lib/sippet/transports/tcp.ex, start_connection/4,
\* send_to_target/4, handle_info/2, sweep_stale_connections/1).
THEOREM PoolStaysConsistent == Spec => []PoolConsistent
<1>1. Inv => PoolConsistent
    <2> SUFFICES ASSUME Inv PROVE PoolConsistent
        OBVIOUS
    <2>1. /\ TypeOK /\ ProcessesOK(conn) /\ PoolOK(connections, monitors, conn)
          /\ Covers(connections, conn, doomed)
        BY DEF Inv
    <2>2. OpenIsPooled
        <3> SUFFICES ASSUME NEW pid \in Pids, Alive(pid), pid \notin doomed,
                            NEW peer \in Peers
                     PROVE  Cardinality({i \in DOMAIN connections[peer] :
                                           connections[peer][i] = pid})
                              = IF peer = conn[pid].peer THEN 1 ELSE 0
            BY DEF OpenIsPooled
        <3>1. pid \in Members(connections[conn[pid].peer])
            BY <2>1 DEF Covers, Up, Alive
        <3>2. peer # conn[pid].peer => pid \notin Members(connections[peer])
            BY <2>1 DEF PoolOK
        <3>3. pid \in Members(connections[peer]) <=> peer = conn[pid].peer
            BY <3>1, <3>2
        <3>4. NoDuplicates(connections[peer])
            BY <2>1 DEF PoolOK
        <3> QED
            BY <3>3, <3>4, CountOnce
    <2>3. LiveIsMonitored
        <3> SUFFICES ASSUME NEW pid \in Pids, Pooled(pid)
                     PROVE  pid \in monitors \/ conn[pid].status = "dead"
            BY DEF LiveIsMonitored
        <3>1. PICK peer \in Peers : pid \in Members(connections[peer])
            BY DEF Pooled, Members
        <3>2. pid \in PidsOf(connections) /\ conn[pid].status # "none"
            BY <2>1, <3>1 DEF PidsOf, PoolOK
        <3>3. conn[pid].status \in Statuses
            BY <2>1 DEF ProcessesOK
        <3>4. pid \in Up(conn) \/ conn[pid].status = "dead"
            BY <3>2, <3>3 DEF Up, Statuses
        <3> QED
            BY <2>1, <3>2, <3>4 DEF PoolOK
    <2> QED
        BY <2>1, <2>2, <2>3 DEF PoolConsistent
<1> QED
    BY <1>1, InvariantHolds, PTL

\* The pool keeps to max_connections, although it grows from the accepting and
\* the sending side and a failed send brings an older pool back (pool_full?/1).
THEOREM PoolKeepsToLimit == Spec => []PoolBounded
<1>1. Inv => PoolBounded
    <2> SUFFICES ASSUME Inv PROVE PoolBounded
        OBVIOUS
    <2>1. PoolOK(connections, monitors, conn)
        BY DEF Inv
    <2>2. TotalConnections(connections) = Cardinality(PidsOf(connections))
        BY <2>1, TotalIsPids
    <2>3. MaxConnections # 0 => Cardinality(PidsOf(connections)) <= MaxConnections
        BY <2>1 DEF PoolOK
    <2> QED
        BY <2>2, <2>3 DEF PoolBounded
<1> QED
    BY <1>1, InvariantHolds, PTL
-----------------------------------------------------------------------------
(* The connection: the least and the greatest number of a set. *)

\* A non-empty set of natural numbers has a least element, which is Min of it.
LEMMA LeastElement ==
    ASSUME NEW S, S \subseteq Nat, S # {}
    PROVE  Min(S) \in S /\ \A y \in S : Min(S) <= y
<1>1. PICK x \in S : \A y \in S : ~(<<y, x>> \in OpToRel(<, Nat))
    BY WFMin, NatLessThanWellFounded
<1>2. \A y \in S : ~(y < x)
    BY <1>1 DEF OpToRel
<1>3. \A y \in S : x <= y
    BY <1>2
<1>4. \E m \in S : \A y \in S : m <= y
    BY <1>3
<1> QED
    BY <1>4 DEF Min

\* Min and Max are the element that bounds the set.
LEMMA MinIs ==
    ASSUME NEW S, S \subseteq Nat, NEW x \in S, \A y \in S : x <= y
    PROVE  Min(S) = x
<1>1. Min(S) \in S /\ \A y \in S : Min(S) <= y
    BY LeastElement
<1>2. Min(S) <= x /\ x <= Min(S) /\ Min(S) \in Nat /\ x \in Nat
    BY <1>1
<1> QED
    BY <1>2

LEMMA MaxIs ==
    ASSUME NEW S, S \subseteq Nat, NEW x \in S, \A y \in S : y <= x
    PROVE  Max(S) = x
<1>1. \E m \in S : \A y \in S : m >= y
    OBVIOUS
<1>2. Max(S) \in S /\ \A y \in S : Max(S) >= y
    BY <1>1 DEF Max
<1>3. Max(S) <= x /\ x <= Max(S) /\ Max(S) \in Nat /\ x \in Nat
    BY <1>2
<1> QED
    BY <1>3
-----------------------------------------------------------------------------
(* Where a header ends. *)

PingAt(bytes, i) ==
    /\ bytes[i - 3] = "CR" /\ bytes[i - 2] = "LF"
    /\ bytes[i - 1] = "CR" /\ bytes[i] = "LF"

BlankAt(bytes, i) == bytes[i - 1] = "LF" /\ bytes[i] = "LF"

\* EndOf finds the first CRLF CRLF.
LEMMA PingEnd ==
    ASSUME NEW b \in Seq(Bytes), NEW e, e = EndOf(Ping, b)
    PROVE  /\ e = 0 => \A i \in 4..Len(b) : ~PingAt(b, i)
           /\ e # 0 => /\ e \in 4..Len(b)
                       /\ PingAt(b, e)
                       /\ \A i \in 4..(e - 1) : ~PingAt(b, i)
<1> DEFINE ends == {i \in 4..Len(b) : SubSeq(b, i - 3, i) = Ping}
<1>1. \A i \in 4..Len(b) : i \in ends <=> PingAt(b, i)
    <2> SUFFICES ASSUME NEW i \in 4..Len(b)
                 PROVE  SubSeq(b, i - 3, i) = Ping <=> PingAt(b, i)
        OBVIOUS
    <2> DEFINE p == SubSeq(b, i - 3, i)
    <2>1. /\ p \in Seq(Bytes) /\ Len(p) = 4
          /\ p[1] = b[i - 3] /\ p[2] = b[i - 2] /\ p[3] = b[i - 1] /\ p[4] = b[i]
        OBVIOUS
    <2>2. /\ Ping \in Seq(Bytes) /\ Len(Ping) = 4
          /\ Ping[1] = "CR" /\ Ping[2] = "LF" /\ Ping[3] = "CR" /\ Ping[4] = "LF"
        BY DEF Ping, Bytes
    <2>3. p = Ping <=> \A j \in 1..4 : p[j] = Ping[j]
        <3> HIDE DEF p
        <3> QED
            BY <2>1, <2>2
    <2>4. (\A j \in 1..4 : p[j] = Ping[j]) <=> PingAt(b, i)
        <3> HIDE DEF p
        <3>1. 1..4 = {1, 2, 3, 4}
            OBVIOUS
        <3> QED
            BY <2>1, <2>2, <3>1 DEF PingAt
    <2> QED
        BY <2>3, <2>4
<1>2. e = IF ends = {} THEN 0 ELSE Min(ends)
    <2>1. Len(Ping) = 4
        BY DEF Ping
    <2>2. ends = {i \in Len(Ping)..Len(b) : SubSeq(b, i - Len(Ping) + 1, i) = Ping}
        BY <2>1
    <2> QED
        BY <2>2 DEF EndOf
<1>3. ends \subseteq 4..Len(b) /\ ends \subseteq Nat
    OBVIOUS
<1> HIDE DEF ends
<1>4. CASE ends = {}
    BY <1>1, <1>2, <1>4
<1>5. CASE ends # {}
    <2>1. Min(ends) \in ends /\ \A y \in ends : Min(ends) <= y
        BY <1>3, <1>5, LeastElement
    <2>2. e = Min(ends) /\ e \in 4..Len(b)
        BY <1>2, <1>3, <1>5, <2>1
    <2>3. \A i \in 4..(e - 1) : i \notin ends
        BY <2>1, <2>2
    <2> QED
        BY <1>1, <2>1, <2>2, <2>3
<1> QED
    BY <1>4, <1>5

\* EndOf finds the first LF LF.
LEMMA BlankEnd ==
    ASSUME NEW b \in Seq(Bytes), NEW e, e = EndOf(<<"LF", "LF">>, b)
    PROVE  /\ e = 0 => \A i \in 2..Len(b) : ~BlankAt(b, i)
           /\ e # 0 => e \in 2..Len(b) /\ BlankAt(b, e)
<1> DEFINE blank == <<"LF", "LF">>
           ends == {i \in 2..Len(b) : SubSeq(b, i - 1, i) = blank}
<1>1. \A i \in 2..Len(b) : i \in ends <=> BlankAt(b, i)
    <2> SUFFICES ASSUME NEW i \in 2..Len(b)
                 PROVE  SubSeq(b, i - 1, i) = blank <=> BlankAt(b, i)
        OBVIOUS
    <2> DEFINE p == SubSeq(b, i - 1, i)
    <2>1. p \in Seq(Bytes) /\ Len(p) = 2 /\ p[1] = b[i - 1] /\ p[2] = b[i]
        <3>1. i - 1 \in 1..Len(b) /\ i \in 1..Len(b)
            OBVIOUS
        <3>2. Len(p) = 2 /\ p \in Seq(Bytes)
            BY <3>1
        <3>3. \A j \in 1..2 : p[j] = b[(i - 1) + j - 1]
            BY <3>1
        <3> QED
            BY <3>2, <3>3
    <2>2. blank \in Seq(Bytes) /\ Len(blank) = 2 /\ blank[1] = "LF" /\ blank[2] = "LF"
        BY DEF Bytes
    <2> HIDE DEF p, blank
    <2>3. p = blank <=> \A j \in 1..2 : p[j] = blank[j]
        BY <2>1, <2>2
    <2>4. 1..2 = {1, 2}
        OBVIOUS
    <2>5. (\A j \in 1..2 : p[j] = blank[j]) <=> BlankAt(b, i)
        BY <2>1, <2>2, <2>4 DEF BlankAt
    <2> QED
        BY <2>3, <2>5 DEF p
<1>2. e = IF ends = {} THEN 0 ELSE Min(ends)
    <2>1. Len(blank) = 2
        OBVIOUS
    <2>2. ends = {i \in Len(blank)..Len(b) : SubSeq(b, i - Len(blank) + 1, i) = blank}
        BY <2>1
    <2> QED
        BY <2>2 DEF EndOf
<1>3. ends \subseteq 2..Len(b) /\ ends \subseteq Nat
    OBVIOUS
<1> HIDE DEF ends
<1>4. CASE ends = {}
    BY <1>1, <1>2, <1>4
<1>5. CASE ends # {}
    <2>1. Min(ends) \in ends
        BY <1>3, <1>5, LeastElement
    <2> QED
        BY <1>1, <1>2, <1>3, <1>5, <2>1
<1> QED
    BY <1>4, <1>5
-----------------------------------------------------------------------------
(* Segments of a sequence, as the elements after index a up to b. *)

\* What a segment holds.
LEMMA Segment ==
    ASSUME NEW S, NEW s \in Seq(S), NEW a \in Nat, NEW b \in Nat, a <= b, b <= Len(s)
    PROVE  /\ SubSeq(s, a + 1, b) \in Seq(S)
           /\ Len(SubSeq(s, a + 1, b)) = b - a
           /\ \A i \in 1..(b - a) : SubSeq(s, a + 1, b)[i] = s[a + i]
OBVIOUS

\* What a sequence holds.
LEMMA Elements ==
    ASSUME NEW S, NEW s \in Seq(S)
    PROVE  /\ DOMAIN s = 1..Len(s) /\ Len(s) \in Nat
           /\ \A i \in 1..Len(s) : s[i] \in S
OBVIOUS

\* What appending to it does.
LEMMA Appended ==
    ASSUME NEW S, NEW s \in Seq(S), NEW x \in S
    PROVE  /\ Append(s, x) \in Seq(S) /\ Len(Append(s, x)) = Len(s) + 1
           /\ \A i \in 1..Len(s) : Append(s, x)[i] = s[i]
           /\ Append(s, x)[Len(s) + 1] = x
OBVIOUS

\* Two sequences with the same elements are equal.
LEMMA SameElements ==
    ASSUME NEW S, NEW s \in Seq(S), NEW t \in Seq(S), Len(s) = Len(t),
           \A i \in 1..Len(s) : s[i] = t[i]
    PROVE  s = t
OBVIOUS

\* A segment of a segment is a segment of the whole.
LEMMA SegmentOfSegment ==
    ASSUME NEW S, NEW s \in Seq(S), NEW a \in Nat, NEW b \in Nat, a <= b, b <= Len(s),
           NEW i \in Nat, NEW j \in Nat, i <= j, j <= b - a
    PROVE  SubSeq(SubSeq(s, a + 1, b), i + 1, j) = SubSeq(s, a + i + 1, a + j)
<1> DEFINE t == SubSeq(s, a + 1, b)
           u == SubSeq(t, i + 1, j)
           v == SubSeq(s, (a + i) + 1, a + j)
<1>1. t \in Seq(S) /\ Len(t) = b - a /\ \A k \in 1..(b - a) : t[k] = s[a + k]
    BY Segment
<1>2. u \in Seq(S) /\ Len(u) = j - i /\ \A k \in 1..(j - i) : u[k] = t[i + k]
    <2> HIDE DEF t
    <2> QED
        BY <1>1, Segment
<1>3. v \in Seq(S) /\ Len(v) = j - i /\ \A k \in 1..(j - i) : v[k] = s[(a + i) + k]
    <2>1. a + i \in Nat /\ a + j \in Nat /\ a + i <= a + j /\ a + j <= Len(s)
          /\ (a + j) - (a + i) = j - i
        OBVIOUS
    <2> QED
        BY <2>1, Segment
<1> HIDE DEF t, u, v
<1>4. \A k \in 1..Len(u) : u[k] = v[k]
    BY <1>1, <1>2, <1>3
<1>5. u = v
    BY <1>2, <1>3, <1>4, SameElements
<1> QED
    BY <1>5 DEF t, u, v

\* Segments that meet make one.
LEMMA SegmentsMeet ==
    ASSUME NEW S, NEW s \in Seq(S), NEW a \in Nat, NEW b \in Nat, NEW c \in Nat,
           a <= b, b <= c, c <= Len(s)
    PROVE  SubSeq(s, a + 1, b) \o SubSeq(s, b + 1, c) = SubSeq(s, a + 1, c)
<1> DEFINE t == SubSeq(s, a + 1, b)
           u == SubSeq(s, b + 1, c)
           v == SubSeq(s, a + 1, c)
<1>1. t \in Seq(S) /\ Len(t) = b - a /\ \A k \in 1..(b - a) : t[k] = s[a + k]
    BY Segment
<1>2. u \in Seq(S) /\ Len(u) = c - b /\ \A k \in 1..(c - b) : u[k] = s[b + k]
    BY Segment
<1>3. v \in Seq(S) /\ Len(v) = c - a /\ \A k \in 1..(c - a) : v[k] = s[a + k]
    BY Segment
<1> HIDE DEF t, u, v
<1>4. t \o u \in Seq(S) /\ Len(t \o u) = c - a
    <2>1. t \o u \in Seq(S) /\ Len(t \o u) = Len(t) + Len(u)
        <3>1. t \in Seq(S) /\ u \in Seq(S)
            BY <1>1, <1>2
        <3> QED
            BY <3>1
    <2>2. (b - a) + (c - b) = c - a
        OBVIOUS
    <2> QED
        BY <1>1, <1>2, <2>1, <2>2
<1>5. \A k \in 1..(c - a) : (t \o u)[k] = s[a + k]
    <2> SUFFICES ASSUME NEW k \in 1..(c - a) PROVE (t \o u)[k] = s[a + k]
        OBVIOUS
    <2>1. CASE k <= b - a
        BY <1>1, <1>2, <2>1
    <2>2. CASE k > b - a
        <3>1. (t \o u)[k] = u[k - Len(t)]
            BY <1>1, <1>2, <2>2, SMTT(30)
        <3>2. k - Len(t) \in 1..(c - b) /\ b + (k - Len(t)) = a + k
            BY <1>1, <2>2
        <3> QED
            BY <1>2, <3>1, <3>2
    <2>3. k <= b - a \/ k > b - a
        OBVIOUS
    <2> QED
        BY <2>1, <2>2, <2>3
<1>6. t \o u = v
    BY <1>3, <1>4, <1>5, SameElements
<1> QED
    BY <1>6 DEF t, u, v

\* What is appended to a sequence leaves its segments as they are.
LEMMA SegmentStays ==
    ASSUME NEW S, NEW s \in Seq(S), NEW u \in Seq(S), NEW a \in Nat, NEW b \in Nat,
           a <= b, b <= Len(s)
    PROVE  SubSeq(s \o u, a + 1, b) = SubSeq(s, a + 1, b)
<1>1. s \o u \in Seq(S) /\ Len(s \o u) = Len(s) + Len(u)
      /\ \A k \in 1..Len(s) : (s \o u)[k] = s[k]
    OBVIOUS
<1> DEFINE w == s \o u
           t == SubSeq(w, a + 1, b)
           v == SubSeq(s, a + 1, b)
<1>2. v \in Seq(S) /\ Len(v) = b - a /\ \A k \in 1..(b - a) : v[k] = s[a + k]
    BY Segment
<1>3. t \in Seq(S) /\ Len(t) = b - a /\ \A k \in 1..(b - a) : t[k] = w[a + k]
    <2> HIDE DEF w
    <2>1. w \in Seq(S) /\ b <= Len(w)
        BY <1>1 DEF w
    <2> QED
        BY <2>1, Segment
<1>4. \A k \in 1..(b - a) : w[a + k] = s[a + k]
    BY <1>1
<1> HIDE DEF t, v, w
<1>5. t = v
    BY <1>2, <1>3, <1>4, SameElements
<1> QED
    BY <1>5 DEF t, v, w
-----------------------------------------------------------------------------
(* Content lengths and line ends. *)

\* No content length is among the bytes after the first `from` up to `to`.
NoLengths(s, from, to) == \A k \in (from + 1)..to : s[k] \notin DOMAIN Lengths

\* Bytes that are not a content length may precede the header.
LEMMA ContentLengthAfter ==
    ASSUME NEW s \in Seq(Bytes), NEW p \in Nat, NEW a \in Nat, NEW h \in Nat,
           p <= a, a <= h, h <= Len(s), NoLengths(s, p, a)
    PROVE  ContentLength(SubSeq(s, p + 1, h)) = ContentLength(SubSeq(s, a + 1, h))
<1> DEFINE t == SubSeq(s, p + 1, h)
           u == SubSeq(s, a + 1, h)
           g == a - p
           I == {i \in 1..Len(t) : IsLength(t[i])}
           J == {i \in 1..Len(u) : IsLength(u[i])}
<1>1. Len(t) = h - p /\ \A k \in 1..(h - p) : t[k] = s[p + k]
    BY Segment, SMTT(30)
<1>2. Len(u) = h - a /\ \A k \in 1..(h - a) : u[k] = s[a + k]
    BY Segment
<1>3. g \in Nat /\ p + g = a /\ h - p = (h - a) + g
    OBVIOUS
<1> HIDE DEF t, u, g
<1>4. \A i \in I : i > g /\ i - g \in J
    <2> SUFFICES ASSUME NEW i \in I PROVE i > g /\ i - g \in J
        OBVIOUS
    <2>1. i \in 1..(h - p) /\ s[p + i] \in DOMAIN Lengths
        BY <1>1 DEF IsLength
    <2>2. i > g
        BY <1>3, <2>1, SMTT(30) DEF NoLengths
    <2>3. i - g \in 1..(h - a) /\ a + (i - g) = p + i
        BY <1>3, <2>1, <2>2
    <2> QED
        BY <1>2, <2>1, <2>2, <2>3 DEF IsLength
<1>5. \A j \in J : j + g \in I
    <2> SUFFICES ASSUME NEW j \in J PROVE j + g \in I
        OBVIOUS
    <2>1. j \in 1..(h - a) /\ s[a + j] \in DOMAIN Lengths
        BY <1>2 DEF IsLength
    <2>2. j \in Nat /\ 1 <= j /\ j <= h - a
        BY <2>1
    <2>3. j + g \in Nat /\ 1 <= j + g /\ j + g <= h - p
        BY <1>3, <2>2, SMTT(30)
    <2>4. p + (j + g) = a + j
        BY <1>3, <2>2, SMTT(30)
    <2>5. j + g \in 1..(h - p)
        BY <2>3, SMTT(30)
    <2> QED
        BY <1>1, <2>1, <2>4, <2>5 DEF IsLength
<1>6. ContentLength(t) = LET i == IF I # {} THEN Min(I) ELSE 0
                         IN  IF i = 0 THEN 0 ELSE Lengths[t[i]]
    BY DEF ContentLength, SelectInSeq
<1>7. ContentLength(u) = LET i == IF J # {} THEN Min(J) ELSE 0
                         IN  IF i = 0 THEN 0 ELSE Lengths[u[i]]
    BY DEF ContentLength, SelectInSeq
<1>8. I \subseteq Nat /\ J \subseteq 1..(h - a) /\ J \subseteq Nat \ {0}
    BY <1>2
<1> HIDE DEF I, J
<1>9. CASE J = {}
    <2>1. I = {}
        BY <1>4, <1>9
    <2> QED
        BY <1>6, <1>7, <1>9, <2>1 DEF t, u
<1>10. CASE J # {}
    <2> DEFINE m == Min(J)
    <2>1. m \in J /\ \A y \in J : m <= y
        BY <1>8, <1>10, LeastElement
    <2>2. m \in 1..(h - a) /\ m # 0 /\ m \in Nat
        BY <1>8, <2>1
    <2> HIDE DEF m
    <2>3. m + g \in I
        BY <1>5, <2>1
    <2>4. \A y \in I : m + g <= y
        <3> SUFFICES ASSUME NEW y \in I PROVE m + g <= y
            OBVIOUS
        <3>1. y - g \in J /\ y \in Nat
            BY <1>4, <1>8
        <3>2. m <= y - g
            BY <2>1, <3>1
        <3> QED
            BY <1>3, <2>2, <3>1, <3>2
    <2>5. Min(I) = m + g
        BY <1>8, <2>3, <2>4, MinIs
    <2>6. ContentLength(t) = Lengths[t[m + g]]
        BY <1>3, <1>6, <2>2, <2>3, <2>5
    <2>7. ContentLength(u) = Lengths[u[m]]
        BY <1>7, <1>10, <2>2 DEF m
    <2>8. t[m + g] = u[m]
        <3>1. m + g \in 1..(h - p) /\ p + (m + g) = a + m
            BY <1>3, <2>2
        <3> QED
            BY <1>1, <1>2, <2>2, <3>1
    <2> QED
        BY <2>6, <2>7, <2>8 DEF t, u
<1> QED
    BY <1>9, <1>10

\* The empty header, and so a header of line ends, has no content length.
LEMMA ContentLengthNone ==
    ASSUME NEW s \in Seq(Bytes), NEW p \in Nat, NEW h \in Nat, p <= h, h <= Len(s),
           NoLengths(s, p, h)
    PROVE  ContentLength(SubSeq(s, p + 1, h)) = 0
<1> DEFINE u == SubSeq(s, h + 1, h)
<1>1. ContentLength(SubSeq(s, p + 1, h)) = ContentLength(u)
    BY ContentLengthAfter
<1>2. Len(u) = 0
    BY Segment
<1> HIDE DEF u
<1>3. {i \in 1..Len(u) : IsLength(u[i])} = {}
    BY <1>2
<1>4. ContentLength(u) = 0
    BY <1>3 DEF ContentLength, SelectInSeq
<1> QED
    BY <1>1, <1>4

\* The router strips the line ends before a message, and no more.
LEMMA Stripped ==
    ASSUME NEW s \in Seq(Bytes), NEW p \in Nat, NEW a \in Nat, NEW b \in Nat,
           p <= a, a <= b, b <= Len(s),
           LineEnds(s, p, a), LeadingLineEnd(SubSeq(s, a + 1, b)) = 0
    PROVE  StripLines(SubSeq(s, p + 1, b)) = SubSeq(s, a + 1, b)
<1> DEFINE raw == SubSeq(s, p + 1, b)
           m == SubSeq(s, a + 1, b)
           g == a - p
           N == {n \in 0..Len(raw) : LineEnds(raw, 0, n)}
<1>1. Len(raw) = b - p /\ \A k \in 1..(b - p) : raw[k] = s[p + k]
    BY Segment, SMTT(30)
<1>2. Len(m) = b - a /\ \A k \in 1..(b - a) : m[k] = s[a + k]
    BY Segment
<1>3. g \in Nat /\ p + g = a /\ b - p = (b - a) + g /\ g <= b - p
    OBVIOUS
<1>4. m[1] # "LF" \/ b = a
    BY <1>2 DEF LeadingLineEnd
<1>5. m[1] # "CR" \/ m[2] # "LF" \/ b < a + 2
    BY <1>2 DEF LeadingLineEnd
<1> HIDE DEF raw, m, g
<1>6. g \in N
    <2>1. LineEnds(raw, 0, g)
        <3> SUFFICES ASSUME NEW i \in 1..g
                     PROVE  \/ raw[i] = "LF"
                            \/ i < g /\ raw[i] = "CR" /\ raw[i + 1] = "LF"
            BY DEF LineEnds
        <3>1. p + i \in (p + 1)..a /\ i \in 1..(b - p)
            BY <1>3
        <3>2. \/ s[p + i] = "LF"
              \/ p + i < a /\ s[p + i] = "CR" /\ s[(p + i) + 1] = "LF"
            BY <3>1 DEF LineEnds
        <3>3. CASE s[p + i] = "LF"
            BY <1>1, <3>1, <3>3
        <3>4. CASE p + i < a /\ s[p + i] = "CR" /\ s[(p + i) + 1] = "LF"
            <4>1. i < g /\ i + 1 \in 1..(b - p) /\ p + (i + 1) = (p + i) + 1
                BY <1>3, <3>1, <3>4
            <4> QED
                BY <1>1, <3>1, <3>4, <4>1
        <3> QED
            BY <3>2, <3>3, <3>4
    <2> QED
        BY <1>1, <1>3, <2>1
<1>7. \A n \in N : n <= g
    <2> SUFFICES ASSUME NEW n \in N, n > g PROVE FALSE
        BY <1>1, <1>3
    <2>1. n \in 0..(b - p) /\ LineEnds(raw, 0, n)
        BY <1>1
    <2>2. g + 1 \in 1..n /\ g + 1 \in 1..(b - p) /\ b > a /\ p + (g + 1) = a + 1
        BY <1>3, <2>1
    <2>3. \/ raw[g + 1] = "LF"
          \/ g + 1 < n /\ raw[g + 1] = "CR" /\ raw[(g + 1) + 1] = "LF"
        BY <2>1, <2>2 DEF LineEnds
    <2>4. raw[g + 1] = m[1]
        <3>1. 1 \in 1..(b - a)
            BY <2>2
        <3> QED
            BY <1>1, <1>2, <2>2, <3>1
    <2>5. CASE g + 1 < n /\ raw[g + 1] = "CR" /\ raw[(g + 1) + 1] = "LF"
        <3>1. g + 2 \in 1..(b - p) /\ 2 \in 1..(b - a) /\ p + (g + 2) = a + 2
              /\ (g + 1) + 1 = g + 2
            BY <1>3, <2>1, <2>5
        <3>2. raw[g + 2] = m[2]
            BY <1>1, <1>2, <3>1
        <3> QED
            BY <1>5, <2>4, <2>5, <3>1, <3>2
    <2> QED
        BY <1>4, <2>2, <2>3, <2>4, <2>5
<1>8. N \subseteq Nat
    BY <1>1
<1> HIDE DEF N
<1>9. Max(N) = g
    BY <1>6, <1>7, <1>8, MaxIs
<1>10. StripLines(raw) = SubSeq(raw, g + 1, Len(raw))
    BY <1>9 DEF StripLines, N
<1>11. SubSeq(raw, g + 1, Len(raw)) = SubSeq(s, p + g + 1, p + (b - p))
    BY <1>1, <1>3, SegmentOfSegment DEF raw
<1>12. p + g + 1 = a + 1 /\ p + (b - p) = b
    BY <1>3
<1> QED
    BY <1>10, <1>11, <1>12 DEF raw, m
-----------------------------------------------------------------------------
(* The stream: messages, and line ends between them. *)

Outside(spans, k) == \A i \in DOMAIN spans : ~(spans[i].start < k /\ k <= spans[i].end)

StreamWell(s, spans) ==
    /\ \A i \in DOMAIN spans :
         /\ spans[i].start < spans[i].end /\ spans[i].end <= Len(s)
         /\ WellFramed(SubSeq(s, spans[i].start + 1, spans[i].end))
    /\ \A i, j \in DOMAIN spans : i < j => spans[i].end <= spans[j].start
    /\ \A k \in 1..Len(s) : Outside(spans, k) =>
         \/ s[k] = "LF"
         \/ /\ k < Len(s) /\ s[k] = "CR" /\ s[k + 1] = "LF"
            /\ Outside(spans, k + 1)

\* `n` messages are behind `pos`, and the next one, if it is written, is ahead.
Between(s, spans, n, pos) ==
    /\ n \in 0..Len(spans) /\ pos \in 0..Len(s)
    /\ \A i \in 1..n : spans[i].end <= pos
    /\ n < Len(spans) => pos <= spans[n + 1].start

\* The message in this place of the stream is misread.
MisreadAt(s, span) == Misread(SubSeq(s, span.start + 1, span.end))

\* Where the header of a well framed message ends in the stream.
HeaderEndsAt(s, span, h) ==
    /\ h \in (span.start + 4)..span.end
    /\ PingAt(s, h)
    /\ \A k \in (span.start + 4)..(h - 1) : ~PingAt(s, k)
    /\ \A k \in (span.start + 2)..h : ~BlankAt(s, k)
    /\ s[span.start + 1] # "LF"
    /\ s[span.start + 1] # "CR" \/ s[span.start + 2] # "LF"
    /\ MisreadAt(s, span) \/ ContentLength(SubSeq(s, span.start + 1, h)) = span.end - h

\* A well framed message has such a header.
LEMMA MessageHeader ==
    ASSUME NEW s \in Seq(Bytes), NEW span \in [start : Nat, end : Nat],
           span.start <= span.end, span.end <= Len(s),
           WellFramed(SubSeq(s, span.start + 1, span.end))
    PROVE  \E h \in Nat : HeaderEndsAt(s, span, h)
<1> DEFINE a == span.start
           b == span.end
           m == SubSeq(s, a + 1, b)
           e == EndOf(Ping, m)
           hd == SubSeq(m, 1, e)
           h == a + e
<1>1. a \in Nat /\ b \in Nat /\ a <= b /\ b <= Len(s)
    OBVIOUS
<1>2. m \in Seq(Bytes) /\ Len(m) = b - a /\ \A k \in 1..(b - a) : m[k] = s[a + k]
    BY <1>1, Segment, SMTT(30)
<1>3. /\ LeadingLineEnd(m) = 0 /\ e # 0
      /\ EndOf(<<"LF", "LF">>, hd) = 0
      /\ Misread(m) \/ ContentLength(hd) = Len(m) - e
    BY DEF WellFramed, Misread
<1> HIDE DEF m, a, b
<1>4. e \in 4..(b - a) /\ PingAt(m, e) /\ \A i \in 4..(e - 1) : ~PingAt(m, i)
    BY <1>2, <1>3, PingEnd
<1> HIDE DEF e
<1>5. /\ hd \in Seq(Bytes) /\ Len(hd) = e /\ \A k \in 1..e : hd[k] = m[k]
    <2>1. 0 \in Nat /\ e \in Nat /\ 0 <= e /\ e <= Len(m) /\ 0 + 1 = 1 /\ e - 0 = e
        BY <1>1, <1>2, <1>4
    <2>2. SubSeq(m, 0 + 1, e) = hd
        BY <2>1
    <2> QED
        BY <1>2, <1>4, <2>1, <2>2
<1>6. \A i \in 2..e : ~BlankAt(hd, i)
    BY <1>3, <1>5, BlankEnd
<1>7. hd = SubSeq(s, a + 1, h)
    <2>1. 0 \in Nat /\ e \in Nat /\ 0 <= e /\ e <= b - a /\ 0 + 1 = 1 /\ a + 0 + 1 = a + 1
        BY <1>1, <1>4
    <2>2. SubSeq(m, 0 + 1, e) = SubSeq(s, a + 0 + 1, a + e)
        BY <1>1, <2>1, SegmentOfSegment DEF m
    <2> QED
        BY <2>1, <2>2
<1>8. \A k \in (a + 1)..b : k - a \in 1..(b - a) /\ s[k] = m[k - a]
    BY <1>1, <1>2
<1>9. \A k \in (a + 4)..b : PingAt(s, k) <=> PingAt(m, k - a)
    <2> SUFFICES ASSUME NEW k \in (a + 4)..b PROVE PingAt(s, k) <=> PingAt(m, k - a)
        OBVIOUS
    <2>1. /\ k \in (a + 1)..b /\ k - 1 \in (a + 1)..b
          /\ k - 2 \in (a + 1)..b /\ k - 3 \in (a + 1)..b
        BY <1>1
    <2>2. /\ s[k] = m[k - a] /\ s[k - 1] = m[(k - 1) - a]
          /\ s[k - 2] = m[(k - 2) - a] /\ s[k - 3] = m[(k - 3) - a]
        BY <1>8, <2>1
    <2>3. /\ (k - 1) - a = (k - a) - 1 /\ (k - 2) - a = (k - a) - 2
          /\ (k - 3) - a = (k - a) - 3
        BY <1>1
    <2> QED
        BY <2>2, <2>3 DEF PingAt
<1>10. h \in (a + 4)..b /\ h - a = e /\ h \in Nat
    BY <1>1, <1>4
<1>11. PingAt(s, h)
    BY <1>4, <1>9, <1>10
<1>12. \A k \in (a + 4)..(h - 1) : ~PingAt(s, k)
    <2> SUFFICES ASSUME NEW k \in (a + 4)..(h - 1) PROVE ~PingAt(s, k)
        OBVIOUS
    <2>1. k \in (a + 4)..b /\ k - a \in 4..(e - 1)
        BY <1>1, <1>10, <1>4
    <2> QED
        BY <1>4, <1>9, <2>1
<1>13. \A k \in (a + 2)..h : ~BlankAt(s, k)
    <2> SUFFICES ASSUME NEW k \in (a + 2)..h PROVE ~BlankAt(s, k)
        OBVIOUS
    <2>1. /\ k \in (a + 1)..b /\ k - 1 \in (a + 1)..b /\ k - a \in 2..e
          /\ k - a \in 1..e /\ (k - a) - 1 \in 1..e /\ (k - 1) - a = (k - a) - 1
        BY <1>1, <1>10, <1>4
    <2>2. s[k] = hd[k - a] /\ s[k - 1] = hd[(k - a) - 1]
        BY <1>5, <1>8, <2>1
    <2> QED
        BY <1>6, <2>1, <2>2 DEF BlankAt
<1>14. s[a + 1] # "LF" /\ (s[a + 1] # "CR" \/ s[a + 2] # "LF")
    <2>1. 1 \in 1..(b - a) /\ 2 \in 1..(b - a)
        <3>1. b - a >= 4 /\ b - a \in Int
            BY <1>1, <1>4
        <3> QED
            BY <3>1
    <2>2. m[1] = s[a + 1] /\ m[2] = s[a + 2]
        BY <1>2, <2>1
    <2>3. Len(m) >= 1 /\ Len(m) >= 2
        BY <1>1, <1>2, <1>4
    <2>4. ~(m[1] = "LF") /\ ~(m[1] = "CR" /\ m[2] = "LF")
        BY <1>3, <2>3 DEF LeadingLineEnd
    <2> QED
        BY <2>2, <2>4
<1>15. MisreadAt(s, span) \/ ContentLength(SubSeq(s, a + 1, h)) = b - h
    <2>1. Len(m) - e = b - h
        BY <1>1, <1>2, <1>4
    <2> QED
        BY <1>3, <1>7, <2>1 DEF MisreadAt, m, a, b
<1>16. HeaderEndsAt(s, span, h)
    BY <1>10, <1>11, <1>12, <1>13, <1>14, <1>15 DEF HeaderEndsAt, a, b
<1> QED
    BY <1>10, <1>16

\* The bounds of a span are numbers.
LEMMA SpanBounds ==
    ASSUME NEW spans \in Seq([start : Nat, end : Nat])
    PROVE  /\ DOMAIN spans = 1..Len(spans) /\ Len(spans) \in Nat
           /\ \A i \in 1..Len(spans) :
                /\ spans[i] \in [start : Nat, end : Nat]
                /\ spans[i].start \in Nat /\ spans[i].end \in Nat
<1>1. DOMAIN spans = 1..Len(spans) /\ Len(spans) \in Nat
      /\ \A i \in 1..Len(spans) : spans[i] \in [start : Nat, end : Nat]
    BY Elements
<1> QED
    BY <1>1

\* The bytes between two messages are outside of both, and they are line ends.
LEMMA GapBytes ==
    ASSUME NEW s \in Seq(Bytes), NEW spans \in Seq([start : Nat, end : Nat]),
           StreamWell(s, spans), NEW n \in Nat, NEW pos \in Nat,
           Between(s, spans, n, pos),
           NEW k \in (pos + 1)..Len(s), n < Len(spans) => k <= spans[n + 1].start
    PROVE  /\ Outside(spans, k)
           /\ s[k] \in {"CR", "LF"} /\ s[k] \notin DOMAIN Lengths
           /\ s[k] # "LF" => /\ k < Len(s) /\ s[k + 1] = "LF"
                             /\ n < Len(spans) => k + 1 <= spans[n + 1].start
<1>1. Outside(spans, k)
    <2> SUFFICES ASSUME NEW i \in DOMAIN spans,
                        spans[i].start < k, k <= spans[i].end
                 PROVE  FALSE
        BY DEF Outside
    <2>1. i \in 1..Len(spans) /\ spans[i].start \in Nat /\ spans[i].end \in Nat
        BY SpanBounds
    <2>2. CASE i <= n
        <3>1. i \in 1..n
            BY <2>1, <2>2
        <3>2. spans[i].end <= pos
            BY <3>1 DEF Between
        <3> QED
            BY <2>1, <3>2, SMTT(30)
    <2>3. CASE i = n + 1
        BY <2>1, <2>3
    <2>4. CASE i > n + 1
        <3>1. /\ n + 1 \in 1..Len(spans) /\ n < Len(spans) /\ n + 1 < i
            BY <2>1, <2>4, SMTT(30)
        <3>3. spans[n + 1].start \in Nat /\ spans[n + 1].end \in Nat
            BY <3>1, SpanBounds
        <3>2. spans[n + 1].end <= spans[i].start /\ spans[n + 1].start < spans[n + 1].end
            BY <2>1, <3>1, SMTT(30) DEF StreamWell
        <3> QED
            BY <2>1, <3>3, <3>1, <3>2, SMTT(30)
    <2> QED
        BY <2>1, <2>2, <2>3, <2>4
<1>2. k \in 1..Len(s)
    OBVIOUS
<1>3. \/ s[k] = "LF"
      \/ /\ k < Len(s) /\ s[k] = "CR" /\ s[k + 1] = "LF"
         /\ Outside(spans, k + 1)
    BY <1>1, <1>2 DEF StreamWell
<1>4. s[k] \in {"CR", "LF"} /\ s[k] \notin DOMAIN Lengths
    BY <1>3, ConnectionAssumption
<1>5. ASSUME s[k] # "LF", n < Len(spans) PROVE k + 1 <= spans[n + 1].start
    <2>1. n + 1 \in DOMAIN spans /\ spans[n + 1].start \in Nat /\ spans[n + 1].end \in Nat
        <3>1. n + 1 \in 1..Len(spans)
            BY <1>5
        <3> QED
            BY <3>1, SpanBounds
    <2>2. spans[n + 1].start < spans[n + 1].end
        BY <2>1 DEF StreamWell
    <2>3. ~(spans[n + 1].start < k + 1 /\ k + 1 <= spans[n + 1].end)
        BY <1>3, <1>5, <2>1 DEF Outside
    <2> QED
        BY <1>5, <2>1, <2>2, <2>3
<1> QED
    BY <1>1, <1>3, <1>4, <1>5
\* find_header_end/1 on a buffer that begins between two messages: it ends among
\* the line ends before the next message or exactly with the header of it, and it
\* finds an end as soon as that header is in the buffer.
LEMMA HeaderFound ==
    ASSUME NEW s \in Seq(Bytes), NEW spans \in Seq([start : Nat, end : Nat]),
           StreamWell(s, spans), NEW n \in Nat, NEW pos \in Nat,
           Between(s, spans, n, pos), NEW got \in Nat, pos <= got, got <= Len(s),
           NEW f, f = FindHeaderEnd(SubSeq(s, pos + 1, got))
    PROVE  /\ f = 0 /\ n < Len(spans) => got < spans[n + 1].end
           /\ f # 0 =>
                /\ f \in 1..(got - pos)
                /\ \/ /\ LineEnds(s, pos, pos + f)
                      /\ n < Len(spans) => pos + f <= spans[n + 1].start
                      /\ ContentLength(SubSeq(s, pos + 1, pos + f)) = 0
                   \/ /\ n < Len(spans)
                      /\ spans[n + 1].start < pos + f /\ pos + f <= spans[n + 1].end
                      /\ LineEnds(s, pos, spans[n + 1].start)
                      /\ \/ MisreadAt(s, spans[n + 1])
                         \/ ContentLength(SubSeq(s, pos + 1, pos + f))
                              = spans[n + 1].end - (pos + f)
<1> DEFINE b == SubSeq(s, pos + 1, got)
           a == spans[n + 1].start
           Gap(e) == n < Len(spans) => e <= a
<1>1. b \in Seq(Bytes) /\ Len(b) = got - pos /\ \A k \in 1..(got - pos) : b[k] = s[pos + k]
    BY Segment, SMTT(30)
<1> HIDE DEF b
<1>2. \A e \in (pos + 4)..got : PingAt(s, e) <=> PingAt(b, e - pos)
    <2> SUFFICES ASSUME NEW e \in (pos + 4)..got PROVE PingAt(s, e) <=> PingAt(b, e - pos)
        OBVIOUS
    <2>1. /\ e - pos \in 1..(got - pos) /\ (e - pos) - 1 \in 1..(got - pos)
          /\ (e - pos) - 2 \in 1..(got - pos) /\ (e - pos) - 3 \in 1..(got - pos)
          /\ pos + (e - pos) = e /\ pos + ((e - pos) - 1) = e - 1
          /\ pos + ((e - pos) - 2) = e - 2 /\ pos + ((e - pos) - 3) = e - 3
        OBVIOUS
    <2>2. /\ b[e - pos] = s[e] /\ b[(e - pos) - 1] = s[e - 1]
          /\ b[(e - pos) - 2] = s[e - 2] /\ b[(e - pos) - 3] = s[e - 3]
        BY <1>1, <2>1
    <2> QED
        BY <2>2 DEF PingAt
<1>3. \A e \in (pos + 2)..got : BlankAt(s, e) <=> BlankAt(b, e - pos)
    <2> SUFFICES ASSUME NEW e \in (pos + 2)..got PROVE BlankAt(s, e) <=> BlankAt(b, e - pos)
        OBVIOUS
    <2>1. /\ e - pos \in 1..(got - pos) /\ (e - pos) - 1 \in 1..(got - pos)
          /\ pos + (e - pos) = e /\ pos + ((e - pos) - 1) = e - 1
        OBVIOUS
    <2>2. b[e - pos] = s[e] /\ b[(e - pos) - 1] = s[e - 1]
        BY <1>1, <2>1
    <2> QED
        BY <2>2 DEF BlankAt
<1>4. ASSUME n < Len(spans)
      PROVE  /\ a \in Nat /\ spans[n + 1].end \in Nat /\ pos <= a
             /\ \E h \in Nat : HeaderEndsAt(s, spans[n + 1], h)
    <2>1. n + 1 \in 1..Len(spans)
        BY <1>4
    <2>2. /\ n + 1 \in DOMAIN spans /\ spans[n + 1] \in [start : Nat, end : Nat]
          /\ a \in Nat /\ spans[n + 1].end \in Nat
        BY <2>1, SpanBounds
    <2>3. /\ a < spans[n + 1].end /\ spans[n + 1].end <= Len(s)
          /\ WellFramed(SubSeq(s, a + 1, spans[n + 1].end))
        BY <2>2 DEF StreamWell
    <2>4. a <= spans[n + 1].end
        BY <2>2, <2>3
    <2> HIDE DEF a
    <2>5. pos <= spans[n + 1].start
        BY <1>4 DEF Between
    <2> QED
        BY <2>2, <2>3, <2>4, <2>5, MessageHeader DEF a
\* Line ends up to an LF before the next message.
<1>5. ASSUME NEW e \in (pos + 1)..got, s[e] = "LF", Gap(e)
      PROVE  LineEnds(s, pos, e) /\ ContentLength(SubSeq(s, pos + 1, e)) = 0
    <2>1. \A k \in (pos + 1)..e :
            /\ s[k] \in {"CR", "LF"} /\ s[k] \notin DOMAIN Lengths
            /\ s[k] # "LF" => s[k + 1] = "LF"
        <3> SUFFICES ASSUME NEW k \in (pos + 1)..e
                     PROVE  /\ s[k] \in {"CR", "LF"} /\ s[k] \notin DOMAIN Lengths
                            /\ s[k] # "LF" => s[k + 1] = "LF"
            OBVIOUS
        <3>1. k \in (pos + 1)..Len(s)
            OBVIOUS
        <3>2. n < Len(spans) => k <= spans[n + 1].start
            BY <1>4, <1>5, SMTT(30)
        <3> QED
            BY <3>1, <3>2, GapBytes
    <2>2. LineEnds(s, pos, e)
        <3> SUFFICES ASSUME NEW k \in (pos + 1)..e
                     PROVE  \/ s[k] = "LF"
                            \/ k < e /\ s[k] = "CR" /\ s[k + 1] = "LF"
            BY DEF LineEnds
        <3>1. k = e \/ k < e
            OBVIOUS
        <3> QED
            BY <1>5, <2>1, <3>1
    <2>3. e \in Nat /\ pos <= e /\ e <= Len(s)
        OBVIOUS
    <2> QED
        <3>1. NoLengths(s, pos, e)
            BY <2>1 DEF NoLengths
        <3> QED
            BY <2>2, <2>3, <3>1, ContentLengthNone
\* The message's own header end.
<1>6. ASSUME n < Len(spans), NEW h \in Nat, HeaderEndsAt(s, spans[n + 1], h), h <= got
      PROVE  /\ h - pos \in 1..(got - pos)
             /\ a < h /\ h <= spans[n + 1].end
             /\ LineEnds(s, pos, a)
             /\ \/ MisreadAt(s, spans[n + 1])
                \/ ContentLength(SubSeq(s, pos + 1, h)) = spans[n + 1].end - h
    <2>1. a \in Nat /\ spans[n + 1].end \in Nat /\ pos <= a
        BY <1>4, <1>6
    <2>2. /\ h \in (a + 4)..spans[n + 1].end
          /\ \/ MisreadAt(s, spans[n + 1])
             \/ ContentLength(SubSeq(s, a + 1, h)) = spans[n + 1].end - h
        BY <1>6 DEF HeaderEndsAt
    <2>5. a <= h /\ h <= Len(s)
        BY <1>6, <2>1, <2>2, SMTT(30)
    <2>3. \A k \in (pos + 1)..a :
            /\ s[k] \in {"CR", "LF"} /\ s[k] \notin DOMAIN Lengths
            /\ s[k] # "LF" => s[k + 1] = "LF" /\ k + 1 <= a
        <3> SUFFICES ASSUME NEW k \in (pos + 1)..a
                     PROVE  /\ s[k] \in {"CR", "LF"} /\ s[k] \notin DOMAIN Lengths
                            /\ s[k] # "LF" => s[k + 1] = "LF" /\ k + 1 <= a
            OBVIOUS
        <3>1. k \in (pos + 1)..Len(s) /\ k <= a
            BY <2>1, <2>5, SMTT(30)
        <3> QED
            BY <1>6, <3>1, GapBytes
    <2>4. LineEnds(s, pos, a)
        <3> SUFFICES ASSUME NEW k \in (pos + 1)..a
                     PROVE  \/ s[k] = "LF"
                            \/ k < a /\ s[k] = "CR" /\ s[k + 1] = "LF"
            BY DEF LineEnds
        <3>1. k + 1 <= a => k < a
            BY <2>1, SMTT(30)
        <3> QED
            BY <2>3, <3>1
    <2>7. NoLengths(s, pos, a)
        BY <2>3 DEF NoLengths
    <2> HIDE DEF a
    <2>6. ContentLength(SubSeq(s, pos + 1, h)) = ContentLength(SubSeq(s, a + 1, h))
        <3>1. h \in Nat /\ a \in Nat /\ pos <= a /\ a <= h /\ h <= Len(s)
            BY <1>6, <2>1, <2>5
        <3> QED
            BY <2>7, <3>1, ContentLengthAfter
    <2> QED
        BY <1>6, <2>1, <2>2, <2>4, <2>6
<1> HIDE DEF a, Gap
<1>7. CASE EndOf(Ping, b) # 0
    <2>7. f = EndOf(Ping, b)
        BY <1>7 DEF FindHeaderEnd, b
    <2>1. /\ f \in 4..(got - pos) /\ PingAt(b, f)
          /\ \A i \in 4..(f - 1) : ~PingAt(b, i)
        BY <1>1, <1>7, <2>7, PingEnd
    <2> DEFINE e == pos + f
    <2>2. e \in (pos + 4)..got /\ e - pos = f
        BY <2>1
    <2> HIDE DEF e
    <2>3. PingAt(s, e) /\ s[e] = "LF"
        BY <1>2, <2>1, <2>2, SMTT(30) DEF PingAt
    <2>4. \A k \in (pos + 4)..(e - 1) : ~PingAt(s, k)
        <3> SUFFICES ASSUME NEW k \in (pos + 4)..(e - 1) PROVE ~PingAt(s, k)
            OBVIOUS
        <3>1. k - pos \in 4..(f - 1) /\ k \in (pos + 4)..got
            BY <2>1, <2>2
        <3> QED
            BY <1>2, <2>1, <3>1
    <2>5. CASE Gap(e)
        <3>1. LineEnds(s, pos, e) /\ ContentLength(SubSeq(s, pos + 1, e)) = 0
            BY <1>5, <2>2, <2>3, <2>5
        <3> QED
            BY <2>1, <2>5, <3>1 DEF Gap, e, a
    <2>6. CASE ~Gap(e)
        <3>1. n < Len(spans)
            BY <2>6 DEF Gap
        <3>2. PICK h \in Nat : HeaderEndsAt(s, spans[n + 1], h)
            BY <1>4, <3>1
        <3>3. a \in Nat /\ pos <= a /\ ~(e <= a) /\ e \in Nat
            BY <1>4, <2>2, <2>6, <3>1 DEF Gap
        <3>4. /\ h \in (a + 4)..spans[n + 1].end
              /\ PingAt(s, h)
              /\ \A k \in (a + 4)..(h - 1) : ~PingAt(s, k)
              /\ s[a + 1] # "LF" /\ (s[a + 1] # "CR" \/ s[a + 2] # "LF")
            BY <3>2 DEF HeaderEndsAt, a
        <3>5. /\ s[e - 3] = "CR" /\ s[e - 2] = "LF" /\ s[e - 1] = "CR" /\ s[e] = "LF"
            BY <2>3 DEF PingAt
        <3>6. e # a + 1
            BY <3>4, <3>5
        <3>7. e # a + 2
            <4> SUFFICES ASSUME e = a + 2 PROVE FALSE
                OBVIOUS
            <4>1. e - 1 = a + 1
                BY <3>3
            <4> QED
                BY <3>4, <3>5, <4>1
        <3>8. e # a + 3
            <4> SUFFICES ASSUME e = a + 3 PROVE FALSE
                OBVIOUS
            <4>1. e - 2 = a + 1
                BY <3>3
            <4> QED
                BY <3>4, <3>5, <4>1
        <3>9. e >= a + 4
            BY <3>3, <3>6, <3>7, <3>8
        <3>10. ~(e < h)
            <4> SUFFICES ASSUME e < h PROVE FALSE
                OBVIOUS
            <4>1. e \in (a + 4)..(h - 1)
                BY <3>3, <3>9
            <4> QED
                BY <2>3, <3>4, <4>1
        <3>11. ~(h < e)
            <4> SUFFICES ASSUME h < e PROVE FALSE
                OBVIOUS
            <4>1. h \in (pos + 4)..(e - 1)
                BY <3>3, <3>4
            <4> QED
                BY <2>4, <3>4, <4>1
        <3>12. e = h /\ h <= got
            BY <2>2, <3>3, <3>10, <3>11
        <3>13. /\ a < e /\ e <= spans[n + 1].end /\ LineEnds(s, pos, a)
               /\ \/ MisreadAt(s, spans[n + 1])
                  \/ ContentLength(SubSeq(s, pos + 1, e)) = spans[n + 1].end - e
            BY <1>6, <3>1, <3>2, <3>12
        <3> QED
            BY <2>1, <3>1, <3>13, SMTT(30) DEF e, a
    <2> QED
        BY <2>5, <2>6
<1>8. CASE EndOf(Ping, b) = 0
    <2>1. /\ \A i \in 4..(got - pos) : ~PingAt(b, i)
          /\ f = EndOf(<<"LF", "LF">>, b)
        BY <1>1, <1>8, PingEnd DEF FindHeaderEnd, b
    <2>2. ASSUME n < Len(spans), NEW h \in Nat, HeaderEndsAt(s, spans[n + 1], h)
          PROVE  got < h
        <3> SUFFICES ASSUME h <= got PROVE FALSE
            OBVIOUS
        <3>1. h \in (a + 4)..spans[n + 1].end /\ PingAt(s, h)
            BY <2>2 DEF HeaderEndsAt, a
        <3>2. a \in Nat /\ pos <= a
            BY <1>4, <2>2
        <3>3. h \in (pos + 4)..got /\ h - pos \in 4..(got - pos)
            BY <3>1, <3>2
        <3> QED
            BY <1>2, <2>1, <3>1, <3>3
    <2>3. n < Len(spans) => got < spans[n + 1].end
        <3> SUFFICES ASSUME n < Len(spans) PROVE got < spans[n + 1].end
            OBVIOUS
        <3>1. PICK h \in Nat : HeaderEndsAt(s, spans[n + 1], h)
            BY <1>4
        <3>2. h <= spans[n + 1].end /\ spans[n + 1].end \in Nat
            BY <1>4, <3>1, SMTT(30) DEF HeaderEndsAt
        <3> QED
            BY <2>2, <3>1, <3>2, SMTT(30)
    <2>4. ASSUME f # 0
          PROVE  /\ f \in 1..(got - pos)
                 /\ LineEnds(s, pos, pos + f)
                 /\ n < Len(spans) => pos + f <= spans[n + 1].start
                 /\ ContentLength(SubSeq(s, pos + 1, pos + f)) = 0
        <3>1. f \in 2..(got - pos) /\ BlankAt(b, f)
            BY <1>1, <2>1, <2>4, BlankEnd
        <3> DEFINE e == pos + f
        <3>2. e \in (pos + 2)..got /\ e - pos = f /\ e \in (pos + 1)..got /\ e \in Nat
            BY <3>1
        <3> HIDE DEF e
        <3>3. BlankAt(s, e) /\ s[e] = "LF"
            BY <1>3, <3>1, <3>2 DEF BlankAt
        <3>4. Gap(e)
            <4> SUFFICES ASSUME n < Len(spans), ~(e <= a) PROVE FALSE
                BY DEF Gap
            <4>1. PICK h \in Nat : HeaderEndsAt(s, spans[n + 1], h)
                BY <1>4
            <4>2. got < h /\ a \in Nat
                BY <1>4, <2>2, <4>1
            <4>3. s[a + 1] # "LF" /\ \A k \in (a + 2)..h : ~BlankAt(s, k)
                BY <4>1 DEF HeaderEndsAt, a
            <4>4. e # a + 1
                BY <3>3, <4>3
            <4>5. e \in (a + 2)..h
                BY <3>2, <4>2, <4>4
            <4> QED
                BY <3>3, <4>3, <4>5
        <3>5. LineEnds(s, pos, e) /\ ContentLength(SubSeq(s, pos + 1, e)) = 0
            BY <1>5, <3>2, <3>3, <3>4
        <3> QED
            BY <3>1, <3>4, <3>5 DEF e, Gap, a
    <2> QED
        BY <2>3, <2>4
<1> QED
    BY <1>7, <1>8
-----------------------------------------------------------------------------
(* The mailbox. *)

Absent(box, types) == \A i \in 1..Len(box) : box[i].type \notin types

\* `message` is the only one of these types.
Single(box, types, message) ==
    \E i \in 1..Len(box) :
      /\ box[i] = message
      /\ \A j \in 1..Len(box) : box[j].type \in types => j = i

\* Only a segment carries data.
DataInSegments(box) == \A i \in 1..Len(box) : box[i].type # "tcp" => box[i].data = <<>>

\* `rest` is what is left of `box` without its message number k.
Without(box, rest, k) ==
    /\ k \in 1..Len(box)
    /\ rest \in Seq(Mail) /\ Len(rest) = Len(box) - 1
    /\ \A i \in 1..Len(rest) : rest[i] = IF i < k THEN box[i] ELSE box[i + 1]

\* The messages of these types are the same in both.
SameWaiting(box, rest, types) ==
    /\ Absent(box, types) <=> Absent(rest, types)
    /\ \A m \in Mail : m.type \in types /\ Single(box, types, m) => Single(rest, types, m)

\* Taking the first message leaves the others.
LEMMA TailWithout ==
    ASSUME NEW box \in Seq(Mail), box # <<>>
    PROVE  Without(box, Tail(box), 1) /\ Head(box) = box[1] /\ box[1] \in Mail
<1>1. Len(box) \in Nat /\ Len(box) # 0 /\ Tail(box) \in Seq(Mail)
      /\ Len(Tail(box)) = Len(box) - 1 /\ Head(box) = box[1] /\ box[1] \in Mail
    <2> HIDE DEF Mail
    <2> QED
        OBVIOUS
<1>2. \A i \in 1..Len(Tail(box)) : Tail(box)[i] = box[i + 1]
    BY <1>1
<1>3. \A i \in 1..Len(Tail(box)) : ~(i < 1)
    BY <1>1
<1> QED
    BY <1>1, <1>2, <1>3 DEF Without

\* So does a selective receive.
LEMMA RemoveAtWithout ==
    ASSUME NEW box \in Seq(Mail), NEW k \in 1..Len(box)
    PROVE  Without(box, RemoveAt(box, k), k)
<1> HIDE DEF Mail
<1> DEFINE t == SubSeq(box, 1, k - 1)
           u == SubSeq(box, k + 1, Len(box))
<1>1. t \in Seq(Mail) /\ Len(t) = k - 1 /\ \A i \in 1..(k - 1) : t[i] = box[i]
    OBVIOUS
<1>2. u \in Seq(Mail) /\ Len(u) = Len(box) - k /\ \A i \in 1..(Len(box) - k) : u[i] = box[k + i]
    OBVIOUS
<1> HIDE DEF t, u
<1>3. t \o u \in Seq(Mail) /\ Len(t \o u) = Len(t) + Len(u)
    <2>1. t \in Seq(Mail) /\ u \in Seq(Mail)
        BY <1>1, <1>2
    <2> QED
        BY <2>1
<1>4. Len(t \o u) = Len(box) - 1
    BY <1>1, <1>2, <1>3
<1>5. \A i \in 1..(Len(box) - 1) : (t \o u)[i] = IF i < k THEN box[i] ELSE box[i + 1]
    <2> SUFFICES ASSUME NEW i \in 1..(Len(box) - 1)
                 PROVE  (t \o u)[i] = IF i < k THEN box[i] ELSE box[i + 1]
        OBVIOUS
    <2>1. CASE i < k
        BY <1>1, <1>2, <2>1
    <2>2. CASE ~(i < k)
        <3>1. (t \o u)[i] = u[i - Len(t)]
            BY <1>1, <1>2, <2>2
        <3>2. i - Len(t) \in 1..(Len(box) - k) /\ k + (i - Len(t)) = i + 1
            BY <1>1, <2>2
        <3> QED
            BY <1>2, <2>2, <3>1, <3>2
    <2> QED
        BY <2>1, <2>2
<1> QED
    BY <1>3, <1>4, <1>5 DEF Without, RemoveAt, t, u

\* The selective receive of cancel_timer/1.
LEMMA ExpiryRemoved ==
    ASSUME NEW box \in Seq(Mail)
    PROVE  /\ Absent(box, Expiries) => RemoveFirstMatch(box, IsExpiry) = box
           /\ \A m : Single(box, Expiries, m) /\ m.type \in Expiries =>
                \E k \in 1..Len(box) :
                  /\ box[k].type \in Expiries
                  /\ Without(box, RemoveFirstMatch(box, IsExpiry), k)
<1>1. ASSUME Absent(box, Expiries) PROVE RemoveFirstMatch(box, IsExpiry) = box
    BY <1>1 DEF Absent, RemoveFirstMatch, IsExpiry
<1>2. ASSUME NEW m, Single(box, Expiries, m), m.type \in Expiries
      PROVE  \E k \in 1..Len(box) :
               /\ box[k].type \in Expiries
               /\ Without(box, RemoveFirstMatch(box, IsExpiry), k)
    <2>1. PICK k \in 1..Len(box) :
            /\ box[k] = m
            /\ \A j \in 1..Len(box) : box[j].type \in Expiries => j = k
        BY <1>2 DEF Single
    <2>2. {i \in 1..Len(box) : IsExpiry(box[i])} = {k}
        BY <1>2, <2>1 DEF IsExpiry
    <2>3. SelectInSeq(box, IsExpiry) = k
        BY <2>2 DEF SelectInSeq, Min
    <2>4. RemoveFirstMatch(box, IsExpiry) = RemoveAt(box, k)
        BY <1>2, <2>1, <2>3 DEF RemoveFirstMatch, IsExpiry
    <2> QED
        BY <1>2, <2>1, <2>4, RemoveAtWithout
<1> QED
    BY <1>1, <1>2

\* The selective receive of cancel_keepalive/1 finds nothing here.
LEMMA KeepaliveRemoved ==
    ASSUME NEW box \in Seq(Mail), Absent(box, {"keepalive"})
    PROVE  RemoveFirstMatch(box, IsKeepalive) = box
BY DEF Absent, RemoveFirstMatch, IsKeepalive

\* What a removal leaves as it was, and what it removes.
LEMMA WithoutWaiting ==
    ASSUME NEW box \in Seq(Mail), NEW rest, NEW k, Without(box, rest, k), NEW types
    PROVE  /\ Absent(box, types) => Absent(rest, types)
           /\ box[k].type \notin types => SameWaiting(box, rest, types)
           /\ \A m : Single(box, types, m) /\ box[k].type \in types => Absent(rest, types)
           /\ DataInSegments(box) => DataInSegments(rest)
<1>1. /\ k \in 1..Len(box) /\ Len(rest) = Len(box) - 1 /\ Len(box) \in Nat
      /\ \A i \in 1..Len(rest) : rest[i] = IF i < k THEN box[i] ELSE box[i + 1]
    BY DEF Without
<1> DEFINE old(i) == IF i < k THEN i ELSE i + 1
           new(i) == IF i < k THEN i ELSE i - 1
<1>2. \A i \in 1..Len(rest) : old(i) \in 1..Len(box) /\ old(i) # k /\ rest[i] = box[old(i)]
    BY <1>1
<1>3. \A i \in 1..Len(box) : i # k => new(i) \in 1..Len(rest) /\ rest[new(i)] = box[i]
    <2> SUFFICES ASSUME NEW i \in 1..Len(box), i # k
                 PROVE  new(i) \in 1..Len(rest) /\ rest[new(i)] = box[i]
        OBVIOUS
    <2>1. CASE i < k
        BY <1>1, <2>1
    <2>2. CASE i > k
        <3>1. i - 1 \in 1..Len(rest) /\ ~(i - 1 < k) /\ (i - 1) + 1 = i /\ new(i) = i - 1
            BY <1>1, <2>2
        <3> QED
            BY <1>1, <3>1
    <2> QED
        BY <1>1, <2>1, <2>2
<1>4. \A i, j \in 1..Len(rest) : old(i) = old(j) => i = j
    BY <1>1
<1>5. \A i \in 1..Len(box) : i # k => old(new(i)) = i
    BY <1>1
<1> HIDE DEF old, new
<1>6. Absent(box, types) => Absent(rest, types)
    BY <1>2 DEF Absent
<1>7. ASSUME box[k].type \notin types PROVE SameWaiting(box, rest, types)
    <2>1. Absent(rest, types) => Absent(box, types)
        BY <1>3, <1>7 DEF Absent
    <2>2. ASSUME NEW m \in Mail, m.type \in types, Single(box, types, m)
          PROVE  Single(rest, types, m)
        <3>1. PICK i \in 1..Len(box) :
                /\ box[i] = m
                /\ \A j \in 1..Len(box) : box[j].type \in types => j = i
            BY <2>2 DEF Single
        <3>2. i # k
            BY <1>7, <2>2, <3>1
        <3>3. new(i) \in 1..Len(rest) /\ rest[new(i)] = m
            BY <1>3, <3>1, <3>2
        <3>4. \A j \in 1..Len(rest) : rest[j].type \in types => j = new(i)
            <4> SUFFICES ASSUME NEW j \in 1..Len(rest), rest[j].type \in types
                         PROVE  j = new(i)
                OBVIOUS
            <4>1. old(j) = i
                BY <1>2, <3>1
            <4>2. old(new(i)) = i
                BY <1>5, <3>2
            <4> QED
                BY <1>4, <3>3, <4>1, <4>2
        <3> QED
            BY <3>3, <3>4 DEF Single
    <2> QED
        BY <1>6, <2>1, <2>2 DEF SameWaiting
<1>8. ASSUME NEW m, Single(box, types, m), box[k].type \in types
      PROVE  Absent(rest, types)
    BY <1>1, <1>2, <1>8 DEF Absent, Single
<1>9. DataInSegments(box) => DataInSegments(rest)
    BY <1>2 DEF DataInSegments
<1> QED
    BY <1>6, <1>7, <1>8, <1>9

\* What a message put in the mailbox leaves as it was, and what it adds.
LEMMA AppendWaiting ==
    ASSUME NEW box \in Seq(Mail), NEW m \in Mail, NEW types
    PROVE  /\ Append(box, m) \in Seq(Mail) /\ Append(box, m) # <<>>
           /\ box # <<>> => Append(box, m)[1] = box[1]
           /\ m.type \notin types => SameWaiting(box, Append(box, m), types)
           /\ m.type \in types /\ Absent(box, types) => Single(Append(box, m), types, m)
           /\ m.type \in types => ~Absent(Append(box, m), types)
           /\ DataInSegments(box) /\ (m.type # "tcp" => m.data = <<>>) => DataInSegments(Append(box, m))
<1> DEFINE rest == Append(box, m)
<1>1. /\ rest \in Seq(Mail) /\ Len(rest) = Len(box) + 1 /\ Len(box) \in Nat
      /\ \A i \in 1..Len(box) : rest[i] = box[i]
      /\ rest[Len(box) + 1] = m
    <2> HIDE DEF Mail
    <2> QED
        OBVIOUS
<1>2. rest # <<>> /\ (box # <<>> => rest[1] = box[1])
    <2> HIDE DEF Mail
    <2>1. rest # <<>>
        BY <1>1
    <2>2. ASSUME box # <<>> PROVE rest[1] = box[1]
        <3>1. 1 \in 1..Len(box)
            BY <2>2
        <3> QED
            BY <1>1, <3>1
    <2> QED
        BY <2>1, <2>2
<1> HIDE DEF rest
<1>3. 1..Len(rest) = (1..Len(box)) \cup {Len(box) + 1} /\ Len(box) + 1 \notin 1..Len(box)
    BY <1>1
<1>4. ASSUME m.type \notin types PROVE SameWaiting(box, rest, types)
    <2>1. Absent(rest, types) <=> Absent(box, types)
        BY <1>1, <1>3, <1>4 DEF Absent
    <2>2. ASSUME NEW x \in Mail, Single(box, types, x), x.type \in types
          PROVE  Single(rest, types, x)
        <3>1. PICK i \in 1..Len(box) :
                /\ box[i] = x
                /\ \A j \in 1..Len(box) : box[j].type \in types => j = i
            BY <2>2 DEF Single
        <3>2. i \in 1..Len(rest) /\ rest[i] = x
            BY <1>1, <1>3, <3>1
        <3>3. \A j \in 1..Len(rest) : rest[j].type \in types => j = i
            BY <1>1, <1>3, <1>4, <3>1
        <3> QED
            BY <3>2, <3>3 DEF Single
    <2> QED
        BY <2>1, <2>2 DEF SameWaiting
<1>5. ASSUME m.type \in types PROVE ~Absent(rest, types)
    BY <1>1, <1>3, <1>5 DEF Absent
<1>6. ASSUME m.type \in types, Absent(box, types) PROVE Single(rest, types, m)
    <2>1. Len(box) + 1 \in 1..Len(rest)
        BY <1>3
    <2>2. \A j \in 1..Len(rest) : rest[j].type \in types => j = Len(box) + 1
        BY <1>1, <1>3, <1>6 DEF Absent
    <2> QED
        BY <1>1, <2>1, <2>2 DEF Single
<1>7. ASSUME DataInSegments(box), m.type # "tcp" => m.data = <<>> PROVE DataInSegments(rest)
    BY <1>1, <1>3, <1>7 DEF DataInSegments
<1> QED
    BY <1>1, <1>2, <1>4, <1>5, <1>6, <1>7 DEF rest
-----------------------------------------------------------------------------
(* What an open connection has in its mailbox. *)

MailboxOK(box, timer, keepalive, act) ==
    /\ DataInSegments(box)
    /\ Absent(box, {"activate"})
    /\ IF timer.left = Off THEN Single(box, Expiries, Message(timer.kind))
       ELSE Absent(box, Expiries)
    /\ KeepaliveInterval > 0 =>
         IF keepalive = Off THEN Single(box, {"keepalive"}, Message("keepalive"))
         ELSE Absent(box, {"keepalive"})
    /\ act = 0 => ~Absent(box, {"tcp_passive", "tcp_closed"})
    /\ \/ Absent(box, {"tcp_passive"})
       \/ act = 0 /\ Single(box, {"tcp_passive"}, Message("tcp_passive"))

\* The messages without data are messages.
LEMMA MessageMail ==
    /\ \A type \in MessageTypes :
         Message(type) \in Mail /\ Message(type).type = type /\ Message(type).data = <<>>
    /\ Expiries \subseteq MessageTypes
    /\ {"activate", "tcp", "tcp_passive", "tcp_closed", "send", "force_close",
        "keepalive"} \subseteq MessageTypes
<1>1. <<>> \in Seq(Bytes)
    OBVIOUS
<1> QED
    BY <1>1 DEF Message, Mail, MessageTypes

\* A removal that concerns none of the messages a connection waits for.
LEMMA SameMailbox ==
    ASSUME NEW box, NEW rest, NEW timer, NEW keepalive, NEW act,
           MailboxOK(box, timer, keepalive, act),
           timer.left = Off => timer.kind \in Expiries,
           DataInSegments(rest),
           SameWaiting(box, rest, Expiries), SameWaiting(box, rest, {"keepalive"}),
           SameWaiting(box, rest, {"activate"}), SameWaiting(box, rest, {"tcp_passive"}),
           SameWaiting(box, rest, {"tcp_passive", "tcp_closed"})
    PROVE  MailboxOK(rest, timer, keepalive, act)
<1>1. Absent(rest, {"activate"})
    BY DEF MailboxOK, SameWaiting
<1>2. IF timer.left = Off THEN Single(rest, Expiries, Message(timer.kind))
      ELSE Absent(rest, Expiries)
    BY MessageMail DEF MailboxOK, SameWaiting
<1>3. KeepaliveInterval > 0 =>
        IF keepalive = Off THEN Single(rest, {"keepalive"}, Message("keepalive"))
        ELSE Absent(rest, {"keepalive"})
    BY MessageMail DEF MailboxOK, SameWaiting
<1>4. act = 0 => ~Absent(rest, {"tcp_passive", "tcp_closed"})
    BY DEF MailboxOK, SameWaiting
<1>5. \/ Absent(rest, {"tcp_passive"})
      \/ act = 0 /\ Single(rest, {"tcp_passive"}, Message("tcp_passive"))
    BY MessageMail DEF MailboxOK, SameWaiting
<1> QED
    BY <1>1, <1>2, <1>3, <1>4, <1>5 DEF MailboxOK

\* A request of the transport's, or a segment, is put in the mailbox.
LEMMA MailboxPosted ==
    ASSUME NEW box \in Seq(Mail), NEW timer, NEW keepalive, NEW act,
           MailboxOK(box, timer, keepalive, act),
           timer.left = Off => timer.kind \in Expiries,
           NEW m \in Mail, m.type \in {"send", "force_close", "tcp"},
           m.type # "tcp" => m.data = <<>>
    PROVE  MailboxOK(Append(box, m), timer, keepalive, act)
<1>1. /\ m.type \notin Expiries /\ m.type \notin {"keepalive"} /\ m.type \notin {"activate"}
      /\ m.type \notin {"tcp_passive"} /\ m.type \notin {"tcp_passive", "tcp_closed"}
    BY DEF Expiries
<1> DEFINE rest == Append(box, m)
<1>2. /\ SameWaiting(box, rest, Expiries) /\ SameWaiting(box, rest, {"keepalive"})
      /\ SameWaiting(box, rest, {"activate"}) /\ SameWaiting(box, rest, {"tcp_passive"})
      /\ SameWaiting(box, rest, {"tcp_passive", "tcp_closed"})
    BY <1>1, AppendWaiting
<1>3. DataInSegments(rest)
    BY AppendWaiting DEF MailboxOK
<1> HIDE DEF rest
<1>4. MailboxOK(rest, timer, keepalive, act)
    BY <1>2, <1>3, SameMailbox
<1> QED
    BY <1>4 DEF rest

\* It is taken out again.
LEMMA MailboxTaken ==
    ASSUME NEW box \in Seq(Mail), box # <<>>, NEW timer, NEW keepalive, NEW act,
           MailboxOK(box, timer, keepalive, act),
           timer.left = Off => timer.kind \in Expiries,
           Head(box).type \in {"send", "force_close", "tcp"}
    PROVE  MailboxOK(Tail(box), timer, keepalive, act)
<1> DEFINE rest == Tail(box)
<1>1. Without(box, rest, 1) /\ box[1].type \in {"send", "force_close", "tcp"}
    BY TailWithout
<1>2. /\ box[1].type \notin Expiries /\ box[1].type \notin {"keepalive"}
      /\ box[1].type \notin {"activate"} /\ box[1].type \notin {"tcp_passive"}
      /\ box[1].type \notin {"tcp_passive", "tcp_closed"}
    BY <1>1 DEF Expiries
<1> HIDE DEF rest
<1>3. /\ SameWaiting(box, rest, Expiries) /\ SameWaiting(box, rest, {"keepalive"})
      /\ SameWaiting(box, rest, {"activate"}) /\ SameWaiting(box, rest, {"tcp_passive"})
      /\ SameWaiting(box, rest, {"tcp_passive", "tcp_closed"})
    BY <1>1, <1>2, WithoutWaiting
<1>4. DataInSegments(rest)
    BY <1>1, WithoutWaiting DEF MailboxOK
<1>5. MailboxOK(rest, timer, keepalive, act)
    BY <1>3, <1>4, SameMailbox
<1> QED
    BY <1>5 DEF rest

\* cancel_timer/1 and a new timer: the old timer's message is gone, and nothing else.
LEMMA MailboxRetimed ==
    ASSUME NEW box \in Seq(Mail), NEW timer, NEW keepalive, NEW act,
           MailboxOK(box, timer, keepalive, act), timer.kind \in Expiries,
           NEW later, later.left # Off
    PROVE  /\ RemoveFirstMatch(box, IsExpiry) \in Seq(Mail)
           /\ MailboxOK(RemoveFirstMatch(box, IsExpiry), later, keepalive, act)
           /\ \/ RemoveFirstMatch(box, IsExpiry) = box
              \/ \E k \in 1..Len(box) :
                   /\ box[k].data = <<>>
                   /\ Without(box, RemoveFirstMatch(box, IsExpiry), k)
<1> DEFINE rest == RemoveFirstMatch(box, IsExpiry)
<1>1. CASE Absent(box, Expiries)
    <2>1. rest = box
        BY <1>1, ExpiryRemoved
    <2> QED
        BY <1>1, <2>1 DEF MailboxOK
<1>2. CASE ~Absent(box, Expiries)
    <2>1. Single(box, Expiries, Message(timer.kind)) /\ Message(timer.kind).type \in Expiries
        BY <1>2, MessageMail DEF MailboxOK
    <2>2. PICK k \in 1..Len(box) : box[k].type \in Expiries /\ Without(box, rest, k)
        BY <2>1, ExpiryRemoved
    <2> HIDE DEF rest
    <2>3. rest \in Seq(Mail) /\ Absent(rest, Expiries) /\ DataInSegments(rest)
        BY <2>1, <2>2, WithoutWaiting DEF MailboxOK, Without
    <2>4. /\ box[k].type \notin {"keepalive"} /\ box[k].type \notin {"activate"}
          /\ box[k].type \notin {"tcp_passive"} /\ box[k].type # "tcp"
          /\ box[k].type \notin {"tcp_passive", "tcp_closed"}
        BY <2>2 DEF Expiries
    <2>5. /\ SameWaiting(box, rest, {"keepalive"}) /\ SameWaiting(box, rest, {"activate"})
          /\ SameWaiting(box, rest, {"tcp_passive"})
          /\ SameWaiting(box, rest, {"tcp_passive", "tcp_closed"})
        BY <2>2, <2>4, WithoutWaiting
    <2>6. KeepaliveInterval > 0 =>
            IF keepalive = Off THEN Single(rest, {"keepalive"}, Message("keepalive"))
            ELSE Absent(rest, {"keepalive"})
        BY <2>5, MessageMail DEF MailboxOK, SameWaiting
    <2>7. \/ Absent(rest, {"tcp_passive"})
          \/ act = 0 /\ Single(rest, {"tcp_passive"}, Message("tcp_passive"))
        BY <2>5, MessageMail DEF MailboxOK, SameWaiting
    <2>8. Absent(rest, {"activate"}) /\ (act = 0 => ~Absent(rest, {"tcp_passive", "tcp_closed"}))
        BY <2>5 DEF MailboxOK, SameWaiting
    <2>9. MailboxOK(rest, later, keepalive, act)
        BY <2>3, <2>6, <2>7, <2>8 DEF MailboxOK
    <2>10. box[k].data = <<>>
        BY <2>2, <2>4 DEF MailboxOK, DataInSegments
    <2> QED
        BY <2>2, <2>3, <2>9, <2>10 DEF rest
<1> QED
    BY <1>1, <1>2
\* The timer expires: its message is the only one of its kind.
LEMMA MailboxExpired ==
    ASSUME NEW box \in Seq(Mail), NEW timer, NEW keepalive, NEW act,
           MailboxOK(box, timer, keepalive, act), timer.kind \in Expiries,
           timer.left # Off, NEW later, later.kind = timer.kind, later.left = Off
    PROVE  MailboxOK(Append(box, Message(timer.kind)), later, keepalive, act)
<1> DEFINE m == Message(timer.kind)
           rest == Append(box, m)
<1>1. m \in Mail /\ m.type \in Expiries /\ m.data = <<>>
    BY MessageMail
<1>2. /\ m.type \notin {"keepalive"} /\ m.type \notin {"activate"}
      /\ m.type \notin {"tcp_passive"} /\ m.type \notin {"tcp_passive", "tcp_closed"}
    BY <1>1 DEF Expiries
<1> HIDE DEF m
<1>3. /\ SameWaiting(box, rest, {"keepalive"}) /\ SameWaiting(box, rest, {"activate"})
      /\ SameWaiting(box, rest, {"tcp_passive"})
      /\ SameWaiting(box, rest, {"tcp_passive", "tcp_closed"})
    BY <1>1, <1>2, AppendWaiting
<1>4. Single(rest, Expiries, m) /\ DataInSegments(rest)
    BY <1>1, AppendWaiting DEF MailboxOK
<1> HIDE DEF rest
<1>5. KeepaliveInterval > 0 =>
        IF keepalive = Off THEN Single(rest, {"keepalive"}, Message("keepalive"))
        ELSE Absent(rest, {"keepalive"})
    BY <1>3, MessageMail DEF MailboxOK, SameWaiting
<1>6. \/ Absent(rest, {"tcp_passive"})
      \/ act = 0 /\ Single(rest, {"tcp_passive"}, Message("tcp_passive"))
    BY <1>3, MessageMail DEF MailboxOK, SameWaiting
<1>7. Absent(rest, {"activate"}) /\ (act = 0 => ~Absent(rest, {"tcp_passive", "tcp_closed"}))
    BY <1>3 DEF MailboxOK, SameWaiting
<1>8. MailboxOK(rest, later, keepalive, act)
    BY <1>4, <1>5, <1>6, <1>7 DEF MailboxOK, m
<1> QED
    BY <1>8 DEF rest, m

\* The keep-alive falls due.
LEMMA MailboxKeepaliveDue ==
    ASSUME NEW box \in Seq(Mail), NEW timer, NEW keepalive, NEW act,
           MailboxOK(box, timer, keepalive, act),
           timer.left = Off => timer.kind \in Expiries, keepalive # Off
    PROVE  MailboxOK(Append(box, Message("keepalive")), timer, Off, act)
<1> DEFINE m == Message("keepalive")
           rest == Append(box, m)
<1>1. m \in Mail /\ m.type = "keepalive" /\ m.data = <<>>
    BY MessageMail
<1>2. /\ m.type \notin Expiries /\ m.type \notin {"activate"} /\ m.type \in {"keepalive"}
      /\ m.type \notin {"tcp_passive"} /\ m.type \notin {"tcp_passive", "tcp_closed"}
    BY <1>1 DEF Expiries
<1> HIDE DEF m
<1>3. /\ SameWaiting(box, rest, Expiries) /\ SameWaiting(box, rest, {"activate"})
      /\ SameWaiting(box, rest, {"tcp_passive"})
      /\ SameWaiting(box, rest, {"tcp_passive", "tcp_closed"})
    BY <1>1, <1>2, AppendWaiting
<1>4. (KeepaliveInterval > 0 => Single(rest, {"keepalive"}, m)) /\ DataInSegments(rest)
    BY <1>1, <1>2, AppendWaiting DEF MailboxOK
<1> HIDE DEF rest
<1>5. IF timer.left = Off THEN Single(rest, Expiries, Message(timer.kind))
      ELSE Absent(rest, Expiries)
    BY <1>3, MessageMail DEF MailboxOK, SameWaiting
<1>6. \/ Absent(rest, {"tcp_passive"})
      \/ act = 0 /\ Single(rest, {"tcp_passive"}, Message("tcp_passive"))
    BY <1>3, MessageMail DEF MailboxOK, SameWaiting
<1>7. Absent(rest, {"activate"}) /\ (act = 0 => ~Absent(rest, {"tcp_passive", "tcp_closed"}))
    BY <1>3 DEF MailboxOK, SameWaiting
<1>8. MailboxOK(rest, timer, Off, act)
    BY <1>4, <1>5, <1>6, <1>7 DEF MailboxOK, m
<1> QED
    BY <1>8 DEF rest, m

\* It is handled, and the next one has no message yet.
LEMMA MailboxPinged ==
    ASSUME NEW box \in Seq(Mail), box # <<>>, NEW timer, NEW keepalive, NEW act,
           MailboxOK(box, timer, keepalive, act),
           timer.left = Off => timer.kind \in Expiries,
           Head(box).type = "keepalive"
    PROVE  /\ KeepaliveInterval = 0 => MailboxOK(Tail(box), timer, keepalive, act)
           /\ KeepaliveInterval > 0 =>
                /\ Absent(Tail(box), {"keepalive"})
                /\ \A later : later # Off => MailboxOK(Tail(box), timer, later, act)
<1> DEFINE rest == Tail(box)
<1>1. Without(box, rest, 1) /\ box[1].type = "keepalive"
    BY TailWithout
<1>2. /\ box[1].type \notin Expiries /\ box[1].type \in {"keepalive"}
      /\ box[1].type \notin {"activate"} /\ box[1].type \notin {"tcp_passive"}
      /\ box[1].type \notin {"tcp_passive", "tcp_closed"}
    BY <1>1 DEF Expiries
<1> HIDE DEF rest
<1>3. /\ SameWaiting(box, rest, Expiries)
      /\ SameWaiting(box, rest, {"activate"}) /\ SameWaiting(box, rest, {"tcp_passive"})
      /\ SameWaiting(box, rest, {"tcp_passive", "tcp_closed"})
    BY <1>1, <1>2, WithoutWaiting
<1>4. DataInSegments(rest)
    BY <1>1, WithoutWaiting DEF MailboxOK
<1>5. IF timer.left = Off THEN Single(rest, Expiries, Message(timer.kind))
      ELSE Absent(rest, Expiries)
    BY <1>3, MessageMail DEF MailboxOK, SameWaiting
<1>6. \/ Absent(rest, {"tcp_passive"})
      \/ act = 0 /\ Single(rest, {"tcp_passive"}, Message("tcp_passive"))
    BY <1>3, MessageMail DEF MailboxOK, SameWaiting
<1>7. Absent(rest, {"activate"}) /\ (act = 0 => ~Absent(rest, {"tcp_passive", "tcp_closed"}))
    BY <1>3 DEF MailboxOK, SameWaiting
<1>8. ASSUME KeepaliveInterval > 0 PROVE Absent(rest, {"keepalive"})
    <2>1. ~Absent(box, {"keepalive"})
        <3>1. 1 \in 1..Len(box)
            BY <1>1 DEF Without
        <3> QED
            BY <1>2, <3>1 DEF Absent
    <2>2. Single(box, {"keepalive"}, Message("keepalive"))
        BY <1>8, <2>1 DEF MailboxOK
    <2> QED
        BY <1>1, <1>2, <2>2, WithoutWaiting
<1>9. KeepaliveInterval = 0 => ~(KeepaliveInterval > 0)
    BY ConnectionAssumption
<1>10. KeepaliveInterval = 0 => MailboxOK(rest, timer, keepalive, act)
    BY <1>4, <1>5, <1>6, <1>7, <1>9 DEF MailboxOK
<1>11. ASSUME KeepaliveInterval > 0, NEW later, later # Off
       PROVE  MailboxOK(rest, timer, later, act)
    BY <1>4, <1>5, <1>6, <1>7, <1>8, <1>11 DEF MailboxOK
<1> QED
    BY <1>8, <1>10, <1>11 DEF rest

\* The socket turns passive, or is closed.
LEMMA MailboxPassive ==
    ASSUME NEW box \in Seq(Mail), NEW timer, NEW keepalive, NEW act, act # 0,
           MailboxOK(box, timer, keepalive, act),
           timer.left = Off => timer.kind \in Expiries,
           NEW type \in {"tcp_passive", "tcp_closed"}
    PROVE  MailboxOK(Append(box, Message(type)), timer, keepalive, 0)
<1> DEFINE m == Message(type)
           rest == Append(box, m)
<1>1. m \in Mail /\ m.type = type /\ m.data = <<>>
    BY MessageMail
<1>2. /\ m.type \notin Expiries /\ m.type \notin {"activate"} /\ m.type \notin {"keepalive"}
      /\ m.type \in {"tcp_passive", "tcp_closed"}
    BY <1>1 DEF Expiries
<1> HIDE DEF m
<1>3. /\ SameWaiting(box, rest, Expiries) /\ SameWaiting(box, rest, {"activate"})
      /\ SameWaiting(box, rest, {"keepalive"})
    BY <1>1, <1>2, AppendWaiting
<1>4. ~Absent(rest, {"tcp_passive", "tcp_closed"}) /\ DataInSegments(rest)
    BY <1>1, <1>2, AppendWaiting DEF MailboxOK
<1>5. Absent(box, {"tcp_passive"})
    BY DEF MailboxOK
<1>6. Absent(rest, {"tcp_passive"}) \/ Single(rest, {"tcp_passive"}, Message("tcp_passive"))
    <2>1. CASE type = "tcp_passive"
        BY <1>1, <1>5, <2>1, AppendWaiting DEF m
    <2>2. CASE type = "tcp_closed"
        <3>1. SameWaiting(box, rest, {"tcp_passive"})
            BY <1>1, <2>2, AppendWaiting
        <3> QED
            BY <1>5, <3>1 DEF SameWaiting
    <2> QED
        BY <2>1, <2>2
<1> HIDE DEF rest
<1>7. IF timer.left = Off THEN Single(rest, Expiries, Message(timer.kind))
      ELSE Absent(rest, Expiries)
    BY <1>3, MessageMail DEF MailboxOK, SameWaiting
<1>8. KeepaliveInterval > 0 =>
        IF keepalive = Off THEN Single(rest, {"keepalive"}, Message("keepalive"))
        ELSE Absent(rest, {"keepalive"})
    BY <1>3, MessageMail DEF MailboxOK, SameWaiting
<1>9. Absent(rest, {"activate"})
    BY <1>3 DEF MailboxOK, SameWaiting
<1>10. MailboxOK(rest, timer, keepalive, 0)
    BY <1>4, <1>6, <1>7, <1>8, <1>9 DEF MailboxOK
<1> QED
    BY <1>10 DEF rest, m

\* A passive socket is re-armed: no segment was expected until then.
LEMMA MailboxRearmed ==
    ASSUME NEW box \in Seq(Mail), box # <<>>, NEW timer, NEW keepalive, NEW act,
           MailboxOK(box, timer, keepalive, act),
           timer.left = Off => timer.kind \in Expiries,
           Head(box).type = "tcp_passive"
    PROVE  /\ act = 0
           /\ \A more : more # 0 => MailboxOK(Tail(box), timer, keepalive, more)
<1> DEFINE rest == Tail(box)
<1>1. Without(box, rest, 1) /\ box[1].type = "tcp_passive" /\ 1 \in 1..Len(box)
    BY TailWithout DEF Without
<1>2. /\ box[1].type \notin Expiries /\ box[1].type \notin {"activate"}
      /\ box[1].type \notin {"keepalive"} /\ box[1].type \in {"tcp_passive"}
    BY <1>1 DEF Expiries
<1> HIDE DEF rest
<1>3. /\ SameWaiting(box, rest, Expiries) /\ SameWaiting(box, rest, {"activate"})
      /\ SameWaiting(box, rest, {"keepalive"})
    BY <1>1, <1>2, WithoutWaiting
<1>4. ~Absent(box, {"tcp_passive"})
    BY <1>1 DEF Absent
<1>5. act = 0 /\ Single(box, {"tcp_passive"}, Message("tcp_passive"))
    BY <1>4 DEF MailboxOK
<1>6. Absent(rest, {"tcp_passive"}) /\ DataInSegments(rest)
    BY <1>1, <1>2, <1>5, WithoutWaiting DEF MailboxOK
<1>7. IF timer.left = Off THEN Single(rest, Expiries, Message(timer.kind))
      ELSE Absent(rest, Expiries)
    BY <1>3, MessageMail DEF MailboxOK, SameWaiting
<1>8. KeepaliveInterval > 0 =>
        IF keepalive = Off THEN Single(rest, {"keepalive"}, Message("keepalive"))
        ELSE Absent(rest, {"keepalive"})
    BY <1>3, MessageMail DEF MailboxOK, SameWaiting
<1>9. Absent(rest, {"activate"})
    BY <1>3 DEF MailboxOK, SameWaiting
<1>10. ASSUME NEW more, more # 0 PROVE MailboxOK(rest, timer, keepalive, more)
    BY <1>6, <1>7, <1>8, <1>9, <1>10 DEF MailboxOK
<1> QED
    BY <1>5, <1>10 DEF rest
-----------------------------------------------------------------------------
(* The timers and the socket. *)

\* What the invariant of the timers says of the mailbox before :activate.
NewMailboxOK(box) ==
    /\ DataInSegments(box)
    /\ box # <<>> /\ box[1].type = "activate"
    /\ Single(box, {"activate"}, Message("activate"))
    /\ Absent(box, MessageTypes \ {"activate", "send", "force_close"})

TimersInv ==
    /\ StateOK
    /\ parsing => status = "open"
    /\ status = "new" =>
         /\ active = 0 /\ state.timer = NoTimer /\ state.keepalive = Off
         /\ NewMailboxOK(state.mailbox)
    /\ status = "open" =>
         /\ state.timer.kind \in Expiries
         /\ MailboxOK(state.mailbox, state.timer, state.keepalive, active)
    /\ state.timer.kind = "message_timeout" /\ state.timer.left # Off
         => reading + state.timer.left <= MessageTimeout

\* The fields of a process state.
LEMMA StateFields ==
    ASSUME NEW s \in States
    PROVE  /\ s.mailbox \in Seq(Mail) /\ s.buffer \in Seq(Bytes)
           /\ s.parse_state \in {"idle", "read_header", "read_body"}
           /\ s.header \in Seq(Bytes) /\ s.clen \in Nat
           /\ s.timer.kind \in Expiries \cup {"none"}
           /\ s.timer.left \in Nat \cup {Off}
           /\ s.timer \in [kind : Expiries \cup {"none"}, left : Nat \cup {Off}]
           /\ s.keepalive \in Nat \cup {Off}
BY DEF States

\* The parser's part of a process state.
SameParser(s, r) ==
    /\ r.buffer = s.buffer /\ r.parse_state = s.parse_state
    /\ r.header = s.header /\ r.clen = s.clen

\* set_idle_timer/1 and set_message_timer/1 change the timer and the mailbox.
LEMMA TimerSet ==
    ASSUME NEW s \in States,
           s.timer # NoTimer => RemoveFirstMatch(s.mailbox, IsExpiry) \in Seq(Mail)
    PROVE  LET box == IF s.timer = NoTimer THEN s.mailbox
                      ELSE RemoveFirstMatch(s.mailbox, IsExpiry)
           IN  /\ SetIdleTimer(s) \in States /\ SetMessageTimer(s) \in States
               /\ SetIdleTimer(s).mailbox = box /\ SetMessageTimer(s).mailbox = box
               /\ SetIdleTimer(s).timer = [kind |-> "idle_timeout", left |-> IdleTimeout]
               /\ SetMessageTimer(s).timer
                    = [kind |-> "message_timeout", left |-> MessageTimeout]
               /\ SetIdleTimer(s).keepalive = s.keepalive
               /\ SetMessageTimer(s).keepalive = s.keepalive
               /\ SameParser(s, SetIdleTimer(s)) /\ SameParser(s, SetMessageTimer(s))
<1> DEFINE box == IF s.timer = NoTimer THEN s.mailbox
                  ELSE RemoveFirstMatch(s.mailbox, IsExpiry)
           c == [s EXCEPT !.mailbox = box]
           idle == [kind |-> "idle_timeout", left |-> IdleTimeout]
           message == [kind |-> "message_timeout", left |-> MessageTimeout]
<1>1. box \in Seq(Mail)
    BY StateFields
<1>2. c \in States /\ c.mailbox = box /\ c.keepalive = s.keepalive /\ SameParser(s, c)
    <2> HIDE DEF box
    <2> QED
        BY <1>1 DEF States, SameParser
<1>3. CancelTimer(s) = c
    BY DEF CancelTimer, States
<1>4. /\ idle \in [kind : Expiries \cup {"none"}, left : Nat \cup {Off}]
      /\ message \in [kind : Expiries \cup {"none"}, left : Nat \cup {Off}]
    BY ConnectionAssumption DEF Expiries
<1> HIDE DEF box, c, idle, message
<1>5. ASSUME NEW t \in [kind : Expiries \cup {"none"}, left : Nat \cup {Off}]
      PROVE  LET r == [c EXCEPT !.timer = t]
             IN  /\ r \in States /\ r.mailbox = box /\ r.timer = t
                 /\ r.keepalive = s.keepalive /\ SameParser(s, r)
    BY <1>2 DEF States, SameParser
<1>6. SetIdleTimer(s) = [c EXCEPT !.timer = idle]
    BY <1>3 DEF SetIdleTimer, idle
<1>7. SetMessageTimer(s) = [c EXCEPT !.timer = message]
    BY <1>3 DEF SetMessageTimer, message
<1> QED
    BY <1>4, <1>5, <1>6, <1>7, ZenonT(30) DEF box, idle, message

\* A new timer of an open connection finds the mailbox in order.
LEMMA TimerRenewed ==
    ASSUME NEW s \in States, NEW act, s.timer.kind \in Expiries,
           MailboxOK(s.mailbox, s.timer, s.keepalive, act)
    PROVE  LET box == RemoveFirstMatch(s.mailbox, IsExpiry)
           IN  /\ SetIdleTimer(s) \in States /\ SetMessageTimer(s) \in States
               /\ SetIdleTimer(s).mailbox = box /\ SetMessageTimer(s).mailbox = box
               /\ box \in Seq(Mail)
               /\ \/ box = s.mailbox
                  \/ \E k \in 1..Len(s.mailbox) :
                       s.mailbox[k].data = <<>> /\ Without(s.mailbox, box, k)
               /\ SetIdleTimer(s).timer = [kind |-> "idle_timeout", left |-> IdleTimeout]
               /\ SetMessageTimer(s).timer
                    = [kind |-> "message_timeout", left |-> MessageTimeout]
               /\ SetIdleTimer(s).keepalive = s.keepalive
               /\ SetMessageTimer(s).keepalive = s.keepalive
               /\ SameParser(s, SetIdleTimer(s)) /\ SameParser(s, SetMessageTimer(s))
               /\ MailboxOK(SetIdleTimer(s).mailbox, SetIdleTimer(s).timer,
                            SetIdleTimer(s).keepalive, act)
               /\ MailboxOK(SetMessageTimer(s).mailbox, SetMessageTimer(s).timer,
                            SetMessageTimer(s).keepalive, act)
<1> DEFINE box == RemoveFirstMatch(s.mailbox, IsExpiry)
           idle == [kind |-> "idle_timeout", left |-> IdleTimeout]
           message == [kind |-> "message_timeout", left |-> MessageTimeout]
<1>1. s.mailbox \in Seq(Mail) /\ s.timer # NoTimer
    BY StateFields DEF NoTimer, Expiries
<1>2. idle.left # Off /\ message.left # Off
    BY ConnectionAssumption DEF Off
<1>3. /\ box \in Seq(Mail)
      /\ \/ box = s.mailbox
         \/ \E k \in 1..Len(s.mailbox) :
              s.mailbox[k].data = <<>> /\ Without(s.mailbox, box, k)
      /\ MailboxOK(box, idle, s.keepalive, act)
      /\ MailboxOK(box, message, s.keepalive, act)
    <2> HIDE DEF idle, message
    <2> QED
        BY <1>1, <1>2, MailboxRetimed
<1>4. /\ SetIdleTimer(s) \in States /\ SetMessageTimer(s) \in States
      /\ SetIdleTimer(s).mailbox = box /\ SetMessageTimer(s).mailbox = box
      /\ SetIdleTimer(s).timer = idle /\ SetMessageTimer(s).timer = message
      /\ SetIdleTimer(s).keepalive = s.keepalive
      /\ SetMessageTimer(s).keepalive = s.keepalive
      /\ SameParser(s, SetIdleTimer(s)) /\ SameParser(s, SetMessageTimer(s))
    BY <1>1, <1>3, TimerSet
<1> HIDE DEF box
<1>5. /\ MailboxOK(SetIdleTimer(s).mailbox, SetIdleTimer(s).timer,
                   SetIdleTimer(s).keepalive, act)
      /\ MailboxOK(SetMessageTimer(s).mailbox, SetMessageTimer(s).timer,
                   SetMessageTimer(s).keepalive, act)
    <2> HIDE DEF idle, message
    <2> QED
        BY <1>3, <1>4
<1> QED
    BY <1>3, <1>4, <1>5 DEF box

\* Putting a message in the mailbox, or taking one out, changes nothing else.
LEMMA MailChanged ==
    ASSUME NEW s \in States, NEW box \in Seq(Mail),
           NEW r, r = [s EXCEPT !.mailbox = box]
    PROVE  /\ r \in States /\ r.mailbox = box /\ r.timer = s.timer
           /\ r.keepalive = s.keepalive /\ SameParser(s, r)
BY DEF States, SameParser
\* Initially the process has :activate in its mailbox.
LEMMA TimersInit == ConnectionInit => TimersInv
<1> SUFFICES ASSUME ConnectionInit PROVE TimersInv
    OBVIOUS
<1> USE DEF ConnectionInit
<1>1. Message("activate") \in Mail /\ Message("activate").type = "activate"
      /\ Message("activate").data = <<>>
    BY MessageMail
<1> DEFINE box == <<Message("activate")>>
<1>2. /\ box \in Seq(Mail) /\ Len(box) = 1 /\ box[1] = Message("activate") /\ box # <<>>
      /\ 1..Len(box) = {1}
    BY <1>1
<1>3. NewMailboxOK(box)
    <2> HIDE DEF box
    <2>1. DataInSegments(box) /\ box[1].type = "activate"
        BY <1>1, <1>2 DEF DataInSegments
    <2>2. Single(box, {"activate"}, Message("activate"))
        BY <1>2 DEF Single
    <2>3. Absent(box, MessageTypes \ {"activate", "send", "force_close"})
        BY <1>1, <1>2 DEF Absent
    <2> QED
        BY <1>2, <2>1, <2>2, <2>3 DEF NewMailboxOK
<1>4. /\ state.mailbox = box /\ state.timer = NoTimer /\ state.keepalive = Off
      /\ state \in States
    <2>1. NoTimer \in [kind : Expiries \cup {"none"}, left : Nat \cup {Off}]
        BY DEF NoTimer
    <2>2. <<>> \in Seq(Bytes)
        OBVIOUS
    <2> HIDE DEF NoTimer, Off
    <2> QED
        BY <1>2, <2>1, <2>2 DEF States
<1>5. StateOK
    <2>1. <<>> \in Seq(Bytes) /\ <<>> \in Seq([start : Nat, end : Nat])
          /\ <<>> \in Seq(Seq(Bytes)) /\ Len(<<>>) = 0
        OBVIOUS
    <2>2. 0 \in 0..ActiveN /\ MaxUnits \in Nat
        BY ConnectionAssumption
    <2>3. 0 \in 0..Len(stream)
        BY <2>1
    <2>4. status \in {"new", "open", "stopped"} /\ parsing \in BOOLEAN /\ reading \in Nat
        OBVIOUS
    <2>5. /\ stream \in Seq(Bytes) /\ intended \in Seq([start : Nat, end : Nat])
          /\ delivered \in Seq(Seq(Bytes)) /\ unsent \in Nat
          /\ active \in 0..ActiveN /\ taken \in 0..Len(stream)
        BY <2>1, <2>2, <2>3
    <2> HIDE DEF ConnectionInit
    <2> QED
        BY <1>4, <2>4, <2>5 DEF StateOK
<1>6. state.timer.left = Off
    BY <1>4 DEF NoTimer
<1> QED
    BY <1>3, <1>4, <1>5, <1>6 DEF TimersInv

\* The constants that the steps below need.
LEMMA Bounds ==
    /\ IdleTimeout \in Nat \ {0} /\ MessageTimeout \in Nat \ {0}
    /\ ActiveN \in Nat \ {0} /\ KeepaliveInterval \in Nat
BY ConnectionAssumption

\* The peer writes: nothing of the process changes.
LEMMA TimersPeerWrites ==
    ASSUME TimersInv, NEW unit \in Units, PeerWrites(unit)
    PROVE  TimersInv'
<1> USE DEF PeerWrites
<1>1. StateOK
    BY DEF TimersInv
<1>2. stream' \in Seq(Bytes) /\ Len(stream') = Len(stream) + Len(unit)
      /\ Len(unit) \in Nat /\ Len(stream) \in Nat
    <2>1. unit \in Seq(Bytes) /\ stream \in Seq(Bytes)
        BY <1>1, UnitsAssumption DEF StateOK
    <2> QED
        BY <2>1
<1>3. taken' \in 0..Len(stream')
    BY <1>1, <1>2 DEF StateOK
<1>4. intended' \in Seq([start : Nat, end : Nat])
    <2>1. Span(Len(stream), Len(stream) + Len(unit)) \in [start : Nat, end : Nat]
        BY <1>2 DEF Span
    <2>2. intended \in Seq([start : Nat, end : Nat])
        BY <1>1 DEF StateOK
    <2>3. intended' = intended
          \/ intended' = Append(intended, Span(Len(stream), Len(stream) + Len(unit)))
        OBVIOUS
    <2> HIDE DEF PeerWrites
    <2>4. Append(intended, Span(Len(stream), Len(stream) + Len(unit)))
            \in Seq([start : Nat, end : Nat])
        BY <2>1, <2>2, Appended, Zenon
    <2> QED
        BY <2>2, <2>3, <2>4, Zenon
<1>5. unsent' \in Nat
    BY <1>1 DEF StateOK
<1>6. StateOK'
    BY <1>1, <1>2, <1>3, <1>4, <1>5 DEF StateOK
<1> QED
    BY <1>6 DEF TimersInv

\* The socket delivers a segment, and turns passive after the last.
LEMMA TimersArrive ==
    ASSUME TimersInv, NEW n \in 1..(Len(stream) - taken), Arrive(n)
    PROVE  TimersInv'
<1> USE DEF Arrive
<1> DEFINE data == SubSeq(stream, taken + 1, taken + n)
           box == state.mailbox
           first == Append(box, Tcp(data))
           both == Append(first, Message("tcp_passive"))
<1>1. /\ StateOK /\ status = "open" /\ state \in States /\ box \in Seq(Mail)
      /\ state.timer.kind \in Expiries
      /\ MailboxOK(box, state.timer, state.keepalive, active)
    BY StateFields DEF TimersInv, StateOK
<1>2. taken \in Nat /\ taken + n \in Nat /\ taken + n <= Len(stream) /\ taken <= taken + n
      /\ stream \in Seq(Bytes) /\ taken + n \in 0..Len(stream)
    BY <1>1, SMTT(30) DEF StateOK
<1>3. data \in Seq(Bytes)
    BY <1>2, Segment
<1>4. Tcp(data) \in Mail /\ Tcp(data).type = "tcp"
    <2> HIDE DEF data
    <2> QED
        BY <1>3 DEF Tcp, Mail, MessageTypes
<1>5. /\ first \in Seq(Mail)
      /\ MailboxOK(first, state.timer, state.keepalive, active)
    <2> HIDE DEF data, box
    <2> QED
        BY <1>1, <1>4, AppendWaiting, MailboxPosted
<1>6. active \in Nat /\ active # 0 /\ active' = active - 1 /\ active <= ActiveN
    BY <1>1 DEF StateOK
<1>7. active' \in 0..ActiveN
    BY <1>6, Bounds
<1> HIDE DEF data
<1>8. /\ state' \in States /\ state'.mailbox \in Seq(Mail) /\ state'.timer = state.timer
      /\ state'.keepalive = state.keepalive
      /\ MailboxOK(state'.mailbox, state.timer, state.keepalive, active')
    <2>1. CASE active = 1
        <3>1. /\ both \in Seq(Mail)
              /\ MailboxOK(both, state.timer, state.keepalive, 0)
            <4> HIDE DEF first
            <4> QED
                BY <1>1, <1>5, <1>6, MessageMail, AppendWaiting, MailboxPassive
        <3>2. box \o <<Tcp(data)>> \o <<Message("tcp_passive")>> = both
            <4> HIDE DEF box, Mail
            <4>1. Message("tcp_passive") \in Mail
                BY MessageMail
            <4> QED
                BY <1>1, <1>4, <4>1 DEF box
        <3>3. state' = [state EXCEPT !.mailbox = both]
            BY <2>1, <3>2 DEF data
        <3>4. active' = 0
            BY <1>6, <2>1
        <3> HIDE DEF both, Arrive
        <3> QED
            BY <1>1, <3>1, <3>3, <3>4, MailChanged
    <2>2. CASE active # 1
        <3>1. active' # 0
            BY <1>6, <2>2
        <3>2. MailboxOK(first, state.timer, state.keepalive, active')
            <4> HIDE DEF first
            <4> QED
                BY <1>5, <1>6, <3>1 DEF MailboxOK
        <3>3. box \o <<Tcp(data)>> \o <<>> = first
            <4> HIDE DEF box, Mail
            <4> QED
                BY <1>1, <1>4 DEF box
        <3>4. state' = [state EXCEPT !.mailbox = first]
            BY <2>2, <3>3 DEF data
        <3> HIDE DEF first, Arrive
        <3> QED
            BY <1>1, <1>5, <3>2, <3>4, MailChanged
    <2> QED
        BY <2>1, <2>2
<1>9. StateOK'
    BY <1>1, <1>2, <1>7, <1>8 DEF StateOK
<1> QED
    BY <1>1, <1>8, <1>9 DEF TimersInv

\* The peer closes.
LEMMA TimersPeerCloses ==
    ASSUME TimersInv, PeerCloses
    PROVE  TimersInv'
<1> USE DEF PeerCloses, Post
<1> DEFINE box == Append(state.mailbox, Message("tcp_closed"))
<1>1. /\ StateOK /\ status = "open" /\ state \in States /\ state.mailbox \in Seq(Mail)
      /\ state.timer.kind \in Expiries /\ active # 0
      /\ MailboxOK(state.mailbox, state.timer, state.keepalive, active)
    BY StateFields DEF TimersInv, StateOK
<1>2. box \in Seq(Mail) /\ MailboxOK(box, state.timer, state.keepalive, 0)
    BY <1>1, MessageMail, AppendWaiting, MailboxPassive
<1>3. state' = [state EXCEPT !.mailbox = box]
    OBVIOUS
<1> HIDE DEF box
<1>4. /\ state' \in States /\ state'.timer = state.timer /\ state'.mailbox = box
      /\ state'.keepalive = state.keepalive
    <2> HIDE DEF PeerCloses, Post
    <2> QED
        BY <1>1, <1>2, <1>3, MailChanged
<1>5. StateOK'
    BY <1>1, <1>4, Bounds DEF StateOK
<1> QED
    BY <1>1, <1>2, <1>4, <1>5 DEF TimersInv

\* The transport sends or force-closes, also before the connection is activated.
LEMMA TimersFromTransport ==
    ASSUME TimersInv, NEW type \in {"send", "force_close"}, FromTransport(type)
    PROVE  TimersInv'
<1> USE DEF FromTransport, Post
<1> DEFINE m == Message(type)
           box == Append(state.mailbox, m)
<1>1. StateOK /\ status # "stopped" /\ state \in States /\ state.mailbox \in Seq(Mail)
    BY StateFields DEF TimersInv, StateOK
<1>2. m \in Mail /\ m.type = type /\ m.data = <<>>
    BY MessageMail
<1>3. state' = [state EXCEPT !.mailbox = box]
    OBVIOUS
<1> HIDE DEF m
<1>4. box \in Seq(Mail) /\ box # <<>>
    BY <1>1, <1>2, AppendWaiting
<1>5. ASSUME status = "open"
      PROVE  /\ state.timer.kind \in Expiries
             /\ MailboxOK(box, state.timer, state.keepalive, active)
    <2>1. /\ state.timer.kind \in Expiries
          /\ MailboxOK(state.mailbox, state.timer, state.keepalive, active)
        BY <1>5 DEF TimersInv
    <2> QED
        BY <1>1, <1>2, <2>1, MailboxPosted
<1>6. ASSUME status = "new" PROVE NewMailboxOK(box)
    <2>1. NewMailboxOK(state.mailbox)
        BY <1>6 DEF TimersInv
    <2> DEFINE others == MessageTypes \ {"activate", "send", "force_close"}
    <2>2. m.type \notin {"activate"} /\ m.type \notin others
        BY <1>2
    <2>3. /\ SameWaiting(state.mailbox, box, {"activate"})
          /\ SameWaiting(state.mailbox, box, others)
        <3> HIDE DEF others
        <3> QED
            BY <1>1, <1>2, <2>2, AppendWaiting
    <2>4. Single(box, {"activate"}, Message("activate")) /\ Absent(box, others)
        BY <2>1, <2>3, MessageMail DEF NewMailboxOK, SameWaiting
    <2>5. DataInSegments(box) /\ box[1] = state.mailbox[1]
        BY <1>1, <1>2, <2>1, AppendWaiting DEF NewMailboxOK
    <2> HIDE DEF box
    <2> QED
        BY <1>4, <2>1, <2>4, <2>5 DEF NewMailboxOK
<1> HIDE DEF box
<1>7. /\ state' \in States /\ state'.timer = state.timer /\ state'.mailbox = box
      /\ state'.keepalive = state.keepalive
    <2> HIDE DEF FromTransport, Post
    <2> QED
        BY <1>1, <1>3, <1>4, MailChanged, ZenonT(30)
<1>8. StateOK'
    BY <1>1, <1>7 DEF StateOK
<1> QED
    BY <1>5, <1>6, <1>7, <1>8 DEF TimersInv
\* The timer expires.
LEMMA TimersFireTimer ==
    ASSUME TimersInv, FireTimer
    PROVE  TimersInv'
<1> DEFINE m == Message(state.timer.kind)
           box == Append(state.mailbox, m)
           late == [kind |-> state.timer.kind, left |-> Off]
<1>1. /\ StateOK /\ status = "open" /\ state \in States /\ state.mailbox \in Seq(Mail)
      /\ state.timer.kind \in Expiries /\ state.timer.left = 0
      /\ MailboxOK(state.mailbox, state.timer, state.keepalive, active)
    BY StateFields DEF TimersInv, StateOK, FireTimer
<1>2. m \in Mail
    BY <1>1, MessageMail
<1>3. state.timer.left # Off
    BY <1>1 DEF Off
<1>4. late.kind = state.timer.kind /\ late.left = Off
    OBVIOUS
<1>5. /\ box \in Seq(Mail) /\ MailboxOK(box, late, state.keepalive, active)
    <2> HIDE DEF late
    <2>1. box \in Seq(Mail)
        <3> HIDE DEF m
        <3> QED
            BY <1>1, <1>2, AppendWaiting
    <2> QED
        BY <1>1, <1>3, <1>4, <2>1, MailboxExpired
<1>6. /\ state'.mailbox = box /\ state'.timer = late /\ state' \in States
      /\ state'.keepalive = state.keepalive
    <2>3. [state.timer EXCEPT !.left = Off] = late
        BY <1>1 DEF States
    <2>1. state' = [state EXCEPT !.timer = late, !.mailbox = box]
        <3> HIDE DEF late
        <3> QED
            BY <2>3 DEF FireTimer
    <2>2. late \in [kind : Expiries \cup {"none"}, left : Nat \cup {Off}]
        BY <1>1
    <2> HIDE DEF late, box
    <2> QED
        BY <1>1, <1>5, <2>1, <2>2 DEF States
<1>7. StateOK'
    BY <1>1, <1>6 DEF StateOK, FireTimer
<1> QED
    BY <1>1, <1>4, <1>5, <1>6, <1>7 DEF TimersInv, FireTimer

\* The keep-alive falls due.
LEMMA TimersFireKeepalive ==
    ASSUME TimersInv, FireKeepalive
    PROVE  TimersInv'
<1> DEFINE box == Append(state.mailbox, Message("keepalive"))
<1>1. /\ StateOK /\ status = "open" /\ state \in States /\ state.mailbox \in Seq(Mail)
      /\ state.timer.kind \in Expiries /\ state.keepalive = 0
      /\ MailboxOK(state.mailbox, state.timer, state.keepalive, active)
    BY StateFields DEF TimersInv, StateOK, FireKeepalive
<1>2. state.keepalive # Off
    BY <1>1 DEF Off
<1>3. box \in Seq(Mail)
    BY <1>1, MessageMail, AppendWaiting
<1>4. MailboxOK(box, state.timer, Off, active)
    BY <1>1, <1>2, MailboxKeepaliveDue
<1> HIDE DEF box
<1>5. /\ state'.mailbox = box /\ state'.timer = state.timer /\ state' \in States
      /\ state'.keepalive = Off
    <2>1. state' = [state EXCEPT !.keepalive = Off, !.mailbox = box]
        BY DEF FireKeepalive, box
    <2> QED
        BY <1>1, <1>3, <2>1 DEF States
<1>6. StateOK'
    BY <1>1, <1>5 DEF StateOK, FireKeepalive
<1> QED
    BY <1>1, <1>4, <1>5, <1>6 DEF TimersInv, FireKeepalive

\* Time passes: what is left of the message timer shrinks as the header's age grows.
LEMMA TimersTick ==
    ASSUME TimersInv, Tick
    PROVE  TimersInv'
<1> DEFINE left == Elapse(state.timer.left)
           due == Elapse(state.keepalive)
           timer == [kind |-> state.timer.kind, left |-> left]
<1>1. /\ StateOK /\ status = "open" /\ state \in States /\ state.mailbox \in Seq(Mail)
      /\ state.timer.kind \in Expiries
      /\ MailboxOK(state.mailbox, state.timer, state.keepalive, active)
      /\ state.timer.left \in Nat \cup {Off} /\ state.keepalive \in Nat \cup {Off}
      /\ state.timer.left # 0 /\ state.keepalive # 0 /\ reading \in Nat
    BY StateFields DEF TimersInv, StateOK, Tick
<1>2. /\ left \in Nat \cup {Off} /\ due \in Nat \cup {Off}
      /\ left = Off <=> state.timer.left = Off
      /\ due = Off <=> state.keepalive = Off
      /\ left # Off => left = state.timer.left - 1 /\ state.timer.left \in Nat
    BY <1>1 DEF Off, Elapse
<1> HIDE DEF left, due
<1>3. /\ state'.mailbox = state.mailbox /\ state'.timer = timer
      /\ state'.keepalive = due /\ state' \in States
    <2>1. state' = [state EXCEPT !.timer = timer, !.keepalive = due]
        BY DEF Tick, left, due
    <2>2. timer \in [kind : Expiries \cup {"none"}, left : Nat \cup {Off}]
        BY <1>1, <1>2
    <2> HIDE DEF timer
    <2> QED
        BY <1>1, <1>2, <2>1, <2>2 DEF States
<1>4. timer.kind = state.timer.kind /\ timer.left = left
    OBVIOUS
<1> HIDE DEF timer
<1>5. MailboxOK(state.mailbox, timer, due, active)
    BY <1>1, <1>2, <1>4 DEF MailboxOK
<1>6. reading' \in Nat /\ reading' <= reading + 1
    BY <1>1, Bounds DEF Tick
<1>7. StateOK'
    BY <1>1, <1>3, <1>6 DEF StateOK, Tick
<1>8. ASSUME timer.kind = "message_timeout", left # Off
      PROVE  reading' + left <= MessageTimeout
    <2>1. reading + state.timer.left <= MessageTimeout
        BY <1>2, <1>4, <1>8 DEF TimersInv
    <2>2. left \in Nat /\ left = state.timer.left - 1 /\ state.timer.left \in Nat
          /\ MessageTimeout \in Nat /\ reading' \in Nat /\ reading' <= reading + 1
          /\ reading \in Nat
        BY <1>1, <1>2, <1>6, <1>8, Bounds
    <2> QED
        BY <2>1, <2>2
<1> QED
    BY <1>1, <1>3, <1>4, <1>5, <1>7, <1>8 DEF TimersInv, Tick

\* The process stops: it waits for nothing any more.
LEMMA TimersStop ==
    ASSUME TimersInv, ~parsing, Stop
    PROVE  TimersInv'
<1>1. StateOK /\ state \in States
    BY DEF TimersInv, StateOK
<1>2. NoTimer \in [kind : Expiries \cup {"none"}, left : Nat \cup {Off}]
      /\ NoTimer.left = Off /\ Off \in Nat \cup {Off} /\ <<>> \in Seq(Mail)
    BY DEF NoTimer
<1> DEFINE none == NoTimer
           off == Off
<1> HIDE DEF none, off
<1>3. state' = [state EXCEPT !.mailbox = <<>>, !.timer = none, !.keepalive = off]
    BY DEF Stop, none, off
<1>4. state' \in States /\ state'.timer = none
    <2>1. none \in [kind : Expiries \cup {"none"}, left : Nat \cup {Off}]
          /\ off \in Nat \cup {Off} /\ <<>> \in Seq(Mail)
        BY <1>2 DEF none, off
    <2> HIDE DEF Stop
    <2> QED
        BY <1>1, <1>3, <2>1 DEF States
<1>5. StateOK'
    BY <1>1, <1>4, Bounds DEF StateOK, Stop
<1> QED
    BY <1>2, <1>4, <1>5 DEF TimersInv, Stop, none
\* A callback takes the first message; only :activate is first in a new connection.
LEMMA Taken ==
    ASSUME TimersInv, NEW type, Gets(type)
    PROVE  /\ StateOK /\ state \in States /\ ~parsing
           /\ state.mailbox \in Seq(Mail) /\ state.mailbox # <<>>
           /\ Head(state.mailbox).type = type
           /\ Tail(state.mailbox) \in Seq(Mail)
           /\ Received \in States /\ Received.mailbox = Tail(state.mailbox)
           /\ Received.timer = state.timer /\ Received.keepalive = state.keepalive
           /\ SameParser(state, Received)
           /\ type = "activate" => status = "new"
           /\ type # "activate" =>
                /\ status = "open" /\ state.timer.kind \in Expiries
                /\ MailboxOK(state.mailbox, state.timer, state.keepalive, active)
<1>1. /\ StateOK /\ state \in States /\ ~parsing /\ status \in {"new", "open"}
      /\ state.mailbox \in Seq(Mail) /\ state.mailbox # <<>>
      /\ Head(state.mailbox).type = type
    BY StateFields DEF TimersInv, StateOK, Gets
<1>2. /\ Without(state.mailbox, Tail(state.mailbox), 1)
      /\ state.mailbox[1].type = type /\ Tail(state.mailbox) \in Seq(Mail)
      /\ 1 \in 1..Len(state.mailbox)
    BY <1>1, TailWithout DEF Without
<1>3. /\ Received \in States /\ Received.mailbox = Tail(state.mailbox)
      /\ Received.timer = state.timer /\ Received.keepalive = state.keepalive
      /\ SameParser(state, Received)
    BY <1>1, <1>2, MailChanged, ZenonT(30) DEF Received
<1>4. type = "activate" => status = "new"
    BY <1>1, <1>2 DEF TimersInv, MailboxOK, Absent
<1>5. type # "activate" =>
        /\ status = "open" /\ state.timer.kind \in Expiries
        /\ MailboxOK(state.mailbox, state.timer, state.keepalive, active)
    BY <1>1, <1>2 DEF TimersInv, NewMailboxOK
<1> QED
    BY <1>1, <1>2, <1>3, <1>4, <1>5

\* The mailbox of a connection just activated.
LEMMA Activated ==
    ASSUME NEW box \in Seq(Mail), NewMailboxOK(box), NEW timer, NEW act,
           timer.left # Off, act # 0
    PROVE  /\ \A keepalive : keepalive # Off => MailboxOK(Tail(box), timer, keepalive, act)
           /\ Absent(Tail(box), {"keepalive"})
           /\ KeepaliveInterval = 0 => MailboxOK(Tail(box), timer, Off, act)
<1> DEFINE rest == Tail(box)
           others == MessageTypes \ {"activate", "send", "force_close"}
<1>1. Without(box, rest, 1) /\ box[1].type \in {"activate"}
    BY TailWithout DEF NewMailboxOK
<1>2. Absent(box, others) /\ Single(box, {"activate"}, Message("activate"))
      /\ DataInSegments(box)
    BY DEF NewMailboxOK
<1> HIDE DEF rest
<1>3. Absent(rest, others) /\ Absent(rest, {"activate"}) /\ DataInSegments(rest)
    <2> HIDE DEF others
    <2> QED
        BY <1>1, <1>2, WithoutWaiting
<1>4. /\ Expiries \subseteq others /\ {"keepalive"} \subseteq others
      /\ {"tcp_passive"} \subseteq others
    BY DEF MessageTypes, Expiries
<1>5. /\ Absent(rest, Expiries) /\ Absent(rest, {"keepalive"})
      /\ Absent(rest, {"tcp_passive"})
    <2> HIDE DEF others
    <2> QED
        BY <1>3, <1>4 DEF Absent
<1>6. ASSUME NEW keepalive, keepalive # Off PROVE MailboxOK(rest, timer, keepalive, act)
    BY <1>3, <1>5, <1>6 DEF MailboxOK
<1>7. KeepaliveInterval = 0 => ~(KeepaliveInterval > 0)
    BY Bounds
<1>8. KeepaliveInterval = 0 => MailboxOK(rest, timer, Off, act)
    BY <1>3, <1>5, <1>7 DEF MailboxOK
<1> QED
    BY <1>5, <1>6, <1>8 DEF rest

\* schedule_keepalive/1, when no message of an earlier keep-alive is waiting.
LEMMA Rescheduled ==
    ASSUME NEW s \in States, KeepaliveInterval > 0 => Absent(s.mailbox, {"keepalive"})
    PROVE  /\ ScheduleKeepalive(s) \in States
           /\ ScheduleKeepalive(s).mailbox = s.mailbox
           /\ ScheduleKeepalive(s).timer = s.timer
           /\ SameParser(s, ScheduleKeepalive(s))
           /\ ScheduleKeepalive(s).keepalive
                = IF KeepaliveInterval = 0 THEN s.keepalive ELSE KeepaliveInterval
<1>1. CASE KeepaliveInterval = 0
    BY <1>1 DEF ScheduleKeepalive, SameParser
<1>2. CASE KeepaliveInterval # 0
    <2>1. KeepaliveInterval > 0 /\ KeepaliveInterval \in Nat
        BY <1>2, Bounds
    <2>2. s.mailbox \in Seq(Mail)
        BY StateFields
    <2>3. RemoveFirstMatch(s.mailbox, IsKeepalive) = s.mailbox
        BY <2>1, <2>2, KeepaliveRemoved
    <2>4. ScheduleKeepalive(s) = [s EXCEPT !.keepalive = KeepaliveInterval]
        BY <1>2, <2>3 DEF ScheduleKeepalive, States
    <2> QED
        BY <1>2, <2>1, <2>4 DEF States, SameParser
<1> QED
    BY <1>1, <1>2

\* The connection is activated.
LEMMA TimersActivate ==
    ASSUME TimersInv, Activate
    PROVE  TimersInv'
<1>1. Gets("activate")
    BY DEF Activate
<1>2. /\ StateOK /\ Received \in States /\ Received.mailbox = Tail(state.mailbox)
      /\ Received.timer = state.timer /\ Received.keepalive = state.keepalive
      /\ status = "new" /\ state.mailbox \in Seq(Mail)
    BY <1>1, Taken
<1>3. state.timer = NoTimer /\ state.keepalive = Off /\ NewMailboxOK(state.mailbox)
    BY <1>2 DEF TimersInv
<1> DEFINE s == SetIdleTimer(Received)
           t == ScheduleKeepalive(s)
           idle == [kind |-> "idle_timeout", left |-> IdleTimeout]
<1>4. /\ s \in States /\ s.mailbox = Tail(state.mailbox) /\ s.timer = idle
      /\ s.keepalive = Off
    BY <1>2, <1>3, TimerSet
<1>5. idle.left # Off /\ idle.kind \in Expiries /\ idle.kind # "message_timeout"
    BY Bounds DEF Off, Expiries
<1> HIDE DEF s, idle
<1>6. /\ \A k : k # Off => MailboxOK(s.mailbox, idle, k, ActiveN)
      /\ Absent(s.mailbox, {"keepalive"})
      /\ KeepaliveInterval = 0 => MailboxOK(s.mailbox, idle, Off, ActiveN)
    <2>1. ActiveN # 0
        BY Bounds
    <2> DEFINE box == Tail(state.mailbox)
    <2>2. /\ \A k : k # Off => MailboxOK(box, idle, k, ActiveN)
          /\ Absent(box, {"keepalive"})
          /\ KeepaliveInterval = 0 => MailboxOK(box, idle, Off, ActiveN)
        BY <1>2, <1>3, <1>5, <2>1, Activated
    <2>3. s.mailbox = box
        BY <1>4
    <2> HIDE DEF box
    <2> QED
        BY <2>2, <2>3
<1>7. /\ t \in States /\ t.mailbox = s.mailbox /\ t.timer = idle
      /\ t.keepalive = IF KeepaliveInterval = 0 THEN Off ELSE KeepaliveInterval
    BY <1>4, <1>6, Rescheduled
<1> HIDE DEF t
<1>8. MailboxOK(t.mailbox, t.timer, t.keepalive, ActiveN)
    <2>1. KeepaliveInterval # Off
        BY Bounds DEF Off
    <2> QED
        BY <1>6, <1>7, <2>1
<1>9. state' = t /\ status' = "open" /\ active' = ActiveN /\ parsing' = parsing
    BY DEF Activate, s, t
<1>10. StateOK'
    <2>1. ActiveN \in 0..ActiveN
        BY Bounds
    <2> QED
        BY <1>2, <1>7, <1>9, <2>1 DEF StateOK, Activate
<1> QED
    BY <1>5, <1>7, <1>8, <1>9, <1>10 DEF TimersInv

\* A segment is taken from the mailbox, and parse/1 begins.
LEMMA TimersHandleData ==
    ASSUME TimersInv, HandleData
    PROVE  TimersInv'
<1>1. Gets("tcp")
    BY DEF HandleData
<1>2. /\ StateOK /\ state \in States /\ state.mailbox \in Seq(Mail) /\ state.mailbox # <<>>
      /\ Head(state.mailbox).type = "tcp" /\ Received \in States
      /\ Received.mailbox = Tail(state.mailbox)
      /\ Received.timer = state.timer /\ Received.keepalive = state.keepalive
      /\ status = "open" /\ state.timer.kind \in Expiries
      /\ MailboxOK(state.mailbox, state.timer, state.keepalive, active)
    BY <1>1, Taken
<1>3. MailboxOK(Tail(state.mailbox), state.timer, state.keepalive, active)
    BY <1>2, MailboxTaken
<1> DEFINE data == Head(state.mailbox).data
           buffer == Received.buffer \o data
<1>4. data \in Seq(Bytes)
    BY <1>2, TailWithout DEF Mail
<1>5. buffer \in Seq(Bytes)
    <2>1. Received.buffer \in Seq(Bytes)
        BY <1>2, StateFields
    <2> HIDE DEF data
    <2> QED
        BY <1>4, <2>1
<1>6. state' = [Received EXCEPT !.buffer = buffer]
    BY DEF HandleData
<1> HIDE DEF buffer
<1>7. /\ state' \in States /\ state'.mailbox = Tail(state.mailbox)
      /\ state'.timer = state.timer /\ state'.keepalive = state.keepalive
    BY <1>2, <1>5, <1>6 DEF States
<1>8. StateOK'
    BY <1>2, <1>7 DEF StateOK, HandleData
<1> QED
    BY <1>2, <1>3, <1>7, <1>8 DEF TimersInv, HandleData

\* A passive socket is re-armed.
LEMMA TimersHandlePassive ==
    ASSUME TimersInv, HandlePassive
    PROVE  TimersInv'
<1>1. Gets("tcp_passive")
    BY DEF HandlePassive
<1>2. /\ StateOK /\ state.mailbox \in Seq(Mail) /\ state.mailbox # <<>>
      /\ Head(state.mailbox).type = "tcp_passive" /\ Received \in States
      /\ Received.mailbox = Tail(state.mailbox)
      /\ Received.timer = state.timer /\ Received.keepalive = state.keepalive
      /\ status = "open" /\ state.timer.kind \in Expiries
      /\ MailboxOK(state.mailbox, state.timer, state.keepalive, active)
    BY <1>1, Taken
<1>3. /\ active = 0
      /\ \A more : more # 0 =>
           MailboxOK(Tail(state.mailbox), state.timer, state.keepalive, more)
    BY <1>2, MailboxRearmed
<1>4. active' = ActiveN /\ ActiveN # 0 /\ ActiveN \in 0..ActiveN
    BY <1>3, Bounds DEF HandlePassive
<1>5. StateOK'
    BY <1>2, <1>4 DEF StateOK, HandlePassive
<1> QED
    BY <1>2, <1>3, <1>4, <1>5 DEF TimersInv, HandlePassive

\* A send renews the idle timer, or finds the socket closed.
LEMMA TimersHandleCallSend ==
    ASSUME TimersInv, HandleCallSend
    PROVE  TimersInv'
<1>1. Gets("send")
    BY DEF HandleCallSend
<1>2. /\ StateOK /\ ~parsing /\ state.mailbox \in Seq(Mail) /\ state.mailbox # <<>>
      /\ Head(state.mailbox).type = "send" /\ Received \in States
      /\ Received.mailbox = Tail(state.mailbox)
      /\ Received.timer = state.timer /\ Received.keepalive = state.keepalive
      /\ status = "open" /\ state.timer.kind \in Expiries
      /\ MailboxOK(state.mailbox, state.timer, state.keepalive, active)
    BY <1>1, Taken
<1>3. CASE Stop
    BY <1>2, <1>3, TimersStop
<1>4. CASE /\ state' = SetIdleTimer(Received)
           /\ UNCHANGED <<status, parsing, active, stream, taken, unsent,
                          intended, delivered, reading>>
    <2>1. MailboxOK(Received.mailbox, Received.timer, Received.keepalive, active)
        BY <1>2, MailboxTaken
    <2>2. /\ SetIdleTimer(Received) \in States
          /\ SetIdleTimer(Received).timer = [kind |-> "idle_timeout", left |-> IdleTimeout]
          /\ MailboxOK(SetIdleTimer(Received).mailbox, SetIdleTimer(Received).timer,
                       SetIdleTimer(Received).keepalive, active)
        BY <1>2, <2>1, TimerRenewed
    <2>3. state'.timer.kind = "idle_timeout" /\ "idle_timeout" \in Expiries
        BY <1>4, <2>2 DEF Expiries
    <2>4. StateOK'
        BY <1>2, <1>4, <2>2 DEF StateOK
    <2> QED
        BY <1>2, <1>4, <2>2, <2>3, <2>4 DEF TimersInv
<1> QED
    BY <1>3, <1>4 DEF HandleCallSend

\* A keep-alive is sent and the next one scheduled, or the socket is closed.
LEMMA TimersHandleKeepalive ==
    ASSUME TimersInv, HandleKeepalive
    PROVE  TimersInv'
<1>1. Gets("keepalive")
    BY DEF HandleKeepalive
<1>2. /\ StateOK /\ ~parsing /\ state.mailbox \in Seq(Mail) /\ state.mailbox # <<>>
      /\ Head(state.mailbox).type = "keepalive" /\ Received \in States
      /\ Received.mailbox = Tail(state.mailbox)
      /\ Received.timer = state.timer /\ Received.keepalive = state.keepalive
      /\ status = "open" /\ state.timer.kind \in Expiries
      /\ MailboxOK(state.mailbox, state.timer, state.keepalive, active)
    BY <1>1, Taken
<1>3. CASE Stop
    BY <1>2, <1>3, TimersStop
<1>4. CASE /\ state' = ScheduleKeepalive(Received)
           /\ UNCHANGED <<status, parsing, active, stream, taken, unsent,
                          intended, delivered, reading>>
    <2>1. /\ KeepaliveInterval = 0 =>
               MailboxOK(Tail(state.mailbox), state.timer, state.keepalive, active)
          /\ KeepaliveInterval > 0 =>
               /\ Absent(Tail(state.mailbox), {"keepalive"})
               /\ \A later : later # Off =>
                    MailboxOK(Tail(state.mailbox), state.timer, later, active)
        BY <1>2, MailboxPinged
    <2>2. /\ state' \in States /\ state'.mailbox = Tail(state.mailbox)
          /\ state'.timer = state.timer
          /\ state'.keepalive
               = IF KeepaliveInterval = 0 THEN state.keepalive ELSE KeepaliveInterval
        BY <1>2, <1>4, <2>1, Rescheduled
    <2>3. KeepaliveInterval # 0 => KeepaliveInterval > 0 /\ KeepaliveInterval # Off
        BY Bounds DEF Off
    <2>4. MailboxOK(state'.mailbox, state'.timer, state'.keepalive, active)
        BY <2>1, <2>2, <2>3
    <2>5. StateOK'
        BY <1>2, <1>4, <2>2 DEF StateOK
    <2> QED
        BY <1>2, <1>4, <2>2, <2>4, <2>5 DEF TimersInv
<1> QED
    BY <1>3, <1>4 DEF HandleKeepalive
\* A timeout, a closed socket or :force_close stops the process.
LEMMA TimersHandleStop ==
    ASSUME TimersInv, HandleStop
    PROVE  TimersInv'
<1>1. ~parsing /\ Stop
    BY DEF HandleStop, Gets
<1> QED
    BY <1>1, TimersStop

\* Inside parse/1 the connection is open.
LEMMA WhileParsing ==
    ASSUME TimersInv, parsing
    PROVE  /\ StateOK /\ status = "open" /\ state \in States
           /\ state.mailbox \in Seq(Mail) /\ state.timer.kind \in Expiries
           /\ MailboxOK(state.mailbox, state.timer, state.keepalive, active)
BY StateFields DEF TimersInv, StateOK

\* An empty buffer: the idle timer is set.
LEMMA TimersParseEmpty ==
    ASSUME TimersInv, ParseEmpty
    PROVE  TimersInv'
<1>1. parsing /\ state' = SetIdleTimer(state)
    BY DEF ParseEmpty, Parses
<1>2. /\ StateOK /\ status = "open" /\ state \in States /\ state.timer.kind \in Expiries
      /\ MailboxOK(state.mailbox, state.timer, state.keepalive, active)
    BY <1>1, WhileParsing
<1>3. /\ state' \in States
      /\ state'.timer = [kind |-> "idle_timeout", left |-> IdleTimeout]
      /\ MailboxOK(state'.mailbox, state'.timer, state'.keepalive, active)
    BY <1>1, <1>2, TimerRenewed
<1>4. state'.timer.kind = "idle_timeout" /\ "idle_timeout" \in Expiries
    BY <1>3 DEF Expiries
<1>5. StateOK'
    BY <1>2, <1>3 DEF StateOK, ParseEmpty
<1> QED
    BY <1>2, <1>3, <1>4, <1>5 DEF TimersInv, ParseEmpty

\* A header begins: the message timer is set, and its age is zero.
LEMMA TimersParseBegin ==
    ASSUME TimersInv, ParseBegin
    PROVE  TimersInv'
<1> DEFINE s == [state EXCEPT !.parse_state = "read_header"]
<1>1. parsing /\ state' = SetMessageTimer(s) /\ reading' = 0
    BY DEF ParseBegin, Parses
<1>2. /\ StateOK /\ status = "open" /\ state \in States /\ state.timer.kind \in Expiries
      /\ MailboxOK(state.mailbox, state.timer, state.keepalive, active)
    BY <1>1, WhileParsing
<1>3. /\ s \in States /\ s.timer = state.timer /\ s.mailbox = state.mailbox
      /\ s.keepalive = state.keepalive
    BY <1>2 DEF States
<1> HIDE DEF s
<1>4. /\ state' \in States
      /\ state'.timer = [kind |-> "message_timeout", left |-> MessageTimeout]
      /\ MailboxOK(state'.mailbox, state'.timer, state'.keepalive, active)
    BY <1>1, <1>2, <1>3, TimerRenewed
<1>5. /\ state'.timer.kind = "message_timeout" /\ "message_timeout" \in Expiries
      /\ state'.timer.left = MessageTimeout
    BY <1>4 DEF Expiries
<1>6. 0 + MessageTimeout <= MessageTimeout /\ 0 \in Nat
    BY Bounds
<1>7. StateOK'
    BY <1>1, <1>2, <1>4, <1>6 DEF StateOK, ParseBegin
<1> QED
    BY <1>1, <1>2, <1>4, <1>5, <1>6, <1>7 DEF TimersInv, ParseBegin

\* The other clauses change the parser's part of the state alone.
LEMMA TimersParseOther ==
    ASSUME TimersInv, parsing, state' \in States, state'.mailbox = state.mailbox,
           state'.timer = state.timer, state'.keepalive = state.keepalive,
           delivered' \in Seq(Seq(Bytes)), parsing' \in BOOLEAN,
           UNCHANGED <<status, active, stream, taken, unsent, intended, reading>>
    PROVE  TimersInv'
<1>1. /\ StateOK /\ status = "open"
    BY WhileParsing
<1>2. StateOK'
    BY <1>1 DEF StateOK
<1> QED
    BY <1>1, <1>2 DEF TimersInv

\* A line end is stripped.
LEMMA TimersParseLineEnd ==
    ASSUME TimersInv, ParseLineEnd
    PROVE  TimersInv'
<1> DEFINE k == LeadingLineEnd(state.buffer)
           rest == SubSeq(state.buffer, k + 1, Len(state.buffer))
<1>1. /\ parsing /\ parsing' = parsing /\ delivered' = delivered
      /\ state' = [state EXCEPT !.buffer = rest] /\ k # 0
      /\ UNCHANGED <<status, active, stream, taken, unsent, intended, reading>>
    BY DEF ParseLineEnd, Parses
<1>2. StateOK /\ state \in States /\ state.buffer \in Seq(Bytes)
    BY <1>1, WhileParsing, StateFields
<1>3. k \in Nat /\ k <= Len(state.buffer) /\ Len(state.buffer) \in Nat
    BY <1>1, <1>2 DEF LeadingLineEnd
<1> HIDE DEF k
<1>4. rest \in Seq(Bytes)
    BY <1>2, <1>3, Segment
<1> HIDE DEF rest
<1>5. /\ state' \in States /\ state'.mailbox = state.mailbox
      /\ state'.timer = state.timer /\ state'.keepalive = state.keepalive
    BY <1>1, <1>2, <1>4 DEF States
<1>6. delivered' \in Seq(Seq(Bytes)) /\ parsing' \in BOOLEAN
    BY <1>1, <1>2 DEF StateOK
<1> QED
    BY <1>1, <1>5, <1>6, TimersParseOther

\* Where find_header_end/1 can end.
LEMMA HeaderEndBound ==
    ASSUME NEW b \in Seq(Bytes)
    PROVE  FindHeaderEnd(b) \in 0..Len(b)
<1>1. EndOf(Ping, b) # 0 => EndOf(Ping, b) \in 4..Len(b)
    BY PingEnd
<1>2. EndOf(<<"LF", "LF">>, b) # 0 => EndOf(<<"LF", "LF">>, b) \in 2..Len(b)
    BY BlankEnd
<1>3. Len(b) \in Nat
    OBVIOUS
<1> QED
    BY <1>1, <1>2, <1>3 DEF FindHeaderEnd

\* A content length is a number.
LEMMA ContentLengthType ==
    ASSUME NEW header \in Seq(Bytes)
    PROVE  ContentLength(header) \in Nat
<1> DEFINE I == {i \in 1..Len(header) : IsLength(header[i])}
<1>1. SelectInSeq(header, IsLength) = IF I # {} THEN Min(I) ELSE 0
    BY DEF SelectInSeq
<1>2. I # {} => Min(I) \in I
    <2>1. I \subseteq Nat
        OBVIOUS
    <2> HIDE DEF I
    <2> QED
        BY <2>1, LeastElement
<1>3. I # {} => header[Min(I)] \in DOMAIN Lengths
    BY <1>2 DEF IsLength
<1>4. \A b \in DOMAIN Lengths : Lengths[b] \in Nat
    BY ConnectionAssumption
<1> QED
    BY <1>1, <1>3, <1>4 DEF ContentLength

\* The header is cut off, or it is not complete.
LEMMA TimersParseHeader ==
    ASSUME TimersInv, ParseHeader
    PROVE  TimersInv'
<1> DEFINE end == FindHeaderEnd(state.buffer)
           header == SubSeq(state.buffer, 1, end)
           rest == SubSeq(state.buffer, end + 1, Len(state.buffer))
           clen == ContentLength(header)
<1>1. /\ parsing /\ delivered' = delivered
      /\ UNCHANGED <<status, active, stream, taken, unsent, intended, reading>>
    BY DEF ParseHeader, Parses
<1>2. StateOK /\ state \in States /\ state.buffer \in Seq(Bytes)
    BY <1>1, WhileParsing, StateFields
<1>3. delivered' \in Seq(Seq(Bytes))
    BY <1>1, <1>2 DEF StateOK
<1>4. CASE end = 0 /\ parsing' = FALSE /\ UNCHANGED state
    BY <1>1, <1>2, <1>3, <1>4, TimersParseOther
<1>5. CASE /\ end # 0
           /\ state' = [state EXCEPT !.parse_state = "read_body", !.buffer = rest,
                                     !.header = header, !.clen = clen]
           /\ UNCHANGED parsing
    <2>1. end \in 0..Len(state.buffer) /\ Len(state.buffer) \in Nat
        BY <1>2, HeaderEndBound
    <2> HIDE DEF end
    <2>2. header \in Seq(Bytes) /\ rest \in Seq(Bytes)
        <3>1. end \in Nat /\ end <= Len(state.buffer) /\ 0 <= end /\ 0 \in Nat /\ 0 + 1 = 1
            BY <2>1
        <3>2. SubSeq(state.buffer, 0 + 1, end) \in Seq(Bytes)
            BY <1>2, <3>1, Segment
        <3>3. rest \in Seq(Bytes)
            BY <1>2, <2>1, <3>1, Segment
        <3> QED
            BY <3>1, <3>2, <3>3
    <2> HIDE DEF header, rest
    <2>3. clen \in Nat
        BY <2>2, ContentLengthType
    <2> HIDE DEF clen
    <2>4. /\ state' \in States /\ state'.mailbox = state.mailbox
          /\ state'.timer = state.timer /\ state'.keepalive = state.keepalive
        BY <1>2, <1>5, <2>2, <2>3 DEF States
    <2>5. parsing' \in BOOLEAN
        BY <1>1, <1>5
    <2> QED
        BY <1>1, <1>3, <2>4, <2>5, TimersParseOther
<1> QED
    BY <1>4, <1>5 DEF ParseHeader

\* What the router is given is a sequence of bytes.
LEMMA DeliverType ==
    ASSUME NEW messages \in Seq(Seq(Bytes)), NEW raw \in Seq(Bytes)
    PROVE  Deliver(messages, raw) \in Seq(Seq(Bytes))
<1> DEFINE N == {n \in 0..Len(raw) : LineEnds(raw, 0, n)}
           m == Max(N)
<1>1. \A n \in N : n \in Nat /\ n <= Len(raw)
    OBVIOUS
<1>2. 0 \in N
    BY DEF LineEnds
<1>3. \E x \in N : \A y \in N : x >= y
    <2> DEFINE D == {Len(raw) - n : n \in N}
    <2>1. D \subseteq Nat /\ D # {}
        BY <1>1, <1>2
    <2>2. Min(D) \in D /\ \A y \in D : Min(D) <= y
        <3> HIDE DEF D
        <3> QED
            BY <2>1, LeastElement
    <2>3. PICK x \in N : Min(D) = Len(raw) - x
        BY <2>2
    <2>4. \A y \in N : x >= y
        <3> SUFFICES ASSUME NEW y \in N PROVE x >= y
            OBVIOUS
        <3>1. Len(raw) - x <= Len(raw) - y
            BY <2>2, <2>3
        <3> HIDE DEF N, D
        <3> QED
            BY <1>1, <3>1
    <2> QED
        BY <2>4
<1>4. m \in N
    <2> HIDE DEF N
    <2> QED
        BY <1>3 DEF Max
<1>5. m \in Nat /\ m <= Len(raw) /\ Len(raw) \in Nat
    <2> HIDE DEF m
    <2> QED
        BY <1>1, <1>4
<1>6. StripLines(raw) = SubSeq(raw, m + 1, Len(raw))
    BY DEF StripLines
<1> HIDE DEF m
<1>7. StripLines(raw) \in Seq(Bytes)
    BY <1>5, <1>6, Segment
<1> QED
    BY <1>7, Appended DEF Deliver

\* The message is delivered, or its body is not complete.
LEMMA TimersParseBody ==
    ASSUME TimersInv, ParseBody
    PROVE  TimersInv'
<1> DEFINE clen == state.clen
           rest == SubSeq(state.buffer, clen + 1, Len(state.buffer))
           raw == state.header \o SubSeq(state.buffer, 1, clen)
<1>1. /\ parsing
      /\ UNCHANGED <<status, active, stream, taken, unsent, intended, reading>>
    BY DEF ParseBody, Parses
<1>2. /\ StateOK /\ state \in States /\ state.buffer \in Seq(Bytes)
      /\ state.header \in Seq(Bytes) /\ clen \in Nat
    BY <1>1, WhileParsing, StateFields
<1>3. delivered \in Seq(Seq(Bytes))
    BY <1>1, <1>2 DEF StateOK
<1>4. CASE Len(state.buffer) < clen /\ parsing' = FALSE /\ UNCHANGED <<state, delivered>>
    BY <1>1, <1>2, <1>3, <1>4, TimersParseOther
<1>5. CASE /\ Len(state.buffer) >= clen
           /\ delivered' = Deliver(delivered, raw)
           /\ state' = [state EXCEPT !.parse_state = "idle", !.buffer = rest,
                                     !.header = <<>>, !.clen = 0]
           /\ UNCHANGED parsing
    <2>1. clen <= Len(state.buffer) /\ Len(state.buffer) \in Nat
        BY <1>2, <1>5
    <2> HIDE DEF clen
    <2>2. rest \in Seq(Bytes)
        BY <1>2, <2>1, Segment
    <2>3. raw \in Seq(Bytes)
        <3>1. 0 <= clen /\ 0 \in Nat /\ 0 + 1 = 1
            BY <1>2
        <3>2. SubSeq(state.buffer, 0 + 1, clen) \in Seq(Bytes)
            BY <1>2, <2>1, <3>1, Segment
        <3>3. SubSeq(state.buffer, 1, clen) \in Seq(Bytes)
            BY <3>1, <3>2
        <3> QED
            BY <1>2, <3>3
    <2> HIDE DEF rest, raw
    <2>4. delivered' \in Seq(Seq(Bytes))
        BY <1>3, <1>5, <2>3, DeliverType
    <2>5. <<>> \in Seq(Bytes) /\ 0 \in Nat
        OBVIOUS
    <2>6. /\ state' \in States /\ state'.mailbox = state.mailbox
          /\ state'.timer = state.timer /\ state'.keepalive = state.keepalive
        BY <1>2, <1>5, <2>2, <2>5 DEF States
    <2>7. parsing' \in BOOLEAN
        BY <1>1, <1>5
    <2> QED
        BY <1>1, <2>4, <2>6, <2>7, TimersParseOther
<1> QED
    BY <1>4, <1>5 DEF ParseBody

\* Every step keeps the invariant of the timers.
LEMMA TimersStep == TimersInv /\ [ConnectionNext]_connectionVars => TimersInv'
<1> SUFFICES ASSUME TimersInv, [ConnectionNext]_connectionVars PROVE TimersInv'
    OBVIOUS
<1>1. ASSUME NEW unit \in Units, PeerWrites(unit) PROVE TimersInv'
    BY <1>1, TimersPeerWrites
<1>2. ASSUME NEW n \in 1..(Len(stream) - taken), Arrive(n) PROVE TimersInv'
    BY <1>2, TimersArrive
<1>3. CASE PeerCloses
    BY <1>3, TimersPeerCloses
<1>4. ASSUME NEW type \in {"send", "force_close"}, FromTransport(type) PROVE TimersInv'
    BY <1>4, TimersFromTransport
<1>5. CASE FireTimer
    BY <1>5, TimersFireTimer
<1>6. CASE FireKeepalive
    BY <1>6, TimersFireKeepalive
<1>7. CASE Tick
    BY <1>7, TimersTick
<1>8. CASE Handle
    BY <1>8, TimersActivate, TimersHandleData, TimersHandlePassive, TimersHandleCallSend,
       TimersHandleKeepalive, TimersHandleStop DEF Handle
<1>9. CASE Parse
    BY <1>9, TimersParseEmpty, TimersParseLineEnd, TimersParseBegin, TimersParseHeader,
       TimersParseBody DEF Parse
<1>10. CASE UNCHANGED connectionVars
    BY <1>10 DEF connectionVars, TimersInv, StateOK
<1> QED
    BY <1>1, <1>2, <1>3, <1>4, <1>5, <1>6, <1>7, <1>8, <1>9, <1>10 DEF ConnectionNext

\* The invariant of the timers, of every connection.
LEMMA TimersAlways == ConnectionSpec => []TimersInv
BY TimersInit, TimersStep, PTL DEF ConnectionSpec

\* An open connection is woken by all that it waits for and by nothing that it has
\* given up (WakesWhenDue of connection.ex): it has one timer and one keep-alive,
\* running or with one message in the mailbox, and a passive socket has the message
\* that re-arms or stops it, for every choice of units, timeouts and segments.
THEOREM ConnectionWakesWhenDue == ConnectionSpec => []WakesWhenDue
<1>1. TimersInv => WakesWhenDue
    <2> SUFFICES ASSUME TimersInv PROVE WakesWhenDue
        OBVIOUS
    <2>1. StateOK /\ state.mailbox \in Seq(Mail)
        BY StateFields DEF TimersInv, StateOK
    <2> DEFINE box == state.mailbox
    <2>2. DOMAIN box = 1..Len(box)
        BY <2>1
    <2>3. \A types : Absent(box, types) <=> Waiting(types) = {}
        BY <2>2 DEF Absent, Waiting
    <2>4. \A types, m : Single(box, types, m) /\ m.type \in types =>
            \E i \in DOMAIN box : Waiting(types) = {i} /\ box[i] = m
        <3> SUFFICES ASSUME NEW types, NEW m, Single(box, types, m), m.type \in types
                     PROVE  \E i \in DOMAIN box : Waiting(types) = {i} /\ box[i] = m
            OBVIOUS
        <3>1. PICK i \in 1..Len(box) :
                box[i] = m /\ \A j \in 1..Len(box) : box[j].type \in types => j = i
            BY DEF Single
        <3>2. Waiting(types) = {i}
            BY <2>2, <3>1 DEF Waiting
        <3> QED
            BY <2>2, <3>1, <3>2
    <2>5. ASSUME status = "open"
          PROVE  /\ state.timer.kind \in Expiries
                 /\ MailboxOK(box, state.timer, state.keepalive, active)
        BY <2>5 DEF TimersInv
    <2>6. ASSUME status = "open", state.timer.left = Off
          PROVE  \E i \in DOMAIN box :
                   Waiting(Expiries) = {i} /\ box[i] = Message(state.timer.kind)
        <3>1. Single(box, Expiries, Message(state.timer.kind))
              /\ Message(state.timer.kind).type \in Expiries
            BY <2>5, <2>6, MessageMail DEF MailboxOK
        <3> HIDE DEF box
        <3> QED
            BY <2>4, <3>1
    <2>7. ASSUME status = "open", state.timer.left # Off PROVE Waiting(Expiries) = {}
        BY <2>3, <2>5, <2>7 DEF MailboxOK
    <2>8. ASSUME status = "open", KeepaliveInterval > 0, state.keepalive = Off
          PROVE  \E i \in DOMAIN box : Waiting({"keepalive"}) = {i}
        <3>1. Single(box, {"keepalive"}, Message("keepalive"))
              /\ Message("keepalive").type \in {"keepalive"}
            BY <2>5, <2>8, MessageMail DEF MailboxOK
        <3> HIDE DEF box
        <3> QED
            BY <2>4, <3>1
    <2>9. ASSUME status = "open", KeepaliveInterval > 0, state.keepalive # Off
          PROVE  Waiting({"keepalive"}) = {}
        BY <2>3, <2>5, <2>9 DEF MailboxOK
    <2>10. OneTimer
        BY <2>6, <2>7, <2>8, <2>9 DEF OneTimer
    <2>11. NeverDeaf
        BY <2>3, <2>5 DEF NeverDeaf, MailboxOK
    <2> QED
        BY <2>1, <2>10, <2>11 DEF WakesWhenDue
<1> QED
    BY <1>1, TimersAlways, PTL

\* A header that is not read within message_timeout finds the connection stopped or
\* with the timeout in its mailbox (HeaderReadInTime; set_message_timer/1 and
\* cancel_timer/1 of connection.ex), for every message_timeout and every way the
\* segments of the header are spread over time.
THEOREM ConnectionReadsHeaderInTime == ConnectionSpec => []HeaderReadInTime
<1>1. TimersInv => HeaderReadInTime
    <2> SUFFICES ASSUME TimersInv, reading > MessageTimeout, status = "open",
                        state.timer.kind = "message_timeout"
                 PROVE  \E i \in DOMAIN state.mailbox :
                          state.mailbox[i] = Message("message_timeout")
        BY DEF HeaderReadInTime
    <2>1. /\ reading \in Nat /\ state.timer.left \in Nat \cup {Off}
          /\ state.mailbox \in Seq(Mail)
        BY StateFields DEF TimersInv, StateOK
    <2>2. state.timer.left = Off
        <3> SUFFICES ASSUME state.timer.left # Off PROVE FALSE
            OBVIOUS
        <3>1. reading + state.timer.left <= MessageTimeout
            BY DEF TimersInv
        <3>2. state.timer.left \in Nat /\ MessageTimeout \in Nat
            BY <2>1, Bounds
        <3> QED
            BY <2>1, <3>1, <3>2
    <2>3. Single(state.mailbox, Expiries, Message("message_timeout"))
        BY <2>2 DEF TimersInv, MailboxOK
    <2> QED
        BY <2>1, <2>3 DEF Single
<1> QED
    BY <1>1, TimersAlways, PTL
-----------------------------------------------------------------------------
(* The segments in the mailbox continue what the buffer holds of the stream. *)

Chain(box, s, from, to) ==
    \E off \in [0..Len(box) -> Nat] :
      /\ off[0] = from /\ off[Len(box)] = to
      /\ \A i, j \in 0..Len(box) : i <= j => off[i] <= off[j]
      /\ \A i \in 1..Len(box) : box[i].data = SubSeq(s, off[i - 1] + 1, off[i])

\* An empty segment ends where it begins.
LEMMA EmptySegment ==
    ASSUME NEW s \in Seq(Bytes), NEW a \in Nat, NEW b \in Nat, a <= b, b <= Len(s),
           SubSeq(s, a + 1, b) = <<>>
    PROVE  a = b
<1>1. Len(SubSeq(s, a + 1, b)) = b - a
    BY Segment
<1>2. Len(SubSeq(s, a + 1, b)) = 0
    OBVIOUS
<1>3. b - a = 0
    BY <1>1, <1>2, Zenon
<1> QED
    BY <1>3

\* The mailbox ends where the socket is.
LEMMA ChainBounds ==
    ASSUME NEW box \in Seq(Mail), NEW s, NEW from, NEW to, Chain(box, s, from, to)
    PROVE  from \in Nat /\ to \in Nat /\ from <= to
<1>1. Len(box) \in Nat
    BY Elements
<1>2. 0 \in 0..Len(box) /\ Len(box) \in 0..Len(box) /\ 0 <= Len(box)
    BY <1>1
<1> QED
    BY <1>2 DEF Chain

\* A message is put in the mailbox.
LEMMA ChainAppend ==
    ASSUME NEW box \in Seq(Mail), NEW s, NEW from, NEW to, Chain(box, s, from, to),
           NEW m \in Mail, NEW end \in Nat, to <= end, m.data = SubSeq(s, to + 1, end)
    PROVE  Chain(Append(box, m), s, from, end)
<1> DEFINE rest == Append(box, m)
           n == Len(box)
<1>1. n \in Nat /\ rest \in Seq(Mail) /\ Len(rest) = n + 1
      /\ (\A i \in 1..n : rest[i] = box[i]) /\ rest[n + 1] = m
    BY Appended, Elements
<1>2. PICK off \in [0..n -> Nat] :
        /\ off[0] = from /\ off[n] = to
        /\ \A i, j \in 0..n : i <= j => off[i] <= off[j]
        /\ \A i \in 1..n : box[i].data = SubSeq(s, off[i - 1] + 1, off[i])
    BY DEF Chain
<1> HIDE DEF rest, n
<1> DEFINE new == [i \in 0..(n + 1) |-> IF i <= n THEN off[i] ELSE end]
<1>3. new \in [0..(n + 1) -> Nat]
    BY <1>1, <1>2
<1>4. /\ \A i \in 0..n : new[i] = off[i]
      /\ new[n + 1] = end
    BY <1>1
<1> HIDE DEF new
<1>5. \A i \in 0..n : off[i] <= end /\ off[i] \in Nat
    <2> SUFFICES ASSUME NEW i \in 0..n PROVE off[i] <= end /\ off[i] \in Nat
        OBVIOUS
    <2>1. n \in 0..n /\ i <= n
        BY <1>1
    <2>2. off[i] <= to /\ off[i] \in Nat /\ to \in Nat
        BY <1>2, <2>1
    <2> QED
        BY <2>2
<1>6. \A i, j \in 0..(n + 1) : i <= j => new[i] <= new[j]
    <2> SUFFICES ASSUME NEW i \in 0..(n + 1), NEW j \in 0..(n + 1), i <= j
                 PROVE  new[i] <= new[j]
        OBVIOUS
    <2>1. CASE j <= n
        <3>1. i \in 0..n /\ j \in 0..n
            BY <1>1, <2>1
        <3> QED
            BY <1>2, <1>4, <3>1
    <2>2. CASE j = n + 1 /\ i <= n
        <3>1. i \in 0..n
            BY <1>1, <2>2
        <3> QED
            BY <1>4, <1>5, <2>2, <3>1
    <2>3. CASE j = n + 1 /\ i = n + 1
        BY <1>4, <2>3
    <2> QED
        BY <1>1, <2>1, <2>2, <2>3
<1>7. \A i \in 1..(n + 1) : rest[i].data = SubSeq(s, new[i - 1] + 1, new[i])
    <2> SUFFICES ASSUME NEW i \in 1..(n + 1)
                 PROVE  rest[i].data = SubSeq(s, new[i - 1] + 1, new[i])
        OBVIOUS
    <2>1. CASE i <= n
        <3>1. i \in 1..n /\ i \in 0..n /\ i - 1 \in 0..n
            BY <1>1, <2>1
        <3> QED
            BY <1>1, <1>2, <1>4, <3>1
    <2>2. CASE i = n + 1
        <3>1. i - 1 = n /\ n \in 0..n
            BY <1>1, <2>2
        <3>2. new[i - 1] = to /\ new[i] = end /\ rest[i] = m
            BY <1>1, <1>2, <1>4, <2>2, <3>1
        <3> QED
            BY <3>2
    <2> QED
        BY <1>1, <2>1, <2>2
<1>8. new[0] = from
    BY <1>1, <1>2, <1>4
<1>9. Chain(rest, s, from, end)
    BY <1>1, <1>3, <1>4, <1>6, <1>7, <1>8, ZenonT(30) DEF Chain
<1> QED
    BY <1>9 DEF rest

\* A message without data is taken out of the mailbox.
LEMMA ChainWithout ==
    ASSUME NEW box \in Seq(Mail), NEW s \in Seq(Bytes), NEW from, NEW to,
           Chain(box, s, from, to), to <= Len(s),
           NEW k, NEW rest, Without(box, rest, k), box[k].data = <<>>
    PROVE  Chain(rest, s, from, to)
<1> DEFINE n == Len(box)
<1>1. /\ n \in Nat /\ k \in 1..n /\ Len(rest) = n - 1
      /\ \A i \in 1..(n - 1) : rest[i] = IF i < k THEN box[i] ELSE box[i + 1]
    BY Elements DEF Without
<1>2. PICK off \in [0..n -> Nat] :
        /\ off[0] = from /\ off[n] = to
        /\ \A i, j \in 0..n : i <= j => off[i] <= off[j]
        /\ \A i \in 1..n : box[i].data = SubSeq(s, off[i - 1] + 1, off[i])
    BY DEF Chain
<1> HIDE DEF n
<1>3. off[k - 1] = off[k]
    <2>1. k - 1 \in 0..n /\ k \in 0..n /\ n \in 0..n /\ k - 1 <= k /\ k <= n
        BY <1>1
    <2>2. off[k - 1] \in Nat /\ off[k] \in Nat /\ off[k - 1] <= off[k] /\ off[k] <= to
        BY <1>2, <2>1
    <2>3. off[k] <= Len(s)
        <3>1. to \in Nat /\ Len(s) \in Nat
            BY <1>2, <2>1
        <3> QED
            BY <2>2, <3>1
    <2>4. SubSeq(s, off[k - 1] + 1, off[k]) = <<>>
        BY <1>1, <1>2
    <2> QED
        BY <2>2, <2>3, <2>4, EmptySegment, Zenon
<1> DEFINE new == [i \in 0..(n - 1) |-> IF i < k THEN off[i] ELSE off[i + 1]]
<1>4. new \in [0..(n - 1) -> Nat]
    <2>1. \A i \in 0..(n - 1) : i \in 0..n /\ i + 1 \in 0..n
        BY <1>1
    <2>2. \A i \in 0..(n - 1) : (IF i < k THEN off[i] ELSE off[i + 1]) \in Nat
        BY <1>2, <2>1
    <2> QED
        BY <2>2
<1>5. \A i \in 0..(n - 1) : new[i] = IF i < k THEN off[i] ELSE off[i + 1]
    OBVIOUS
<1> HIDE DEF new
<1>6. \A i, j \in 0..(n - 1) : i <= j => new[i] <= new[j]
    <2> SUFFICES ASSUME NEW i \in 0..(n - 1), NEW j \in 0..(n - 1), i <= j
                 PROVE  new[i] <= new[j]
        OBVIOUS
    <2>1. /\ i \in 0..n /\ i + 1 \in 0..n /\ j \in 0..n /\ j + 1 \in 0..n
          /\ i + 1 <= j + 1 /\ i <= j + 1 /\ (~(i < k) => ~(j < k))
        BY <1>1
    <2> QED
        BY <1>2, <1>5, <2>1
<1>7. \A i \in 1..(n - 1) : rest[i].data = SubSeq(s, new[i - 1] + 1, new[i])
    <2> SUFFICES ASSUME NEW i \in 1..(n - 1)
                 PROVE  rest[i].data = SubSeq(s, new[i - 1] + 1, new[i])
        OBVIOUS
    <2>0. i \in 0..(n - 1) /\ i - 1 \in 0..(n - 1) /\ i \in 1..n /\ i + 1 \in 1..n
          /\ (i + 1) - 1 = i /\ (i - 1) + 1 = i
        BY <1>1
    <2>1. CASE i < k
        <3>1. i - 1 < k
            BY <1>1, <2>1
        <3>2. rest[i] = box[i] /\ new[i] = off[i] /\ new[i - 1] = off[i - 1]
            BY <1>1, <1>5, <2>0, <2>1, <3>1
        <3> QED
            BY <1>2, <2>0, <3>2
    <2>2. CASE i = k
        <3>1. i - 1 < k /\ ~(i < k)
            BY <1>1, <2>2
        <3>2. rest[i] = box[i + 1] /\ new[i] = off[i + 1] /\ new[i - 1] = off[i]
            BY <1>1, <1>3, <1>5, <2>0, <2>2, <3>1
        <3>3. box[i + 1].data = SubSeq(s, off[(i + 1) - 1] + 1, off[i + 1])
            BY <1>2, <2>0
        <3> QED
            BY <2>0, <3>2, <3>3
    <2>3. CASE i > k
        <3>1. ~(i - 1 < k) /\ ~(i < k)
            BY <1>1, <2>3
        <3>2. rest[i] = box[i + 1] /\ new[i] = off[i + 1] /\ new[i - 1] = off[i]
            BY <1>1, <1>5, <2>0, <3>1
        <3>3. box[i + 1].data = SubSeq(s, off[(i + 1) - 1] + 1, off[i + 1])
            BY <1>2, <2>0
        <3> QED
            BY <2>0, <3>2, <3>3
    <2> QED
        BY <1>1, <2>1, <2>2, <2>3
<1>8. new[0] = from
    <2>1. 0 \in 0..(n - 1) /\ 0 < k
        BY <1>1
    <2> QED
        BY <1>2, <1>5, <2>1
<1>9. new[n - 1] = to
    <2>1. n - 1 \in 0..(n - 1) /\ (n - 1) + 1 = n
        BY <1>1
    <2>2. CASE n - 1 < k
        <3>1. k = n
            BY <1>1, <2>2
        <3> QED
            BY <1>2, <1>3, <1>5, <2>1, <2>2, <3>1
    <2>3. CASE ~(n - 1 < k)
        BY <1>2, <1>5, <2>1, <2>3
    <2> QED
        BY <2>2, <2>3
<1> QED
    BY <1>1, <1>4, <1>6, <1>7, <1>8, <1>9 DEF Chain

\* The first message is taken, and with it what it holds of the stream.
LEMMA ChainTail ==
    ASSUME NEW box \in Seq(Mail), box # <<>>, NEW s, NEW from, NEW to,
           Chain(box, s, from, to)
    PROVE  \E mid \in Nat : /\ from <= mid /\ mid <= to
                            /\ Head(box).data = SubSeq(s, from + 1, mid)
                            /\ Chain(Tail(box), s, mid, to)
<1> DEFINE n == Len(box)
           rest == Tail(box)
<1>1. /\ n \in Nat /\ n >= 1 /\ Len(rest) = n - 1 /\ Head(box) = box[1]
      /\ \A i \in 1..(n - 1) : rest[i] = box[i + 1]
    <2>1. Without(box, Tail(box), 1) /\ Head(box) = box[1]
        BY TailWithout
    <2>2. n \in Nat /\ 1 \in 1..n /\ Len(rest) = n - 1
        BY <2>1, Elements DEF Without
    <2>3. \A i \in 1..(n - 1) : rest[i] = IF i < 1 THEN box[i] ELSE box[i + 1]
        BY <2>1 DEF Without
    <2>4. \A i \in 1..(n - 1) : ~(i < 1)
        BY <2>2
    <2> QED
        BY <2>1, <2>2, <2>3, <2>4
<1>2. PICK off \in [0..n -> Nat] :
        /\ off[0] = from /\ off[n] = to
        /\ \A i, j \in 0..n : i <= j => off[i] <= off[j]
        /\ \A i \in 1..n : box[i].data = SubSeq(s, off[i - 1] + 1, off[i])
    BY DEF Chain
<1> HIDE DEF n, rest
<1> DEFINE new == [i \in 0..(n - 1) |-> off[i + 1]]
<1>3. new \in [0..(n - 1) -> Nat]
    BY <1>1, <1>2, SMTT(30)
<1>4. \A i \in 0..(n - 1) : new[i] = off[i + 1]
    OBVIOUS
<1> HIDE DEF new
<1>5. \A i, j \in 0..(n - 1) : i <= j => new[i] <= new[j]
    <2> SUFFICES ASSUME NEW i \in 0..(n - 1), NEW j \in 0..(n - 1), i <= j
                 PROVE  new[i] <= new[j]
        OBVIOUS
    <2>1. i + 1 \in 0..n /\ j + 1 \in 0..n /\ i + 1 <= j + 1
        BY <1>1
    <2> QED
        BY <1>2, <1>4, <2>1
<1>6. \A i \in 1..(n - 1) : rest[i].data = SubSeq(s, new[i - 1] + 1, new[i])
    <2> SUFFICES ASSUME NEW i \in 1..(n - 1)
                 PROVE  rest[i].data = SubSeq(s, new[i - 1] + 1, new[i])
        OBVIOUS
    <2>1. i \in 0..(n - 1) /\ i - 1 \in 0..(n - 1) /\ i + 1 \in 1..n
          /\ (i + 1) - 1 = i /\ (i - 1) + 1 = i
        BY <1>1
    <2>2. box[i + 1].data = SubSeq(s, off[(i + 1) - 1] + 1, off[i + 1])
        BY <1>2, <2>1
    <2>3. rest[i] = box[i + 1] /\ new[i] = off[i + 1] /\ new[i - 1] = off[i]
        BY <1>1, <1>4, <2>1
    <2> QED
        BY <2>1, <2>2, <2>3
<1>7. new[0] = off[1] /\ new[n - 1] = to
    <2>1. 0 \in 0..(n - 1) /\ n - 1 \in 0..(n - 1) /\ (n - 1) + 1 = n
        BY <1>1
    <2> QED
        BY <1>2, <1>4, <2>1
<1>8. Chain(rest, s, off[1], to)
    BY <1>1, <1>3, <1>5, <1>6, <1>7 DEF Chain
<1>9. 0 \in 0..n /\ 1 \in 0..n /\ n \in 0..n /\ 1 \in 1..n /\ 1 - 1 = 0 /\ 0 <= 1 /\ 1 <= n
    BY <1>1
<1>10. off[1] \in Nat /\ from <= off[1] /\ off[1] <= to
    BY <1>2, <1>9
<1>11. Head(box).data = SubSeq(s, from + 1, off[1])
    BY <1>1, <1>2, <1>9
<1> QED
    BY <1>8, <1>10, <1>11 DEF rest

\* The stream grows behind the segments.
LEMMA ChainGrows ==
    ASSUME NEW box \in Seq(Mail), NEW s \in Seq(Bytes), NEW u \in Seq(Bytes),
           NEW from, NEW to, Chain(box, s, from, to), to <= Len(s)
    PROVE  Chain(box, s \o u, from, to)
<1> DEFINE n == Len(box)
           w == s \o u
<1>1. n \in Nat
    BY Elements
<1>2. PICK off \in [0..n -> Nat] :
        /\ off[0] = from /\ off[n] = to
        /\ \A i, j \in 0..n : i <= j => off[i] <= off[j]
        /\ \A i \in 1..n : box[i].data = SubSeq(s, off[i - 1] + 1, off[i])
    BY DEF Chain
<1> HIDE DEF n, w
<1>3. \A i \in 1..n : box[i].data = SubSeq(w, off[i - 1] + 1, off[i])
    <2> SUFFICES ASSUME NEW i \in 1..n
                 PROVE  box[i].data = SubSeq(w, off[i - 1] + 1, off[i])
        OBVIOUS
    <2>1. i - 1 \in 0..n /\ i \in 0..n /\ n \in 0..n /\ i - 1 <= i /\ i <= n
        BY <1>1
    <2>2. off[i - 1] \in Nat /\ off[i] \in Nat /\ off[i - 1] <= off[i] /\ off[i] <= to
          /\ to \in Nat
        BY <1>2, <2>1
    <2>3. off[i] <= Len(s)
        <3>1. Len(s) \in Nat
            BY Elements
        <3> QED
            BY <2>2, <3>1
    <2>4. SubSeq(w, off[i - 1] + 1, off[i]) = SubSeq(s, off[i - 1] + 1, off[i])
        BY <2>2, <2>3, SegmentStays, ZenonT(30) DEF w
    <2> QED
        BY <1>2, <2>4
<1> QED
    BY <1>2, <1>3 DEF Chain, n, w

\* Without a segment in the mailbox, the buffer ends where the socket is.
LEMMA ChainDone ==
    ASSUME NEW box \in Seq(Mail), NEW s \in Seq(Bytes), NEW from, NEW to,
           Chain(box, s, from, to), to <= Len(s),
           \A i \in 1..Len(box) : box[i].data = <<>>
    PROVE  from = to
<1> DEFINE n == Len(box)
<1>1. n \in Nat
    BY Elements
<1>2. PICK off \in [0..n -> Nat] :
        /\ off[0] = from /\ off[n] = to
        /\ \A i, j \in 0..n : i <= j => off[i] <= off[j]
        /\ \A i \in 1..n : box[i].data = SubSeq(s, off[i - 1] + 1, off[i])
    BY DEF Chain
<1> HIDE DEF n
<1>3. \A i \in 1..n : off[i - 1] = off[i]
    <2> SUFFICES ASSUME NEW i \in 1..n PROVE off[i - 1] = off[i]
        OBVIOUS
    <2>1. i - 1 \in 0..n /\ i \in 0..n /\ n \in 0..n /\ i - 1 <= i /\ i <= n
        BY <1>1
    <2>2. off[i - 1] \in Nat /\ off[i] \in Nat /\ off[i - 1] <= off[i] /\ off[i] <= to
          /\ to \in Nat
        BY <1>2, <2>1
    <2>3. off[i] <= Len(s)
        <3>1. Len(s) \in Nat
            BY Elements
        <3> QED
            BY <2>2, <3>1
    <2>4. SubSeq(s, off[i - 1] + 1, off[i]) = <<>>
        BY <1>2 DEF n
    <2> QED
        BY <2>2, <2>3, <2>4, EmptySegment, Zenon
<1> DEFINE I == {i \in 0..n : off[i] = to}
<1>4. I \subseteq Nat /\ n \in I /\ I \subseteq 0..n
    BY <1>1, <1>2
<1>5. Min(I) \in I /\ \A y \in I : Min(I) <= y
    <2> HIDE DEF I
    <2> QED
        BY <1>4, LeastElement
<1>6. Min(I) = 0
    <2> DEFINE m == Min(I)
    <2>1. m \in 0..n /\ off[m] = to /\ \A y \in I : m <= y
        BY <1>5
    <2> HIDE DEF m
    <2> SUFFICES ASSUME m # 0 PROVE FALSE
        BY DEF m
    <2>2. m \in 1..n /\ m - 1 \in 0..n /\ ~(m <= m - 1)
        BY <1>1, <2>1
    <2>3. m - 1 \in I
        BY <1>3, <2>1, <2>2
    <2> QED
        BY <2>1, <2>2, <2>3
<1> QED
    BY <1>2, <1>5, <1>6
-----------------------------------------------------------------------------
(* The parser's state says how much of the stream has been framed. *)

\* The header that parse/1 has cut off, the bytes after `pos` up to `h`, is line
\* ends alone or ends with the header of the next message.
HeaderRead(s, spans, n, pos, h, clen) ==
    \/ /\ clen = 0 /\ LineEnds(s, pos, h)
       /\ n < Len(spans) => h <= spans[n + 1].start
    \/ /\ n < Len(spans)
       /\ spans[n + 1].start < h /\ h + clen = spans[n + 1].end
       /\ LineEnds(s, pos, spans[n + 1].start)

FrameAt(st, s, spans, n, to, pos, h, got) ==
    /\ pos <= h /\ h <= got
    /\ Chain(st.mailbox, s, got, to)
    /\ Between(s, spans, n, pos)
    /\ st.header = SubSeq(s, pos + 1, h)
    /\ st.buffer = SubSeq(s, h + 1, got)
    /\ IF st.parse_state = "read_body" THEN HeaderRead(s, spans, n, pos, h, st.clen)
       ELSE h = pos

\* `n` messages have been delivered, and what the process holds of the stream
\* begins between two messages.
Framed(st, s, spans, n, to) ==
    \E pos, h, got \in Nat : FrameAt(st, s, spans, n, to, pos, h, got)

\* parse/1 has returned: it waits for bytes that the buffer does not hold.
Settled(st) ==
    /\ st.parse_state = "idle" => st.buffer = <<>>
    /\ st.parse_state = "read_header" => FindHeaderEnd(st.buffer) = 0
    /\ st.parse_state = "read_body" => Len(st.buffer) < st.clen

\* The messages are the first ones of the stream.
FirstSent(messages, s, spans) ==
    /\ Len(messages) <= Len(spans)
    /\ \A i \in 1..Len(messages) :
         messages[i] = SubSeq(s, spans[i].start + 1, spans[i].end)

FramingInv ==
    /\ StreamWell(stream, intended)
    /\ FirstSent(delivered, stream, intended)
    /\ status # "stopped" => Framed(state, stream, intended, Len(delivered), taken)
    /\ status # "stopped" /\ ~parsing => Settled(state)

\* The next message to deliver is one that is misread.
NextMisread ==
    Len(delivered) < Len(intended) /\ MisreadAt(stream, intended[Len(delivered) + 1])

\* A message is misread, and those before it were delivered.
Lost(messages, s, spans) ==
    \E i \in 1..Len(spans) :
      /\ MisreadAt(s, spans[i])
      /\ i - 1 <= Len(messages)
      /\ \A j \in 1..(i - 1) : messages[j] = SubSeq(s, spans[j].start + 1, spans[j].end)

LostInv == StreamWell(stream, intended) /\ Lost(delivered, stream, intended)

\* The messages of the stream when the peer has added `unit` to it.
GrownSpans(s, spans, unit) ==
    IF LineEnds(unit, 0, Len(unit)) THEN spans
    ELSE Append(spans, Span(Len(s), Len(s) + Len(unit)))

\* `more` has the messages `spans` of the stream, and any others lie behind it.
Extends(s, spans, more) ==
    /\ Len(spans) <= Len(more)
    /\ \A i \in 1..Len(spans) : more[i] = spans[i]
    /\ \A i \in 1..Len(more) : i <= Len(spans) \/ more[i].start = Len(s)

\* What the peer adds to its stream keeps it well formed.
LEMMA StreamGrows ==
    ASSUME NEW s \in Seq(Bytes), NEW spans \in Seq([start : Nat, end : Nat]),
           StreamWell(s, spans), NEW unit \in Units,
           NEW more, more = GrownSpans(s, spans, unit)
    PROVE  /\ more \in Seq([start : Nat, end : Nat]) /\ Extends(s, spans, more)
           /\ StreamWell(s \o unit, more)
<1> DEFINE w == s \o unit
           new == Span(Len(s), Len(s) + Len(unit))
<1>1. unit \in Seq(Bytes) /\ (LineEnds(unit, 0, Len(unit)) \/ WellFramed(unit))
    BY UnitsAssumption
<1>2. /\ w \in Seq(Bytes) /\ Len(w) = Len(s) + Len(unit)
      /\ Len(s) \in Nat /\ Len(unit) \in Nat
      /\ \A k \in 1..Len(s) : w[k] = s[k]
      /\ \A k \in 1..Len(unit) : w[Len(s) + k] = unit[k]
    BY <1>1
<1>3. \A a, b \in Nat : a <= b /\ b <= Len(s) => SubSeq(w, a + 1, b) = SubSeq(s, a + 1, b)
    BY <1>1, SegmentStays
<1>4. /\ new \in [start : Nat, end : Nat]
      /\ new.start = Len(s) /\ new.end = Len(w)
    BY <1>2 DEF Span
<1>5. /\ Len(spans) \in Nat /\ DOMAIN spans = 1..Len(spans)
      /\ \A i \in 1..Len(spans) : spans[i].start \in Nat /\ spans[i].end \in Nat
    BY SpanBounds
<1> HIDE DEF w, new
<1>6. \A i \in 1..Len(spans) :
        /\ spans[i].start < spans[i].end /\ spans[i].end <= Len(s)
        /\ WellFramed(SubSeq(w, spans[i].start + 1, spans[i].end))
    <2> SUFFICES ASSUME NEW i \in 1..Len(spans)
                 PROVE  /\ spans[i].start < spans[i].end /\ spans[i].end <= Len(s)
                        /\ WellFramed(SubSeq(w, spans[i].start + 1, spans[i].end))
        OBVIOUS
    <2>1. /\ spans[i].start < spans[i].end /\ spans[i].end <= Len(s)
          /\ WellFramed(SubSeq(s, spans[i].start + 1, spans[i].end))
        BY <1>5 DEF StreamWell
    <2>2. spans[i].start <= spans[i].end
        BY <1>5, <2>1
    <2>3. SubSeq(w, spans[i].start + 1, spans[i].end) = SubSeq(s, spans[i].start + 1, spans[i].end)
        BY <1>3, <1>5, <2>1, <2>2
    <2> QED
        BY <2>1, <2>3
<1>7. \A k \in 1..Len(s) : Outside(spans, k) =>
        \/ w[k] = "LF"
        \/ /\ k < Len(s) /\ w[k] = "CR" /\ w[k + 1] = "LF" /\ Outside(spans, k + 1)
    <2> SUFFICES ASSUME NEW k \in 1..Len(s), Outside(spans, k), w[k] # "LF"
                 PROVE  k < Len(s) /\ w[k] = "CR" /\ w[k + 1] = "LF" /\ Outside(spans, k + 1)
        OBVIOUS
    <2>1. k < Len(s) /\ s[k] = "CR" /\ s[k + 1] = "LF" /\ Outside(spans, k + 1)
        BY <1>2 DEF StreamWell
    <2>2. k + 1 \in 1..Len(s)
        BY <1>2, <2>1
    <2> QED
        BY <1>2, <2>1, <2>2
<1>8. CASE LineEnds(unit, 0, Len(unit))
    <2>1. more = spans
        BY <1>8 DEF GrownSpans
    <2>2. \A i \in DOMAIN spans :
            /\ spans[i].start < spans[i].end /\ spans[i].end <= Len(w)
            /\ WellFramed(SubSeq(w, spans[i].start + 1, spans[i].end))
        BY <1>2, <1>5, <1>6, SMTT(30)
    <2>3. \A k \in 1..Len(w) : Outside(spans, k) =>
            \/ w[k] = "LF"
            \/ /\ k < Len(w) /\ w[k] = "CR" /\ w[k + 1] = "LF" /\ Outside(spans, k + 1)
        <3> SUFFICES ASSUME NEW k \in 1..Len(w), Outside(spans, k), w[k] # "LF"
                     PROVE  k < Len(w) /\ w[k] = "CR" /\ w[k + 1] = "LF" /\ Outside(spans, k + 1)
            OBVIOUS
        <3>1. CASE k <= Len(s)
            <4>1. k \in 1..Len(s)
                BY <1>2, <3>1
            <4>2. k < Len(s) /\ w[k] = "CR" /\ w[k + 1] = "LF" /\ Outside(spans, k + 1)
                BY <1>7, <4>1
            <4> QED
                BY <1>2, <4>2
        <3>2. CASE k > Len(s)
            <4> DEFINE i == k - Len(s)
            <4>1. i \in 1..Len(unit) /\ Len(s) + i = k /\ i \in (0 + 1)..Len(unit)
                BY <1>2, <3>2
            <4>2. w[k] = unit[i]
                BY <1>2, <4>1
            <4>3. i < Len(unit) /\ unit[i] = "CR" /\ unit[i + 1] = "LF"
                BY <1>8, <4>1, <4>2 DEF LineEnds
            <4> HIDE DEF i
            <4>4. i + 1 \in 1..Len(unit) /\ Len(s) + (i + 1) = k + 1 /\ k < Len(w)
                <5>1. Len(w) = Len(s) + Len(unit) /\ Len(s) \in Nat /\ Len(unit) \in Nat
                    BY <1>2
                <5>2. i \in Nat /\ i >= 1 /\ i < Len(unit) /\ Len(s) + i = k
                    BY <4>1, <4>3, <5>1
                <5>3. i + 1 \in 1..Len(unit)
                    BY <5>1, <5>2
                <5>4. Len(s) + (i + 1) = k + 1
                    <6>1. Len(s) + (i + 1) = (Len(s) + i) + 1
                        BY <5>1, <5>2
                    <6> QED
                        BY <5>2, <6>1, Zenon
                <5>5. k < Len(w)
                    BY <5>1, <5>2
                <5> QED
                    BY <5>3, <5>4, <5>5
            <4>5. w[k + 1] = "LF"
                BY <1>2, <4>3, <4>4
            <4>6. Outside(spans, k + 1)
                <5> SUFFICES ASSUME NEW j \in 1..Len(spans) PROVE ~(k + 1 <= spans[j].end)
                    BY <1>5 DEF Outside
                <5>1. spans[j].end \in Nat /\ spans[j].end <= Len(s)
                    BY <1>5, <1>6
                <5> QED
                    BY <1>2, <3>2, <5>1, SMTT(30)
            <4> QED
                BY <4>2, <4>3, <4>4, <4>5, <4>6
        <3> QED
            BY <1>2, <3>1, <3>2
    <2>4. StreamWell(w, spans)
        BY <2>2, <2>3 DEF StreamWell
    <2> QED
        <3>1. Len(spans) <= Len(spans) /\ \A i \in 1..Len(spans) : i <= Len(spans)
            BY <1>5
        <3> QED
            BY <2>1, <2>4, <3>1, Zenon DEF w, Extends
<1>9. CASE ~LineEnds(unit, 0, Len(unit))
    <2>1. more = Append(spans, new)
        BY <1>9 DEF new, GrownSpans
    <2>2. /\ more \in Seq([start : Nat, end : Nat]) /\ Len(more) = Len(spans) + 1
          /\ (\A i \in 1..Len(spans) : more[i] = spans[i]) /\ more[Len(spans) + 1] = new
        <3> DEFINE S == [start : Nat, end : Nat]
        <3>1. spans \in Seq(S) /\ new \in S
            BY <1>4
        <3> HIDE DEF S
        <3>2. /\ more \in Seq(S) /\ Len(more) = Len(spans) + 1
              /\ \A i \in 1..Len(spans) : more[i] = spans[i]
              /\ more[Len(spans) + 1] = new
            BY <2>1, <3>1, Appended
        <3> QED
            BY <3>2 DEF S
    <2>3. SubSeq(w, Len(s) + 1, Len(w)) = unit
        <3> DEFINE v == SubSeq(w, Len(s) + 1, Len(w))
        <3>1. v \in Seq(Bytes) /\ Len(v) = Len(w) - Len(s)
              /\ \A k \in 1..(Len(w) - Len(s)) : v[k] = w[Len(s) + k]
            BY <1>2, Segment
        <3>2. Len(w) - Len(s) = Len(unit)
            BY <1>2
        <3> HIDE DEF v
        <3>3. v = unit
            BY <1>1, <1>2, <3>1, <3>2, SameElements
        <3> QED
            BY <3>3 DEF v
    <2>4. WellFramed(unit)
        BY <1>1, <1>9
    <2>5. Len(unit) > 0
        <3>1. EndOf(Ping, unit) # 0
            BY <2>4 DEF WellFramed
        <3>2. EndOf(Ping, unit) \in 4..Len(unit)
            BY <1>1, <3>1, PingEnd
        <3> QED
            BY <1>2, <3>2
    <2>6. \A i \in DOMAIN more : i \in 1..Len(spans) \/ i = Len(spans) + 1
        BY <1>5, <2>2
    <2>7. \A i \in DOMAIN more :
            /\ more[i].start < more[i].end /\ more[i].end <= Len(w)
            /\ WellFramed(SubSeq(w, more[i].start + 1, more[i].end))
        <3> SUFFICES ASSUME NEW i \in DOMAIN more
                     PROVE  /\ more[i].start < more[i].end /\ more[i].end <= Len(w)
                            /\ WellFramed(SubSeq(w, more[i].start + 1, more[i].end))
            OBVIOUS
        <3>1. CASE i \in 1..Len(spans)
            <4>1. more[i] = spans[i] /\ spans[i].end \in Nat /\ spans[i].end <= Len(s)
                BY <1>5, <1>6, <2>2, <3>1
            <4>2. spans[i].end <= Len(w)
                BY <1>2, <4>1
            <4> QED
                BY <1>6, <3>1, <4>1, <4>2
        <3>2. CASE i = Len(spans) + 1
            <4>1. more[i].start = Len(s) /\ more[i].end = Len(w)
                BY <1>4, <2>2, <3>2
            <4>2. Len(s) < Len(w) /\ Len(w) <= Len(w)
                BY <1>2, <2>5
            <4> QED
                BY <2>3, <2>4, <4>1, <4>2
        <3> QED
            BY <2>6, <3>1, <3>2
    <2>8. \A i, j \in DOMAIN more : i < j => more[i].end <= more[j].start
        <3> SUFFICES ASSUME NEW i \in DOMAIN more, NEW j \in DOMAIN more, i < j
                     PROVE  more[i].end <= more[j].start
            OBVIOUS
        <3>1. i \in 1..Len(spans)
            BY <1>5, <2>6
        <3>2. CASE j \in 1..Len(spans)
            BY <1>5, <2>2, <3>1, <3>2 DEF StreamWell
        <3>3. CASE j = Len(spans) + 1
            BY <1>4, <1>6, <2>2, <3>1, <3>3
        <3> QED
            BY <2>6, <3>2, <3>3
    <2>9. \A k \in 1..Len(w) : Outside(more, k) =>
            \/ w[k] = "LF"
            \/ /\ k < Len(w) /\ w[k] = "CR" /\ w[k + 1] = "LF" /\ Outside(more, k + 1)
        <3> SUFFICES ASSUME NEW k \in 1..Len(w), Outside(more, k), w[k] # "LF"
                     PROVE  k < Len(w) /\ w[k] = "CR" /\ w[k + 1] = "LF" /\ Outside(more, k + 1)
            OBVIOUS
        <3>1. \A i \in 1..Len(spans) : i \in DOMAIN more
            BY <1>5, <2>2
        <3>2. Len(spans) + 1 \in DOMAIN more
            BY <1>5, <2>2
        <3>3. k <= Len(s)
            <4>1. ~(Len(s) < k /\ k <= Len(w))
                BY <1>4, <2>2, <3>2 DEF Outside
            <4> QED
                BY <1>2, <4>1
        <3>4. k \in 1..Len(s)
            BY <1>2, <3>3
        <3>5. Outside(spans, k)
            BY <1>5, <2>2, <3>1 DEF Outside
        <3>6. k < Len(s) /\ w[k] = "CR" /\ w[k + 1] = "LF" /\ Outside(spans, k + 1)
            BY <1>7, <3>4, <3>5
        <3>7. Outside(more, k + 1)
            <4> SUFFICES ASSUME NEW i \in DOMAIN more
                         PROVE  ~(more[i].start < k + 1 /\ k + 1 <= more[i].end)
                BY DEF Outside
            <4>1. CASE i \in 1..Len(spans)
                BY <1>5, <2>2, <3>6, <4>1 DEF Outside
            <4>2. CASE i = Len(spans) + 1
                <5>1. more[i].start = Len(s)
                    BY <1>4, <2>2, <4>2
                <5>2. ~(Len(s) < k + 1)
                    BY <1>2, <3>6
                <5> QED
                    BY <5>1, <5>2
            <4> QED
                BY <2>6, <4>1, <4>2
        <3> QED
            BY <1>2, <3>6, <3>7
    <2>10. StreamWell(w, more)
        BY <2>7, <2>8, <2>9 DEF StreamWell
    <2>11. /\ Len(spans) <= Len(more)
           /\ \A i \in 1..Len(more) : i <= Len(spans) \/ more[i].start = Len(s)
        BY <1>4, <1>5, <2>2, SMTT(30)
    <2> QED
        BY <2>2, <2>10, <2>11 DEF w, Extends
<1> QED
    BY <1>8, <1>9

\* The bytes behind the end of the stream stay line ends when it grows.
LEMMA LineEndsStay ==
    ASSUME NEW s \in Seq(Bytes), NEW u \in Seq(Bytes), NEW a \in Nat, NEW b \in Nat,
           b <= Len(s), LineEnds(s, a, b)
    PROVE  LineEnds(s \o u, a, b)
<1>1. Len(s) \in Nat /\ \A k \in 1..Len(s) : (s \o u)[k] = s[k]
    OBVIOUS
<1> SUFFICES ASSUME NEW i \in (a + 1)..b
             PROVE  \/ (s \o u)[i] = "LF"
                    \/ i < b /\ (s \o u)[i] = "CR" /\ (s \o u)[i + 1] = "LF"
    BY DEF LineEnds
<1>2. i \in 1..Len(s) /\ (i < b => i + 1 \in 1..Len(s))
    BY <1>1
<1>3. s[i] = "LF" \/ (i < b /\ s[i] = "CR" /\ s[i + 1] = "LF")
    BY DEF LineEnds
<1>4. (s \o u)[i] = s[i] /\ (i < b => (s \o u)[i + 1] = s[i + 1])
    BY <1>1, <1>2
<1> QED
    BY <1>3, <1>4

\* The process does not notice that the stream grows.
LEMMA FrameGrows ==
    ASSUME NEW st \in States, NEW s \in Seq(Bytes), NEW u \in Seq(Bytes),
           NEW spans \in Seq([start : Nat, end : Nat]),
           NEW more \in Seq([start : Nat, end : Nat]),
           Extends(s, spans, more),
           StreamWell(s, spans),
           NEW n \in Nat, NEW to \in Nat, to <= Len(s), Framed(st, s, spans, n, to)
    PROVE  Framed(st, s \o u, more, n, to)
<1> USE DEF Extends
<1> DEFINE w == s \o u
<1>1. PICK pos \in Nat, h \in Nat, got \in Nat : FrameAt(st, s, spans, n, to, pos, h, got)
    BY DEF Framed
<1>2. st.mailbox \in Seq(Mail)
    BY StateFields
<1>3. pos <= h /\ h <= got /\ Chain(st.mailbox, s, got, to) /\ Between(s, spans, n, pos)
      /\ st.header = SubSeq(s, pos + 1, h) /\ st.buffer = SubSeq(s, h + 1, got)
    BY <1>1 DEF FrameAt
<1>4. got <= to
    BY <1>2, <1>3, ChainBounds
<1>5. Len(s) \in Nat /\ pos <= got /\ got <= Len(s) /\ h <= Len(s) /\ pos <= Len(s)
    <2>1. Len(s) \in Nat
        BY Elements
    <2> QED
        BY <1>3, <1>4, <2>1
<1>6. w \in Seq(Bytes) /\ Len(w) \in Nat /\ Len(s) <= Len(w)
    <2>1. w \in Seq(Bytes) /\ Len(w) = Len(s) + Len(u) /\ Len(u) \in Nat
        OBVIOUS
    <2> HIDE DEF w
    <2> QED
        BY <1>5, <2>1
<1>7. Chain(st.mailbox, w, got, to)
    BY <1>2, <1>3, ChainGrows
<1>8. st.header = SubSeq(w, pos + 1, h) /\ st.buffer = SubSeq(w, h + 1, got)
    <2>1. pos <= h /\ h <= Len(s) /\ h <= got /\ got <= Len(s)
        BY <1>3, <1>5
    <2>2. SubSeq(w, pos + 1, h) = SubSeq(s, pos + 1, h)
        BY <2>1, SegmentStays
    <2>3. SubSeq(w, h + 1, got) = SubSeq(s, h + 1, got)
        BY <2>1, SegmentStays
    <2> QED
        BY <1>3, <2>2, <2>3
<1> HIDE DEF w
<1>9. /\ Len(spans) \in Nat /\ Len(more) \in Nat /\ n <= Len(spans)
      /\ \A i \in 1..Len(spans) : spans[i].start \in Nat /\ spans[i].end \in Nat
    <2>1. n \in 0..Len(spans)
        BY <1>3 DEF Between
    <2>2. Len(spans) \in Nat /\ Len(more) \in Nat
        BY Elements
    <2>3. \A i \in 1..Len(spans) : spans[i].start \in Nat /\ spans[i].end \in Nat
        BY SpanBounds
    <2> QED
        BY <2>1, <2>2, <2>3
<1>10. n < Len(more) => IF n < Len(spans) THEN more[n + 1] = spans[n + 1]
                        ELSE more[n + 1].start = Len(s)
    <2> SUFFICES ASSUME n < Len(more)
                 PROVE  IF n < Len(spans) THEN more[n + 1] = spans[n + 1]
                        ELSE more[n + 1].start = Len(s)
        OBVIOUS
    <2>1. CASE n < Len(spans)
        <3>1. n + 1 \in 1..Len(spans)
            <4> HIDE DEF Extends
            <4>1. Len(spans) \in Nat
                BY <1>9
            <4> QED
                BY <2>1, <4>1
        <3> QED
            BY <2>1, <3>1
    <2>2. CASE ~(n < Len(spans))
        <3>1. n + 1 \in 1..Len(more) /\ ~(n + 1 <= Len(spans))
            BY <1>9, <2>2
        <3> QED
            BY <2>2, <3>1
    <2> QED
        BY <2>1, <2>2
<1>11. Between(w, more, n, pos)
    <2>1. n \in 0..Len(more) /\ pos \in 0..Len(w)
        BY <1>5, <1>6, <1>9
    <2>2. \A i \in 1..n : more[i].end <= pos
        <3> SUFFICES ASSUME NEW i \in 1..n PROVE more[i].end <= pos
            OBVIOUS
        <3>1. i \in 1..Len(spans)
            BY <1>9
        <3>2. spans[i].end <= pos
            BY <1>3 DEF Between
        <3> QED
            BY <3>1, <3>2
    <2>3. n < Len(more) => pos <= more[n + 1].start
        <3>1. n < Len(spans) => pos <= spans[n + 1].start
            BY <1>3 DEF Between
        <3> QED
            BY <1>5, <1>10, <3>1
    <2> QED
        BY <2>1, <2>2, <2>3 DEF Between
<1>12. IF st.parse_state = "read_body" THEN HeaderRead(w, more, n, pos, h, st.clen)
       ELSE h = pos
    <2>1. IF st.parse_state = "read_body" THEN HeaderRead(s, spans, n, pos, h, st.clen)
          ELSE h = pos
        BY <1>1 DEF FrameAt
    <2>2. ASSUME HeaderRead(s, spans, n, pos, h, st.clen)
          PROVE  HeaderRead(w, more, n, pos, h, st.clen)
        <3>1. CASE /\ st.clen = 0 /\ LineEnds(s, pos, h)
                   /\ n < Len(spans) => h <= spans[n + 1].start
            <4>1. LineEnds(w, pos, h)
                BY <1>5, <3>1, LineEndsStay DEF w
            <4>2. n < Len(more) => h <= more[n + 1].start
                BY <1>5, <1>10, <3>1
            <4> QED
                BY <3>1, <4>1, <4>2 DEF HeaderRead
        <3>2. CASE /\ n < Len(spans)
                   /\ spans[n + 1].start < h /\ h + st.clen = spans[n + 1].end
                   /\ LineEnds(s, pos, spans[n + 1].start)
            <4>0. n + 1 \in 1..Len(spans) /\ n < Len(more)
                <5>1. n < Len(spans) /\ Len(spans) \in Nat /\ Len(more) \in Nat
                    BY <1>9, <3>2
                <5> QED
                    BY <5>1, SMTT(30)
            <4>1. more[n + 1] = spans[n + 1] /\ spans[n + 1].start \in Nat
                BY <1>9, <1>10, <3>2, <4>0
            <4>2. spans[n + 1].start <= Len(s)
                <5>1. spans[n + 1].start < h /\ spans[n + 1].start \in Nat
                    BY <3>2, <4>1
                <5> DEFINE a == spans[n + 1].start
                <5>2. a < h /\ a \in Nat
                    BY <5>1
                <5> HIDE DEF a
                <5>3. a <= Len(s)
                    BY <1>5, <5>2
                <5> QED
                    BY <5>3 DEF a
            <4>3. LineEnds(w, pos, spans[n + 1].start)
                BY <3>2, <4>1, <4>2, LineEndsStay DEF w
            <4> QED
                BY <3>2, <4>0, <4>1, <4>3 DEF HeaderRead
        <3> QED
            BY <2>2, <3>1, <3>2 DEF HeaderRead
    <2> QED
        BY <2>1, <2>2
<1>13. FrameAt(st, w, more, n, to, pos, h, got)
    BY <1>3, <1>7, <1>8, <1>11, <1>12 DEF FrameAt
<1> QED
    BY <1>13 DEF Framed, w

\* Nor does the parser notice what happens to the timers and the mailbox.
LEMMA FrameKept ==
    ASSUME NEW st, NEW r, SameParser(st, r), NEW s, NEW spans, NEW n, NEW to, NEW end,
           \A got \in Nat : Chain(st.mailbox, s, got, to) => Chain(r.mailbox, s, got, end),
           Framed(st, s, spans, n, to)
    PROVE  Framed(r, s, spans, n, end)
<1>1. PICK pos \in Nat, h \in Nat, got \in Nat : FrameAt(st, s, spans, n, to, pos, h, got)
    BY DEF Framed
<1>2. FrameAt(r, s, spans, n, end, pos, h, got)
    BY <1>1 DEF FrameAt, SameParser
<1> QED
    BY <1>2 DEF Framed

\* It has settled as before.
LEMMA SettledKept ==
    ASSUME NEW st, NEW r, SameParser(st, r), Settled(st)
    PROVE  Settled(r)
BY DEF SameParser, Settled

\* Initially there is nothing to frame.
LEMMA FramingInit == ConnectionInit => FramingInv
<1> SUFFICES ASSUME ConnectionInit PROVE FramingInv
    OBVIOUS
<1>1. /\ stream = <<>> /\ intended = <<>> /\ delivered = <<>> /\ taken = 0
      /\ state.mailbox = <<Message("activate")>> /\ state.buffer = <<>>
      /\ state.parse_state = "idle" /\ state.header = <<>>
    BY DEF ConnectionInit
<1>2. Message("activate").data = <<>>
    BY MessageMail
<1>3. StreamWell(<<>>, <<>>)
    <2>1. DOMAIN <<>> = {} /\ 1..Len(<<>>) = {}
        OBVIOUS
    <2> QED
        BY <2>1 DEF StreamWell
<1>4. Chain(state.mailbox, stream, 0, 0)
    <2> DEFINE off == [i \in 0..1 |-> 0]
               box == <<Message("activate")>>
    <2>1. Len(box) = 1 /\ box[1].data = <<>>
        BY <1>2
    <2>2. off \in [0..1 -> Nat] /\ off[0] = 0 /\ off[1] = 0
          /\ \A i \in 0..1 : off[i] = 0
        OBVIOUS
    <2>3. SubSeq(<<>>, 0 + 1, 0) = <<>>
        OBVIOUS
    <2> HIDE DEF off, box
    <2>4. \A i \in 1..1 : box[i].data = SubSeq(<<>>, off[i - 1] + 1, off[i])
        <3> SUFFICES box[1].data = SubSeq(<<>>, off[1 - 1] + 1, off[1])
            OBVIOUS
        <3>1. off[1 - 1] = 0
            BY <2>2
        <3> QED
            BY <2>1, <2>2, <2>3, <3>1
    <2>5. \A i, j \in 0..1 : i <= j => off[i] <= off[j]
        BY <2>2
    <2>6. Chain(box, <<>>, 0, 0)
        BY <2>1, <2>2, <2>4, <2>5 DEF Chain
    <2> QED
        BY <1>1, <2>6 DEF box
<1>5. Framed(state, stream, intended, Len(delivered), taken)
    <2>1. SubSeq(<<>>, 0 + 1, 0) = <<>> /\ Len(<<>>) = 0
        OBVIOUS
    <2>2. Between(stream, intended, 0, 0)
        BY <1>1, <2>1 DEF Between
    <2>3. FrameAt(state, stream, intended, 0, 0, 0, 0, 0)
        BY <1>1, <1>4, <2>1, <2>2 DEF FrameAt
    <2> QED
        BY <1>1, <2>1, <2>3 DEF Framed
<1>6. Settled(state)
    BY <1>1 DEF Settled
<1>7. Len(delivered) <= Len(intended) /\ 1..Len(delivered) = {}
    <2>1. Len(<<>>) = 0
        OBVIOUS
    <2> QED
        BY <1>1, <2>1
<1> QED
    BY <1>1, <1>3, <1>5, <1>6, <1>7 DEF FramingInv, FirstSent
-----------------------------------------------------------------------------
(* The steps that leave the parser alone. *)

\* The parts of the state that the steps below need.
LEMMA RunningState ==
    ASSUME TimersInv
    PROVE  /\ state \in States /\ state.mailbox \in Seq(Mail)
           /\ stream \in Seq(Bytes) /\ taken \in Nat /\ taken <= Len(stream)
           /\ Len(stream) \in Nat
           /\ intended \in Seq([start : Nat, end : Nat])
           /\ delivered \in Seq(Seq(Bytes)) /\ Len(delivered) \in Nat
           /\ status # "stopped" => DataInSegments(state.mailbox)
<1>1. StateOK
    BY DEF TimersInv
<1>2. /\ state \in States /\ stream \in Seq(Bytes) /\ taken \in 0..Len(stream)
      /\ intended \in Seq([start : Nat, end : Nat]) /\ delivered \in Seq(Seq(Bytes))
      /\ status \in {"new", "open", "stopped"}
    BY <1>1 DEF StateOK
<1>3. Len(stream) \in Nat /\ Len(delivered) \in Nat
    BY <1>2, Elements
<1>4. taken \in Nat /\ taken <= Len(stream)
    BY <1>2, <1>3
<1>5. state.mailbox \in Seq(Mail)
    BY <1>2, StateFields
<1>6. status # "stopped" => DataInSegments(state.mailbox)
    BY <1>2 DEF TimersInv, MailboxOK, NewMailboxOK
<1> QED
    BY <1>2, <1>3, <1>4, <1>5, <1>6

\* An empty segment.
LEMMA NoSegment ==
    ASSUME NEW s \in Seq(Bytes), NEW a \in Nat
    PROVE  SubSeq(s, a + 1, a) = <<>>
OBVIOUS

\* A message that is not a segment is put in the mailbox.
LEMMA ChainPosted ==
    ASSUME NEW box \in Seq(Mail), NEW s \in Seq(Bytes), NEW from, NEW to \in Nat,
           Chain(box, s, from, to), NEW m \in Mail, m.data = <<>>
    PROVE  Chain(Append(box, m), s, from, to)
<1>1. m.data = SubSeq(s, to + 1, to) /\ to <= to
    BY NoSegment
<1> QED
    BY <1>1, ChainAppend

\* A message that is not a segment is taken.
LEMMA ChainTaken ==
    ASSUME NEW box \in Seq(Mail), box # <<>>, DataInSegments(box), Head(box).type # "tcp",
           NEW s \in Seq(Bytes), NEW from, NEW to, Chain(box, s, from, to), to <= Len(s)
    PROVE  Chain(Tail(box), s, from, to)
<1>1. Without(box, Tail(box), 1) /\ Head(box) = box[1] /\ 1 \in 1..Len(box)
    BY TailWithout DEF Without
<1>2. box[1].data = <<>>
    BY <1>1 DEF DataInSegments
<1> QED
    BY <1>1, <1>2, ChainWithout

\* Such a step preserves the framing.
LEMMA FramingQuiet ==
    ASSUME FramingInv, SameParser(state, state'),
           UNCHANGED <<stream, intended, delivered>>,
           status' # "stopped" => status # "stopped",
           ~parsing' => ~parsing \/ Settled(state),
           \A got \in Nat : Chain(state.mailbox, stream, got, taken)
                              => Chain(state'.mailbox, stream, got, taken')
    PROVE  FramingInv'
<1>1. StreamWell(stream', intended') /\ FirstSent(delivered', stream', intended')
    BY DEF FramingInv
<1>2. status' # "stopped"
        => Framed(state', stream', intended', Len(delivered'), taken')
    <2> SUFFICES ASSUME status' # "stopped"
                 PROVE  Framed(state', stream, intended, Len(delivered), taken')
        OBVIOUS
    <2>1. Framed(state, stream, intended, Len(delivered), taken)
        BY DEF FramingInv
    <2> QED
        BY <2>1, FrameKept
<1>3. status' # "stopped" /\ ~parsing' => Settled(state')
    BY SettledKept DEF FramingInv
<1> QED
    BY <1>1, <1>2, <1>3 DEF FramingInv

\* So does one that stops the process.
LEMMA FramingStop ==
    ASSUME FramingInv, Stop
    PROVE  FramingInv'
<1>1. UNCHANGED <<stream, intended, delivered>> /\ status' = "stopped"
    BY DEF Stop
<1>2. StreamWell(stream', intended') /\ FirstSent(delivered', stream', intended')
    BY <1>1 DEF FramingInv
<1> QED
    BY <1>1, <1>2 DEF FramingInv

\* The peer writes.
LEMMA FramingPeerWrites ==
    ASSUME TimersInv, FramingInv, NEW unit \in Units, PeerWrites(unit)
    PROVE  FramingInv'
<1>1. /\ stream' = stream \o unit
      /\ intended' = IF LineEnds(unit, 0, Len(unit)) THEN intended
                     ELSE Append(intended, Span(Len(stream), Len(stream) + Len(unit)))
      /\ UNCHANGED <<status, state, parsing, taken, delivered>>
    BY DEF PeerWrites
<1>2. /\ state \in States /\ stream \in Seq(Bytes) /\ taken \in Nat /\ taken <= Len(stream)
      /\ intended \in Seq([start : Nat, end : Nat]) /\ Len(delivered) \in Nat
      /\ Len(stream) \in Nat
    BY RunningState
<1>3. /\ StreamWell(stream, intended) /\ Len(delivered) <= Len(intended)
      /\ \A i \in 1..Len(delivered) :
           delivered[i] = SubSeq(stream, intended[i].start + 1, intended[i].end)
    BY DEF FramingInv, FirstSent
<1>4. /\ intended' \in Seq([start : Nat, end : Nat])
      /\ Extends(stream, intended, intended') /\ StreamWell(stream', intended')
    <2>1. ASSUME NEW more, more = GrownSpans(stream, intended, unit)
          PROVE  /\ more \in Seq([start : Nat, end : Nat])
                 /\ Extends(stream, intended, more) /\ StreamWell(stream \o unit, more)
        BY <1>2, <1>3, <2>1, StreamGrows
    <2>2. intended' = GrownSpans(stream, intended, unit)
        BY <1>1 DEF GrownSpans
    <2> QED
        BY <1>1, <2>1, <2>2
<1>5. unit \in Seq(Bytes)
    BY UnitsAssumption
<1>6. Len(intended) \in Nat /\ Len(intended') \in Nat /\ DOMAIN intended = 1..Len(intended)
      /\ \A i \in 1..Len(intended) : intended[i].start \in Nat /\ intended[i].end \in Nat
    BY <1>2, <1>4, SpanBounds
<1>7. Len(delivered) <= Len(intended')
    BY <1>2, <1>3, <1>4, <1>6 DEF Extends
<1>8. FirstSent(delivered, stream', intended')
    <2> SUFFICES ASSUME NEW i \in 1..Len(delivered)
                 PROVE  delivered[i]
                          = SubSeq(stream', intended'[i].start + 1, intended'[i].end)
        BY <1>7 DEF FirstSent
    <2>1. i \in 1..Len(intended)
        BY <1>2, <1>3, <1>6
    <2>2. intended[i].start < intended[i].end /\ intended[i].end <= Len(stream)
        BY <1>3, <1>6, <2>1 DEF StreamWell
    <2>3. intended[i].start \in Nat /\ intended[i].end \in Nat
          /\ intended[i].start <= intended[i].end
        BY <1>6, <2>1, <2>2
    <2>4. SubSeq(stream \o unit, intended[i].start + 1, intended[i].end)
            = SubSeq(stream, intended[i].start + 1, intended[i].end)
        <3> DEFINE a == intended[i].start
                   b == intended[i].end
        <3>1. a \in Nat /\ b \in Nat /\ a <= b /\ b <= Len(stream)
            BY <2>2, <2>3
        <3> HIDE DEF a, b
        <3>2. SubSeq(stream \o unit, a + 1, b) = SubSeq(stream, a + 1, b)
            BY <1>2, <1>5, <3>1, SegmentStays
        <3> QED
            BY <3>2 DEF a, b
    <2> QED
        BY <1>1, <1>3, <1>4, <2>1, <2>4, Zenon DEF Extends
<1>9. status # "stopped" => Framed(state, stream', intended', Len(delivered), taken)
    <2> SUFFICES ASSUME status # "stopped"
                 PROVE  Framed(state, stream \o unit, intended', Len(delivered), taken)
        BY <1>1
    <2>1. Framed(state, stream, intended, Len(delivered), taken)
        BY DEF FramingInv
    <2>2. ASSUME NEW more \in Seq([start : Nat, end : Nat]),
                 Extends(stream, intended, more)
          PROVE  Framed(state, stream \o unit, more, Len(delivered), taken)
        BY <1>2, <1>3, <1>5, <2>1, <2>2, FrameGrows
    <2> QED
        BY <1>4, <2>2
<1>10. status # "stopped" /\ ~parsing => Settled(state)
    BY DEF FramingInv
<1> QED
    BY <1>1, <1>4, <1>7, <1>8, <1>9, <1>10 DEF FramingInv

\* The socket delivers a segment.
LEMMA FramingArrive ==
    ASSUME TimersInv, FramingInv, NEW n \in 1..(Len(stream) - taken), Arrive(n)
    PROVE  FramingInv'
<1> DEFINE data == SubSeq(stream, taken + 1, taken + n)
           box == state.mailbox
           first == Append(box, Tcp(data))
           both == Append(first, Message("tcp_passive"))
<1>1. /\ state \in States /\ box \in Seq(Mail) /\ stream \in Seq(Bytes) /\ taken \in Nat
      /\ taken <= Len(stream) /\ Len(stream) \in Nat
    BY RunningState
<1>2. taken + n \in Nat /\ taken + n <= Len(stream) /\ taken <= taken + n
    BY <1>1
<1>3. data \in Seq(Bytes)
    BY <1>1, <1>2, Segment
<1>4. Tcp(data) \in Mail /\ Tcp(data).data = data
    <2> HIDE DEF data
    <2> QED
        BY <1>3 DEF Tcp, Mail, MessageTypes
<1>5. Message("tcp_passive") \in Mail /\ Message("tcp_passive").data = <<>>
    BY MessageMail
<1>6. first \in Seq(Mail) /\ both \in Seq(Mail)
    <2>1. first \in Seq(Mail)
        <3> HIDE DEF data, box
        <3> QED
            BY <1>1, <1>4, Appended
    <2> HIDE DEF first
    <2> QED
        BY <1>5, <2>1, Appended
<1>7. /\ taken' = taken + n /\ UNCHANGED <<status, parsing, stream, intended, delivered>>
      /\ state' = [state EXCEPT !.mailbox = IF active = 1 THEN both ELSE first]
    <2>1. box \o <<Tcp(data)>> \o <<Message("tcp_passive")>> = both
        <3> HIDE DEF box, Mail, data
        <3> QED
            BY <1>1, <1>4, <1>5 DEF box
    <2>2. box \o <<Tcp(data)>> \o <<>> = first
        <3> HIDE DEF box, Mail, data
        <3> QED
            BY <1>1, <1>4 DEF box
    <2>3. CASE active = 1
        BY <2>1, <2>3 DEF Arrive
    <2>4. CASE active # 1
        BY <2>2, <2>4 DEF Arrive
    <2> QED
        BY <2>3, <2>4
<1>8. ASSUME NEW got \in Nat, Chain(box, stream, got, taken)
      PROVE  Chain(first, stream, got, taken + n) /\ Chain(both, stream, got, taken + n)
    <2>1. Chain(first, stream, got, taken + n)
        <3>1. Tcp(data).data = SubSeq(stream, taken + 1, taken + n)
            BY <1>4
        <3> HIDE DEF data, box
        <3> QED
            BY <1>1, <1>2, <1>4, <1>8, <3>1, ChainAppend
    <2> HIDE DEF first
    <2>2. Chain(both, stream, got, taken + n)
        BY <1>1, <1>2, <1>5, <1>6, <2>1, ChainPosted
    <2> QED
        BY <2>1, <2>2
<1> HIDE DEF first, both
<1>9. /\ SameParser(state, state')
      /\ state'.mailbox = IF active = 1 THEN both ELSE first
    BY <1>1, <1>6, <1>7, MailChanged
<1>10. \A got \in Nat : Chain(state.mailbox, stream, got, taken)
                          => Chain(state'.mailbox, stream, got, taken')
    BY <1>7, <1>8, <1>9
<1> QED
    BY <1>7, <1>9, <1>10, FramingQuiet

\* A message that is not a segment is put in the mailbox.
LEMMA FramingPosted ==
    ASSUME TimersInv, FramingInv, status # "stopped", SameParser(state, state'),
           NEW m \in Mail, m.data = <<>>,
           state'.mailbox = Append(state.mailbox, m),
           UNCHANGED <<parsing, stream, taken, intended, delivered>>
    PROVE  FramingInv'
<1>1. state.mailbox \in Seq(Mail) /\ stream \in Seq(Bytes) /\ taken \in Nat
    BY RunningState
<1>2. \A got \in Nat : Chain(state.mailbox, stream, got, taken)
                         => Chain(state'.mailbox, stream, got, taken')
    BY <1>1, ChainPosted
<1> QED
    BY <1>2, FramingQuiet

\* The peer, the transport and the timers put such messages there.
LEMMA FramingPosts ==
    ASSUME TimersInv, FramingInv,
           \/ PeerCloses \/ FireTimer \/ FireKeepalive
           \/ \E type \in {"send", "force_close"} : FromTransport(type)
    PROVE  FramingInv'
<1>1. state \in States /\ state.mailbox \in Seq(Mail) /\ StateOK
    BY RunningState DEF TimersInv
<1>2. \A type \in MessageTypes : Message(type) \in Mail /\ Message(type).data = <<>>
    BY MessageMail
<1>3. ASSUME NEW type \in MessageTypes, Post(Message(type)), status # "stopped",
             UNCHANGED <<parsing, stream, taken, intended, delivered>>
      PROVE  FramingInv'
    <2>1. Append(state.mailbox, Message(type)) \in Seq(Mail)
        BY <1>1, <1>2, Appended
    <2>2. /\ SameParser(state, state')
          /\ state'.mailbox = Append(state.mailbox, Message(type))
        BY <1>1, <1>3, <2>1, MailChanged, ZenonT(30) DEF Post
    <2> QED
        BY <1>2, <1>3, <2>2, FramingPosted
<1>4. CASE PeerCloses
    BY <1>3, <1>4 DEF PeerCloses, MessageTypes
<1>5. CASE \E type \in {"send", "force_close"} : FromTransport(type)
    <2>1. PICK type \in {"send", "force_close"} : FromTransport(type)
        BY <1>5
    <2>2. type \in MessageTypes
        BY DEF MessageTypes
    <2> QED
        BY <1>3, <2>1, <2>2 DEF FromTransport
<1>6. CASE FireTimer
    <2>1. status = "open"
        BY <1>6 DEF FireTimer
    <2>2. state.timer.kind \in MessageTypes
        BY <2>1 DEF TimersInv, MessageTypes
    <2>3. /\ SameParser(state, state')
          /\ state'.mailbox = Append(state.mailbox, Message(state.timer.kind))
          /\ UNCHANGED <<parsing, stream, taken, intended, delivered>>
        BY <1>1, <1>6 DEF FireTimer, States, SameParser
    <2> QED
        BY <1>2, <2>1, <2>2, <2>3, FramingPosted
<1>7. CASE FireKeepalive
    <2>1. status = "open" /\ "keepalive" \in MessageTypes
        BY <1>7 DEF FireKeepalive, MessageTypes
    <2>2. /\ SameParser(state, state')
          /\ state'.mailbox = Append(state.mailbox, Message("keepalive"))
          /\ UNCHANGED <<parsing, stream, taken, intended, delivered>>
        BY <1>1, <1>7 DEF FireKeepalive, States, SameParser
    <2> QED
        BY <1>2, <2>1, <2>2, FramingPosted
<1> QED
    BY <1>4, <1>5, <1>6, <1>7

\* Time passes.
LEMMA FramingTick ==
    ASSUME TimersInv, FramingInv, Tick
    PROVE  FramingInv'
<1>1. state \in States
    BY RunningState
<1>2. /\ SameParser(state, state') /\ state'.mailbox = state.mailbox
      /\ UNCHANGED <<status, parsing, stream, taken, intended, delivered>>
    BY <1>1 DEF Tick, States, SameParser
<1> QED
    BY <1>2, FramingQuiet

\* A new timer takes a message without data out of the mailbox, if any.
LEMMA ChainRenewed ==
    ASSUME NEW box \in Seq(Mail), NEW rest, NEW s \in Seq(Bytes), NEW from, NEW to,
           to <= Len(s), Chain(box, s, from, to),
           \/ rest = box
           \/ \E k \in 1..Len(box) : box[k].data = <<>> /\ Without(box, rest, k)
    PROVE  Chain(rest, s, from, to)
<1>1. CASE rest = box
    BY <1>1
<1>2. CASE \E k \in 1..Len(box) : box[k].data = <<>> /\ Without(box, rest, k)
    <2>1. PICK k \in 1..Len(box) : box[k].data = <<>> /\ Without(box, rest, k)
        BY <1>2
    <2> QED
        BY <2>1, ChainWithout
<1> QED
    BY <1>1, <1>2

\* A callback that takes a message other than a segment, and stays open.
LEMMA FramingTaken ==
    ASSUME TimersInv, FramingInv, NEW type, type # "tcp", Gets(type),
           SameParser(state, state'),
           UNCHANGED <<parsing, stream, taken, intended, delivered>>,
           \/ state'.mailbox = Tail(state.mailbox)
           \/ \E k \in 1..Len(Tail(state.mailbox)) :
                /\ Tail(state.mailbox)[k].data = <<>>
                /\ Without(Tail(state.mailbox), state'.mailbox, k)
    PROVE  FramingInv'
<1>1. /\ state.mailbox \in Seq(Mail) /\ state.mailbox # <<>>
      /\ Head(state.mailbox).type = type /\ Tail(state.mailbox) \in Seq(Mail)
    BY Taken
<1>2. status # "stopped"
    BY DEF Gets
<1>3. /\ stream \in Seq(Bytes) /\ taken <= Len(stream) /\ DataInSegments(state.mailbox)
    BY <1>2, RunningState
<1>4. ASSUME NEW got \in Nat, Chain(state.mailbox, stream, got, taken)
      PROVE  Chain(state'.mailbox, stream, got, taken)
    <2>1. Chain(Tail(state.mailbox), stream, got, taken)
        BY <1>1, <1>3, <1>4, ChainTaken
    <2> DEFINE box == Tail(state.mailbox)
               rest == state'.mailbox
    <2>2. \/ rest = box
          \/ \E k \in 1..Len(box) : box[k].data = <<>> /\ Without(box, rest, k)
        OBVIOUS
    <2>3. box \in Seq(Mail) /\ Chain(box, stream, got, taken)
        BY <1>1, <2>1
    <2> HIDE DEF box, rest
    <2>4. Chain(rest, stream, got, taken)
        BY <1>3, <2>2, <2>3, ChainRenewed
    <2> QED
        BY <2>4 DEF rest
<1> QED
    BY <1>2, <1>4, FramingQuiet

\* The connection is activated.
LEMMA FramingActivate ==
    ASSUME TimersInv, FramingInv, Activate
    PROVE  FramingInv'
<1>1. Gets("activate")
    BY DEF Activate
<1>2. /\ Received \in States /\ Received.mailbox = Tail(state.mailbox)
      /\ Received.timer = state.timer /\ Received.keepalive = state.keepalive
      /\ SameParser(state, Received)
      /\ status = "new" /\ state.mailbox \in Seq(Mail)
    BY <1>1, Taken
<1>3. state.timer = NoTimer /\ NewMailboxOK(state.mailbox)
    BY <1>2 DEF TimersInv
<1> DEFINE s == SetIdleTimer(Received)
<1>4. s \in States /\ s.mailbox = Tail(state.mailbox) /\ SameParser(Received, s)
    BY <1>2, <1>3, TimerSet
<1>5. Absent(Tail(state.mailbox), {"keepalive"})
    <2> DEFINE timer == [left |-> 0]
    <2>1. timer.left # Off /\ 1 # 0
        BY DEF Off
    <2> HIDE DEF timer
    <2> DEFINE box == Tail(state.mailbox)
    <2>2. /\ \A k : k # Off => MailboxOK(box, timer, k, 1)
          /\ Absent(box, {"keepalive"})
          /\ KeepaliveInterval = 0 => MailboxOK(box, timer, Off, 1)
        BY <1>2, <1>3, <2>1, Activated
    <2> QED
        BY <2>2
<1>6. state' = ScheduleKeepalive(s)
    BY DEF Activate
<1> HIDE DEF s
<1>7. state'.mailbox = s.mailbox /\ SameParser(s, state')
    BY <1>4, <1>5, <1>6, Rescheduled
<1>8. SameParser(state, state')
    BY <1>2, <1>4, <1>7 DEF SameParser
<1>9. /\ state'.mailbox = Tail(state.mailbox)
      /\ UNCHANGED <<parsing, stream, taken, intended, delivered>>
    BY <1>4, <1>7 DEF Activate
<1> QED
    BY <1>1, <1>8, <1>9, FramingTaken

\* A passive socket is re-armed.
LEMMA FramingHandlePassive ==
    ASSUME TimersInv, FramingInv, HandlePassive
    PROVE  FramingInv'
<1>1. Gets("tcp_passive") /\ state' = Received
      /\ UNCHANGED <<parsing, stream, taken, intended, delivered>>
    BY DEF HandlePassive
<1>2. SameParser(state, Received) /\ Received.mailbox = Tail(state.mailbox)
    BY <1>1, Taken
<1> QED
    BY <1>1, <1>2, FramingTaken

\* A send leaves the parser alone.
LEMMA FramingHandleCallSend ==
    ASSUME TimersInv, FramingInv, HandleCallSend
    PROVE  FramingInv'
<1>1. Gets("send")
    BY DEF HandleCallSend
<1>2. /\ state.mailbox \in Seq(Mail) /\ state.mailbox # <<>>
      /\ Head(state.mailbox).type = "send" /\ Received \in States
      /\ Received.mailbox = Tail(state.mailbox) /\ SameParser(state, Received)
      /\ Received.timer = state.timer /\ Received.keepalive = state.keepalive
      /\ state.timer.kind \in Expiries
      /\ MailboxOK(state.mailbox, state.timer, state.keepalive, active)
    BY <1>1, Taken
<1>3. CASE Stop
    BY <1>3, FramingStop
<1>4. CASE /\ state' = SetIdleTimer(Received)
           /\ UNCHANGED <<status, parsing, active, stream, taken, unsent,
                          intended, delivered, reading>>
    <2>1. MailboxOK(Received.mailbox, Received.timer, Received.keepalive, active)
        BY <1>2, MailboxTaken
    <2>2. /\ \/ state'.mailbox = Received.mailbox
             \/ \E k \in 1..Len(Received.mailbox) :
                  /\ Received.mailbox[k].data = <<>>
                  /\ Without(Received.mailbox, state'.mailbox, k)
          /\ SameParser(Received, state')
        BY <1>2, <1>4, <2>1, TimerRenewed
    <2>3. SameParser(state, state')
        BY <1>2, <2>2 DEF SameParser
    <2> QED
        BY <1>1, <1>2, <1>4, <2>2, <2>3, FramingTaken
<1> QED
    BY <1>3, <1>4 DEF HandleCallSend

\* So does a keep-alive.
LEMMA FramingHandleKeepalive ==
    ASSUME TimersInv, FramingInv, HandleKeepalive
    PROVE  FramingInv'
<1>1. Gets("keepalive")
    BY DEF HandleKeepalive
<1>2. /\ state.mailbox \in Seq(Mail) /\ state.mailbox # <<>>
      /\ Head(state.mailbox).type = "keepalive" /\ Received \in States
      /\ state.timer.kind \in Expiries
      /\ Received.mailbox = Tail(state.mailbox) /\ SameParser(state, Received)
      /\ MailboxOK(state.mailbox, state.timer, state.keepalive, active)
    BY <1>1, Taken
<1>3. CASE Stop
    BY <1>3, FramingStop
<1>4. CASE /\ state' = ScheduleKeepalive(Received)
           /\ UNCHANGED <<status, parsing, active, stream, taken, unsent,
                          intended, delivered, reading>>
    <2>1. KeepaliveInterval > 0 => Absent(Tail(state.mailbox), {"keepalive"})
        <3>1. /\ KeepaliveInterval = 0 =>
                   MailboxOK(Tail(state.mailbox), state.timer, state.keepalive, active)
              /\ KeepaliveInterval > 0 =>
                   /\ Absent(Tail(state.mailbox), {"keepalive"})
                   /\ \A later : later # Off =>
                        MailboxOK(Tail(state.mailbox), state.timer, later, active)
            BY <1>2, MailboxPinged
        <3> QED
            BY <3>1
    <2>2. state'.mailbox = Tail(state.mailbox) /\ SameParser(Received, state')
        BY <1>2, <1>4, <2>1, Rescheduled
    <2>3. SameParser(state, state')
        BY <1>2, <2>2 DEF SameParser
    <2> QED
        BY <1>1, <1>4, <2>2, <2>3, FramingTaken
<1> QED
    BY <1>3, <1>4 DEF HandleKeepalive
-----------------------------------------------------------------------------
(* The steps of the parser. *)

\* A segment is taken, and its bytes follow those of the buffer.
LEMMA FramingHandleData ==
    ASSUME TimersInv, FramingInv, HandleData
    PROVE  FramingInv'
<1>1. Gets("tcp")
    BY DEF HandleData
<1>2. /\ state \in States /\ state.mailbox \in Seq(Mail) /\ state.mailbox # <<>>
      /\ Received \in States /\ Received.mailbox = Tail(state.mailbox)
      /\ SameParser(state, Received) /\ status = "open"
    BY <1>1, Taken
<1>3. stream \in Seq(Bytes) /\ taken \in Nat /\ taken <= Len(stream) /\ Len(stream) \in Nat
    BY RunningState
<1> DEFINE data == Head(state.mailbox).data
           n == Len(delivered)
<1>4. /\ parsing' = TRUE /\ UNCHANGED <<status, stream, taken, intended, delivered>>
      /\ state' = [Received EXCEPT !.buffer = @ \o data]
    BY DEF HandleData
<1>5. /\ state'.mailbox = Tail(state.mailbox) /\ state'.buffer = state.buffer \o data
      /\ state'.parse_state = state.parse_state /\ state'.header = state.header
      /\ state'.clen = state.clen
    <2> HIDE DEF data
    <2> QED
        BY <1>2, <1>4 DEF States, SameParser
<1>6. PICK pos \in Nat, h \in Nat, got \in Nat :
        FrameAt(state, stream, intended, n, taken, pos, h, got)
    BY <1>2 DEF FramingInv, Framed
<1>7. pos <= h /\ h <= got /\ Chain(state.mailbox, stream, got, taken)
      /\ state.buffer = SubSeq(stream, h + 1, got)
    BY <1>6 DEF FrameAt
<1>8. PICK mid \in Nat : /\ got <= mid /\ mid <= taken
                         /\ data = SubSeq(stream, got + 1, mid)
                         /\ Chain(Tail(state.mailbox), stream, mid, taken)
    BY <1>2, <1>7, ChainTail
<1> HIDE DEF data
<1>9. mid <= Len(stream) /\ h <= mid
    BY <1>3, <1>7, <1>8
<1>10. state'.buffer = SubSeq(stream, h + 1, mid)
    <2>1. SubSeq(stream, h + 1, got) \o SubSeq(stream, got + 1, mid)
            = SubSeq(stream, h + 1, mid)
        BY <1>3, <1>7, <1>8, <1>9, SegmentsMeet
    <2> QED
        BY <1>5, <1>7, <1>8, <2>1
<1>11. FrameAt(state', stream, intended, n, taken, pos, h, mid)
    BY <1>5, <1>6, <1>8, <1>9, <1>10 DEF FrameAt
<1>12. Framed(state', stream, intended, n, taken)
    BY <1>11 DEF Framed
<1> QED
    BY <1>4, <1>12 DEF FramingInv

\* An idle connection waits with an empty buffer.
LEMMA FramingParseEmpty ==
    ASSUME TimersInv, FramingInv, ParseEmpty
    PROVE  FramingInv'
<1>1. parsing /\ state' = SetIdleTimer(state) /\ Settled(state)
      /\ UNCHANGED <<status, stream, taken, intended, delivered>>
    BY DEF ParseEmpty, Parses, Settled
<1>2. /\ state \in States /\ state.timer.kind \in Expiries /\ state.mailbox \in Seq(Mail)
      /\ MailboxOK(state.mailbox, state.timer, state.keepalive, active)
    BY <1>1, WhileParsing
<1>3. stream \in Seq(Bytes) /\ taken <= Len(stream)
    BY RunningState
<1> DEFINE rest == SetIdleTimer(state).mailbox
<1>4. /\ \/ rest = state.mailbox
         \/ \E k \in 1..Len(state.mailbox) :
              state.mailbox[k].data = <<>> /\ Without(state.mailbox, rest, k)
      /\ SameParser(state, SetIdleTimer(state))
    BY <1>2, TimerRenewed
<1> HIDE DEF rest
<1>5. \A got \in Nat : Chain(state.mailbox, stream, got, taken)
                         => Chain(rest, stream, got, taken)
    BY <1>2, <1>3, <1>4, ChainRenewed
<1> QED
    BY <1>1, <1>4, <1>5, FramingQuiet DEF rest

\* A header begins.
LEMMA FramingParseBegin ==
    ASSUME TimersInv, FramingInv, ParseBegin
    PROVE  FramingInv'
<1> DEFINE s == [state EXCEPT !.parse_state = "read_header"]
           rest == SetMessageTimer(s).mailbox
           n == Len(delivered)
<1>1. parsing /\ state.parse_state = "idle" /\ state' = SetMessageTimer(s)
      /\ UNCHANGED <<status, parsing, stream, taken, intended, delivered>>
    BY DEF ParseBegin, Parses
<1>2. /\ state \in States /\ state.timer.kind \in Expiries /\ state.mailbox \in Seq(Mail)
      /\ MailboxOK(state.mailbox, state.timer, state.keepalive, active) /\ status = "open"
    BY <1>1, WhileParsing
<1>3. stream \in Seq(Bytes) /\ taken <= Len(stream)
    BY RunningState
<1>4. /\ s \in States /\ s.timer = state.timer /\ s.mailbox = state.mailbox
      /\ s.keepalive = state.keepalive /\ s.parse_state = "read_header"
      /\ s.buffer = state.buffer /\ s.header = state.header
    BY <1>2 DEF States
<1> HIDE DEF s
<1>5. /\ \/ rest = state.mailbox
         \/ \E k \in 1..Len(state.mailbox) :
              state.mailbox[k].data = <<>> /\ Without(state.mailbox, rest, k)
      /\ SameParser(s, SetMessageTimer(s))
    BY <1>2, <1>4, TimerRenewed, ZenonT(30)
<1>6. PICK pos \in Nat, h \in Nat, got \in Nat :
        FrameAt(state, stream, intended, n, taken, pos, h, got)
    BY <1>2 DEF FramingInv, Framed
<1> HIDE DEF rest
<1>7. Chain(rest, stream, got, taken)
    <2>1. Chain(state.mailbox, stream, got, taken)
        BY <1>6 DEF FrameAt
    <2> QED
        BY <1>2, <1>3, <1>5, <2>1, ChainRenewed
<1>8. /\ state'.parse_state = "read_header" /\ state'.buffer = state.buffer
      /\ state'.header = state.header /\ state'.mailbox = rest
    BY <1>1, <1>4, <1>5 DEF SameParser, rest
<1>9. FrameAt(state', stream, intended, n, taken, pos, h, got)
    BY <1>1, <1>6, <1>7, <1>8 DEF FrameAt
<1>10. Framed(state', stream, intended, n, taken)
    BY <1>9 DEF Framed
<1> QED
    BY <1>1, <1>10 DEF FramingInv

\* The first bytes of the buffer, and the others, as bytes of the stream.
LEMMA SplitBuffer ==
    ASSUME NEW s \in Seq(Bytes), NEW h \in Nat, NEW got \in Nat, h <= got, got <= Len(s),
           NEW buffer, buffer = SubSeq(s, h + 1, got),
           NEW k \in Nat, k <= got - h
    PROVE  /\ buffer \in Seq(Bytes) /\ Len(buffer) = got - h
           /\ SubSeq(buffer, 1, k) = SubSeq(s, h + 1, h + k)
           /\ SubSeq(buffer, k + 1, Len(buffer)) = SubSeq(s, (h + k) + 1, got)
<1>1. buffer \in Seq(Bytes) /\ Len(buffer) = got - h
    BY Segment
<1>2. SubSeq(buffer, 1, k) = SubSeq(s, h + 1, h + k)
    <2>1. SubSeq(buffer, 0 + 1, k) = SubSeq(s, h + 0 + 1, h + k)
        <3>1. 0 \in Nat /\ 0 <= k
            OBVIOUS
        <3> QED
            BY <3>1, SegmentOfSegment
    <2>2. 0 + 1 = 1 /\ h + 0 + 1 = h + 1
        OBVIOUS
    <2> QED
        BY <2>1, <2>2, Zenon
<1>3. SubSeq(buffer, k + 1, got - h) = SubSeq(s, (h + k) + 1, got)
    <2>1. got - h \in Nat /\ got - h <= got - h /\ h + (got - h) = got
        OBVIOUS
    <2>2. SubSeq(buffer, k + 1, got - h) = SubSeq(s, h + k + 1, h + (got - h))
        BY <2>1, SegmentOfSegment
    <2> QED
        BY <2>1, <2>2, Zenon
<1> QED
    BY <1>1, <1>2, <1>3

\* Where the parser is in the stream.
LEMMA WhereParsing ==
    ASSUME TimersInv, FramingInv, parsing
    PROVE  /\ state \in States /\ stream \in Seq(Bytes) /\ status = "open"
           /\ intended \in Seq([start : Nat, end : Nat]) /\ StreamWell(stream, intended)
           /\ Len(stream) \in Nat /\ Len(delivered) \in Nat
           /\ \E pos, h, got \in Nat :
                /\ FrameAt(state, stream, intended, Len(delivered), taken, pos, h, got)
                /\ pos <= h /\ h <= got /\ got <= Len(stream)
                /\ Chain(state.mailbox, stream, got, taken)
                /\ Between(stream, intended, Len(delivered), pos)
                /\ state.header = SubSeq(stream, pos + 1, h)
                /\ state.buffer = SubSeq(stream, h + 1, got)
<1>1. /\ state \in States /\ stream \in Seq(Bytes) /\ state.mailbox \in Seq(Mail)
      /\ intended \in Seq([start : Nat, end : Nat]) /\ Len(stream) \in Nat
      /\ Len(delivered) \in Nat /\ taken \in Nat /\ taken <= Len(stream)
    BY RunningState
<1>2. status = "open"
    BY WhileParsing
<1>3. StreamWell(stream, intended) /\ Framed(state, stream, intended, Len(delivered), taken)
    BY <1>2 DEF FramingInv
<1>4. PICK pos \in Nat, h \in Nat, got \in Nat :
        FrameAt(state, stream, intended, Len(delivered), taken, pos, h, got)
    BY <1>3 DEF Framed
<1>5. pos <= h /\ h <= got /\ Chain(state.mailbox, stream, got, taken)
      /\ Between(stream, intended, Len(delivered), pos)
      /\ state.header = SubSeq(stream, pos + 1, h) /\ state.buffer = SubSeq(stream, h + 1, got)
    BY <1>4 DEF FrameAt
<1>6. got <= taken
    BY <1>1, <1>5, ChainBounds
<1>7. got <= Len(stream)
    BY <1>1, <1>6
<1> QED
    BY <1>1, <1>2, <1>3, <1>4, <1>5, <1>7

\* A line end at the front of an idle connection's buffer is no part of a message.
LEMMA LineEndBetween ==
    ASSUME NEW s \in Seq(Bytes), NEW spans \in Seq([start : Nat, end : Nat]),
           StreamWell(s, spans), NEW n \in Nat, NEW pos \in Nat,
           Between(s, spans, n, pos), NEW got \in Nat, pos <= got, got <= Len(s),
           NEW k, k = LeadingLineEnd(SubSeq(s, pos + 1, got)), k # 0
    PROVE  k \in Nat /\ k <= got - pos /\ Between(s, spans, n, pos + k)
<1> DEFINE b == SubSeq(s, pos + 1, got)
<1>1. b \in Seq(Bytes) /\ Len(b) = got - pos /\ \A i \in 1..(got - pos) : b[i] = s[pos + i]
    BY Segment, SMTT(30)
<1> HIDE DEF b
<1>2. \/ k = 1 /\ got - pos >= 1 /\ b[1] = "LF"
      \/ k = 2 /\ got - pos >= 2 /\ b[1] = "CR" /\ b[2] = "LF"
    BY <1>1 DEF LeadingLineEnd, b
<1>3. \/ k = 1 /\ got - pos >= 1 /\ s[pos + 1] = "LF"
      \/ k = 2 /\ got - pos >= 2 /\ s[pos + 1] = "CR" /\ s[pos + 2] = "LF"
    BY <1>1, <1>2
<1>4. k \in Nat /\ k <= got - pos /\ Len(s) \in Nat
    BY <1>3, Elements
<1>5. n \in 0..Len(spans) /\ Len(spans) \in Nat /\ \A i \in 1..n : spans[i].end <= pos
    BY Elements DEF Between
<1>6. ASSUME n < Len(spans) PROVE pos + k <= spans[n + 1].start
    <2> DEFINE a == spans[n + 1].start
    <2>1. n + 1 \in 1..Len(spans)
        BY <1>5, <1>6
    <2>2. a \in Nat /\ spans[n + 1].end \in Nat /\ spans[n + 1] \in [start : Nat, end : Nat]
          /\ DOMAIN spans = 1..Len(spans)
        BY <2>1, SpanBounds
    <2>3. a < spans[n + 1].end /\ spans[n + 1].end <= Len(s)
          /\ WellFramed(SubSeq(s, a + 1, spans[n + 1].end))
        BY <2>1, <2>2 DEF StreamWell
    <2>4. PICK h \in Nat : HeaderEndsAt(s, spans[n + 1], h)
        <3>1. spans[n + 1].start <= spans[n + 1].end
            BY <2>2, <2>3
        <3> QED
            BY <2>2, <2>3, <3>1, MessageHeader
    <2>5. s[a + 1] # "LF" /\ (s[a + 1] # "CR" \/ s[a + 2] # "LF")
        BY <2>4 DEF HeaderEndsAt
    <2>6. pos <= a
        BY <1>6 DEF Between
    <2> HIDE DEF a
    <2>7. pos # a
        BY <1>3, <2>5
    <2>8. pos + 1 <= a
        BY <2>2, <2>6, <2>7
    <2>9. CASE k = 1
        BY <2>8, <2>9 DEF a
    <2>10. CASE k = 2
        <3>1. s[pos + 1] # "LF"
            BY <1>3, <2>10
        <3>2. pos + 1 \in (pos + 1)..Len(s)
            BY <1>3, <1>4
        <3> DEFINE i == pos + 1
        <3>3. i \in (pos + 1)..Len(s) /\ (n < Len(spans) => i <= spans[n + 1].start)
              /\ s[i] # "LF"
            BY <2>8, <3>1, <3>2 DEF a
        <3> HIDE DEF i
        <3>4. i + 1 <= spans[n + 1].start
            BY <1>6, <3>3, GapBytes
        <3> QED
            BY <2>10, <3>4 DEF i
    <2> QED
        BY <1>3, <2>9, <2>10
<1>7. \A i \in 1..n : spans[i].end <= pos + k
    <2> SUFFICES ASSUME NEW i \in 1..n PROVE spans[i].end <= pos + k
        OBVIOUS
    <2>1. spans[i].end <= pos
        BY <1>5
    <2>2. i \in 1..Len(spans)
        BY <1>5
    <2>3. spans[i].end \in Nat
        BY <2>2, SpanBounds
    <2> QED
        BY <1>4, <2>1, <2>3, SMTT(30)
<1>8. pos + k \in 0..Len(s)
    BY <1>4
<1> QED
    BY <1>4, <1>5, <1>6, <1>7, <1>8 DEF Between

\* A line end is stripped.
LEMMA FramingParseLineEnd ==
    ASSUME TimersInv, FramingInv, ParseLineEnd
    PROVE  FramingInv'
<1> DEFINE k == LeadingLineEnd(state.buffer)
           rest == SubSeq(state.buffer, k + 1, Len(state.buffer))
           n == Len(delivered)
<1>1. /\ parsing /\ state.parse_state = "idle" /\ k # 0
      /\ state' = [state EXCEPT !.buffer = rest]
      /\ UNCHANGED <<status, parsing, stream, taken, intended, delivered>>
    BY DEF ParseLineEnd, Parses
<1>2. /\ state \in States /\ stream \in Seq(Bytes) /\ status = "open"
      /\ intended \in Seq([start : Nat, end : Nat]) /\ StreamWell(stream, intended)
      /\ Len(stream) \in Nat /\ n \in Nat
    BY <1>1, WhereParsing
<1>3. PICK pos \in Nat, h \in Nat, got \in Nat :
        /\ FrameAt(state, stream, intended, n, taken, pos, h, got)
        /\ pos <= h /\ h <= got /\ got <= Len(stream)
        /\ Chain(state.mailbox, stream, got, taken)
        /\ Between(stream, intended, n, pos)
        /\ state.header = SubSeq(stream, pos + 1, h)
        /\ state.buffer = SubSeq(stream, h + 1, got)
    BY <1>1, WhereParsing
<1>4. h = pos
    BY <1>1, <1>3 DEF FrameAt
<1>5. k \in Nat /\ k <= got - pos /\ Between(stream, intended, n, pos + k)
    <2>1. pos <= got /\ k = LeadingLineEnd(SubSeq(stream, pos + 1, got))
        BY <1>3, <1>4
    <2> HIDE DEF k, n
    <2> QED
        BY <1>1, <1>2, <1>3, <2>1, LineEndBetween
<1> HIDE DEF k
<1>6. rest = SubSeq(stream, (pos + k) + 1, got)
    BY <1>2, <1>3, <1>4, <1>5, SplitBuffer
<1> HIDE DEF rest
<1>7. /\ state'.mailbox = state.mailbox /\ state'.parse_state = "idle"
      /\ state'.buffer = rest /\ state'.header = state.header
    BY <1>1, <1>2 DEF States
<1>8. pos + k \in Nat /\ pos + k <= got
    BY <1>3, <1>5
<1>9. state'.header = SubSeq(stream, (pos + k) + 1, pos + k)
    BY <1>2, <1>3, <1>4, <1>7, <1>8, NoSegment
<1>10. FrameAt(state', stream, intended, n, taken, pos + k, pos + k, got)
    <2> DEFINE p == pos + k
    <2>1. /\ p <= p /\ p <= got /\ Between(stream, intended, n, p)
          /\ state'.header = SubSeq(stream, p + 1, p) /\ state'.buffer = SubSeq(stream, p + 1, got)
        BY <1>5, <1>6, <1>7, <1>8, <1>9
    <2> HIDE DEF p
    <2>2. FrameAt(state', stream, intended, n, taken, p, p, got)
        BY <1>3, <1>7, <2>1 DEF FrameAt
    <2> QED
        BY <2>2 DEF p
<1>11. Framed(state', stream, intended, n, taken)
    BY <1>8, <1>10 DEF Framed
<1> QED
    BY <1>1, <1>11 DEF FramingInv

\* The header is cut off where it ends, or the parser waits for more of it.
LEMMA FramingParseHeader ==
    ASSUME TimersInv, FramingInv, ~NextMisread, ParseHeader
    PROVE  FramingInv'
<1> DEFINE f == FindHeaderEnd(state.buffer)
           header == SubSeq(state.buffer, 1, f)
           rest == SubSeq(state.buffer, f + 1, Len(state.buffer))
           clen == ContentLength(header)
           n == Len(delivered)
<1>1. /\ parsing /\ state.parse_state = "read_header"
      /\ UNCHANGED <<status, stream, taken, intended, delivered>>
    BY DEF ParseHeader, Parses
<1>2. /\ state \in States /\ stream \in Seq(Bytes) /\ status = "open"
      /\ intended \in Seq([start : Nat, end : Nat]) /\ StreamWell(stream, intended)
      /\ Len(stream) \in Nat /\ n \in Nat
    BY <1>1, WhereParsing
<1>3. CASE f = 0 /\ parsing' = FALSE /\ UNCHANGED state
    <2>1. Settled(state)
        BY <1>1, <1>3 DEF Settled
    <2>2. SameParser(state, state') /\ state'.mailbox = state.mailbox
        BY <1>3 DEF SameParser
    <2> QED
        BY <1>1, <2>1, <2>2, FramingQuiet
<1>4. CASE /\ f # 0
           /\ state' = [state EXCEPT !.parse_state = "read_body", !.buffer = rest,
                                     !.header = header, !.clen = clen]
           /\ UNCHANGED parsing
    <2>1. PICK pos \in Nat, h \in Nat, got \in Nat :
            /\ FrameAt(state, stream, intended, n, taken, pos, h, got)
            /\ pos <= h /\ h <= got /\ got <= Len(stream)
            /\ Chain(state.mailbox, stream, got, taken)
            /\ Between(stream, intended, n, pos)
            /\ state.header = SubSeq(stream, pos + 1, h)
            /\ state.buffer = SubSeq(stream, h + 1, got)
        BY <1>1, WhereParsing
    <2>2. h = pos
        BY <1>1, <2>1 DEF FrameAt
    <2>3. /\ f \in 1..(got - pos)
          /\ \/ /\ LineEnds(stream, pos, pos + f)
                /\ n < Len(intended) => pos + f <= intended[n + 1].start
                /\ ContentLength(SubSeq(stream, pos + 1, pos + f)) = 0
             \/ /\ n < Len(intended)
                /\ intended[n + 1].start < pos + f /\ pos + f <= intended[n + 1].end
                /\ LineEnds(stream, pos, intended[n + 1].start)
                /\ ContentLength(SubSeq(stream, pos + 1, pos + f))
                     = intended[n + 1].end - (pos + f)
        <3>1. pos <= got /\ f = FindHeaderEnd(SubSeq(stream, pos + 1, got)) /\ f # 0
            BY <1>4, <2>1, <2>2
        <3>2. n < Len(intended) => ~MisreadAt(stream, intended[n + 1])
            BY DEF NextMisread
        <3> HIDE DEF f, n
        <3> QED
            BY <1>2, <2>1, <3>1, <3>2, HeaderFound, SMTT(30)
    <2> HIDE DEF f
    <2>4. f \in Nat /\ f <= got - pos /\ pos + f \in Nat /\ pos <= pos + f /\ pos + f <= got
        BY <2>3
    <2>5. /\ header = SubSeq(stream, pos + 1, pos + f)
          /\ rest = SubSeq(stream, (pos + f) + 1, got)
        BY <1>2, <2>1, <2>2, <2>4, SplitBuffer
    <2> HIDE DEF header, rest
    <2> DEFINE e == pos + f
    <2>6. HeaderRead(stream, intended, n, pos, e, clen)
        <3>1. CASE /\ LineEnds(stream, pos, pos + f)
                   /\ n < Len(intended) => pos + f <= intended[n + 1].start
                   /\ ContentLength(SubSeq(stream, pos + 1, pos + f)) = 0
            BY <2>5, <3>1 DEF HeaderRead
        <3>2. CASE /\ n < Len(intended)
                   /\ intended[n + 1].start < pos + f /\ pos + f <= intended[n + 1].end
                   /\ LineEnds(stream, pos, intended[n + 1].start)
                   /\ ContentLength(SubSeq(stream, pos + 1, pos + f))
                        = intended[n + 1].end - (pos + f)
            <4> DEFINE b == intended[n + 1].end
            <4>1. b \in Nat
                <5>1. n + 1 \in 1..Len(intended)
                    <6>1. Len(intended) \in Nat /\ n < Len(intended)
                        BY <1>2, <3>2, Elements
                    <6> QED
                        BY <1>2, <6>1
                <5> QED
                    BY <1>2, <5>1, SpanBounds
            <4>2. clen = b - e
                BY <2>5, <3>2
            <4>3. e \in Nat
                BY <2>4
            <4> HIDE DEF b, e, clen
            <4>4. e + clen = b
                BY <4>1, <4>2, <4>3
            <4>5. e + clen = intended[n + 1].end
                BY <4>4 DEF b
            <4>6. intended[n + 1].start < e
                BY <3>2 DEF e
            <4> QED
                BY <3>2, <4>5, <4>6 DEF HeaderRead
        <3> QED
            BY <2>3, <3>1, <3>2
    <2>7. /\ state'.mailbox = state.mailbox /\ state'.parse_state = "read_body"
          /\ state'.buffer = rest /\ state'.header = header /\ state'.clen = clen
        <3> HIDE DEF clen
        <3> QED
            BY <1>2, <1>4 DEF States
    <2>8. /\ e \in Nat /\ pos <= e /\ e <= got /\ header = SubSeq(stream, pos + 1, e)
          /\ rest = SubSeq(stream, e + 1, got)
        BY <2>4, <2>5
    <2> HIDE DEF clen, e
    <2>9. FrameAt(state', stream, intended, n, taken, pos, e, got)
        BY <2>1, <2>6, <2>7, <2>8 DEF FrameAt
    <2>10. Framed(state', stream, intended, n, taken)
        BY <2>8, <2>9 DEF Framed
    <2> QED
        BY <1>1, <1>4, <2>10 DEF FramingInv
<1> QED
    BY <1>3, <1>4 DEF ParseHeader

\* The bytes of a complete message: line ends alone, which the router ignores, or
\* the next message of the peer's.
LEMMA BodyRead ==
    ASSUME NEW s \in Seq(Bytes), NEW spans \in Seq([start : Nat, end : Nat]),
           StreamWell(s, spans), NEW n \in Nat, NEW pos \in Nat,
           Between(s, spans, n, pos), NEW h \in Nat, pos <= h, NEW clen \in Nat,
           h + clen <= Len(s), HeaderRead(s, spans, n, pos, h, clen),
           NEW messages \in Seq(Seq(Bytes)), Len(messages) = n, FirstSent(messages, s, spans),
           NEW after, after = Deliver(messages, SubSeq(s, pos + 1, h + clen))
    PROVE  FirstSent(after, s, spans) /\ Between(s, spans, Len(after), h + clen)
<1> DEFINE raw == SubSeq(s, pos + 1, h + clen)
<1>1. n \in 0..Len(spans) /\ Len(spans) \in Nat /\ Len(s) \in Nat /\ n <= Len(spans)
    <2>1. n \in 0..Len(spans) /\ Len(spans) \in Nat /\ Len(s) \in Nat
        BY Elements DEF Between
    <2> QED
        BY <2>1
<1>2. \A i \in 1..n : spans[i].end <= h + clen
    <2> SUFFICES ASSUME NEW i \in 1..n PROVE spans[i].end <= h + clen
        OBVIOUS
    <2>1. spans[i].end <= pos
        BY DEF Between
    <2>2. i \in 1..Len(spans)
        BY <1>1
    <2>3. spans[i].end \in Nat
        BY <2>2, SpanBounds
    <2> QED
        BY <2>1, <2>3, SMTT(30)
<1>3. h + clen \in 0..Len(s) /\ h + clen \in Nat
    BY <1>1
<1>4. CASE /\ clen = 0 /\ LineEnds(s, pos, h)
           /\ n < Len(spans) => h <= spans[n + 1].start
    <2>1. h + clen = h /\ h <= Len(s) /\ h <= h
        BY <1>4, <1>1
    <2>2. SubSeq(s, h + 1, h) = <<>>
        BY NoSegment
    <2>3. LeadingLineEnd(<<>>) = 0
        BY DEF LeadingLineEnd
    <2>4. StripLines(SubSeq(s, pos + 1, h)) = SubSeq(s, h + 1, h)
        <3>1. LineEnds(s, pos, h) /\ LeadingLineEnd(SubSeq(s, h + 1, h)) = 0
            BY <1>4, <2>2, <2>3
        <3>2. h <= h /\ h <= Len(s)
            BY <2>1
        <3> QED
            BY <3>1, <3>2, Stripped
    <2>5. after = messages
        <3>1. raw = SubSeq(s, pos + 1, h)
            BY <2>1
        <3> HIDE DEF raw
        <3> QED
            BY <2>2, <2>4, <3>1 DEF Deliver, raw
    <2>6. Between(s, spans, n, h)
        BY <1>1, <1>2, <1>3, <1>4, <2>1 DEF Between
    <2> QED
        BY <2>1, <2>5, <2>6
<1>5. CASE /\ n < Len(spans)
           /\ spans[n + 1].start < h /\ h + clen = spans[n + 1].end
           /\ LineEnds(s, pos, spans[n + 1].start)
    <2> DEFINE a == spans[n + 1].start
               b == spans[n + 1].end
               m == SubSeq(s, a + 1, b)
    <2>1. n + 1 \in 1..Len(spans) /\ DOMAIN spans = 1..Len(spans)
        BY <1>1, <1>5, SpanBounds
    <2>2. a \in Nat /\ b \in Nat
        BY <2>1, SpanBounds
    <2>3. a < b /\ b <= Len(s) /\ WellFramed(m)
        BY <2>1 DEF StreamWell
    <2>4. pos <= a /\ LineEnds(s, pos, a)
        BY <1>5 DEF Between
    <2>5. LeadingLineEnd(m) = 0
        BY <2>3 DEF WellFramed
    <2> HIDE DEF a, b
    <2>14. a <= b /\ b - a # 0
        BY <2>2, <2>3
    <2>6. m \in Seq(Bytes) /\ Len(m) = b - a
        BY <2>2, <2>3, <2>14, Segment
    <2>7. StripLines(SubSeq(s, pos + 1, b)) = m
        <3>1. LeadingLineEnd(SubSeq(s, a + 1, b)) = 0
            BY <2>5
        <3>2. a \in Nat /\ b \in Nat /\ pos <= a /\ a <= b /\ b <= Len(s) /\ LineEnds(s, pos, a)
            BY <2>2, <2>3, <2>4, <2>14
        <3>3. StripLines(SubSeq(s, pos + 1, b)) = SubSeq(s, a + 1, b)
            BY <3>1, <3>2, Stripped
        <3> QED
            BY <3>3
    <2>8. m # <<>>
        <3> HIDE DEF m
        <3> QED
            BY <2>6, <2>14
    <2>9. raw = SubSeq(s, pos + 1, b)
        BY <1>5 DEF b
    <2> HIDE DEF m, raw
    <2>10. after = Append(messages, m)
        BY <2>7, <2>8, <2>9 DEF Deliver, raw
    <2>11. /\ Len(after) = n + 1 /\ after[n + 1] = m
           /\ \A i \in 1..n : after[i] = messages[i]
        <3> DEFINE T == Seq(Bytes)
        <3>1. messages \in Seq(T) /\ m \in T
            BY <2>6
        <3> HIDE DEF T
        <3>2. /\ Len(Append(messages, m)) = Len(messages) + 1
              /\ Append(messages, m)[Len(messages) + 1] = m
              /\ \A i \in 1..Len(messages) : Append(messages, m)[i] = messages[i]
            BY <3>1, Appended
        <3> QED
            BY <2>10, <3>2, Zenon
    <2>12. FirstSent(after, s, spans)
        <3>1. Len(after) <= Len(spans)
            BY <1>1, <2>1, <2>11
        <3>2. \A i \in 1..Len(after) : after[i] = SubSeq(s, spans[i].start + 1, spans[i].end)
            <4> SUFFICES ASSUME NEW i \in 1..(n + 1)
                         PROVE  after[i] = SubSeq(s, spans[i].start + 1, spans[i].end)
                BY <2>11
            <4>1. CASE i \in 1..n
                BY <2>11, <4>1 DEF FirstSent
            <4>2. CASE i = n + 1
                BY <2>11, <4>2 DEF m, a, b
            <4> QED
                BY <1>1, <4>1, <4>2
        <3> QED
            BY <3>1, <3>2 DEF FirstSent
    <2>13. Between(s, spans, n + 1, b)
        <3>1. n + 1 \in 0..Len(spans) /\ b \in 0..Len(s)
            BY <1>1, <2>1, <2>2, <2>3
        <3>2. \A i \in 1..(n + 1) : spans[i].end <= b
            <4> SUFFICES ASSUME NEW i \in 1..(n + 1) PROVE spans[i].end <= b
                OBVIOUS
            <4>1. CASE i \in 1..n
                <5>1. spans[i].end <= h + clen
                    BY <1>2, <4>1
                <5> QED
                    BY <1>5, <5>1 DEF b
            <4>2. CASE i = n + 1
                BY <2>2, <4>2, SMTT(30) DEF b
            <4> QED
                BY <1>1, <4>1, <4>2
        <3>3. n + 1 < Len(spans) => b <= spans[(n + 1) + 1].start
            <4> SUFFICES ASSUME n + 1 < Len(spans) PROVE b <= spans[(n + 1) + 1].start
                OBVIOUS
            <4>1. (n + 1) + 1 \in 1..Len(spans) /\ n + 1 < (n + 1) + 1
                BY <1>1
            <4> QED
                BY <2>1, <4>1 DEF StreamWell, b
        <3> QED
            BY <3>1, <3>2, <3>3 DEF Between
    <2> QED
        BY <1>5, <2>11, <2>12, <2>13 DEF b
<1> QED
    BY <1>4, <1>5 DEF HeaderRead

\* The message is delivered, or the parser waits for more of its body.
LEMMA FramingParseBody ==
    ASSUME TimersInv, FramingInv, ParseBody
    PROVE  FramingInv'
<1> DEFINE clen == state.clen
           rest == SubSeq(state.buffer, clen + 1, Len(state.buffer))
           raw == state.header \o SubSeq(state.buffer, 1, clen)
           n == Len(delivered)
<1>1. /\ parsing /\ state.parse_state = "read_body"
      /\ UNCHANGED <<status, stream, taken, intended>>
    BY DEF ParseBody, Parses
<1>2. /\ state \in States /\ stream \in Seq(Bytes) /\ status = "open"
      /\ intended \in Seq([start : Nat, end : Nat]) /\ StreamWell(stream, intended)
      /\ Len(stream) \in Nat /\ n \in Nat
    BY <1>1, WhereParsing
<1>3. CASE Len(state.buffer) < clen /\ parsing' = FALSE /\ UNCHANGED <<state, delivered>>
    <2>1. Settled(state)
        BY <1>1, <1>3 DEF Settled
    <2>2. SameParser(state, state') /\ state'.mailbox = state.mailbox
        BY <1>3 DEF SameParser
    <2> QED
        BY <1>1, <1>3, <2>1, <2>2, FramingQuiet
<1>4. CASE /\ Len(state.buffer) >= clen
           /\ delivered' = Deliver(delivered, raw)
           /\ state' = [state EXCEPT !.parse_state = "idle", !.buffer = rest,
                                     !.header = <<>>, !.clen = 0]
           /\ UNCHANGED parsing
    <2>1. PICK pos \in Nat, h \in Nat, got \in Nat :
            /\ FrameAt(state, stream, intended, n, taken, pos, h, got)
            /\ pos <= h /\ h <= got /\ got <= Len(stream)
            /\ Chain(state.mailbox, stream, got, taken)
            /\ Between(stream, intended, n, pos)
            /\ state.header = SubSeq(stream, pos + 1, h)
            /\ state.buffer = SubSeq(stream, h + 1, got)
        BY <1>1, WhereParsing
    <2>2. HeaderRead(stream, intended, n, pos, h, clen)
        BY <1>1, <2>1 DEF FrameAt
    <2>3. clen \in Nat /\ Len(state.buffer) = got - h
        BY <1>2, <2>1, StateFields, Segment
    <2> HIDE DEF clen
    <2>4. clen <= got - h /\ h + clen \in Nat /\ h <= h + clen /\ h + clen <= got
          /\ h + clen <= Len(stream)
        <3> DEFINE l == Len(state.buffer)
        <3>1. l >= clen /\ l = got - h /\ h <= got /\ got <= Len(stream)
            BY <1>4, <2>1, <2>3
        <3> HIDE DEF l
        <3>2. clen <= got - h
            BY <2>3, <3>1
        <3> QED
            BY <1>2, <2>3, <3>1, <3>2
    <2>5. /\ SubSeq(state.buffer, 1, clen) = SubSeq(stream, h + 1, h + clen)
          /\ rest = SubSeq(stream, (h + clen) + 1, got)
        BY <1>2, <2>1, <2>3, <2>4, SplitBuffer
    <2>6. raw = SubSeq(stream, pos + 1, h + clen)
        <3>1. SubSeq(stream, pos + 1, h) \o SubSeq(stream, h + 1, h + clen)
                = SubSeq(stream, pos + 1, h + clen)
            <4> DEFINE e == h + clen
            <4>1. e \in Nat /\ h <= e /\ e <= Len(stream)
                BY <2>4
            <4> HIDE DEF e
            <4>2. SubSeq(stream, pos + 1, h) \o SubSeq(stream, h + 1, e)
                    = SubSeq(stream, pos + 1, e)
                BY <1>2, <2>1, <4>1, SegmentsMeet, SMTT(30)
            <4> QED
                BY <4>2 DEF e
        <3> QED
            BY <2>1, <2>5, <3>1
    <2> HIDE DEF rest, raw
    <2>7. delivered \in Seq(Seq(Bytes)) /\ FirstSent(delivered, stream, intended)
        BY RunningState DEF FramingInv
    <2>8. ASSUME NEW after, after = Deliver(delivered, SubSeq(stream, pos + 1, h + clen))
          PROVE  /\ FirstSent(after, stream, intended)
                 /\ Between(stream, intended, Len(after), h + clen)
        BY <1>2, <2>1, <2>2, <2>3, <2>4, <2>7, <2>8, BodyRead
    <2>9. /\ FirstSent(delivered', stream, intended)
          /\ Between(stream, intended, Len(delivered'), h + clen)
        BY <1>4, <2>6, <2>8
    <2>10. /\ state'.mailbox = state.mailbox /\ state'.parse_state = "idle"
           /\ state'.buffer = rest /\ state'.header = <<>>
        BY <1>2, <1>4 DEF States
    <2> DEFINE p == h + clen
    <2>11. /\ p \in Nat /\ p <= p /\ p <= got /\ rest = SubSeq(stream, p + 1, got)
           /\ Between(stream, intended, Len(delivered'), p)
           /\ SubSeq(stream, p + 1, p) = <<>>
        BY <1>2, <2>4, <2>5, <2>9, NoSegment, SMTT(30)
    <2> HIDE DEF p
    <2>12. FrameAt(state', stream, intended, Len(delivered'), taken, p, p, got)
        BY <2>1, <2>10, <2>11 DEF FrameAt
    <2>13. Framed(state', stream, intended, Len(delivered'), taken)
        BY <2>11, <2>12 DEF Framed
    <2> QED
        BY <1>1, <1>2, <1>4, <2>9, <2>13 DEF FramingInv
<1> QED
    BY <1>3, <1>4 DEF ParseBody

\* Every step keeps the framing, as long as the next message is not misread.
LEMMA FramingStep ==
    TimersInv /\ FramingInv /\ ~NextMisread /\ [ConnectionNext]_connectionVars
      => FramingInv'
<1> SUFFICES ASSUME TimersInv, FramingInv, ~NextMisread,
                    [ConnectionNext]_connectionVars
             PROVE  FramingInv'
    OBVIOUS
<1>1. CASE UNCHANGED connectionVars
    <2>1. UNCHANGED <<status, state, parsing, stream, taken, intended, delivered>>
        BY <1>1 DEF connectionVars
    <2>2. SameParser(state, state')
        BY <2>1 DEF SameParser
    <2> QED
        BY <2>1, <2>2, FramingQuiet
<1>2. CASE \E unit \in Units : PeerWrites(unit)
    BY <1>2, FramingPeerWrites
<1>3. CASE \E n \in 1..(Len(stream) - taken) : Arrive(n)
    BY <1>3, FramingArrive
<1>4. CASE \/ PeerCloses \/ FireTimer \/ FireKeepalive
           \/ \E type \in {"send", "force_close"} : FromTransport(type)
    BY <1>4, FramingPosts
<1>5. CASE Tick
    BY <1>5, FramingTick
<1>6. CASE Handle
    <2>1. HandleStop => Stop
        BY DEF HandleStop
    <2> QED
        BY <1>6, <2>1, FramingActivate, FramingHandleData, FramingHandlePassive,
           FramingHandleCallSend, FramingHandleKeepalive, FramingStop DEF Handle
<1>7. CASE Parse
    BY <1>7, FramingParseEmpty, FramingParseLineEnd, FramingParseBegin,
       FramingParseHeader, FramingParseBody DEF Parse
<1> QED
    BY <1>1, <1>2, <1>3, <1>4, <1>5, <1>6, <1>7 DEF ConnectionNext

\* From the first misread message on nothing is known of the framing.
LEMMA LostBegins ==
    ASSUME TimersInv, FramingInv, NextMisread
    PROVE  LostInv
<1> DEFINE i == Len(delivered) + 1
<1>1. Len(delivered) \in Nat /\ intended \in Seq([start : Nat, end : Nat])
    BY RunningState
<1>2. Len(intended) \in Nat
    BY <1>1, SpanBounds
<1>3. i \in 1..Len(intended) /\ i - 1 = Len(delivered)
    BY <1>1, <1>2 DEF NextMisread
<1>4. StreamWell(stream, intended) /\ FirstSent(delivered, stream, intended)
    BY DEF FramingInv
<1>5. MisreadAt(stream, intended[i])
    BY DEF NextMisread
<1>6. \A j \in 1..(i - 1) :
        delivered[j] = SubSeq(stream, intended[j].start + 1, intended[j].end)
    BY <1>3, <1>4 DEF FirstSent
<1>7. i - 1 <= Len(delivered)
    BY <1>1, <1>3
<1> HIDE DEF i
<1> QED
    BY <1>3, <1>4, <1>5, <1>6, <1>7 DEF LostInv, Lost

\* The messages of a stream are the same when it has grown.
LEMMA SpanStays ==
    ASSUME NEW s \in Seq(Bytes), NEW spans \in Seq([start : Nat, end : Nat]),
           StreamWell(s, spans), NEW unit \in Seq(Bytes), NEW i \in 1..Len(spans)
    PROVE  SubSeq(s \o unit, spans[i].start + 1, spans[i].end)
             = SubSeq(s, spans[i].start + 1, spans[i].end)
<1> DEFINE a == spans[i].start
           b == spans[i].end
<1>1. a \in Nat /\ b \in Nat /\ DOMAIN spans = 1..Len(spans)
    BY SpanBounds
<1>2. a < b /\ b <= Len(s)
    BY <1>1 DEF StreamWell
<1> HIDE DEF a, b
<1>3. a <= b
    BY <1>1, <1>2
<1>4. SubSeq(s \o unit, a + 1, b) = SubSeq(s, a + 1, b)
    BY <1>1, <1>2, <1>3, SegmentStays
<1> QED
    BY <1>4 DEF a, b

\* A misread message stays what it is while the stream and the messages grow.
LEMMA LostStays ==
    ASSUME TimersInv, LostInv, [ConnectionNext]_connectionVars
    PROVE  LostInv'
<1>1. /\ stream \in Seq(Bytes) /\ intended \in Seq([start : Nat, end : Nat])
      /\ delivered \in Seq(Seq(Bytes)) /\ Len(delivered) \in Nat
      /\ StreamWell(stream, intended)
    BY RunningState DEF LostInv
<1>2. PICK i \in 1..Len(intended) :
        /\ MisreadAt(stream, intended[i])
        /\ i - 1 <= Len(delivered)
        /\ \A j \in 1..(i - 1) :
             delivered[j] = SubSeq(stream, intended[j].start + 1, intended[j].end)
    BY DEF LostInv, Lost
<1>3. CASE UNCHANGED <<stream, intended, delivered>>
    BY <1>3 DEF LostInv
<1>4. CASE \E unit \in Units : PeerWrites(unit)
    <2>1. PICK unit \in Units : PeerWrites(unit)
        BY <1>4
    <2>2. unit \in Seq(Bytes)
        BY UnitsAssumption
    <2>3. /\ stream' = stream \o unit /\ delivered' = delivered
          /\ intended' = GrownSpans(stream, intended, unit)
        BY <2>1 DEF PeerWrites, GrownSpans
    <2>4. /\ intended' \in Seq([start : Nat, end : Nat])
          /\ Extends(stream, intended, intended') /\ StreamWell(stream', intended')
        <3>1. ASSUME NEW more, more = GrownSpans(stream, intended, unit)
              PROVE  /\ more \in Seq([start : Nat, end : Nat])
                     /\ Extends(stream, intended, more) /\ StreamWell(stream \o unit, more)
            BY <1>1, <3>1, StreamGrows
        <3> QED
            BY <2>3, <3>1
    <2>5. /\ Len(intended) \in Nat /\ Len(intended') \in Nat
          /\ Len(intended) <= Len(intended')
          /\ \A j \in 1..Len(intended) : intended'[j] = intended[j]
        BY <1>1, <2>4, SpanBounds DEF Extends
    <2>6. ASSUME NEW j \in 1..Len(intended)
          PROVE  SubSeq(stream', intended'[j].start + 1, intended'[j].end)
                   = SubSeq(stream, intended[j].start + 1, intended[j].end)
        <3>1. SubSeq(stream \o unit, intended[j].start + 1, intended[j].end)
                = SubSeq(stream, intended[j].start + 1, intended[j].end)
            BY <1>1, <2>2, SpanStays
        <3>2. intended'[j] = intended[j]
            BY <2>5
        <3> QED
            BY <2>3, <3>1, <3>2, Zenon
    <2>7. i \in 1..Len(intended') /\ \A j \in 1..(i - 1) : j \in 1..Len(intended)
        BY <2>5
    <2>8. MisreadAt(stream', intended'[i])
        <3>1. Misread(SubSeq(stream, intended[i].start + 1, intended[i].end))
            BY <1>2 DEF MisreadAt
        <3> QED
            BY <2>6, <3>1, Zenon DEF MisreadAt
    <2>9. \A j \in 1..(i - 1) :
            delivered'[j] = SubSeq(stream', intended'[j].start + 1, intended'[j].end)
        BY <1>2, <2>3, <2>6, <2>7, Zenon
    <2>10. i - 1 <= Len(delivered')
        BY <1>2, <2>3
    <2>11. Lost(delivered', stream', intended')
        BY <2>7, <2>8, <2>9, <2>10, Zenon DEF Lost
    <2> QED
        BY <2>4, <2>11 DEF LostInv
<1>5. CASE ParseBody
    <2> DEFINE raw == state.header \o SubSeq(state.buffer, 1, state.clen)
    <2>1. /\ stream' = stream /\ intended' = intended
          /\ delivered' = delivered \/ delivered' = Deliver(delivered, raw)
        BY <1>5 DEF ParseBody
    <2>2. TimersInv'
        BY TimersStep
    <2>3. delivered' \in Seq(Seq(Bytes))
        BY <2>2 DEF TimersInv, StateOK
    <2>4. /\ i - 1 <= Len(delivered')
          /\ \A j \in 1..(i - 1) : delivered'[j] = delivered[j]
        <3>1. CASE delivered' = delivered
            BY <1>2, <3>1
        <3>2. CASE delivered' = Append(delivered, StripLines(raw))
            <4> DEFINE m == StripLines(raw)
            <4>1. /\ Len(Append(delivered, m)) = Len(delivered) + 1
                  /\ \A j \in 1..Len(delivered) : Append(delivered, m)[j] = delivered[j]
                <5> DEFINE T == Seq(Bytes) \cup {m}
                <5>1. delivered \in Seq(T) /\ m \in T
                    BY <1>1
                <5> HIDE DEF T, m
                <5> QED
                    BY <5>1, Appended
            <4> HIDE DEF m
            <4>2. delivered' = Append(delivered, m)
                BY <3>2 DEF m
            <4>3. i - 1 <= Len(delivered) + 1 /\ \A j \in 1..(i - 1) : j \in 1..Len(delivered)
                BY <1>1, <1>2
            <4> QED
                BY <4>1, <4>2, <4>3
        <3> QED
            BY <2>1, <3>1, <3>2 DEF Deliver
    <2>5. Lost(delivered', stream, intended)
        <3>1. \A j \in 1..(i - 1) :
                delivered'[j] = SubSeq(stream, intended[j].start + 1, intended[j].end)
            BY <1>2, <2>4
        <3> QED
            BY <1>2, <2>4, <3>1, Zenon DEF Lost
    <2> QED
        BY <1>1, <2>1, <2>5 DEF LostInv
<1>6. CASE UNCHANGED connectionVars
    BY <1>3, <1>6 DEF connectionVars
<1>7. CASE \/ \E n \in 1..(Len(stream) - taken) : Arrive(n)
           \/ PeerCloses \/ FireTimer \/ FireKeepalive \/ Tick
           \/ \E type \in {"send", "force_close"} : FromTransport(type)
    BY <1>3, <1>7 DEF Arrive, PeerCloses, FireTimer, FireKeepalive, Tick, FromTransport
<1>8. CASE Handle
    BY <1>3, <1>8 DEF Handle, Activate, HandleData, HandlePassive, HandleCallSend,
                      HandleKeepalive, HandleStop, Stop
<1>9. CASE ParseEmpty \/ ParseLineEnd \/ ParseBegin \/ ParseHeader
    BY <1>3, <1>9 DEF ParseEmpty, ParseLineEnd, ParseBegin, ParseHeader
<1> QED
    BY <1>4, <1>5, <1>6, <1>7, <1>8, <1>9 DEF ConnectionNext, Parse

LEMMA FramingAlways ==
    ConnectionSpec => [](TimersInv /\ (FramingInv \/ LostInv))
<1>1. TimersInv /\ (FramingInv \/ LostInv) /\ [ConnectionNext]_connectionVars
        => (FramingInv \/ LostInv)'
    BY FramingStep, LostBegins, LostStays
<1>2. ConnectionInit => FramingInv \/ LostInv
    BY FramingInit
<1> QED
    BY <1>1, <1>2, TimersAlways, PTL DEF ConnectionSpec

\* However the stream is cut into segments, the router gets exactly the messages
\* that the peer wrote, and all of them once the stream has been handled, up to the
\* first message in whose header other text is taken for its length
\* (lib/sippet/transports/tcp/connection.ex, parse/1, extract_content_length/1).
THEOREM ConnectionFramesAsSent == ConnectionSpec => []FramedAsSent
<1>1. TimersInv /\ FramingInv => FramedAsSent
    <2> SUFFICES ASSUME TimersInv, FramingInv PROVE FramedAsSent
        OBVIOUS
    <2> DEFINE n == Len(delivered)
    <2>1. /\ state \in States /\ stream \in Seq(Bytes) /\ state.mailbox \in Seq(Mail)
          /\ intended \in Seq([start : Nat, end : Nat]) /\ Len(stream) \in Nat
          /\ delivered \in Seq(Seq(Bytes))
          /\ n \in Nat /\ taken \in Nat /\ taken <= Len(stream)
          /\ status # "stopped" => DataInSegments(state.mailbox)
        BY RunningState
    <2>2. n <= Len(intended) /\ \A i \in 1..n : delivered[i] = Sent(intended[i])
        BY DEF FramingInv, FirstSent, Sent
    <2>3. DOMAIN delivered = 1..n /\ Len(intended) \in Nat
        BY <2>1, Elements
    <2>4. ASSUME status = "open", ~parsing, taken = Len(stream),
                 \A i \in DOMAIN state.mailbox : state.mailbox[i].type # "tcp"
          PROVE  n = Len(intended)
        <3>1. \A i \in 1..Len(state.mailbox) : state.mailbox[i].data = <<>>
            <4>1. DOMAIN state.mailbox = 1..Len(state.mailbox)
                BY <2>1, Elements
            <4> QED
                BY <2>1, <2>4, <4>1 DEF DataInSegments
        <3>2. PICK pos \in Nat, h \in Nat, got \in Nat :
                FrameAt(state, stream, intended, n, taken, pos, h, got)
            BY <2>4 DEF FramingInv, Framed
        <3>3. /\ pos <= h /\ h <= got /\ Chain(state.mailbox, stream, got, taken)
              /\ Between(stream, intended, n, pos) /\ state.buffer = SubSeq(stream, h + 1, got)
              /\ IF state.parse_state = "read_body"
                   THEN HeaderRead(stream, intended, n, pos, h, state.clen) ELSE h = pos
            BY <3>2 DEF FrameAt
        <3>4. got = Len(stream)
            BY <2>1, <2>4, <3>1, <3>3, ChainDone
        <3>5. Settled(state) /\ StreamWell(stream, intended)
            BY <2>4 DEF FramingInv
        <3> SUFFICES ASSUME n # Len(intended) PROVE FALSE
            OBVIOUS
        <3>6. n < Len(intended) /\ n + 1 \in 1..Len(intended)
            BY <2>1, <2>2, <2>3
        <3> DEFINE a == intended[n + 1].start
                   b == intended[n + 1].end
        <3>7. a \in Nat /\ b \in Nat
            BY <2>1, <3>6, SpanBounds
        <3>8. a < b /\ b <= Len(stream)
            <4>1. n + 1 \in DOMAIN intended
                BY <2>1, <3>6, SpanBounds
            <4> QED
                BY <3>5, <4>1 DEF StreamWell
        <3>9. Len(state.buffer) = got - h
            BY <2>1, <3>3, <3>4, Segment
        <3>10. CASE state.parse_state = "idle"
            <4>1. state.buffer = <<>> /\ h = pos
                BY <3>3, <3>5, <3>10 DEF Settled
            <4>2. h = got
                <5>1. SubSeq(stream, h + 1, got) = <<>> /\ got <= Len(stream)
                    BY <2>1, <3>3, <3>4, <4>1
                <5> QED
                    BY <2>1, <3>3, <5>1, EmptySegment
            <4>3. pos <= a
                BY <3>3, <3>6 DEF Between
            <4> HIDE DEF a, b
            <4> QED
                BY <2>1, <3>4, <3>7, <3>8, <4>1, <4>2, <4>3
        <3>11. CASE state.parse_state = "read_header"
            <4>1. FindHeaderEnd(SubSeq(stream, pos + 1, got)) = 0 /\ pos <= got
                  /\ got <= Len(stream)
                BY <2>1, <3>3, <3>4, <3>5, <3>11 DEF Settled
            <4>2. got < b
                <5> DEFINE f == FindHeaderEnd(SubSeq(stream, pos + 1, got))
                <5>1. f = 0
                    BY <4>1
                <5>2. f = 0 /\ n < Len(intended) => got < intended[n + 1].end
                    <6> HIDE DEF n
                    <6> QED
                        BY <2>1, <3>3, <3>5, <4>1, HeaderFound
                <5> QED
                    BY <3>6, <5>1, <5>2
            <4> HIDE DEF b
            <4> QED
                BY <2>1, <3>4, <3>7, <3>8, <4>2
        <3>12. CASE state.parse_state = "read_body"
            <4>1. got - h < state.clen /\ state.clen \in Nat
                BY <2>1, <3>5, <3>9, <3>12, StateFields DEF Settled
            <4>2. HeaderRead(stream, intended, n, pos, h, state.clen)
                BY <3>3, <3>12
            <4>3. state.clen # 0
                BY <3>3, <4>1
            <4>4. h + state.clen = b
                BY <4>2, <4>3 DEF HeaderRead
            <4> DEFINE clen == state.clen
            <4>5. got - h < clen /\ clen \in Nat /\ h + clen = b
                BY <4>1, <4>4
            <4> HIDE DEF b, clen
            <4> QED
                BY <2>1, <3>4, <3>7, <3>8, <4>5
        <3> QED
            BY <2>1, <3>10, <3>11, <3>12, StateFields
    <2>5. \A k \in Clear : k \in Nat /\ k <= Len(intended)
        BY <2>3 DEF Clear
    <2>6. \A k \in Clear : n = Len(intended) => k <= n
        BY <2>5
    <2>7. DOMAIN delivered = 1..n /\ DOMAIN intended = 1..Len(intended)
        BY <2>1, Elements
    <2>8. \A k \in DOMAIN delivered :
            k \in DOMAIN intended /\ delivered[k] = Sent(intended[k])
        BY <2>1, <2>2, <2>3, <2>7
    <2>9. ~(n > Len(intended))
        BY <2>1, <2>2, <2>3
    <2> QED
        BY <2>4, <2>6, <2>8, <2>9 DEF FramedAsSent
<1>2. TimersInv /\ LostInv => FramedAsSent
    <2> SUFFICES ASSUME TimersInv, LostInv PROVE FramedAsSent
        OBVIOUS
    <2>1. /\ intended \in Seq([start : Nat, end : Nat]) /\ Len(delivered) \in Nat
        BY RunningState
    <2>2. Len(intended) \in Nat
        BY <2>1, SpanBounds
    <2>3. PICK i \in 1..Len(intended) :
            /\ MisreadAt(stream, intended[i])
            /\ i - 1 <= Len(delivered)
            /\ \A j \in 1..(i - 1) :
                 delivered[j] = SubSeq(stream, intended[j].start + 1, intended[j].end)
        BY DEF LostInv, Lost
    <2>4. Misread(Sent(intended[i]))
        BY <2>3 DEF MisreadAt, Sent
    <2>5. ASSUME NEW k \in Clear PROVE k \in Nat /\ k <= i - 1
        <3>1. k \in 0..Len(intended) /\ \A j \in 1..k : ~Misread(Sent(intended[j]))
            BY DEF Clear
        <3>2. i \notin 1..k
            BY <2>4, <3>1
        <3> QED
            BY <2>2, <3>1, <3>2
    <2>6. Len(intended) \notin Clear
        BY <2>2, <2>5
    <2>7. \A k \in Clear : k <= Len(delivered)
        BY <2>1, <2>3, <2>5
    <2>8. ASSUME NEW k \in DOMAIN delivered \cap Clear
          PROVE  k \in DOMAIN intended /\ delivered[k] = Sent(intended[k])
        <3>1. delivered \in Seq(Seq(Bytes)) /\ DOMAIN intended = 1..Len(intended)
            BY <2>1, RunningState, Elements
        <3>2. k \in 1..Len(delivered)
            BY <2>8, <3>1, Elements
        <3>3. k \in 1..(i - 1)
            BY <2>5, <2>8, <3>2
        <3>4. k \in DOMAIN intended
            BY <2>2, <3>1, <3>3
        <3> QED
            BY <2>3, <3>3, <3>4 DEF Sent
    <2> QED
        BY <2>6, <2>7, <2>8 DEF FramedAsSent
<1> QED
    BY <1>1, <1>2, FramingAlways, PTL
=============================================================================
