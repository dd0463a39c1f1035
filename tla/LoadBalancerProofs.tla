------------------------- MODULE LoadBalancerProofs -------------------------
(***************************************************************************)
(* What the load balancer guarantees for every number of workers, clients  *)
(* and connections, every Avail and every width of worker::priority.       *)
(***************************************************************************)
EXTENDS LoadBalancer, FiniteSetTheorems, TLAPS

-----------------------------------------------------------------------------
(* Arithmetic modulo the width of an unsigned field. *)

\* % and \div are the remainder and the quotient of a division.
LEMMA ModDivision ==
  ASSUME NEW M \in Nat \ {0}, NEW a \in Int
  PROVE  /\ a % M \in 0 .. M - 1
         /\ a \div M \in Int
         /\ a = M * (a \div M) + (a % M)
OBVIOUS

\* The remainder of a division is unique.
LEMMA ModUnique ==
  ASSUME NEW M \in Nat \ {0}, NEW q \in Int, NEW r \in 0 .. M - 1
  PROVE  (M * q + r) % M = r
OBVIOUS

\* Incrementing or decrementing a field that holds a modulo its width is
\* incrementing or decrementing a.
LEMMA ModStep ==
  ASSUME NEW M \in Nat \ {0}, NEW a \in Int, NEW d \in {-1, 1}
  PROVE  ((a % M) + d) % M = (a + d) % M
<1> DEFINE q == a \div M
           r == a % M
<1>1. r \in 0 .. M - 1 /\ q \in Int /\ a = M * q + r
  BY ModDivision
<1> HIDE DEF q, r
<1>2. CASE r + d \in 0 .. M - 1
  <2>1. a + d = M * q + (r + d)
    BY <1>1
  <2>2. (M * q + (r + d)) % M = r + d
    BY <1>1, <1>2, ModUnique
  <2>3. (M * 0 + (r + d)) % M = r + d
    BY <1>2, ModUnique
  <2> QED
    BY <2>1, <2>2, <2>3, <1>1 DEF r
<1>3. CASE r + d = M
  <2>1. a + d = M * (q + 1) + 0
    BY <1>1, <1>3
  <2>2. (M * (q + 1) + 0) % M = 0
    BY <1>1, ModUnique
  <2>3. (M * 1 + 0) % M = 0
    BY ModUnique
  <2> QED
    BY <2>1, <2>2, <2>3, <1>1, <1>3 DEF r
<1>4. CASE r + d = -1
  <2>1. a + d = M * (q - 1) + (M - 1)
    BY <1>1, <1>4
  <2>2. (M * (q - 1) + (M - 1)) % M = M - 1
    BY <1>1, ModUnique
  <2>3. (M * (-1) + (M - 1)) % M = M - 1
    BY ModUnique
  <2> QED
    BY <2>1, <2>2, <2>3, <1>1, <1>4 DEF r
<1> QED
  BY <1>1, <1>2, <1>3, <1>4

\* A field holds a itself if a fits, and a + M if a is negative and not
\* below -M: the wrap-around of an unsigned decrement below zero.
LEMMA ModSmall ==
  ASSUME NEW M \in Nat \ {0}, NEW a \in Int
  PROVE  /\ a \in 0 .. M - 1 => a % M = a
         /\ a \in -M .. -1 => a % M = a + M
<1>1. ASSUME a \in 0 .. M - 1 PROVE a % M = a
  <2>1. (M * 0 + a) % M = a
    BY <1>1, ModUnique
  <2> QED
    BY <2>1
<1>2. ASSUME a \in -M .. -1 PROVE a % M = a + M
  <2>1. (M * (-1) + (a + M)) % M = a + M
    BY <1>2, ModUnique
  <2>2. M * (-1) + (a + M) = a
    OBVIOUS
  <2> QED
    BY <2>1, <2>2
<1> QED
  BY <1>1, <1>2

-----------------------------------------------------------------------------
(* Type correctness. *)

\* A balancer that has just been started is of its type.
LEMMA TypeInit == Init => TypeOK
  BY WidthAssumption DEF Init, TypeOK, Stages

\* No handler of the acceptor or of a connection leaves the type; the one
\* that could is updateWorker(), whose priority wraps at the width.
LEMMA TypeStep == TypeOK /\ [Next]_vars => TypeOK'
<1> SUFFICES ASSUME TypeOK, [Next]_vars PROVE TypeOK'
  OBVIOUS
<1> USE SlotsAssumption, WidthAssumption DEF TypeOK, Stages
<1>u. \A s \in workers \cup {NoSlot} :
        updateWorker(s) \in [workers -> 0 .. Modulus - 1]
  <2> SUFFICES ASSUME NEW s \in workers \cup {NoSlot}, NEW t \in workers
               PROVE  /\ (priority[t] + 1) % Modulus \in 0 .. Modulus - 1
                      /\ priority[t] \in 0 .. Modulus - 1
    BY DEF updateWorker
  <2>1. priority[t] + 1 \in Int
    OBVIOUS
  <2> QED
    BY <2>1, ModDivision
<1>d. \A s \in workers : Decrement(s) \in [workers -> 0 .. Modulus - 1]
  <2> SUFFICES ASSUME NEW s \in workers
               PROVE  (priority[s] - 1) % Modulus \in 0 .. Modulus - 1
    BY DEF Decrement
  <2>1. priority[s] - 1 \in Int
    OBVIOUS
  <2> QED
    BY <2>1, ModDivision
<1>1. ASSUME NEW c \in Conns, Connect(c) PROVE TypeOK'
  BY <1>1 DEF Connect
<1>2. ASSUME NEW c \in Conns, ClientSend(c) PROVE TypeOK'
  BY <1>2 DEF ClientSend
<1>3. ASSUME NEW c \in Conns, ClientGone(c) PROVE TypeOK'
  BY <1>3 DEF ClientGone
<1>4. ASSUME NEW c \in Conns, handle_accept(c) PROVE TypeOK'
  BY <1>4, <1>d DEF handle_accept, Top
<1>5. ASSUME NEW c \in Conns, handle_accept_err(c) PROVE TypeOK'
  BY <1>5 DEF handle_accept_err
<1>6. ASSUME NEW c \in Conns, handle_read(c) PROVE TypeOK'
  BY <1>6 DEF handle_read
<1>7. ASSUME NEW c \in Conns, handle_read_drop(c) PROVE TypeOK'
  BY <1>7, <1>u DEF handle_read_drop
<1>8. ASSUME NEW c \in Conns, handle_read_refused(c) PROVE TypeOK'
  BY <1>8 DEF handle_read_refused
<1>9. ASSUME NEW c \in Conns, handle_read_done(c) PROVE TypeOK'
  BY <1>9, <1>u DEF handle_read_done
<1>10. CASE UNCHANGED vars
  BY <1>10 DEF vars
<1> QED
  BY <1>1, <1>2, <1>3, <1>4, <1>5, <1>6, <1>7, <1>8, <1>9, <1>10 DEF Next

\* The variables of the balancer keep their types: in particular no sequence
\* of accepts and releases takes a priority out of its 16 bits.
THEOREM TypeCorrect == Spec => []TypeOK
  BY TypeInit, TypeStep, PTL DEF Spec

-----------------------------------------------------------------------------
(* The accounting of the priorities. *)

\* A connection that was not accepted is bound to no entry.
Unbound ==
  \A c \in Conns : stage[c] \in {"none", "backlog"} => target[c] = NoSlot

\* The inductive invariant behind PriorityAccounting.  Unbound is needed for
\* handle_accept_err(): it closes a connection without a release, and must
\* not add it to the drift of any entry.
AccountingInv == TypeOK /\ Unbound /\ PriorityAccounting

\* InFlight and Drift are finite.
LEMMA FiniteLoads ==
  ASSUME NEW s
  PROVE  /\ IsFiniteSet(InFlight(s)) /\ Load(s) \in Nat
         /\ IsFiniteSet(Drift(s)) /\ Cardinality(Drift(s)) \in Nat
<1>1. InFlight(s) \subseteq Conns /\ Drift(s) \subseteq Conns
  BY DEF InFlight, Drift
<1>2. IsFiniteSet(InFlight(s)) /\ IsFiniteSet(Drift(s))
  BY <1>1, ConnsAssumption, FS_Subset
<1> QED
  BY <1>2, FS_CardinalityType DEF Load

\* A step that moves no connection into or out of flight and releases none
\* preserves the accounting.
LEMMA QuietStep ==
  ASSUME PriorityAccounting, workers' = workers, priority' = priority,
         \A s \in workers : InFlight(s)' = InFlight(s) /\ Drift(s)' = Drift(s)
  PROVE  PriorityAccounting'
BY DEF PriorityAccounting, Load

\* handle_accept() adds the connection to the load of the entry it picks and
\* takes one off the entry's priority.
LEMMA AcceptStep ==
  ASSUME AccountingInv, workers' = workers, NEW c \in Conns, NEW s \in workers,
         stage[c] = "backlog",
         stage' = [stage EXCEPT ![c] = "reading"],
         target' = [target EXCEPT ![c] = s],
         priority' = Decrement(s)
  PROVE  PriorityAccounting'
<1> USE DEF AccountingInv, TypeOK
<1>1. ASSUME NEW t \in workers PROVE Drift(t)' = Drift(t)
  BY DEF Drift
<1>2. ASSUME NEW t \in workers \ {s} PROVE InFlight(t)' = InFlight(t)
  BY SlotsAssumption DEF InFlight, Unbound
<1>3. InFlight(s)' = InFlight(s) \cup {c} /\ c \notin InFlight(s)
  BY SlotsAssumption DEF InFlight, Unbound
<1>4. Load(s)' = Load(s) + 1
  BY <1>3, FiniteLoads, FS_AddElement DEF Load
<1>5. ASSUME NEW t \in workers \ {s}
      PROVE priority'[t] = (Avail - Load(t)' + Cardinality(Drift(t)')) % Modulus
  BY <1>1, <1>2 DEF PriorityAccounting, Load, Decrement
<1>6. priority'[s] = (Avail - Load(s)' + Cardinality(Drift(s)')) % Modulus
  <2> DEFINE a == Avail - Load(s) + Cardinality(Drift(s))
  <2>1. a \in Int /\ Avail - Load(s)' + Cardinality(Drift(s)') = a + (-1)
    BY <1>1, <1>4, FiniteLoads, WidthAssumption
  <2>2. priority[s] = a % Modulus
    BY DEF PriorityAccounting
  <2>3. priority'[s] = (priority[s] - 1) % Modulus
    BY DEF Decrement
  <2> HIDE DEF a
  <2>4. ((a % Modulus) + (-1)) % Modulus = (a + (-1)) % Modulus
    BY <2>1, WidthAssumption, ModStep
  <2>5. priority[s] - 1 = (a % Modulus) + (-1)
    BY <2>1, <2>2, WidthAssumption, ModDivision
  <2> QED
    BY <2>1, <2>3, <2>4, <2>5
<1> QED
  BY <1>5, <1>6 DEF PriorityAccounting

\* Closing a connection in flight takes it off the load of its entry, adds it
\* to the drift of the other entries with the same address, and updateWorker()
\* adds one to the priority of all of these.
LEMMA ReleaseStep ==
  ASSUME AccountingInv, workers' = workers, NEW c \in Conns,
         stage[c] \in {"reading", "forwarding"},
         stage' = [stage EXCEPT ![c] = "closed"],
         target' = target,
         priority' = updateWorker(target[c])
  PROVE  PriorityAccounting'
<1> USE DEF AccountingInv, TypeOK
<1> SUFFICES ASSUME NEW t \in workers
             PROVE priority'[t]
                     = (Avail - Load(t)' + Cardinality(Drift(t)')) % Modulus
  BY DEF PriorityAccounting
<1> DEFINE a == Avail - Load(t) + Cardinality(Drift(t))
<1>1. a \in Int /\ priority[t] = a % Modulus
  BY FiniteLoads, WidthAssumption DEF PriorityAccounting
<1>2. CASE target[c] = NoSlot \/ Endpoint[target[c]] # Endpoint[t]
  <2>1. priority'[t] = priority[t]
    BY <1>2, SlotsAssumption DEF updateWorker
  <2>2. InFlight(t)' = InFlight(t) /\ Drift(t)' = Drift(t)
    BY <1>2, SlotsAssumption DEF InFlight, Drift
  <2> QED
    BY <2>1, <2>2, <1>1 DEF Load
<1>3. CASE target[c] # NoSlot /\ Endpoint[target[c]] = Endpoint[t]
  <2>1. priority'[t] = (priority[t] + 1) % Modulus
    BY <1>3 DEF updateWorker
  <2>2. Avail - Load(t)' + Cardinality(Drift(t)') = a + 1
    <3>1. CASE target[c] = t
      <4>1. InFlight(t)' = InFlight(t) \ {c} /\ c \in InFlight(t)
        BY <3>1 DEF InFlight
      <4>2. Drift(t)' = Drift(t)
        BY <3>1 DEF Drift
      <4>3. Load(t)' = Load(t) - 1
        BY <4>1, FiniteLoads, FS_RemoveElement DEF Load
      <4> QED
        BY <4>2, <4>3, FiniteLoads, WidthAssumption
    <3>2. CASE target[c] # t
      <4>1. InFlight(t)' = InFlight(t)
        BY <3>2 DEF InFlight
      <4>2. Drift(t)' = Drift(t) \cup {c} /\ c \notin Drift(t)
        BY <1>3, <3>2 DEF Drift
      <4>3. Cardinality(Drift(t)') = Cardinality(Drift(t)) + 1
        BY <4>2, FiniteLoads, FS_AddElement
      <4> QED
        BY <4>1, <4>3, FiniteLoads, WidthAssumption DEF Load
    <3> QED
      BY <3>1, <3>2
  <2> HIDE DEF a
  <2>3. ((a % Modulus) + 1) % Modulus = (a + 1) % Modulus
    BY <1>1, WidthAssumption, ModStep
  <2> QED
    BY <1>1, <2>1, <2>2, <2>3
<1> QED
  BY <1>2, <1>3

\* Before the first connection every priority is Avail, with nothing in
\* flight and no drift.
LEMMA AccountingInit == Init => AccountingInv
<1> SUFFICES ASSUME Init PROVE AccountingInv
  OBVIOUS
<1>1. TypeOK /\ Unbound
  BY TypeInit DEF Init, Unbound
<1>2. ASSUME NEW s \in workers
      PROVE  priority[s] = (Avail - Load(s) + Cardinality(Drift(s))) % Modulus
  <2>1. InFlight(s) = {} /\ Drift(s) = {}
    BY DEF Init, InFlight, Drift
  <2>2. Load(s) = 0 /\ Cardinality(Drift(s)) = 0
    BY <2>1, FS_EmptySet DEF Load
  <2>3. Avail % Modulus = Avail
    BY WidthAssumption, ModSmall
  <2> QED
    BY <2>2, <2>3, WidthAssumption DEF Init
<1> QED
  BY <1>1, <1>2 DEF AccountingInv, PriorityAccounting

\* What a handler takes from or gives back to a priority is what it adds to
\* or removes from the connections in flight, or the drift of a shared address.
LEMMA AccountingStep == AccountingInv /\ [Next]_vars => AccountingInv'
<1> SUFFICES ASSUME AccountingInv, [Next]_vars PROVE AccountingInv'
  OBVIOUS
<1> USE DEF AccountingInv
<1>t. TypeOK'
  BY TypeStep
<1>1. ASSUME NEW c \in Conns, Connect(c) PROVE Unbound' /\ PriorityAccounting'
  <2>1. \A s \in workers : InFlight(s)' = InFlight(s) /\ Drift(s)' = Drift(s)
    BY <1>1 DEF Connect, TypeOK, InFlight, Drift
  <2> QED
    BY <1>1, <2>1, QuietStep DEF Connect, Unbound, TypeOK
<1>2. ASSUME NEW c \in Conns, ClientSend(c) PROVE Unbound' /\ PriorityAccounting'
  <2>1. \A s \in workers : InFlight(s)' = InFlight(s) /\ Drift(s)' = Drift(s)
    BY <1>2 DEF ClientSend, InFlight, Drift
  <2> QED
    BY <1>2, <2>1, QuietStep DEF ClientSend, Unbound
<1>3. ASSUME NEW c \in Conns, ClientGone(c) PROVE Unbound' /\ PriorityAccounting'
  <2>1. \A s \in workers : InFlight(s)' = InFlight(s) /\ Drift(s)' = Drift(s)
    BY <1>3 DEF ClientGone, InFlight, Drift
  <2> QED
    BY <1>3, <2>1, QuietStep DEF ClientGone, Unbound
<1>4. ASSUME NEW c \in Conns, handle_accept(c)
      PROVE  Unbound' /\ PriorityAccounting'
  <2>1. Unbound'
    BY <1>4 DEF handle_accept, Unbound, TypeOK, Top
  <2>2. ASSUME workers = {} PROVE PriorityAccounting'
    <3>1. workers' = {}
      BY <1>4, <2>2 DEF handle_accept
    <3> QED
      BY <3>1 DEF PriorityAccounting
  <2>3. ASSUME NEW s \in Top, priority' = Decrement(s),
               target' = [target EXCEPT ![c] = s]
        PROVE  PriorityAccounting'
    BY <1>4, <2>3, AcceptStep DEF handle_accept, Top
  <2> QED
    BY <1>4, <2>1, <2>2, <2>3 DEF handle_accept
<1>5. ASSUME NEW c \in Conns, handle_accept_err(c)
      PROVE  Unbound' /\ PriorityAccounting'
  <2>1. target[c] = NoSlot
    BY <1>5 DEF handle_accept_err, Unbound
  <2>2. \A s \in workers : InFlight(s)' = InFlight(s) /\ Drift(s)' = Drift(s)
    BY <1>5, <2>1, SlotsAssumption
    DEF handle_accept_err, TypeOK, InFlight, Drift
  <2> QED
    BY <1>5, <2>2, QuietStep DEF handle_accept_err, Unbound, TypeOK
<1>6. ASSUME NEW c \in Conns, handle_read(c)
      PROVE  Unbound' /\ PriorityAccounting'
  <2>1. \A s \in workers : InFlight(s)' = InFlight(s) /\ Drift(s)' = Drift(s)
    BY <1>6 DEF handle_read, TypeOK, InFlight, Drift
  <2> QED
    BY <1>6, <2>1, QuietStep DEF handle_read, Unbound, TypeOK
<1>7. ASSUME NEW c \in Conns, handle_read_drop(c)
      PROVE  Unbound' /\ PriorityAccounting'
  BY <1>7, ReleaseStep DEF handle_read_drop, Unbound, TypeOK
<1>8. ASSUME NEW c \in Conns, handle_read_refused(c)
      PROVE  Unbound' /\ PriorityAccounting'
  <2>1. \A s \in workers : InFlight(s)' = InFlight(s) /\ Drift(s)' = Drift(s)
    BY <1>8 DEF handle_read_refused, InFlight, Drift
  <2> QED
    BY <1>8, <2>1, QuietStep DEF handle_read_refused, Unbound
<1>9. ASSUME NEW c \in Conns, handle_read_done(c)
      PROVE  Unbound' /\ PriorityAccounting'
  BY <1>9, ReleaseStep DEF handle_read_done, Unbound, TypeOK
<1>10. CASE UNCHANGED vars
  <2>1. \A s \in workers : InFlight(s)' = InFlight(s) /\ Drift(s)' = Drift(s)
    BY <1>10 DEF vars, InFlight, Drift
  <2> QED
    BY <1>10, <1>t, <2>1, QuietStep DEF vars, Unbound
<1> QED
  BY <1>t, <1>1, <1>2, <1>3, <1>4, <1>5, <1>6, <1>7, <1>8, <1>9, <1>10 DEF Next

\* Every priority decrement of handle_accept() is matched by exactly one
\* increment of updateWorker(), whichever way the connection ends; what an
\* entry has beyond that are the releases of entries with the same address.
THEOREM Accounting == Spec => []PriorityAccounting
<1>1. AccountingInv => PriorityAccounting
  BY DEF AccountingInv
<1> QED
  BY AccountingInit, AccountingStep, <1>1, PTL DEF Spec

-----------------------------------------------------------------------------
(* Which worker a connection is bound to. *)

\* If every worker is registered once, priorities are exactly the loads: a
\* positive remainder up to Avail, and the wrapped value beyond.
LEMMA PriorityValue ==
  ASSUME AccountingInv, DistinctEndpoints, NEW s \in workers
  PROVE  /\ ~ Overloaded(s) => priority[s] = Avail - Load(s)
         /\ Overloaded(s) /\ Load(s) < Modulus
              => priority[s] = Avail - Load(s) + Modulus
<1>1. Drift(s) = {}
  BY DEF Drift, DistinctEndpoints
<1>2. Cardinality(Drift(s)) = 0
  BY <1>1, FS_EmptySet
<1>3. Load(s) \in Nat
  BY FiniteLoads
<1>4. priority[s] = (Avail - Load(s)) % Modulus
  BY <1>2, <1>3, WidthAssumption DEF AccountingInv, PriorityAccounting
<1>5. Avail - Load(s) \in Int
  BY <1>3, WidthAssumption
<1>6. ~ Overloaded(s) => Avail - Load(s) \in 0 .. Modulus - 1
  BY <1>3, WidthAssumption DEF Overloaded
<1>7. Overloaded(s) /\ Load(s) < Modulus => Avail - Load(s) \in -Modulus .. -1
  BY <1>3, WidthAssumption DEF Overloaded
<1> QED
  BY <1>4, <1>5, <1>6, <1>7, WidthAssumption, ModSmall

\* Only handle_accept() takes a connection from the backlog to a worker, and
\* the worker is a top of the queue.
LEMMA AcceptsTop ==
  ASSUME TypeOK, [Next]_vars, NEW c \in Conns, Accepts(c), workers # {}
  PROVE  target'[c] \in Top
<1>1. PICK d \in Conns : handle_accept(d) /\ d = c
  BY DEF Next, Accepts, Connect, ClientSend, ClientGone, handle_accept_err,
         handle_read, handle_read_drop, handle_read_refused, handle_read_done,
         handle_accept, TypeOK, vars
<1> QED
  BY <1>1 DEF handle_accept, TypeOK

\* handle_accept() keeps the load even as long as no worker is over Avail.
THEOREM LeastLoadedHolds == Spec => LeastLoaded
<1>1. AccountingInv /\ [Next]_vars => [LeastLoadedStep]_vars
  <2> SUFFICES ASSUME AccountingInv, [Next]_vars, NEW c \in Conns, Accepts(c),
                      DistinctEndpoints, \A s \in workers : ~ Overloaded(s),
                      NEW s \in workers
               PROVE  Load(target'[c]) <= Load(s)
    BY DEF LeastLoadedStep
  <2>1. target'[c] \in Top
    BY AcceptsTop DEF AccountingInv
  <2>2. target'[c] \in workers /\ priority[s] <= priority[target'[c]]
    BY <2>1 DEF Top
  <2>3. /\ priority[s] = Avail - Load(s)
        /\ priority[target'[c]] = Avail - Load(target'[c])
    BY <2>2, PriorityValue
  <2> QED
    BY <2>2, <2>3, FiniteLoads, WidthAssumption
<1> QED
  BY <1>1, AccountingInit, AccountingStep, PTL DEF Spec, LeastLoaded

\* The wrap-around of the unsigned short: from the first worker over Avail on,
\* new connections are piled on workers over Avail.
THEOREM OverloadAttractsHolds == Spec => OverloadAttracts
<1>1. AccountingInv /\ [Next]_vars => [OverloadAttractsStep]_vars
  <2> SUFFICES ASSUME AccountingInv, [Next]_vars, NEW c \in Conns, Accepts(c),
                      DistinctEndpoints, NEW s \in workers, Overloaded(s),
                      Cardinality(Conns) < Modulus - Avail
               PROVE  Overloaded(target'[c])
    BY DEF OverloadAttractsStep
  <2>1. target'[c] \in Top
    BY AcceptsTop DEF AccountingInv
  <2>2. target'[c] \in workers /\ priority[s] <= priority[target'[c]]
    BY <2>1 DEF Top
  <2>3. Load(s) <= Cardinality(Conns)
    <3>1. InFlight(s) \subseteq Conns
      BY DEF InFlight
    <3> QED
      BY <3>1, ConnsAssumption, FS_Subset DEF Load
  <2>4. Cardinality(Conns) \in Nat
    BY ConnsAssumption, FS_CardinalityType
  <2>5. priority[s] = Avail - Load(s) + Modulus
    BY <2>3, <2>4, FiniteLoads, PriorityValue, WidthAssumption
  <2>6. ~ Overloaded(target'[c])
          => priority[target'[c]] = Avail - Load(target'[c])
    BY <2>2, PriorityValue
  <2> QED
    BY <2>2, <2>3, <2>4, <2>5, <2>6, FiniteLoads, WidthAssumption
<1> QED
  BY <1>1, AccountingInit, AccountingStep, PTL DEF Spec, OverloadAttracts

\* At most one packet is with a worker at any time, however many workers and
\* clients there are.
THEOREM OneForwardedHolds == Spec => []OneForwarded
<1>1. Init => OneForwarded
  BY DEF Init, OneForwarded
<1>2. TypeOK /\ OneForwarded /\ [Next]_vars => OneForwarded'
  BY DEF OneForwarded, Next, Connect, ClientSend, ClientGone, handle_accept,
         handle_accept_err, handle_read, handle_read_drop, handle_read_refused,
         handle_read_done, TypeOK, Idle, vars
<1> QED
  BY <1>1, <1>2, TypeCorrect, PTL DEF Spec
=============================================================================
