---------------------------- MODULE LoadBalancer ----------------------------
(***************************************************************************)
(* The load balancer process of OpenROAD's distributed mode:               *)
(* dst::LoadBalancer (src/dst/src/LoadBalancer.cc) and the                 *)
(* dst::BalancerConnection objects it creates, one per accepted socket     *)
(* (src/dst/src/BalancerConnection.cc).                                    *)
(*                                                                         *)
(* A client connects and sends one packet.  handle_accept() binds the      *)
(* connection to the entry of the priority queue with the highest          *)
(* priority and decrements it; handle_read() forwards the packet to that   *)
(* worker, blocks until the worker closes its side, copies the answer      *)
(* back, and updateWorker() increments the priority again.                 *)
(*                                                                         *)
(* All handlers run on the single thread that called io_service.run(), so  *)
(* while one handle_read() waits for its worker ("busy") no other handler  *)
(* runs.  The connect() to the worker is the throwing overload: a refused  *)
(* connection leaves io_service.run() and ends the balancer.               *)
(***************************************************************************)
EXTENDS Integers, FiniteSets

CONSTANTS
  Slots,      \* addWorker() calls the balancer may be started with
  Endpoint,   \* a function on Slots: the ip and port an entry was added with
  Conns,      \* client connections that may be made
  Avail,      \* the avail argument of addWorker(), 10 in runLoadBalancer()
  Modulus,    \* 2^16: worker::priority is an unsigned short
  NoSlot      \* the unspecified address given to start() if workers_ is empty

ASSUME SlotsAssumption ==
  /\ IsFiniteSet(Slots)
  /\ NoSlot \notin Slots

ASSUME ConnsAssumption == IsFiniteSet(Conns)

ASSUME WidthAssumption ==
  /\ Modulus \in Nat \ {0}
  /\ Avail \in 0 .. Modulus - 1

VARIABLES
  workers,   \* the registered entries: addWorker() is called before run() only
  up,        \* the balancer process is inside io_service.run()
  priority,  \* worker::priority of every entry of workers_
  stage,     \* where a connection is in the balancer
  target,    \* the entry start() was called with
  sent,      \* connections whose packet, up to JobMessage::EOP, has arrived
  gone       \* connections whose client end is closed or reset

vars == <<workers, up, priority, stage, target, sent, gone>>

Stages == {"none", "backlog", "reading", "forwarding", "closed"}

\* Type invariant.
TypeOK ==
  /\ workers \subseteq Slots
  /\ up \in BOOLEAN
  /\ priority \in [workers -> 0 .. Modulus - 1]
  /\ stage \in [Conns -> Stages]
  /\ target \in [Conns -> workers \cup {NoSlot}]
  /\ sent \in SUBSET Conns
  /\ gone \in SUBSET Conns

\* runLoadBalancer(): addWorker() for every address, then io_service.run().
Init ==
  /\ workers \in SUBSET Slots
  /\ up = TRUE
  /\ priority = [s \in workers |-> Avail]
  /\ stage = [c \in Conns |-> "none"]
  /\ target = [c \in Conns |-> NoSlot]
  /\ sent = {}
  /\ gone = {}

-----------------------------------------------------------------------------
\* Mutant: the comparison of CompareWorker the other way round.
TopLeast == {s \in workers : \A t \in workers : priority[t] >= priority[s]}

\* workers_.top(): an entry no other entry has a higher priority than.
Top == {s \in workers : \A t \in workers : priority[t] <= priority[s]}

\* Mutant: a decrement that is not reduced to the width of the field.
DecrementUnbounded(s) == [priority EXCEPT ![s] = @ - 1]

\* Mutant: a decrement that stops at zero.
DecrementSaturating(s) ==
  [priority EXCEPT ![s] = IF @ = 0 THEN 0 ELSE @ - 1]

\* w.priority-- on the entry popped, which is then pushed again.
Decrement(s) == [priority EXCEPT ![s] = (@ - 1) % Modulus]

\* updateWorker(ip, port): every entry with this address is incremented, and
\* none if the address is the unspecified one.
updateWorker(s) ==
  [t \in workers |-> IF s # NoSlot /\ Endpoint[t] = Endpoint[s]
                   THEN (priority[t] + 1) % Modulus
                   ELSE priority[t]]

\* Mutant: an io_service run by several threads.
IdleThreaded == up

\* A handler can run: the thread is in io_service.run() and not blocked in
\* the handle_read() of a connection that waits for its worker.
Idle == up /\ \A c \in Conns : stage[c] # "forwarding"

-----------------------------------------------------------------------------
\* A client's connect() completes: the kernel queues it on the acceptor.
Connect(c) ==
  /\ up
  /\ stage[c] = "none"
  /\ stage' = [stage EXCEPT ![c] = "backlog"]
  /\ UNCHANGED <<workers, up, priority, target, sent, gone>>

\* The client has written its packet up to JobMessage::EOP.
ClientSend(c) ==
  /\ stage[c] \in {"backlog", "reading"}
  /\ c \notin sent \cup gone
  /\ sent' = sent \cup {c}
  /\ UNCHANGED <<workers, up, priority, stage, target, gone>>

\* The client's end is closed or reset.
ClientGone(c) ==
  /\ stage[c] \in {"backlog", "reading", "forwarding"}
  /\ c \notin gone
  /\ gone' = gone \cup {c}
  /\ UNCHANGED <<workers, up, priority, stage, target, sent>>

\* handle_accept() without an error.
handle_accept(c) ==
  /\ Idle
  /\ stage[c] = "backlog"
  /\ \/ /\ workers = {}
        /\ UNCHANGED <<priority, target>>
     \/ \E s \in Top :
          /\ priority' = Decrement(s)
          /\ target' = [target EXCEPT ![c] = s]
  /\ stage' = [stage EXCEPT ![c] = "reading"]
  /\ UNCHANGED <<workers, up, sent, gone>>

\* handle_accept() with an error: only start_accept() is called.
handle_accept_err(c) ==
  /\ Idle
  /\ stage[c] = "backlog"
  /\ c \in gone
  /\ stage' = [stage EXCEPT ![c] = "closed"]
  /\ UNCHANGED <<workers, up, priority, target, sent, gone>>

\* Mutant: return without updateWorker() if the read failed.
handle_read_drop_leak(c) ==
  /\ Idle
  /\ stage[c] = "reading"
  /\ c \in gone \/ (c \in sent /\ target[c] = NoSlot)
  /\ stage' = [stage EXCEPT ![c] = "closed"]
  /\ UNCHANGED <<workers, up, priority, target, sent, gone>>

\* Mutant: nothing is done if the read failed.
handle_read_drop_ignore(c) ==
  /\ Idle
  /\ stage[c] = "reading"
  /\ c \in sent /\ target[c] = NoSlot
  /\ priority' = updateWorker(target[c])
  /\ stage' = [stage EXCEPT ![c] = "closed"]
  /\ UNCHANGED <<workers, up, target, sent, gone>>

\* handle_read() that forwards nothing: the read failed, or there is no
\* worker.  Both fall through to updateWorker() and close().
handle_read_drop(c) ==
  /\ Idle
  /\ stage[c] = "reading"
  /\ c \in gone \/ (c \in sent /\ target[c] = NoSlot)
  /\ priority' = updateWorker(target[c])
  /\ stage' = [stage EXCEPT ![c] = "closed"]
  /\ UNCHANGED <<workers, up, target, sent, gone>>

\* handle_read() up to the blocking read of the worker's answer.  A packet
\* that arrived before the client went away may still be forwarded.
handle_read(c) ==
  /\ Idle
  /\ stage[c] = "reading"
  /\ c \in sent
  /\ target[c] # NoSlot
  /\ stage' = [stage EXCEPT ![c] = "forwarding"]
  /\ UNCHANGED <<workers, up, priority, target, sent, gone>>

\* socket.connect() throws: the exception leaves io_service.run(), and with
\* the acceptor every connection of the process is closed.
handle_read_refused(c) ==
  /\ Idle
  /\ stage[c] = "reading"
  /\ c \in sent
  /\ target[c] # NoSlot
  /\ up' = FALSE
  /\ UNCHANGED <<workers, priority, stage, target, sent, gone>>

\* The worker closed its side or its connection broke: the rest of
\* handle_read(), which ignores the error codes of the read and the write.
handle_read_done(c) ==
  /\ up
  /\ stage[c] = "forwarding"
  /\ priority' = updateWorker(target[c])
  /\ stage' = [stage EXCEPT ![c] = "closed"]
  /\ UNCHANGED <<workers, up, target, sent, gone>>

Next ==
  \E c \in Conns :
    \/ Connect(c) \/ ClientSend(c) \/ ClientGone(c)
    \/ handle_accept(c) \/ handle_accept_err(c)
    \/ handle_read(c) \/ handle_read_drop(c)
    \/ handle_read_refused(c) \/ handle_read_done(c)

Spec == Init /\ [][Next]_vars

\* The io_service runs every handler that is ready, and sendJob() writes its
\* packet or closes its socket (and then waits for the answer).  That the
\* worker answers or dies is an assumption: the blocking read has no timeout.
Fairness ==
  \A c \in Conns :
    /\ WF_vars(c \notin sent /\ (ClientSend(c) \/ ClientGone(c)))
    /\ WF_vars(handle_accept(c) \/ handle_accept_err(c))
    /\ WF_vars(handle_read(c) \/ handle_read_drop(c) \/ handle_read_refused(c))
    /\ WF_vars(handle_read_done(c))

FairSpec == Spec /\ Fairness

-----------------------------------------------------------------------------
\* Connections accepted for an entry and not yet closed.
InFlight(s) ==
  {c \in Conns : stage[c] \in {"reading", "forwarding"} /\ target[c] = s}

Load(s) == Cardinality(InFlight(s))

\* Closed connections of the other entries with the same address: each of
\* them was also counted as a release of s by updateWorker().
Drift(s) ==
  {c \in Conns : /\ stage[c] = "closed"
                 /\ target[c] \in workers \ {s}
                 /\ Endpoint[target[c]] = Endpoint[s]}

\* The priority of an entry is Avail minus the connections in flight on it, in
\* 16-bit arithmetic: the decrement of handle_accept() and the increment of
\* updateWorker() pair up on every path through handle_read().  An address
\* registered more than once gains one for every connection that another of
\* its entries has closed, and keeps it.
PriorityAccounting ==
  \A s \in workers :
    priority[s] = (Avail - Load(s) + Cardinality(Drift(s))) % Modulus

\* Every worker was registered once (addWorkerAddress() does not check).
DistinctEndpoints == \A s, t \in workers : Endpoint[s] = Endpoint[t] => s = t

\* Entry s has more connections in flight than the Avail it was given.
Overloaded(s) == Load(s) > Avail

Accepts(c) == stage[c] = "backlog" /\ stage'[c] = "reading"

LeastLoadedStep ==
  \A c \in Conns :
    Accepts(c) /\ DistinctEndpoints /\ (\A s \in workers : ~ Overloaded(s))
      => \A s \in workers : Load(target'[c]) <= Load(s)

\* As long as no entry holds more than Avail connections, handle_accept()
\* binds a connection to a worker with the fewest connections in flight.
LeastLoaded == [][LeastLoadedStep]_vars

OverloadAttractsStep ==
  \A c \in Conns :
    Accepts(c) /\ DistinctEndpoints /\ (\E s \in workers : Overloaded(s))
      /\ Cardinality(Conns) < Modulus - Avail
      => Overloaded(target'[c])

\* The unsigned short wraps: once an entry holds more than Avail connections
\* its priority is near 2^16, and handle_accept() binds every connection to an
\* overloaded entry, even if another one is idle.  (While fewer than
\* Modulus - Avail connections exist.)
OverloadAttracts == [][OverloadAttractsStep]_vars

\* handle_read() leaves a connection to the worker only after the worker's
\* answer for the previous one: the balancer serialises the jobs.
OneForwarded ==
  \A c, d \in Conns :
    stage[c] = "forwarding" /\ stage[d] = "forwarding" => c = d

\* Every connection that reached the acceptor is closed by the balancer, or
\* the balancer has gone down with it.
EveryConnectionCloses ==
  \A c \in Conns : stage[c] = "backlog" ~> stage[c] = "closed" \/ ~ up
=============================================================================
