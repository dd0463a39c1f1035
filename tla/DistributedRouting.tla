------------------------- MODULE DistributedRouting -------------------------
(***************************************************************************)
(* Distributed detailed routing as a whole: the threads of the router that *)
(* call FlexDRWorker::distributedMain() and in it Distributed::sendJob()   *)
(* (src/drt/src/dr/FlexDR.cpp, src/dst/src/Distributed.cc), the load       *)
(* balancer they connect to (LoadBalancer) and the worker processes it     *)
(* forwards to (WorkerProcess), over a shared directory of worker, result  *)
(* and globals files.                                                      *)
(*                                                                         *)
(* sendJob() makes up to MAX_TRIES connections for a job, one after the    *)
(* other: connection <<j, k>> is the k-th try of job j.  The network may   *)
(* lose MaxFaults connections or packets and MaxCrashes workers may die.   *)
(***************************************************************************)
EXTENDS Naturals, Sequences, FiniteSets

CONSTANTS
  Slots,       \* worker processes, each registered once at the balancer
  Jobs,        \* clips to route
  IterOf,      \* [Jobs -> 1 .. Len(Globals)]: the iteration a clip belongs to
  Globals,     \* the globals file of each iteration that writes a new one
  MAX_TRIES,   \* 5 in Distributed.cc
  Avail,       \* 10 in runLoadBalancer()
  Modulus,     \* 2^16
  NoSlot, NoConn,
  Unwritable,  \* jobs whose worker file, and globals files, that may not be written
  MaxFaults,   \* bound on lost connections and packets
  MaxCrashes   \* bound on crashes of workers

Conns == Jobs \X (1 .. MAX_TRIES)
Paths == {Globals[i] : i \in DOMAIN Globals}

ASSUME DistributedAssumption ==
  /\ IsFiniteSet(Slots)
  /\ NoSlot \notin Slots
  /\ NoConn \notin Conns
  /\ Len(Globals) \in Nat \ {0}
  /\ DOMAIN Globals = 1 .. Len(Globals)
  /\ \A a, b \in 1 .. Len(Globals) : Globals[a] = Globals[b] => a = b
  /\ IterOf \in [Jobs -> 1 .. Len(Globals)]
  /\ {"no globals", "torn", "absent"} \cap Paths = {}
  /\ MAX_TRIES \in Nat
  /\ MaxFaults \in Nat
  /\ Modulus \in Nat \ {0}
  /\ Avail \in 0 .. Modulus - 1

JobOf(c) == c[1]
PathOf(j) == Globals[IterOf[j]]

VARIABLES
  up, priority, stage, target, sent, gone,                 \* LoadBalancer
  alive, path, loaded, mx, pc, host, with, reply,          \* WorkerProcess
  infiles, outfile, globals,                               \* the directory
  client,   \* where distributedMain() of a job is
  tries,    \* sendJob(): connections made so far
  answer,   \* what the balancer wrote on a connection before closing it
  got,      \* what a job's thread read from the result file
  iter,     \* the iteration of searchRepair()
  faults,   \* lost connections and packets so far
  broken    \* connections that were lost: a history variable

\* Every worker of the command line is registered, once.
LB == INSTANCE LoadBalancer WITH
  workers <- Slots \ {NoSlot}, Endpoint <- [s \in Slots |-> s]

WP == INSTANCE WorkerProcess WITH Procs <- Slots, NoProc <- NoSlot

balancer == <<up, priority, stage, target, sent, gone>>
worker == <<alive, path, loaded, mx, pc, host, with, reply>>
files == <<infiles, outfile, globals>>
router == <<client, tries, got, iter>>
network == <<faults, broken>>

vars == <<balancer, worker, files, router, answer, network>>

\* Type invariant.
TypeOK ==
  /\ LB!TypeOK
  /\ WP!TypeOK
  /\ client \in [Jobs -> {"idle", "connect", "send", "read", "ok", "merged",
                          "skipped", "failed", "refused"}]
  /\ tries \in [Jobs -> 0 .. MAX_TRIES]
  /\ answer \in [Conns -> {"open", "result", "zero", "empty"}]
  /\ got \in [Jobs -> WP!Loaded \cup {WP!Absent}]
  /\ iter \in 1 .. Len(Globals)
  /\ faults \in 0 .. MaxFaults
  /\ broken \in SUBSET Conns

\* writeGlobals(): a file that could not be opened is not an error.
Written(g) == {{g}} \cup (IF g \in Unwritable THEN {{}} ELSE {})

Init ==
  /\ LB!Init
  /\ WP!ProcInit
  /\ infiles = {}
  /\ outfile = [j \in Jobs |-> WP!Absent]
  /\ globals \in Written(Globals[1])
  /\ client = [j \in Jobs |-> "idle"]
  /\ tries = [j \in Jobs |-> 0]
  /\ answer = [c \in Conns |-> "open"]
  /\ got = [j \in Jobs |-> WP!NoPath]
  /\ iter = 1
  /\ faults = 0
  /\ broken = {}

-----------------------------------------------------------------------------
\* logger_->error() throws out of the OpenMP loop: the router is terminated.
Aborted == \E j \in Jobs : client[j] \in {"failed", "refused"}

Try(j) == <<j, tries[j]>>

At(j, label) == ~ Aborted /\ client[j] = label

Goto(j, label) == client' = [client EXCEPT ![j] = label]

Fault == faults < MaxFaults /\ faults' = faults + 1

Break(c) == Fault /\ broken' = broken \cup {c}

\* distributedMain(): the worker is written, sendJob() is called.
distributedMain(j) ==
  /\ At(j, "idle") /\ IterOf[j] = iter
  /\ infiles' = infiles \cup {j}
  /\ Goto(j, "connect")
  /\ UNCHANGED <<balancer, worker, outfile, globals, tries, got, iter, answer, network>>

\* The worker file could not be written: serialize_worker() returns false, which
\* distributedMain() ignores.
distributedMain_unwritten(j) ==
  /\ At(j, "idle") /\ IterOf[j] = iter /\ j \in Unwritable
  /\ Goto(j, "connect")
  /\ UNCHANGED <<balancer, worker, files, tries, got, iter, answer, network>>

\* distributedMain() of a clip whose init() sets skipRouting_.
distributedMain_skip(j) ==
  /\ At(j, "idle") /\ IterOf[j] = iter
  /\ Goto(j, "skipped")
  /\ UNCHANGED <<balancer, worker, files, tries, got, iter, answer, network>>

\* sendJob(): the next try connects.
sendJob_connect(j) ==
  /\ At(j, "connect") /\ tries[j] < MAX_TRIES
  /\ tries' = [tries EXCEPT ![j] = @ + 1]
  /\ LB!Connect(<<j, tries[j] + 1>>)
  /\ Goto(j, "send")
  /\ UNCHANGED <<worker, files, got, iter, answer, network>>

\* connect() throws, because the balancer is down or for any other reason: a
\* warning, and sendJob() returns false without another try.
sendJob_throws(j) ==
  /\ At(j, "connect") /\ tries[j] < MAX_TRIES
  /\ Goto(j, "refused")
  /\ UNCHANGED <<balancer, worker, files, tries, got, iter, answer, network>>

\* Mutant: one try less.
sendJob_false_early(j) ==
  /\ At(j, "connect") /\ tries[j] >= MAX_TRIES - 1
  /\ Goto(j, "failed")
  /\ UNCHANGED <<balancer, worker, files, tries, got, iter, answer, network>>

\* sendJob() returns false: MAX_TRIES is reached.
sendJob_false(j) ==
  /\ At(j, "connect") /\ tries[j] = MAX_TRIES
  /\ Goto(j, "failed")
  /\ UNCHANGED <<balancer, worker, files, tries, got, iter, answer, network>>

\* sendMsg() returns true.
sendMsg(j) ==
  /\ At(j, "send") /\ up
  /\ LB!ClientSend(Try(j))
  /\ Goto(j, "read")
  /\ UNCHANGED <<worker, files, tries, got, iter, answer, network>>

\* sendMsg() or readMsg() returns false on a connection that was lost: the
\* socket is destroyed and the loop continues.
lostConnection(j) ==
  /\ At(j, "send") \/ At(j, "read")
  /\ Break(Try(j))
  /\ LB!ClientGone(Try(j))
  /\ Goto(j, "connect")
  /\ UNCHANGED <<worker, files, tries, got, iter, answer>>

\* The same if the balancer is gone.
lostBalancer(j) ==
  /\ At(j, "send") \/ At(j, "read")
  /\ ~ up
  /\ Goto(j, "connect")
  /\ UNCHANGED <<balancer, worker, files, tries, got, iter, answer, network>>

\* Mutant: the loop waits for an answer instead of trying again.
readMsg_wait(j) ==
  /\ At(j, "read")
  /\ stage[Try(j)] = "closed"
  /\ answer[Try(j)] = "result"
  /\ Goto(j, "ok")
  /\ UNCHANGED <<balancer, worker, files, tries, got, iter, answer, network>>

\* Mutant: readMsg() does not wait until the balancer closes the connection.
readMsg_early(j) ==
  /\ At(j, "read")
  /\ Goto(j, IF answer[Try(j)] = "result" THEN "ok" ELSE "connect")
  /\ UNCHANGED <<balancer, worker, files, tries, got, iter, answer, network>>

\* readMsg(): the connection was closed.  An empty answer, and one that does
\* not parse, lead to the next try.
readMsg(j) ==
  /\ At(j, "read")
  /\ stage[Try(j)] = "closed"
  /\ Goto(j, IF answer[Try(j)] = "result" THEN "ok" ELSE "connect")
  /\ UNCHANGED <<balancer, worker, files, tries, got, iter, answer, network>>

\* Mutant: the files are not removed.
updateDesign_keep(j) ==
  /\ At(j, "ok")
  /\ got' = [got EXCEPT ![j] = outfile[j]]
  /\ Goto(j, IF outfile[j] \in {WP!Absent, WP!Torn} THEN "failed" ELSE "merged")
  /\ UNCHANGED <<balancer, worker, files, tries, iter, answer, network>>

\* distributedMain() after sendJob() returned true: the result is read, the
\* files are removed, and updateDesign() merges the result.
updateDesign(j) ==
  /\ At(j, "ok")
  /\ got' = [got EXCEPT ![j] = outfile[j]]
  /\ IF outfile[j] \in {WP!Absent, WP!Torn}
     THEN Goto(j, "failed") /\ UNCHANGED <<infiles, outfile>>
     ELSE /\ Goto(j, "merged")
          /\ infiles' = infiles \ {j}
          /\ outfile' = [outfile EXCEPT ![j] = WP!Absent]
  /\ UNCHANGED <<balancer, worker, globals, tries, iter, answer, network>>

\* Mutant: one iteration too many, with the globals of the last one.
searchRepair_extra ==
  /\ iter <= Len(Globals)
  /\ \A j \in Jobs : IterOf[j] = iter => client[j] \in {"merged", "skipped"}
  /\ iter' = iter + 1
  /\ UNCHANGED <<balancer, worker, files, client, tries, got, answer, network>>

\* searchRepair(): the batch of an iteration is complete; the next iteration
\* removes the globals file and writes a new one, or fails to.
searchRepair ==
  /\ iter < Len(Globals)
  /\ \A j \in Jobs : IterOf[j] = iter => client[j] \in {"merged", "skipped"}
  /\ iter' = iter + 1
  /\ \E new \in Written(Globals[iter + 1]) :
       globals' = (globals \ {Globals[iter]}) \cup new
  /\ UNCHANGED <<balancer, worker, infiles, outfile, client, tries, got, answer, network>>

\* The kernel closes the sockets of the terminated router.
abortClose(c) ==
  /\ Aborted
  /\ LB!ClientGone(c)
  /\ UNCHANGED <<worker, files, router, answer, network>>

-----------------------------------------------------------------------------
(* The balancer. *)

Answer(c, what) == answer' = [answer EXCEPT ![c] = what]

handle_accept(c) ==
  /\ LB!handle_accept(c) \/ LB!handle_accept_err(c)
  /\ UNCHANGED <<worker, files, router, answer, network>>

handle_read_drop(c) ==
  /\ LB!handle_read_drop(c)
  /\ Answer(c, "empty")
  /\ UNCHANGED <<worker, files, router, network>>

\* The worker accepts the connection and gets the packet.
handle_read(c) ==
  /\ LB!handle_read(c)
  /\ WP!receive(c, target[c])
  /\ UNCHANGED <<files, router, answer, network>>

\* connect() to the worker throws, of a worker that died or for any other reason.
handle_read_refused(c) ==
  /\ LB!handle_read_refused(c)
  /\ UNCHANGED <<worker, files, router, answer, network>>

\* What was read from the worker is written to the client.
handle_read_done(c) ==
  /\ reply[c] # "open"
  /\ LB!handle_read_done(c)
  /\ Answer(c, reply[c])
  /\ UNCHANGED <<worker, files, router, network>>

\* The connection to the worker breaks while the worker goes on.
handle_read_broken(c) ==
  /\ reply[c] = "open"
  /\ Break(c)
  /\ LB!handle_read_done(c)
  /\ Answer(c, "empty")
  /\ UNCHANGED <<worker, files, router>>

-----------------------------------------------------------------------------
(* The workers. *)

workerStep(c) ==
  /\ WP!Step(c)
  /\ UNCHANGED <<balancer, router, answer, network>>

workerFault(c) ==
  /\ Fault
  /\ \/ WP!handle_read_err(c) \/ WP!handle_read_bad(c)
     \/ WP!sendResult_fail(c) \/ WP!reloadedMain_unwritten(c)
  /\ UNCHANGED <<balancer, router, answer, broken>>

workerCrash(p) ==
  /\ Cardinality(Slots \ alive) < MaxCrashes
  /\ WP!crash(p)
  /\ UNCHANGED <<balancer, router, answer, network>>

RouterStep(j) ==
  \/ distributedMain(j) \/ distributedMain_unwritten(j) \/ distributedMain_skip(j)
  \/ sendJob_connect(j) \/ sendJob_throws(j) \/ sendJob_false(j) \/ sendMsg(j)
  \/ lostBalancer(j) \/ readMsg(j) \/ updateDesign(j)

BalancerStep(c) ==
  \/ handle_accept(c) \/ handle_read_drop(c) \/ handle_read(c)
  \/ handle_read_refused(c) \/ handle_read_done(c)

Next ==
  \/ \E j \in Jobs : RouterStep(j) \/ lostConnection(j)
  \/ searchRepair
  \/ \E c \in Conns :
       \/ BalancerStep(c) \/ workerStep(c)
       \/ abortClose(c) \/ handle_read_broken(c) \/ workerFault(c)
  \/ \E p \in Slots : workerCrash(p)

\* Threads, handlers and the kernel make progress; faults need not happen.
Fairness ==
  /\ \A j \in Jobs : WF_vars(RouterStep(j))
  /\ WF_vars(searchRepair)
  /\ \A c \in Conns : /\ WF_vars(BalancerStep(c))
                      /\ WF_vars(workerStep(c))
                      /\ WF_vars(abortClose(c))

Spec == Init /\ [][Next]_vars /\ Fairness

-----------------------------------------------------------------------------
\* Threads of workers that are between the access() test and close().
Executing(c) ==
  pc[c] \in {"check", "lock", "assign", "read", "load", "run", "route", "write", "send"}

\* While no connection is lost the balancer keeps all workers but one idle:
\* the callback's unprotected comparison of globals_path_ has no one to race
\* with.
OneExecution ==
  faults = 0 => \A c, d \in Conns : Executing(c) /\ Executing(d) => c = d

\* While no connection is lost, a result that sendJob() returned true for is
\* complete, and was routed with the globals of its own iteration unless these
\* could not be written.
ResultIsOwn ==
  \A j \in Jobs : client[j] = "ok" /\ faults = 0 =>
    /\ outfile[j] \notin {WP!Absent, WP!Torn}
    /\ PathOf(j) \in globals => outfile[j] = PathOf(j)

\* Whatever is lost: a worker executes either the try that sendJob() waits for,
\* or one whose connection broke.  No job is executed twice because of an
\* empty answer, a worker that died or a balancer that went down.
ExecutionAwaited ==
  \A c \in Conns : Executing(c) /\ c \notin broken =>
    client[c[1]] = "read" /\ tries[c[1]] = c[2]

\* Nothing of a merged job is left, no file and no thread that could write one
\* later, unless the connection of one of its tries broke: the worker goes on
\* with that try, and leaves a result file if it loaded the worker in time.
NothingLeft ==
  \A j \in Jobs : client[j] = "merged" =>
    /\ j \notin infiles
    /\ \/ /\ outfile[j] = WP!Absent
          /\ \A k \in 1 .. MAX_TRIES : ~ Executing(<<j, k>>)
       \/ \E k \in 1 .. MAX_TRIES : <<j, k>> \in broken

\* A job whose connect() did not throw fails only if there is no worker, if the
\* balancer went down, if the worker file was not written, if every try was
\* lost to a broken connection or a dead worker, or if a try that was given up
\* overlapped a later one, or a full disk, damaged the result file.
FailureHasCause ==
  \A j \in Jobs : client[j] = "failed" =>
    \/ Slots = {}
    \/ ~ up
    \/ j \notin infiles
    \/ faults + Cardinality(Slots \ alive) >= MAX_TRIES
    \/ faults > 0 /\ got[j] \in {WP!Absent, WP!Torn}

\* Every job that is sent is merged, or the router is terminated.
JobsReturn ==
  \A j \in Jobs : client[j] = "connect" ~> client[j] = "merged" \/ Aborted
=============================================================================
