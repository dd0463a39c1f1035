---------------------- MODULE DistributedRoutingProofs ----------------------
(***************************************************************************)
(* What distributed routing guarantees for every number of workers, jobs,  *)
(* tries, iterations, faults and crashes.                                  *)
(***************************************************************************)
EXTENDS DistributedRouting, Integers, FiniteSetTheorems, TLAPS

-----------------------------------------------------------------------------
(* The balancer of the composition is LoadBalancer. *)

\* The iterations of the router and the indices into Globals.
LEMMA Iterations ==
  /\ DOMAIN Globals = 1 .. Len(Globals)
  /\ 1 \in DOMAIN Globals
  /\ \A i \in 1 .. Len(Globals) : i < Len(Globals) => i + 1 \in 1 .. Len(Globals)
<1> DEFINE n == Len(Globals)
<1>1. n \in Nat \ {0} /\ DOMAIN Globals = 1 .. n
  BY DistributedAssumption
<1> HIDE DEF n
<1>2. 1 \in 1 .. n /\ \A i \in 1 .. n : i < n => i + 1 \in 1 .. n
  BY <1>1
<1> QED
  BY <1>1, <1>2 DEF n

\* The connection of a try that was made.
LEMMA TryIsConn ==
  ASSUME NEW j \in Jobs, tries[j] \in 1 .. MAX_TRIES
  PROVE  Try(j) \in Conns
BY DEF Try, Conns

\* Connections are pairs of a job and a try.
LEMMA ConnParts ==
  ASSUME NEW c \in Conns
  PROVE  /\ c = <<c[1], c[2]>>
         /\ c[1] \in Jobs
         /\ c[2] \in 1 .. MAX_TRIES
BY DEF Conns

\* A thread that sends or reads has made a connection.
TriesMade ==
  /\ tries \in [Jobs -> 0 .. MAX_TRIES]
  /\ client \in [Jobs -> {"idle", "connect", "send", "read", "ok", "merged",
                          "skipped", "failed", "refused"}]
  /\ \A j \in Jobs : client[j] \in {"send", "read", "ok"} => tries[j] # 0

LEMMA TriesMadeInit == Init => TriesMade
<1>1. MAX_TRIES \in Nat
  BY DistributedAssumption
<1>2. 0 \in 0 .. MAX_TRIES
  BY <1>1
<1> QED
  BY <1>2 DEF Init, TriesMade

LEMMA NextTry ==
  ASSUME TriesMade, NEW j \in Jobs, tries[j] < MAX_TRIES
  PROVE  /\ tries[j] + 1 \in 1 .. MAX_TRIES
         /\ <<j, tries[j] + 1>> \in Conns
<1>1. tries[j] \in 0 .. MAX_TRIES /\ MAX_TRIES \in Nat
  BY DistributedAssumption DEF TriesMade
<1>2. tries[j] + 1 \in 1 .. MAX_TRIES
  BY <1>1
<1> QED
  BY <1>2 DEF Conns

LEMMA TryMade ==
  ASSUME TriesMade, NEW j \in Jobs, client[j] \in {"send", "read", "ok"}
  PROVE  /\ tries[j] \in 1 .. MAX_TRIES
         /\ Try(j) \in Conns
<1>1. tries[j] \in 0 .. MAX_TRIES /\ tries[j] # 0
  BY DEF TriesMade
<1>2. MAX_TRIES \in Nat
  BY DistributedAssumption
<1>3. tries[j] \in 1 .. MAX_TRIES
  BY <1>1, <1>2
<1> QED
  BY <1>3, TryIsConn

LEMMA TriesMadeStep == TriesMade /\ [Next]_vars => TriesMade'
<1> SUFFICES ASSUME TriesMade, [Next]_vars
             PROVE  TriesMade'
  OBVIOUS
<1>1. ASSUME NEW j \in Jobs, RouterStep(j) \/ lostConnection(j)
      PROVE  TriesMade'
  <2>1. CASE sendJob_connect(j)
    <3>1. tries[j] + 1 \in 1 .. MAX_TRIES
      BY <2>1, NextTry DEF sendJob_connect
    <3> QED
      BY <2>1, <3>1 DEF sendJob_connect, TriesMade, Goto
  <2>2. CASE UNCHANGED tries /\ \E l \in {"connect", "skipped", "failed", "merged",
                                            "refused"} : Goto(j, l)
    BY <2>2 DEF TriesMade, Goto
  <2>3. CASE /\ UNCHANGED tries /\ client[j] \in {"send", "read"}
             /\ \E l \in {"connect", "read", "ok"} : Goto(j, l)
    BY <2>3 DEF TriesMade, Goto
  <2> QED
    BY <1>1, <2>1, <2>2, <2>3
    DEF RouterStep, lostConnection, distributedMain, distributedMain_skip,
        distributedMain_unwritten, sendJob_throws, sendJob_false, sendMsg, lostBalancer,
        readMsg, updateDesign, At
<1>2. CASE UNCHANGED <<client, tries>>
  BY <1>2 DEF TriesMade
<1> QED
  BY <1>1, <1>2
  DEF Next, vars, router, searchRepair, abortClose, BalancerStep, handle_accept,
      handle_read_drop, handle_read, handle_read_refused, handle_read_done,
      handle_read_broken, workerStep, workerFault, workerCrash

\* Every step of the composition is a step of the balancer or leaves its
\* variables alone.
LEMMA BalancerStepRefined == TriesMade /\ [Next]_vars => [LB!Next]_(LB!vars)
<1>1. ASSUME UNCHANGED balancer
      PROVE  UNCHANGED LB!vars
  BY <1>1 DEF balancer, LB!vars
<1>2. ASSUME NEW c \in Conns, handle_accept(c) \/ handle_read_drop(c) \/ handle_read(c)
        \/ handle_read_refused(c) \/ handle_read_done(c) \/ handle_read_broken(c)
        \/ abortClose(c)
      PROVE  LB!Next
  BY <1>2 DEF LB!Next, handle_accept, handle_read_drop, handle_read,
     handle_read_refused, handle_read_done, handle_read_broken, abortClose
<1>3. ASSUME NEW c \in Conns, workerStep(c) \/ workerFault(c)
      PROVE  UNCHANGED LB!vars
  BY <1>1, <1>3 DEF workerStep, workerFault
<1>4. ASSUME NEW j \in Jobs, TriesMade, sendJob_connect(j)
      PROVE  LB!Next
  BY <1>4, NextTry DEF LB!Next, sendJob_connect
<1>5. ASSUME NEW j \in Jobs, TriesMade, sendMsg(j) \/ lostConnection(j)
      PROVE  LB!Next
  <2>1. Try(j) \in Conns
    BY <1>5, TryMade DEF sendMsg, lostConnection, At
  <2> QED
    BY <1>5, <2>1 DEF LB!Next, sendMsg, lostConnection
<1>6. ASSUME NEW j \in Jobs, distributedMain(j) \/ distributedMain_skip(j)
        \/ distributedMain_unwritten(j) \/ sendJob_throws(j) \/ sendJob_false(j)
        \/ lostBalancer(j) \/ readMsg(j) \/ updateDesign(j)
      PROVE  UNCHANGED LB!vars
  BY <1>1, <1>6 DEF distributedMain, distributedMain_skip, distributedMain_unwritten,
     sendJob_throws, sendJob_false, lostBalancer, readMsg, updateDesign
<1>7. ASSUME searchRepair \/ (\E p \in Slots : workerCrash(p)) \/ UNCHANGED vars
      PROVE  UNCHANGED LB!vars
  BY <1>1, <1>7 DEF searchRepair, workerCrash, vars
<1> QED
  BY <1>2, <1>3, <1>4, <1>5, <1>6, <1>7 DEF Next, RouterStep, BalancerStep

-----------------------------------------------------------------------------
(* The types. *)

\* The steps of the balancer.
LEMMA BalancerTypes == LB!TypeOK /\ [LB!Next]_(LB!vars) => LB!TypeOK'
<1> SUFFICES ASSUME LB!TypeOK, [LB!Next]_(LB!vars)
             PROVE  LB!TypeOK'
  OBVIOUS
<1> DEFINE W == Slots \ {NoSlot}
<1>p. Modulus \in Nat \ {0}
  BY DistributedAssumption
<1>m. ASSUME NEW a \in Int
      PROVE  a % Modulus \in 0 .. Modulus - 1
  BY <1>p
<1>d. ASSUME NEW s \in W
      PROVE  LB!Decrement(s) \in [W -> 0 .. Modulus - 1]
  <2>1. \A t \in W : priority[t] \in Int
    BY <1>p DEF LB!TypeOK
  <2>2. (priority[s] - 1) % Modulus \in 0 .. Modulus - 1
    BY <2>1, <1>m
  <2> QED
    BY <2>2 DEF LB!Decrement, LB!TypeOK
<1>u. ASSUME NEW s
      PROVE  LB!updateWorker(s) \in [W -> 0 .. Modulus - 1]
  <2>1. \A t \in W : priority[t] \in Int /\ priority[t] \in 0 .. Modulus - 1
    BY <1>p DEF LB!TypeOK
  <2>2. \A t \in W : (priority[t] + 1) % Modulus \in 0 .. Modulus - 1
    BY <2>1, <1>m
  <2> QED
    BY <2>1, <2>2 DEF LB!updateWorker
<1>1. ASSUME NEW c \in Conns, LB!Connect(c) PROVE LB!TypeOK'
  BY <1>1 DEF LB!Connect, LB!TypeOK, LB!Stages
<1>2. ASSUME NEW c \in Conns, LB!ClientSend(c) PROVE LB!TypeOK'
  BY <1>2 DEF LB!ClientSend, LB!TypeOK, LB!Stages
<1>3. ASSUME NEW c \in Conns, LB!ClientGone(c) PROVE LB!TypeOK'
  BY <1>3 DEF LB!ClientGone, LB!TypeOK, LB!Stages
<1>4. ASSUME NEW c \in Conns, LB!handle_accept(c) PROVE LB!TypeOK'
  BY <1>4, <1>d DEF LB!handle_accept, LB!Top, LB!TypeOK, LB!Stages
<1>5. ASSUME NEW c \in Conns, LB!handle_accept_err(c) PROVE LB!TypeOK'
  BY <1>5 DEF LB!handle_accept_err, LB!TypeOK, LB!Stages
<1>6. ASSUME NEW c \in Conns, LB!handle_read(c) PROVE LB!TypeOK'
  BY <1>6 DEF LB!handle_read, LB!TypeOK, LB!Stages
<1>7. ASSUME NEW c \in Conns, LB!handle_read_drop(c) PROVE LB!TypeOK'
  BY <1>7, <1>u DEF LB!handle_read_drop, LB!TypeOK, LB!Stages
<1>8. ASSUME NEW c \in Conns, LB!handle_read_refused(c) PROVE LB!TypeOK'
  BY <1>8 DEF LB!handle_read_refused, LB!TypeOK, LB!Stages
<1>9. ASSUME NEW c \in Conns, LB!handle_read_done(c) PROVE LB!TypeOK'
  BY <1>9, <1>u DEF LB!handle_read_done, LB!TypeOK, LB!Stages
<1>10. CASE UNCHANGED LB!vars
  BY <1>10 DEF LB!vars, LB!TypeOK, LB!Stages
<1> QED
  BY <1>1, <1>2, <1>3, <1>4, <1>5, <1>6, <1>7, <1>8, <1>9, <1>10 DEF LB!Next

\* A thread belongs to a process from its packet on, and only then.
Hosted == \A c \in Conns : pc[c] # "none" <=> host[c] \in Slots

\* The types of the workers and the directory.
WorkerTypes == WP!TypeOK /\ Hosted

LEMMA PathIsLoaded ==
  ASSUME NEW c \in Conns
  PROVE  /\ JobOf(c) \in Jobs
         /\ PathOf(JobOf(c)) \in Paths
         /\ PathOf(JobOf(c)) \in WP!Loaded
<1>1. c[1] \in Jobs
  BY ConnParts
<1>2. IterOf[c[1]] \in DOMAIN Globals
  BY <1>1, DistributedAssumption
<1> QED
  BY <1>1, <1>2 DEF JobOf, PathOf, Paths, WP!Loaded

\* The steps of a thread.
LEMMA ThreadTypes ==
  ASSUME WorkerTypes, NEW c \in Conns,
         \/ WP!handle_read_err(c) \/ WP!handle_read_bad(c) \/ WP!sendResult_fail(c)
         \/ WP!onRoutingJobReceived(c) \/ WP!check(c) \/ WP!lock(c) \/ WP!assign(c)
         \/ WP!readGlobals(c) \/ WP!load(c) \/ WP!runDRWorker(c) \/ WP!route_queue(c)
         \/ WP!reloadedMain_unwritten(c) \/ WP!reloadedMain(c) \/ WP!sendResult(c)
  PROVE  WorkerTypes'
<1> USE DEF WP!handle_read_err, WP!handle_read_bad, WP!sendResult_fail,
    WP!onRoutingJobReceived, WP!check, WP!lock, WP!assign, WP!readGlobals, WP!load,
    WP!runDRWorker, WP!route_queue, WP!reloadedMain_unwritten, WP!reloadedMain,
    WP!sendResult, WP!Goto, WP!Close, WP!StartRun,
    WP!fileVars
<1>1. /\ UNCHANGED <<alive, host, infiles, globals>>
      /\ pc[c] # "none"
      /\ \E l \in WP!PCs \ {"none"} : pc' = [pc EXCEPT ![c] = l]
  BY DEF WP!PCs
<1>2. host[c] \in Slots
  BY <1>1 DEF WorkerTypes, Hosted
<1>3. pc' \in [Conns -> WP!PCs]
  BY <1>1 DEF WorkerTypes, WP!TypeOK
<1>4. /\ path' \in [Slots -> Paths \cup {WP!NoPath}]
      /\ mx' \in [Slots -> Conns \cup {NoConn}]
  <2>1. path' = path \/ path' = [path EXCEPT ![host[c]] = PathOf(JobOf(c))]
    OBVIOUS
  <2>2. mx' = mx \/ \E v \in {c, NoConn} : mx' = [mx EXCEPT ![host[c]] = v]
    OBVIOUS
  <2> QED
    BY <2>1, <2>2, PathIsLoaded DEF WorkerTypes, WP!TypeOK
<1>5. loaded' \in [Slots -> WP!Loaded]
  <2>1. \/ loaded' = loaded
        \/ \E v \in {PathOf(JobOf(c)), WP!Torn} : loaded' = [loaded EXCEPT ![host[c]] = v]
    OBVIOUS
  <2> QED
    BY <2>1, PathIsLoaded DEF WorkerTypes, WP!TypeOK, WP!Loaded
<1>6. with' \in [Conns -> WP!Loaded]
  <2>1. \/ with' = with
        \/ with' = [with EXCEPT ![c] = loaded'[host[c]]]
        \/ with' = [d \in Conns |-> IF d \in WP!Running(host[c]) THEN WP!Torn ELSE with[d]]
    BY <1>1
  <2> QED
    BY <2>1, <1>2, <1>5 DEF WorkerTypes, WP!TypeOK, WP!Loaded
<1>7. reply' \in [Conns -> {"open", "result", "zero", "empty"}]
  <2>1. \/ reply' = reply
        \/ \E r \in {"result", "zero", "empty"} : reply' = [reply EXCEPT ![c] = r]
    OBVIOUS
  <2> QED
    BY <2>1 DEF WorkerTypes, WP!TypeOK
<1>8. outfile' \in [Jobs -> WP!Loaded \cup {WP!Absent}]
  <2>1. with[c] \in WP!Loaded /\ WP!Torn \in WP!Loaded
    BY DEF WorkerTypes, WP!TypeOK, WP!Loaded
  <2>2. \/ outfile' = outfile
        \/ \E v \in WP!Loaded : outfile' = [outfile EXCEPT ![JobOf(c)] = v]
    BY <2>1
  <2> QED
    BY <2>2, PathIsLoaded DEF WorkerTypes, WP!TypeOK
<1>9. WP!TypeOK'
  BY <1>1, <1>3, <1>4, <1>5, <1>6, <1>7, <1>8 DEF WorkerTypes, WP!TypeOK
<1>10. Hosted'
  BY <1>1, <1>2 DEF WorkerTypes, Hosted, WP!TypeOK
<1> QED
  BY <1>9, <1>10 DEF WorkerTypes

LEMMA DieTypes ==
  ASSUME WorkerTypes, NEW p \in Slots, WP!Die(p)
  PROVE  WorkerTypes'
<1>1. /\ alive' = alive \ {p}
      /\ pc' = [c \in Conns |-> IF host[c] = p /\ pc[c] # "closed" THEN "dead" ELSE pc[c]]
      /\ reply' = [c \in Conns |-> IF host[c] = p /\ reply[c] = "open"
                                   THEN "empty" ELSE reply[c]]
      /\ UNCHANGED <<path, loaded, mx, host, with, infiles, outfile, globals>>
  BY DEF WP!Die, WP!fileVars
<1>2. pc' \in [Conns -> WP!PCs]
  BY <1>1 DEF WorkerTypes, WP!TypeOK, WP!PCs
<1>3. reply' \in [Conns -> {"open", "result", "zero", "empty"}]
  BY <1>1 DEF WorkerTypes, WP!TypeOK
<1> QED
  BY <1>1, <1>2, <1>3 DEF WorkerTypes, WP!TypeOK, Hosted

LEMMA ReceiveTypes ==
  ASSUME WorkerTypes, NEW c \in Conns, NEW p, WP!receive(c, p)
  PROVE  WorkerTypes'
<1>1. /\ p \in Slots
      /\ pc' = [pc EXCEPT ![c] = "received"] /\ host' = [host EXCEPT ![c] = p]
      /\ UNCHANGED <<alive, path, loaded, mx, with, reply, infiles, outfile, globals>>
  BY DEF WP!receive, WP!Goto, WP!fileVars, WorkerTypes, WP!TypeOK
<1>2. pc' \in [Conns -> WP!PCs] /\ host' \in [Conns -> Slots \cup {NoSlot}]
  BY <1>1 DEF WorkerTypes, WP!TypeOK, WP!PCs
<1> QED
  BY <1>1, <1>2 DEF WorkerTypes, WP!TypeOK, Hosted

\* With what the types rest on: made tries, and threads that have a process.
TypeInv == TypeOK /\ TriesMade /\ Hosted

LEMMA InitTypes == Init => TypeInv
<1> SUFFICES ASSUME Init
             PROVE  TypeInv
  OBVIOUS
<1>1. LB!TypeOK
  BY DistributedAssumption DEF Init, LB!Init, LB!TypeOK, LB!Stages
<1>2. WP!TypeOK
  <2>1. 1 \in DOMAIN Globals
    BY Iterations
  <2>2. globals \subseteq Paths
    BY <2>1 DEF Init, Paths, Written
  <2> QED
    BY <2>2 DEF Init, WP!ProcInit, WP!TypeOK, WP!PCs, WP!Loaded
<1>3. Hosted
  BY DistributedAssumption DEF Init, WP!ProcInit, Hosted
<1>4. 1 \in 1 .. Len(Globals) /\ 0 \in 0 .. MaxFaults
  <2>1. MaxFaults \in Nat
    BY DistributedAssumption
  <2>2. 0 \in 0 .. MaxFaults
    BY <2>1
  <2> QED
    BY <2>2, Iterations
<1>5. TriesMade
  BY TriesMadeInit
<1> QED
  BY <1>1, <1>2, <1>3, <1>4, <1>5
  DEF Init, TypeInv, TypeOK, TriesMade, WP!Loaded

\* The router changes the files only between jobs.
LEMMA FileTypes ==
  ASSUME TypeInv,
         searchRepair \/ \E j \in Jobs : distributedMain(j) \/ updateDesign(j)
  PROVE  WorkerTypes'
<1>1. UNCHANGED worker /\ UNCHANGED <<alive, path, loaded, mx, pc, host, with, reply>>
  BY DEF searchRepair, distributedMain, updateDesign, worker
<1>2. CASE searchRepair
  <2>1. iter + 1 \in DOMAIN Globals
    BY <1>2, Iterations DEF searchRepair, TypeInv, TypeOK
  <2>2. globals' \subseteq Paths /\ UNCHANGED <<infiles, outfile>>
    BY <1>2, <2>1 DEF searchRepair, Written, Paths, TypeInv, TypeOK, WP!TypeOK
  <2> QED
    BY <1>1, <2>2 DEF TypeInv, TypeOK, WP!TypeOK, WorkerTypes, Hosted
<1>3. CASE \E j \in Jobs : distributedMain(j)
  <2>1. infiles' \subseteq Jobs /\ UNCHANGED <<outfile, globals>>
    BY <1>3 DEF distributedMain, TypeInv, TypeOK, WP!TypeOK
  <2> QED
    BY <1>1, <2>1 DEF TypeInv, TypeOK, WP!TypeOK, WorkerTypes, Hosted
<1>4. CASE \E j \in Jobs : updateDesign(j)
  <2>1. /\ infiles' \subseteq Jobs /\ UNCHANGED globals
        /\ outfile' \in [Jobs -> WP!Loaded \cup {WP!Absent}]
    BY <1>4 DEF updateDesign, TypeInv, TypeOK, WP!TypeOK
  <2> QED
    BY <1>1, <2>1 DEF TypeInv, TypeOK, WP!TypeOK, WorkerTypes, Hosted
<1> QED
  BY <1>2, <1>3, <1>4

LEMMA StepTypes == TypeInv /\ [Next]_vars => TypeInv'
<1> SUFFICES ASSUME TypeInv, [Next]_vars
             PROVE  TypeInv'
  OBVIOUS
<1>1. TriesMade'
  BY TriesMadeStep DEF TypeInv
<1>2. LB!TypeOK'
  BY BalancerStepRefined, BalancerTypes DEF TypeInv, TypeOK
<1>0. WorkerTypes
  BY DEF TypeInv, TypeOK, WorkerTypes
<1>3. WorkerTypes'
  <2>1. ASSUME NEW c \in Conns, workerStep(c) \/ workerFault(c)
        PROVE  WorkerTypes'
    <3>1. CASE WP!runDRWorker_missing(c)
      <4>1. host[c] \in Slots
        BY <3>1, <1>0 DEF WP!runDRWorker_missing, WorkerTypes, Hosted
      <4> QED
        BY <1>0, <3>1, <4>1, DieTypes DEF WP!runDRWorker_missing
    <3> QED
      BY <1>0, <2>1, <3>1, ThreadTypes DEF workerStep, workerFault, WP!Step
  <2>2. ASSUME NEW p \in Slots, workerCrash(p)
        PROVE  WorkerTypes'
    BY <1>0, <2>2, DieTypes DEF workerCrash, WP!crash
  <2>3. ASSUME NEW c \in Conns, handle_read(c)
        PROVE  WorkerTypes'
    BY <1>0, <2>3, ReceiveTypes DEF handle_read
  <2>4. ASSUME searchRepair \/ \E j \in Jobs : distributedMain(j) \/ updateDesign(j)
        PROVE  WorkerTypes'
    BY <2>4, FileTypes
  <2>5. ASSUME UNCHANGED worker, UNCHANGED files
        PROVE  WorkerTypes'
    BY <1>0, <2>5 DEF worker, files, WorkerTypes, WP!TypeOK, Hosted
  <2>6. ASSUME NEW c \in Conns, handle_accept(c) \/ handle_read_drop(c)
          \/ handle_read_refused(c) \/ handle_read_done(c) \/ handle_read_broken(c)
          \/ abortClose(c)
        PROVE  WorkerTypes'
    BY <2>5, <2>6 DEF handle_accept, handle_read_drop, handle_read_refused,
       handle_read_done, handle_read_broken, abortClose
  <2>7. ASSUME NEW j \in Jobs, distributedMain_skip(j) \/ distributedMain_unwritten(j)
          \/ sendJob_throws(j) \/ sendJob_connect(j)
          \/ sendJob_false(j) \/ sendMsg(j) \/ lostBalancer(j) \/ lostConnection(j)
          \/ readMsg(j)
        PROVE  WorkerTypes'
    BY <2>5, <2>7 DEF distributedMain_skip, distributedMain_unwritten, sendJob_throws,
       sendJob_connect, sendJob_false, sendMsg,
       lostBalancer, lostConnection, readMsg
  <2>8. CASE UNCHANGED vars
    BY <2>5, <2>8 DEF vars
  <2> QED
    BY <2>1, <2>2, <2>3, <2>4, <2>6, <2>7, <2>8 DEF Next, RouterStep, BalancerStep
<1>4. answer' \in [Conns -> {"open", "result", "zero", "empty"}]
  <2>1. \/ answer' = answer
        \/ \E c \in Conns : \E v \in {"empty", reply[c]} : Answer(c, v)
    BY DEF Next, RouterStep, BalancerStep, vars, lostConnection, distributedMain,
       distributedMain_skip, distributedMain_unwritten, sendJob_throws, sendJob_connect,
       sendJob_false, sendMsg, lostBalancer, readMsg, updateDesign, searchRepair,
       abortClose, handle_accept, handle_read_drop, handle_read, handle_read_refused,
       handle_read_done, handle_read_broken, workerStep, workerFault, workerCrash,
       router, network, Break
  <2>2. \A c \in Conns : reply[c] \in {"open", "result", "zero", "empty"}
    BY <1>0 DEF WorkerTypes, WP!TypeOK
  <2> QED
    BY <2>1, <2>2 DEF Answer, TypeInv, TypeOK
<1>5. got' \in [Jobs -> WP!Loaded \cup {WP!Absent}]
  <2>1. \/ got' = got
        \/ \E j \in Jobs : got' = [got EXCEPT ![j] = outfile[j]]
    BY DEF Next, RouterStep, BalancerStep, vars, lostConnection, distributedMain,
       distributedMain_skip, distributedMain_unwritten, sendJob_throws, sendJob_connect,
       sendJob_false, sendMsg, lostBalancer, readMsg, updateDesign, searchRepair,
       abortClose, handle_accept, handle_read_drop, handle_read, handle_read_refused,
       handle_read_done, handle_read_broken, workerStep, workerFault, workerCrash,
       router, network, Break
  <2> QED
    BY <1>0, <2>1 DEF TypeInv, TypeOK, WorkerTypes, WP!TypeOK
<1>6. iter' \in 1 .. Len(Globals)
  <2>1. iter' = iter \/ (iter < Len(Globals) /\ iter' = iter + 1)
    BY DEF Next, RouterStep, BalancerStep, vars, lostConnection, distributedMain,
       distributedMain_skip, distributedMain_unwritten, sendJob_throws, sendJob_connect,
       sendJob_false, sendMsg, lostBalancer, readMsg, updateDesign, searchRepair,
       abortClose, handle_accept, handle_read_drop, handle_read, handle_read_refused,
       handle_read_done, handle_read_broken, workerStep, workerFault, workerCrash,
       router, network, Break
  <2>2. iter \in 1 .. Len(Globals)
    BY DEF TypeInv, TypeOK
  <2> QED
    BY <2>1, <2>2, Iterations
<1>7. faults' \in 0 .. MaxFaults
  <2>1. faults' = faults \/ Fault
    BY DEF Next, RouterStep, BalancerStep, vars, lostConnection, distributedMain,
       distributedMain_skip, distributedMain_unwritten, sendJob_throws, sendJob_connect,
       sendJob_false, sendMsg, lostBalancer, readMsg, updateDesign, searchRepair,
       abortClose, handle_accept, handle_read_drop, handle_read, handle_read_refused,
       handle_read_done, handle_read_broken, workerStep, workerFault, workerCrash,
       router, network, Break
  <2>2. MaxFaults \in Nat /\ faults \in 0 .. MaxFaults
    BY DistributedAssumption DEF TypeInv, TypeOK
  <2> QED
    BY <2>1, <2>2 DEF Fault
<1>8. broken' \in SUBSET Conns
  <2>1. \/ broken' = broken
        \/ \E c \in Conns : Break(c)
        \/ \E j \in Jobs : client[j] \in {"send", "read"} /\ Break(Try(j))
    BY DEF Next, RouterStep, BalancerStep, vars, lostConnection, distributedMain,
       distributedMain_skip, distributedMain_unwritten, sendJob_throws, sendJob_connect,
       sendJob_false, sendMsg, lostBalancer, readMsg, updateDesign, searchRepair,
       abortClose, handle_accept, handle_read_drop, handle_read, handle_read_refused,
       handle_read_done, handle_read_broken, workerStep, workerFault, workerCrash,
       router, network, Break, At
  <2>2. broken \in SUBSET Conns /\ TriesMade
    BY DEF TypeInv, TypeOK
  <2> QED
    BY <2>1, <2>2, TryMade DEF Break
<1> QED
  BY <1>1, <1>2, <1>3, <1>4, <1>5, <1>6, <1>7, <1>8
  DEF TypeInv, TypeOK, TriesMade, WorkerTypes

\* Every variable of the composition keeps its type, for every number of
\* workers, jobs, tries and iterations: searchRepair() stays within Globals,
\* sendJob() within MAX_TRIES.
THEOREM DistributedTypes == Spec => []TypeOK
<1>1. TypeInv => TypeOK
  BY DEF TypeInv
<1> QED
  BY <1>1, InitTypes, StepTypes, PTL DEF Spec

-----------------------------------------------------------------------------
(* What the steps do to the threads of the workers and to the jobs. *)

\* The thread of a connection runs in a worker.
Live(c) == pc[c] \notin {"none", "closed", "dead"}

\* The worker has not seen a connection that the balancer did not forward.
Waiting == \A c \in Conns : stage[c] \in {"none", "backlog", "reading"} => pc[c] = "none"

\* Nothing is sent to the balancer before the thread ends.
Silent == \A c \in Conns : pc[c] = "none" \/ Live(c) => reply[c] = "open"

\* Threads run in workers that live.
Sheltered == \A c \in Conns : Live(c) => host[c] \in alive

Threads == Waiting /\ Silent /\ Sheltered

\* A step of a thread that ends it without a result is the loss of a
\* connection, or the worker file was not there.
LEMMA ThreadEffect ==
  ASSUME TypeInv, NEW c \in Conns,
         \/ workerStep(c) /\ ~ WP!runDRWorker_missing(c)
         \/ workerFault(c)
  PROVE  /\ Live(c)
         /\ UNCHANGED <<alive, host, infiles, balancer, router, answer, broken>>
         /\ \E l \in WP!PCs \ {"none", "dead"} : pc' = [pc EXCEPT ![c] = l]
         /\ \/ reply' = reply
            \/ /\ pc' = [pc EXCEPT ![c] = "closed"]
               /\ \E r \in {"result", "zero", "empty"} :
                    /\ reply' = [reply EXCEPT ![c] = r]
                    /\ r = "result" \/ Fault \/ JobOf(c) \notin infiles
<1> USE DEF WP!Goto, WP!Close, WP!StartRun, WP!fileVars
<1>1. CASE workerFault(c)
  BY <1>1 DEF workerFault, WP!handle_read_err, WP!handle_read_bad, WP!sendResult_fail,
     WP!reloadedMain_unwritten, Live, WP!PCs
<1>2. CASE workerStep(c) /\ ~ WP!runDRWorker_missing(c)
  <2>1. UNCHANGED <<balancer, router, answer, broken>>
    BY <1>2 DEF workerStep, network
  <2>2. CASE WP!onRoutingJobReceived(c)
    BY <2>1, <2>2 DEF WP!onRoutingJobReceived, Live, WP!PCs
  <2>3. CASE WP!sendResult(c)
    BY <2>1, <2>3 DEF WP!sendResult, Live, WP!PCs
  <2>4. CASE \/ WP!check(c) \/ WP!lock(c) \/ WP!assign(c) \/ WP!readGlobals(c)
             \/ WP!load(c) \/ WP!runDRWorker(c) \/ WP!route_queue(c) \/ WP!reloadedMain(c)
    BY <2>1, <2>4 DEF WP!check, WP!lock, WP!assign, WP!readGlobals, WP!load,
       WP!runDRWorker, WP!route_queue, WP!reloadedMain, Live, WP!PCs
  <2> QED
    BY <1>2, <2>2, <2>3, <2>4 DEF workerStep, WP!Step
<1> QED
  BY <1>1, <1>2

\* A worker dies by a crash or of a worker file that is gone.
LEMMA DeathEffect ==
  ASSUME TypeInv, Sheltered,
         \/ \E c \in Conns : workerStep(c) /\ WP!runDRWorker_missing(c)
         \/ \E p \in Slots : workerCrash(p)
  PROVE  /\ \E p \in alive : WP!Die(p)
         /\ UNCHANGED <<balancer, router, answer, faults, broken>>
<1>1. ASSUME NEW c \in Conns, workerStep(c), WP!runDRWorker_missing(c)
      PROVE  host[c] \in alive
  BY <1>1 DEF WP!runDRWorker_missing, Sheltered, Live
<1> QED
  BY <1>1 DEF workerStep, WP!runDRWorker_missing, workerCrash, WP!crash, network

\* The steps of the balancer, its clients and the router.
Quiet == UNCHANGED worker

LEMMA OtherEffect ==
  ASSUME [Next]_vars
  PROVE  \/ \E c \in Conns : workerStep(c) \/ workerFault(c) \/ handle_read(c)
         \/ \E p \in Slots : workerCrash(p)
         \/ Quiet
BY DEF Next, RouterStep, BalancerStep, vars, lostConnection, distributedMain,
   distributedMain_skip, distributedMain_unwritten,
   sendJob_throws, sendJob_connect, sendJob_false, sendMsg, lostBalancer,
   readMsg, updateDesign, searchRepair, abortClose, handle_accept, handle_read_drop,
   handle_read_refused, handle_read_done, handle_read_broken, Break, network, Quiet

\* A connection the balancer has not forwarded was not forwarded before, and
\* one that was accepted has a worker.
LEMMA StageMoves ==
  ASSUME LB!TypeOK, [LB!Next]_(LB!vars), NEW c \in Conns
  PROVE  /\ stage'[c] \in {"none", "backlog", "reading"}
              => stage[c] \in {"none", "backlog", "reading"}
         /\ stage[c] # "none" => stage'[c] # "none"
         /\ \/ target'[c] = target[c]
               /\ (stage'[c] \in {"reading", "forwarding"} /\ Slots \ {NoSlot} # {}
                     => stage[c] \in {"reading", "forwarding"})
            \/ target'[c] \in Slots \ {NoSlot}
         /\ c \in gone' => c \in gone \/ LB!ClientGone(c)
<1>1. CASE UNCHANGED LB!vars
  BY <1>1 DEF LB!vars
<1>2. ASSUME NEW d \in Conns, LB!Connect(d) \/ LB!ClientSend(d)
             \/ LB!handle_accept_err(d) \/ LB!handle_read(d) \/ LB!handle_read_drop(d)
             \/ LB!handle_read_refused(d) \/ LB!handle_read_done(d)
      PROVE  /\ UNCHANGED <<target, gone>>
             /\ \/ stage' = stage
                \/ stage[d] = "none" /\ stage' = [stage EXCEPT ![d] = "backlog"]
                \/ stage[d] = "backlog" /\ stage' = [stage EXCEPT ![d] = "closed"]
                \/ stage[d] = "reading" /\ stage' = [stage EXCEPT ![d] = "closed"]
                \/ stage[d] = "reading" /\ stage' = [stage EXCEPT ![d] = "forwarding"]
                \/ stage[d] = "forwarding" /\ stage' = [stage EXCEPT ![d] = "closed"]
  BY <1>2 DEF LB!Connect, LB!ClientSend, LB!handle_accept_err, LB!handle_read,
     LB!handle_read_drop, LB!handle_read_refused, LB!handle_read_done
<1>3. ASSUME NEW d \in Conns, LB!ClientGone(d)
      PROVE  UNCHANGED <<target, stage>> /\ gone' = gone \cup {d}
  BY <1>3 DEF LB!ClientGone
<1>4. ASSUME NEW d \in Conns, LB!handle_accept(d)
      PROVE  /\ stage[d] = "backlog" /\ stage' = [stage EXCEPT ![d] = "reading"]
             /\ UNCHANGED gone
             /\ \/ Slots \ {NoSlot} = {} /\ target' = target
                \/ \E s \in Slots \ {NoSlot} : target' = [target EXCEPT ![d] = s]
  BY <1>4 DEF LB!handle_accept, LB!Top
<1>5. ASSUME NEW d \in Conns, LB!handle_accept(d)
      PROVE  /\ c # d => stage'[c] = stage[c] /\ target'[c] = target[c]
             /\ c = d => /\ stage[c] = "backlog" /\ stage'[c] = "reading"
                         /\ \/ Slots \ {NoSlot} = {} /\ target'[c] = target[c]
                            \/ target'[c] \in Slots \ {NoSlot}
  BY <1>4, <1>5 DEF LB!TypeOK
<1>6. CASE \E d \in Conns : LB!handle_accept(d)
  BY <1>4, <1>5, <1>6
<1>7. CASE \E d \in Conns : LB!ClientGone(d)
  BY <1>3, <1>7
<1>8. CASE \E d \in Conns : LB!Connect(d) \/ LB!ClientSend(d)
             \/ LB!handle_accept_err(d) \/ LB!handle_read(d) \/ LB!handle_read_drop(d)
             \/ LB!handle_read_refused(d) \/ LB!handle_read_done(d)
  BY <1>2, <1>8 DEF LB!TypeOK
<1> QED
  BY <1>1, <1>6, <1>7, <1>8 DEF LB!Next

\* The threads of workers keep their order with the balancer, whatever is lost.
LEMMA ThreadsStep ==
  ASSUME TypeInv, Threads, [Next]_vars
  PROVE  Threads'
<1>1. \A c \in Conns : stage'[c] \in {"none", "backlog", "reading"}
                         => stage[c] \in {"none", "backlog", "reading"}
  BY BalancerStepRefined, StageMoves DEF TypeInv, TypeOK
<1>2. ASSUME NEW c \in Conns,
             \/ workerStep(c) /\ ~ WP!runDRWorker_missing(c)
             \/ workerFault(c)
      PROVE  Threads'
  <2>1. PICK l \in WP!PCs \ {"none", "dead"} : pc' = [pc EXCEPT ![c] = l]
    BY <1>2, ThreadEffect
  <2>2. /\ Live(c) /\ alive' = alive /\ host' = host
        /\ \/ reply' = reply
           \/ /\ pc' = [pc EXCEPT ![c] = "closed"]
              /\ \E r : reply' = [reply EXCEPT ![c] = r]
    BY <1>2, ThreadEffect
  <2>3. pc'[c] = l /\ \A d \in Conns : d # c => pc'[d] = pc[d] /\ reply'[d] = reply[d]
    BY <2>1, <2>2 DEF TypeInv, TypeOK, WP!TypeOK
  <2>4. reply' = reply \/ pc'[c] = "closed"
    BY <2>2 DEF TypeInv, TypeOK, WP!TypeOK
  <2> QED
    BY <1>1, <2>2, <2>3, <2>4 DEF Threads, Waiting, Silent, Sheltered, Live
<1>3. ASSUME NEW p \in alive, WP!Die(p)
      PROVE  Threads'
  <2>1. /\ alive' = alive \ {p} /\ host' = host
        /\ pc' = [c \in Conns |-> IF host[c] = p /\ pc[c] # "closed" THEN "dead" ELSE pc[c]]
        /\ reply' = [c \in Conns |-> IF host[c] = p /\ reply[c] = "open"
                                     THEN "empty" ELSE reply[c]]
    BY <1>3 DEF WP!Die
  <2>2. p \in Slots
    BY DEF TypeInv, TypeOK, WP!TypeOK
  <2> QED
    BY <1>1, <2>1, <2>2 DEF Threads, Waiting, Silent, Sheltered, Live, TypeInv, Hosted
<1>4. ASSUME NEW c \in Conns, handle_read(c)
      PROVE  Threads'
  <2>1. /\ pc[c] = "none" /\ target[c] \in alive
        /\ pc' = [pc EXCEPT ![c] = "received"] /\ host' = [host EXCEPT ![c] = target[c]]
        /\ reply' = reply /\ alive' = alive
        /\ stage' = [stage EXCEPT ![c] = "forwarding"]
    BY <1>4 DEF handle_read, WP!receive, WP!Goto, LB!handle_read
  <2>2. /\ pc'[c] = "received" /\ host'[c] = target[c] /\ stage'[c] = "forwarding"
        /\ \A d \in Conns : d # c => pc'[d] = pc[d] /\ host'[d] = host[d]
    BY <2>1 DEF TypeInv, TypeOK, WP!TypeOK, LB!TypeOK
  <2> QED
    BY <1>1, <2>1, <2>2 DEF Threads, Waiting, Silent, Sheltered, Live
<1>5. CASE Quiet
  BY <1>1, <1>5 DEF Quiet, worker, Threads, Waiting, Silent, Sheltered, Live
<1> QED
  BY <1>2, <1>3, <1>4, <1>5, OtherEffect, DeathEffect DEF Threads

\* A step of the router is a step of one job; a terminated router takes none.
LEMMA JobEffect ==
  ASSUME TypeInv, [Next]_vars, NEW j \in Jobs
  PROVE  \/ ~ Aborted /\ (RouterStep(j) \/ lostConnection(j))
         \/ /\ client'[j] = client[j] /\ tries'[j] = tries[j] /\ got'[j] = got[j]
            /\ (j \in infiles' <=> j \in infiles)
<1>1. ASSUME NEW i \in Jobs, RouterStep(i) \/ lostConnection(i)
      PROVE  /\ ~ Aborted
             /\ i # j => /\ client'[j] = client[j] /\ tries'[j] = tries[j]
                         /\ got'[j] = got[j]
                         /\ (j \in infiles' <=> j \in infiles)
  <2>1. ~ Aborted
    BY <1>1 DEF RouterStep, lostConnection, distributedMain, distributedMain_skip,
       distributedMain_unwritten, sendJob_throws, sendJob_connect, sendJob_false, sendMsg,
       lostBalancer, readMsg, updateDesign, At
  <2>2. /\ \E l : client' = [client EXCEPT ![i] = l]
        /\ tries' = tries \/ tries' = [tries EXCEPT ![i] = @ + 1]
        /\ got' = got \/ got' = [got EXCEPT ![i] = outfile[i]]
        /\ infiles' \in {infiles, infiles \cup {i}, infiles \ {i}}
    BY <1>1 DEF RouterStep, lostConnection, distributedMain, distributedMain_skip,
       distributedMain_unwritten, sendJob_throws, sendJob_connect, sendJob_false, sendMsg,
       lostBalancer, readMsg, updateDesign,
       Goto, files
  <2> QED
    BY <2>1, <2>2 DEF TypeInv, TypeOK
<1>2. CASE UNCHANGED <<client, tries, got>> /\ infiles' = infiles
  BY <1>2
<1>3. ASSUME NEW c \in Conns, workerStep(c) \/ workerFault(c)
      PROVE  infiles' = infiles
  BY <1>3, DeathEffect, ThreadEffect DEF WP!Die, WP!fileVars, workerStep, WP!runDRWorker_missing
<1> QED
  BY <1>1, <1>2, <1>3 DEF Next, BalancerStep, vars, router, files, searchRepair, abortClose,
     handle_accept, handle_read_drop, handle_read, handle_read_refused,
     handle_read_done, handle_read_broken, Break, network, workerStep, workerFault, workerCrash,
     WP!crash, WP!Die, WP!fileVars

\* A terminated router stays terminated.
LEMMA AbortedStays ==
  ASSUME TypeInv, [Next]_vars, Aborted
  PROVE  Aborted'
BY JobEffect DEF Aborted

-----------------------------------------------------------------------------
(* Whatever is lost: what is executed is what the router waits for. *)

\* The balancer is blocked in the connection of a thread that runs.
Forwarded == \A c \in Conns : Live(c) /\ c \notin broken => stage[c] = "forwarding"

\* The exception that ends the balancer comes from a connection it does not
\* wait for.
DownIdle == ~ up => \A c \in Conns : stage[c] # "forwarding"

\* What is forwarded has been sent.
SentFirst == \A c \in Conns : stage[c] = "forwarding" => c \in sent

Blocking == LB!OneForwarded /\ DownIdle /\ SentFirst

\* The router waits for the answer of every packet the balancer still holds.
Attended ==
  up => \A c \in Conns : c \in sent /\ stage[c] # "closed" /\ c \notin broken
          => client[c[1]] = "read" /\ tries[c[1]] = c[2]

\* The files of a merged job.
Left ==
  \A j \in Jobs : client[j] = "merged" =>
    /\ j \notin infiles
    /\ outfile[j] = WP!Absent \/ \E k \in 1 .. MAX_TRIES : <<j, k>> \in broken

\* A connection breaks of a fault.
BrokenByFault == faults = 0 => broken = {}

LateInv ==
  /\ TypeInv /\ Threads /\ Forwarded /\ Blocking /\ Attended /\ Left
  /\ BrokenByFault

LEMMA InitLate == Init => LateInv
<1> SUFFICES ASSUME Init
             PROVE  LateInv
  OBVIOUS
<1>1. TypeInv
  BY InitTypes
<1>2. Threads /\ Forwarded /\ Blocking /\ Attended
  BY DEF Init, LB!Init, WP!ProcInit, Threads, Waiting, Silent, Sheltered, Live,
     Forwarded, Blocking, LB!OneForwarded, DownIdle, SentFirst, Attended
<1>3. Left /\ BrokenByFault
  BY DEF Init, Left, BrokenByFault
<1> QED
  BY <1>1, <1>2, <1>3 DEF LateInv

\* A connection breaks by a fault, and stays broken.
LEMMA BrokenGrows ==
  ASSUME TypeInv, [Next]_vars
  PROVE  /\ broken \subseteq broken'
         /\ broken' # broken => Fault
         /\ faults' = faults \/ Fault
BY DEF Next, RouterStep, BalancerStep, vars, lostConnection, distributedMain,
   distributedMain_skip, distributedMain_unwritten, sendJob_throws, sendJob_connect,
   sendJob_false, sendMsg, lostBalancer, readMsg, updateDesign, searchRepair,
   abortClose, handle_accept, handle_read_drop, handle_read, handle_read_refused,
   handle_read_done, handle_read_broken, workerStep, workerFault, workerCrash,
   network, Break

\* The first fault is counted before anything can be broken.
LEMMA BrokenByFaultStep ==
  ASSUME TypeInv, BrokenByFault, [Next]_vars
  PROVE  BrokenByFault'
<1>1. faults \in 0 .. MaxFaults /\ MaxFaults \in Nat
  BY DistributedAssumption DEF TypeInv, TypeOK
<1>2. Fault => faults' # 0
  BY <1>1 DEF Fault
<1>3. faults' = faults \/ Fault
  BY BrokenGrows
<1>4. broken' # broken => Fault
  BY BrokenGrows
<1> QED
  BY <1>2, <1>3, <1>4 DEF BrokenByFault

\* The balancer forwards one connection at a time, of which the packet came.
LEMMA BlockingStep ==
  ASSUME LB!TypeOK, [LB!Next]_(LB!vars), Blocking
  PROVE  Blocking'
<1>1. CASE UNCHANGED LB!vars
  BY <1>1 DEF LB!vars, Blocking, LB!OneForwarded, DownIdle, SentFirst
<1>2. ASSUME NEW d \in Conns, LB!handle_read(d)
      PROVE  Blocking'
  <2>1. /\ up' /\ d \in sent' /\ sent' = sent
        /\ \A c \in Conns : stage'[c] = "forwarding" => c = d
    BY <1>2 DEF LB!handle_read, LB!Idle, LB!TypeOK
  <2> QED
    BY <2>1 DEF Blocking, LB!OneForwarded, DownIdle, SentFirst
<1>3. ASSUME NEW d \in Conns,
             \/ LB!Connect(d) \/ LB!ClientSend(d) \/ LB!ClientGone(d) \/ LB!handle_accept(d)
             \/ LB!handle_accept_err(d) \/ LB!handle_read_drop(d)
             \/ LB!handle_read_refused(d) \/ LB!handle_read_done(d)
      PROVE  Blocking'
  <2>1. \A c \in Conns : stage'[c] = "forwarding" => stage[c] = "forwarding"
    BY <1>3 DEF LB!Connect, LB!ClientSend, LB!ClientGone, LB!handle_accept,
       LB!handle_accept_err, LB!handle_read_drop, LB!handle_read_refused,
       LB!handle_read_done, LB!TypeOK
  <2>2. sent \subseteq sent'
    BY <1>3 DEF LB!Connect, LB!ClientSend, LB!ClientGone, LB!handle_accept,
       LB!handle_accept_err, LB!handle_read_drop, LB!handle_read_refused,
       LB!handle_read_done
  <2>3. ~ up' => ~ up \/ \A c \in Conns : stage[c] # "forwarding"
    BY <1>3 DEF LB!Connect, LB!ClientSend, LB!ClientGone, LB!handle_accept,
       LB!handle_accept_err, LB!handle_read_drop, LB!handle_read_refused,
       LB!handle_read_done, LB!Idle
  <2> QED
    BY <2>1, <2>2, <2>3 DEF Blocking, LB!OneForwarded, DownIdle, SentFirst
<1> QED
  BY <1>1, <1>2, <1>3 DEF LB!Next

\* A connection leaves the balancer's only thread when the worker has closed
\* its side, or when it breaks.
LEMMA ForwardingEnds ==
  ASSUME TypeInv, [Next]_vars, NEW c \in Conns, stage[c] = "forwarding"
  PROVE  \/ stage'[c] = "forwarding"
         \/ reply[c] # "open"
         \/ c \in broken'
<1>1. CASE UNCHANGED stage
  BY <1>1
<1>2. ASSUME NEW d \in Conns, handle_accept(d) \/ handle_read_drop(d) \/ handle_read(d)
      PROVE  stage'[c] = "forwarding"
  <2>1. /\ stage[d] # "forwarding"
        /\ \E l : stage' = [stage EXCEPT ![d] = l]
    BY <1>2 DEF handle_accept, handle_read_drop, handle_read, LB!handle_accept,
       LB!handle_accept_err, LB!handle_read_drop, LB!handle_read
  <2> QED
    BY <2>1 DEF TypeInv, TypeOK, LB!TypeOK
<1>3. ASSUME NEW d \in Conns, handle_read_done(d) \/ handle_read_broken(d)
      PROVE  stage'[c] = "forwarding" \/ reply[c] # "open" \/ c \in broken'
  <2>1. /\ stage' = [stage EXCEPT ![d] = "closed"]
        /\ reply[d] # "open" \/ d \in broken'
    BY <1>3 DEF handle_read_done, handle_read_broken, LB!handle_read_done, Break
  <2> QED
    BY <2>1 DEF TypeInv, TypeOK, LB!TypeOK
<1>4. ASSUME NEW j \in Jobs, sendJob_connect(j)
      PROVE  stage'[c] = "forwarding"
  <2>1. /\ stage[<<j, tries[j] + 1>>] # "forwarding"
        /\ stage' = [stage EXCEPT ![<<j, tries[j] + 1>>] = "backlog"]
    BY <1>4 DEF sendJob_connect, LB!Connect
  <2> QED
    BY <2>1 DEF TypeInv, TypeOK, LB!TypeOK
<1>5. \/ UNCHANGED stage
      \/ \E d \in Conns : \/ handle_accept(d) \/ handle_read_drop(d) \/ handle_read(d)
                          \/ handle_read_done(d) \/ handle_read_broken(d)
      \/ \E j \in Jobs : sendJob_connect(j)
  BY DEF Next, RouterStep, BalancerStep, vars, balancer, lostConnection, distributedMain,
     distributedMain_skip, distributedMain_unwritten, sendJob_throws, sendJob_false,
     sendMsg, lostBalancer, readMsg, updateDesign, searchRepair, abortClose,
     handle_read_refused, workerStep, workerFault, workerCrash, LB!ClientSend,
     LB!ClientGone, LB!handle_read_refused
<1> QED
  BY <1>1, <1>2, <1>3, <1>4, <1>5

\* A thread starts when the balancer forwards its packet.
LEMMA ThreadStarts ==
  ASSUME TypeInv, Sheltered, [Next]_vars, NEW c \in Conns, Live(c)', ~ Live(c)
  PROVE  stage'[c] = "forwarding"
<1>1. ASSUME NEW d \in Conns,
             \/ workerStep(d) /\ ~ WP!runDRWorker_missing(d)
             \/ workerFault(d)
      PROVE  FALSE
  <2>1. Live(d) /\ \E l : pc' = [pc EXCEPT ![d] = l]
    BY <1>1, ThreadEffect
  <2> QED
    BY <2>1 DEF Live, TypeInv, TypeOK, WP!TypeOK
<1>2. ASSUME NEW p \in alive, WP!Die(p)
      PROVE  FALSE
  BY <1>2 DEF WP!Die, Live, TypeInv, TypeOK, WP!TypeOK
<1>3. ASSUME NEW d \in Conns, handle_read(d)
      PROVE  stage'[c] = "forwarding"
  <2>1. /\ pc' = [pc EXCEPT ![d] = "received"]
        /\ stage' = [stage EXCEPT ![d] = "forwarding"]
    BY <1>3 DEF handle_read, WP!receive, WP!Goto, LB!handle_read
  <2> QED
    BY <2>1 DEF Live, TypeInv, TypeOK, WP!TypeOK, LB!TypeOK
<1>4. CASE Quiet
  BY <1>4 DEF Quiet, worker, Live
<1> QED
  BY <1>1, <1>2, <1>3, <1>4, OtherEffect, DeathEffect

LEMMA ForwardedStep ==
  ASSUME TypeInv, Threads, Forwarded, [Next]_vars
  PROVE  Forwarded'
<1> SUFFICES ASSUME NEW c \in Conns, Live(c)', c \notin broken'
             PROVE  stage'[c] = "forwarding"
  BY DEF Forwarded
<1>1. CASE ~ Live(c)
  BY <1>1, ThreadStarts DEF Threads
<1>2. CASE Live(c)
  <2>1. c \notin broken
    BY BrokenGrows
  <2>2. stage[c] = "forwarding" /\ reply[c] = "open"
    BY <1>2, <2>1 DEF Forwarded, Threads, Silent
  <2> QED
    BY <2>2, ForwardingEnds
<1> QED
  BY <1>1, <1>2

\* A packet is sent by the thread of its job.
LEMMA PacketSent ==
  ASSUME TypeInv, [Next]_vars, NEW c \in Conns, c \in sent', c \notin sent
  PROVE  /\ client'[c[1]] = "read" /\ tries'[c[1]] = c[2]
<1>1. PICK j \in Jobs : sendMsg(j)
  BY DEF Next, RouterStep, BalancerStep, vars, balancer, lostConnection, distributedMain,
     distributedMain_skip, distributedMain_unwritten, sendJob_throws, sendJob_connect,
     sendJob_false, lostBalancer, readMsg, updateDesign, searchRepair, abortClose,
     handle_accept, handle_read_drop, handle_read, handle_read_refused,
     handle_read_done, handle_read_broken, workerStep, workerFault, workerCrash,
     LB!Connect, LB!ClientGone, LB!handle_accept, LB!handle_accept_err,
     LB!handle_read_drop, LB!handle_read, LB!handle_read_refused, LB!handle_read_done
<1>2. sent' = sent \cup {Try(j)} /\ Goto(j, "read") /\ tries' = tries
  BY <1>1 DEF sendMsg, LB!ClientSend
<1>3. c = Try(j)
  BY <1>2
<1> QED
  BY <1>2, <1>3 DEF Try, Goto, TypeInv, TypeOK

\* The thread of a job stops waiting when the connection is closed, when it
\* breaks, and when the balancer is gone.
LEMMA WaitingEnds ==
  ASSUME TypeInv, [Next]_vars, NEW c \in Conns, client[c[1]] = "read",
         tries[c[1]] = c[2], up, stage[c] # "closed", c \notin broken'
  PROVE  client'[c[1]] = "read" /\ tries'[c[1]] = c[2]
<1> DEFINE j == c[1]
<1>1. j \in Jobs /\ c = Try(j)
  BY ConnParts DEF Try
<1>2. ~ lostConnection(j)
  BY <1>1 DEF lostConnection, Break
<1>3. ~ RouterStep(j)
  BY <1>1 DEF RouterStep, distributedMain, distributedMain_skip, distributedMain_unwritten,
     sendJob_connect, sendJob_throws, sendJob_false, sendMsg, lostBalancer, readMsg,
     updateDesign, At
<1> QED
  BY <1>1, <1>2, <1>3, JobEffect

LEMMA AttendedStep ==
  ASSUME TypeInv, Attended, [Next]_vars
  PROVE  Attended'
<1> SUFFICES ASSUME up', NEW c \in Conns, c \in sent', stage'[c] # "closed",
                    c \notin broken'
             PROVE  client'[c[1]] = "read" /\ tries'[c[1]] = c[2]
  BY DEF Attended
<1>1. CASE c \notin sent
  BY <1>1, PacketSent
<1>2. CASE c \in sent
  <2>1. [LB!Next]_(LB!vars) /\ LB!TypeOK
    BY BalancerStepRefined DEF TypeInv, TypeOK
  <2>2. up /\ stage[c] # "closed"
    BY <2>1 DEF LB!Next, LB!vars, LB!Connect, LB!ClientSend, LB!ClientGone,
       LB!handle_accept, LB!handle_accept_err, LB!handle_read_drop, LB!handle_read,
       LB!handle_read_refused, LB!handle_read_done, LB!TypeOK
  <2>3. c \notin broken
    BY BrokenGrows
  <2>4. client[c[1]] = "read" /\ tries[c[1]] = c[2]
    BY <1>2, <2>2, <2>3 DEF Attended
  <2> QED
    BY <2>2, <2>4, WaitingEnds
<1> QED
  BY <1>1, <1>2

\* A thread that runs on a connection that is intact is awaited.
LEMMA LiveAwaited ==
  ASSUME LateInv, NEW c \in Conns, Live(c), c \notin broken
  PROVE  /\ stage[c] = "forwarding"
         /\ client[c[1]] = "read" /\ tries[c[1]] = c[2]
<1>1. stage[c] = "forwarding"
  BY DEF LateInv, Forwarded
<1>2. up /\ c \in sent
  BY <1>1 DEF LateInv, Blocking, DownIdle, SentFirst
<1> QED
  BY <1>1, <1>2 DEF LateInv, Attended

\* A thread writes the result file of its own job, while it runs.
LEMMA FileWritten ==
  ASSUME TypeInv, [Next]_vars, NEW j \in Jobs, outfile'[j] # outfile[j]
  PROVE  \/ updateDesign(j)
         \/ \E c \in Conns : c[1] = j /\ Live(c)
<1>1. ASSUME NEW c \in Conns, workerStep(c) \/ workerFault(c)
      PROVE  c[1] = j /\ Live(c)
  <2>1. \/ WP!route_queue(c) \/ WP!reloadedMain(c)
        \/ outfile' = outfile
    BY <1>1 DEF workerStep, workerFault, WP!Step, WP!handle_read_err, WP!handle_read_bad,
       WP!sendResult_fail, WP!reloadedMain_unwritten, WP!onRoutingJobReceived, WP!check,
       WP!lock, WP!assign, WP!readGlobals, WP!load, WP!runDRWorker, WP!sendResult,
       WP!runDRWorker_missing, WP!Die, WP!fileVars
  <2>2. WP!route_queue(c) \/ WP!reloadedMain(c)
    BY <2>1
  <2>3. Live(c) /\ \E v : outfile' = [outfile EXCEPT ![JobOf(c)] = v]
    BY <2>2 DEF WP!route_queue, WP!reloadedMain, Live
  <2> QED
    BY <2>3 DEF JobOf, TypeInv, TypeOK, WP!TypeOK
<1>2. ASSUME NEW i \in Jobs, updateDesign(i)
      PROVE  i = j
  <2>1. outfile' = outfile \/ outfile' = [outfile EXCEPT ![i] = WP!Absent]
    BY <1>2 DEF updateDesign
  <2> QED
    BY <2>1 DEF TypeInv, TypeOK, WP!TypeOK
<1>3. \/ outfile' = outfile
      \/ \E c \in Conns : workerStep(c) \/ workerFault(c)
      \/ \E i \in Jobs : updateDesign(i)
  BY DEF Next, RouterStep, BalancerStep, vars, files, lostConnection, distributedMain,
     distributedMain_skip, distributedMain_unwritten, sendJob_throws, sendJob_connect,
     sendJob_false, sendMsg, lostBalancer, readMsg, searchRepair, abortClose,
     handle_accept, handle_read_drop, handle_read, handle_read_refused,
     handle_read_done, handle_read_broken, workerCrash, WP!crash, WP!Die, WP!receive,
     WP!fileVars
<1> QED
  BY <1>1, <1>2, <1>3

LEMMA LeftStep ==
  ASSUME LateInv, [Next]_vars
  PROVE  Left'
<1>1. TypeInv /\ broken \subseteq broken'
  BY BrokenGrows DEF LateInv
<1> SUFFICES ASSUME NEW j \in Jobs, client'[j] = "merged"
             PROVE  /\ j \notin infiles'
                    /\ \/ outfile'[j] = WP!Absent
                       \/ \E k \in 1 .. MAX_TRIES : <<j, k>> \in broken'
  BY DEF Left
<1>2. CASE updateDesign(j)
  <2>1. outfile'[j] = WP!Absent /\ j \notin infiles'
    BY <1>1, <1>2 DEF updateDesign, Goto, TypeInv, TypeOK, WP!TypeOK
  <2> QED
    BY <2>1
<1>3. CASE ~ updateDesign(j)
  <2>1. /\ client[j] = "merged" /\ (j \in infiles' <=> j \in infiles)
    <3>1. CASE RouterStep(j) \/ lostConnection(j)
      <4>1. client'[j] # "merged"
        BY <1>1, <1>3, <3>1 DEF RouterStep, lostConnection, distributedMain,
           distributedMain_skip, distributedMain_unwritten, sendJob_connect,
           sendJob_throws, sendJob_false, sendMsg, lostBalancer, readMsg, Goto,
           TypeInv, TypeOK
      <4> QED
        BY <4>1
    <3> QED
      BY <1>1, <3>1, JobEffect
  <2>2. /\ j \notin infiles
        /\ outfile[j] = WP!Absent \/ \E k \in 1 .. MAX_TRIES : <<j, k>> \in broken
    BY <2>1 DEF LateInv, Left
  <2>3. CASE outfile'[j] = outfile[j]
    BY <1>1, <2>1, <2>2, <2>3
  <2>4. CASE outfile'[j] # outfile[j]
    <3>1. PICK c \in Conns : c[1] = j /\ Live(c)
      BY <1>1, <1>3, <2>4, FileWritten
    <3>2. c \in broken
      BY <2>1, <3>1, LiveAwaited
    <3>3. c = <<j, c[2]>> /\ c[2] \in 1 .. MAX_TRIES
      BY <3>1, ConnParts
    <3> QED
      BY <1>1, <2>1, <2>2, <3>2, <3>3
  <2> QED
    BY <2>3, <2>4
<1> QED
  BY <1>2, <1>3

LEMMA StepLate == LateInv /\ [Next]_vars => LateInv'
<1> SUFFICES ASSUME LateInv, [Next]_vars
             PROVE  LateInv'
  OBVIOUS
<1>1. TypeInv' /\ Threads' /\ Forwarded'
  BY StepTypes, ThreadsStep, ForwardedStep DEF LateInv
<1>2. Blocking'
  BY BalancerStepRefined, BlockingStep DEF LateInv, TypeInv, TypeOK
<1>3. Attended' /\ Left' /\ BrokenByFault'
  BY AttendedStep, LeftStep, BrokenByFaultStep DEF LateInv
<1> QED
  BY <1>1, <1>2, <1>3 DEF LateInv

LEMMA LateInvariant == Spec => []LateInv
BY InitLate, StepLate, PTL DEF Spec

\* The threads that route are live.
LEMMA ExecutingIsLive ==
  ASSUME NEW c \in Conns, Executing(c)
  PROVE  Live(c)
BY DEF Executing, Live

\* Under any number of lost connections, empty answers and dead workers, what a
\* worker executes on a connection that did not break is the try sendJob() is
\* waiting for: a retry never meets an execution of an earlier try, but one
\* whose connection was lost.
THEOREM DistributedExecutionAwaited == Spec => []ExecutionAwaited
<1>1. LateInv => ExecutionAwaited
  BY LiveAwaited, ExecutingIsLive DEF ExecutionAwaited
<1> QED
  BY <1>1, LateInvariant, PTL

\* A merged job leaves no file and no thread, unless a connection of one of its
\* tries broke.
THEOREM DistributedNothingLeft == Spec => []NothingLeft
<1>1. ASSUME LateInv
      PROVE  NothingLeft
  <2>1. SUFFICES ASSUME NEW j \in Jobs, client[j] = "merged",
                        \A k \in 1 .. MAX_TRIES : <<j, k>> \notin broken
                 PROVE  \A k \in 1 .. MAX_TRIES : ~ Executing(<<j, k>>)
    BY <1>1 DEF LateInv, Left, NothingLeft
  <2>2. SUFFICES ASSUME NEW k \in 1 .. MAX_TRIES, Executing(<<j, k>>)
                 PROVE  FALSE
    OBVIOUS
  <2>3. <<j, k>> \in Conns /\ <<j, k>> \notin broken
    BY <2>1 DEF Conns
  <2>4. client[<<j, k>>[1]] = "read"
    BY <1>1, <2>2, <2>3, LiveAwaited, ExecutingIsLive
  <2> QED
    BY <2>1, <2>4
<1> QED
  BY <1>1, LateInvariant, PTL

-----------------------------------------------------------------------------
(* While no connection is lost. *)

\* A complete result, with the globals its job names if they could be written.
Result(j, v) == v \notin {WP!Absent, WP!Torn} /\ (PathOf(j) \in globals => v = PathOf(j))

\* The job of a call belongs to the current iteration.
Current ==
  \A j \in Jobs : client[j] \in {"connect", "send", "read", "ok"} => IterOf[j] = iter

\* No worker knows the globals of an iteration that is still to come.
Seen ==
  \A p \in Slots : path[p] # WP!NoPath => \E k \in 1 .. iter : path[p] = Globals[k]

\* A thread that reloads has stored the path of what it reads; until it does,
\* the globals are complete.
PathStored ==
  \A c \in Conns :
    /\ pc[c] \in {"read", "load"} => path[host[c]] = PathOf(JobOf(c))
    /\ pc[c] = "read" => loaded[host[c]] # WP!Torn

\* A process none of whose threads reloads holds the globals of its path, or
\* there are none.
Matching ==
  \A p \in alive :
    (\A c \in Conns : host[c] = p => pc[c] \notin {"read", "load"})
      => loaded[p] # WP!Torn /\ (path[p] \in globals => loaded[p] = path[p])

\* A thread routes with the globals its job names, and writes that result.
RoutesOwn ==
  \A c \in Conns :
    /\ pc[c] \in {"run", "route", "write", "send"} => Result(JobOf(c), with[c])
    /\ pc[c] = "send" => Result(JobOf(c), outfile[JobOf(c)])

\* The result of the current try is in the file when it is announced.
Announced ==
  \A c \in Conns :
    /\ answer[c] = "result" => reply[c] = "result"
    /\ reply[c] = "result" /\ client[c[1]] = "read" /\ tries[c[1]] = c[2]
         => Result(c[1], outfile[c[1]])

\* The result file of a job whose sendJob() returned true.
Kept == \A j \in Jobs : client[j] = "ok" => Result(j, outfile[j])

Clean ==
  Current /\ Seen /\ PathStored /\ Matching /\ RoutesOwn /\ Announced /\ Kept

DistributedInv == LateInv /\ (faults = 0 => Clean)

\* As long as nothing is lost.
Lossless == LateInv /\ broken = {} /\ Clean

\* The names of the globals files and the other contents of a file differ.
LEMMA Contents ==
  /\ WP!NoPath \notin Paths /\ WP!Torn \notin Paths /\ WP!Absent \notin Paths
  /\ WP!Absent \notin WP!Loaded /\ WP!NoPath # WP!Torn
  /\ \A j \in Jobs : PathOf(j) \in Paths
  /\ \A j \in Jobs : PathOf(j) \notin {WP!Absent, WP!Torn, WP!NoPath}
<1>1. WP!NoPath \notin Paths /\ WP!Torn \notin Paths /\ WP!Absent \notin Paths
  BY DistributedAssumption DEF WP!NoPath, WP!Torn, WP!Absent
<1>2. WP!Absent \notin WP!Loaded /\ WP!NoPath # WP!Torn
  BY <1>1 DEF WP!Loaded, WP!NoPath, WP!Torn, WP!Absent
<1>3. \A j \in Jobs : PathOf(j) \in Paths
  BY DistributedAssumption DEF PathOf, Paths
<1> QED
  BY <1>1, <1>2, <1>3

LEMMA InitClean == Init => Clean
<1> SUFFICES ASSUME Init
             PROVE  Clean
  OBVIOUS
<1>1. /\ \A p \in Slots : path[p] = WP!NoPath /\ loaded[p] = WP!NoPath
      /\ \A c \in Conns : pc[c] = "none" /\ reply[c] = "open" /\ answer[c] = "open"
      /\ \A j \in Jobs : client[j] = "idle"
      /\ alive = Slots
  BY DEF Init, WP!ProcInit
<1>2. Current /\ Seen /\ PathStored /\ RoutesOwn /\ Announced /\ Kept
  BY <1>1 DEF Current, Seen, PathStored, RoutesOwn, Announced, Kept
<1>3. Matching
  BY <1>1, Contents DEF Matching
<1> QED
  BY <1>2, <1>3 DEF Clean

\* A thread that runs is the only one, and the router waits for it.
LEMMA LiveThread ==
  ASSUME Lossless, NEW c \in Conns, Live(c)
  PROVE  /\ stage[c] = "forwarding" /\ host[c] \in alive /\ host[c] \in Slots
         /\ reply[c] = "open"
         /\ client[c[1]] = "read" /\ tries[c[1]] = c[2]
         /\ JobOf(c) \in Jobs /\ IterOf[JobOf(c)] = iter
         /\ \A d \in Conns : d # c => ~ Live(d)
<1>1. /\ stage[c] = "forwarding"
      /\ client[c[1]] = "read" /\ tries[c[1]] = c[2]
  BY LiveAwaited DEF Lossless
<1>2. \A d \in Conns : Live(d) => d = c
  BY <1>1 DEF Lossless, LateInv, Forwarded, Blocking, LB!OneForwarded
<1>3. host[c] \in alive /\ reply[c] = "open"
  BY DEF Lossless, LateInv, Threads, Sheltered, Silent
<1>4. JobOf(c) \in Jobs /\ IterOf[JobOf(c)] = iter
  BY <1>1, ConnParts DEF Lossless, Clean, Current, JobOf
<1>5. host[c] \in Slots
  BY DEF Live, Lossless, LateInv, TypeInv, Hosted
<1> QED
  BY <1>1, <1>2, <1>3, <1>4, <1>5

\* Two connections of a job are the same if they are the same try.
LEMMA SameTry ==
  ASSUME NEW c \in Conns, NEW d \in Conns, c[1] = d[1], c[2] = d[2]
  PROVE  c = d
BY ConnParts

\* What a step of a thread does to the others.
LEMMA ThreadAlone ==
  ASSUME Lossless, NEW c \in Conns, Live(c), NEW l,
         pc' = [pc EXCEPT ![c] = l],
         reply' = reply \/ \E v : reply' = [reply EXCEPT ![c] = v]
  PROVE  /\ pc'[c] = l
         /\ \A d \in Conns : d # c => pc'[d] = pc[d] /\ reply'[d] = reply[d] /\ ~ Live(d)
         /\ \A d \in Conns : d # c => pc'[d] \notin {"read", "load", "run", "route",
                                                     "write", "send"}
<1>1. pc'[c] = l /\ \A d \in Conns : d # c => pc'[d] = pc[d] /\ reply'[d] = reply[d]
  BY DEF Lossless, LateInv, TypeInv, TypeOK, WP!TypeOK
<1>2. \A d \in Conns : d # c => ~ Live(d)
  BY LiveThread
<1> QED
  BY <1>1, <1>2 DEF Live

\* The steps of a thread, one by one.
LEMMA ReceivedClean ==
  ASSUME Lossless, NEW c \in Conns, workerStep(c),
         WP!onRoutingJobReceived(c) \/ WP!lock(c) \/ WP!sendResult(c)
  PROVE  Clean'
<1>1. PICK l \in {"check", "closed", "assign"} :
        /\ pc' = [pc EXCEPT ![c] = l]
        /\ \/ reply' = reply
           \/ reply' = [reply EXCEPT ![c] = "empty"]
           \/ reply' = [reply EXCEPT ![c] = "result"] /\ pc[c] = "send"
  BY DEF WP!onRoutingJobReceived, WP!lock, WP!sendResult, WP!Goto, WP!Close
<1>2. /\ UNCHANGED <<alive, host, path, loaded, with, infiles, outfile, globals>>
      /\ UNCHANGED <<client, tries, answer, iter>>
      /\ Live(c) /\ pc[c] \notin {"read", "load"}
  BY DEF WP!onRoutingJobReceived, WP!lock, WP!sendResult, WP!fileVars, workerStep,
     router, Live
<1>3. /\ pc'[c] = l
      /\ \A d \in Conns : d # c => pc'[d] = pc[d] /\ reply'[d] = reply[d]
  BY <1>1, <1>2, ThreadAlone
<1>4. Current' /\ Seen' /\ Kept'
  BY <1>2 DEF Lossless, Clean, Current, Seen, Kept, Result
<1>5. PathStored' /\ RoutesOwn'
  BY <1>2, <1>3 DEF Lossless, Clean, PathStored, RoutesOwn, Result
<1>6. Matching'
  <2>1. \A d \in Conns : pc'[d] \in {"read", "load"} <=> pc[d] \in {"read", "load"}
    BY <1>2, <1>3
  <2> QED
    BY <1>2, <2>1 DEF Lossless, Clean, Matching
<1>7. Announced'
  <2>1. reply[c] = "open" /\ answer[c] # "result"
    BY <1>2, LiveThread DEF Lossless, Clean, Announced
  <2>2. reply'[c] = "result" => pc[c] = "send"
    BY <1>1, <2>1 DEF Lossless, LateInv, TypeInv, TypeOK, WP!TypeOK
  <2>3. reply'[c] = "result" => Result(c[1], outfile[c[1]])
    BY <2>2 DEF Lossless, Clean, RoutesOwn, JobOf
  <2> QED
    BY <1>2, <1>3, <2>1, <2>3 DEF Lossless, Clean, Announced, Result
<1> QED
  BY <1>4, <1>5, <1>6, <1>7 DEF Clean

\* What a thread leaves alone that changes only the globals and the paths.
LEMMA FilesClean ==
  ASSUME Lossless, UNCHANGED <<client, tries, answer, reply, iter, outfile, globals>>
  PROVE  Current' /\ Announced' /\ Kept'
BY DEF Lossless, Clean, Current, Announced, Kept, Result

\* Nobody else assigns or reloads: the comparison decides, and the globals in
\* memory are those of the path.
LEMMA CheckClean ==
  ASSUME Lossless, NEW c \in Conns, workerStep(c), WP!check(c)
  PROVE  Clean'
<1>1. pc[c] = "check" /\ Live(c)
  BY DEF WP!check, Live
<1>2. \A d \in Conns : d # c => ~ Live(d)
  BY <1>1, LiveThread
<1>3. ~ WP!Racing(c)
  BY <1>2 DEF WP!Racing, Live
<1>4. \A d \in Conns : pc[d] \notin {"read", "load"}
  BY <1>1, <1>2 DEF Live
<1>5. /\ loaded[host[c]] # WP!Torn
      /\ path[host[c]] \in globals => loaded[host[c]] = path[host[c]]
  BY <1>1, <1>4, LiveThread DEF Lossless, Clean, Matching
<1>6. PICK l \in {"run", "lock"} :
        /\ pc' = [pc EXCEPT ![c] = l]
        /\ \/ l = "run" /\ path[host[c]] = PathOf(JobOf(c))
                        /\ with' = [with EXCEPT ![c] = loaded[host[c]]]
           \/ l = "lock" /\ with' = with
  BY <1>3 DEF WP!check, WP!SamePath, WP!StartRun, WP!Goto
<1>7. /\ UNCHANGED <<alive, host, path, loaded, infiles, outfile, globals, reply>>
      /\ UNCHANGED <<client, tries, answer, iter>>
  BY DEF WP!check, WP!fileVars, workerStep, router
<1>8. /\ pc'[c] = l
      /\ \A d \in Conns : d # c => pc'[d] \notin {"read", "load", "run", "route", "write", "send"}
  BY <1>1, <1>6, <1>7, ThreadAlone
<1>9. PathStored' /\ Seen'
  BY <1>7, <1>8 DEF Lossless, Clean, PathStored, Seen
<1>10. Matching'
  BY <1>4, <1>7 DEF Lossless, Clean, Matching
<1>11. RoutesOwn'
  <2>1. l = "run" => with'[c] = loaded[host[c]] /\ loaded[host[c]] # WP!Absent
    BY <1>1, <1>6, LiveThread, Contents
    DEF Lossless, LateInv, TypeInv, TypeOK, WP!TypeOK
  <2>2. l = "run" => Result(JobOf(c), with[c])'
    BY <1>5, <1>6, <1>7, <2>1 DEF Result
  <2> QED
    BY <1>6, <1>8, <2>2 DEF RoutesOwn, Result
<1> QED
  BY <1>7, <1>9, <1>10, <1>11, FilesClean DEF Clean

\* The path is stored before the globals are read.
LEMMA AssignClean ==
  ASSUME Lossless, NEW c \in Conns, workerStep(c), WP!assign(c)
  PROVE  Clean'
<1>1. /\ pc[c] = "assign" /\ Live(c)
      /\ pc' = [pc EXCEPT ![c] = "read"]
      /\ path' = [path EXCEPT ![host[c]] = PathOf(JobOf(c))]
      /\ UNCHANGED <<alive, host, loaded, with, infiles, outfile, globals, reply>>
      /\ UNCHANGED <<client, tries, answer, iter>>
  BY DEF WP!assign, WP!Goto, WP!fileVars, workerStep, router, Live
<1>2. \A d \in Conns : d # c => ~ Live(d)
  BY <1>1, LiveThread
<1>3. /\ pc'[c] = "read"
      /\ \A d \in Conns : d # c => pc'[d] \notin {"read", "load", "run", "route", "write", "send"}
  BY <1>1, ThreadAlone
<1>4. /\ path'[host[c]] = PathOf(JobOf(c))
      /\ \A p \in Slots : p # host[c] => path'[p] = path[p]
  BY <1>1, LiveThread DEF Lossless, LateInv, TypeInv, TypeOK, WP!TypeOK
<1>5. loaded[host[c]] # WP!Torn
  <2>1. \A d \in Conns : pc[d] \notin {"read", "load"}
    BY <1>1, <1>2 DEF Live
  <2> QED
    BY <1>1, <2>1, LiveThread DEF Lossless, Clean, Matching
<1>6. PathStored' /\ RoutesOwn'
  BY <1>1, <1>3, <1>4, <1>5 DEF PathStored, RoutesOwn
<1>7. Matching'
  <2>1. SUFFICES ASSUME NEW p \in alive, p # host[c]
                 PROVE  loaded[p] # WP!Torn /\ (path'[p] \in globals => loaded[p] = path'[p])
    BY <1>1, <1>3 DEF Matching
  <2>2. p \in Slots
    BY DEF Lossless, LateInv, TypeInv, TypeOK, WP!TypeOK
  <2>3. \A d \in Conns : host[d] = p => pc[d] \notin {"read", "load"}
    BY <1>2, <2>1 DEF Live
  <2> QED
    BY <1>4, <2>1, <2>2, <2>3 DEF Lossless, Clean, Matching
<1>8. Seen'
  <2>1. PathOf(JobOf(c)) = Globals[iter] /\ iter \in 1 .. iter
    <3>1. iter \in 1 .. Len(Globals) /\ Len(Globals) \in Nat
      BY DistributedAssumption DEF Lossless, LateInv, TypeInv, TypeOK
    <3>2. iter \in 1 .. iter
      BY <3>1
    <3> QED
      BY <1>1, <3>2, LiveThread DEF PathOf
  <2> QED
    BY <1>1, <1>4, <2>1 DEF Lossless, Clean, Seen
<1> QED
  BY <1>1, <1>6, <1>7, <1>8, FilesClean DEF Clean

\* The globals file is read, and no thread routes meanwhile.
LEMMA ReadClean ==
  ASSUME Lossless, NEW c \in Conns, workerStep(c), WP!readGlobals(c),
         PathOf(JobOf(c)) \in globals
  PROVE  Clean'
<1>1. pc[c] = "read" /\ Live(c)
  BY DEF WP!readGlobals, Live
<1>2. \A d \in Conns : d # c => ~ Live(d)
  BY <1>1, LiveThread
<1>4. /\ pc' = [pc EXCEPT ![c] = "load"]
      /\ loaded' = [loaded EXCEPT ![host[c]] = WP!Torn]
      /\ UNCHANGED <<alive, host, path, infiles, outfile, globals, reply>>
      /\ UNCHANGED <<client, tries, answer, iter>>
  BY DEF WP!readGlobals, WP!Goto, WP!fileVars, workerStep, router
<1>5. /\ pc'[c] = "load"
      /\ \A d \in Conns : d # c => pc'[d] \notin {"read", "load", "run", "route", "write", "send"}
  BY <1>1, <1>4, ThreadAlone
<1>6. PathStored' /\ RoutesOwn' /\ Seen'
  BY <1>1, <1>4, <1>5 DEF Lossless, Clean, PathStored, RoutesOwn, Seen
<1>7. Matching'
  <2>1. SUFFICES ASSUME NEW p \in alive, p # host[c]
                 PROVE  loaded'[p] # WP!Torn /\ (path[p] \in globals => loaded'[p] = path[p])
    BY <1>4, <1>5 DEF Matching
  <2>2. loaded'[p] = loaded[p]
    BY <1>4, <2>1 DEF Lossless, LateInv, TypeInv, TypeOK, WP!TypeOK
  <2>3. \A d \in Conns : host[d] = p => pc[d] \notin {"read", "load"}
    BY <1>2, <2>1 DEF Live
  <2> QED
    BY <2>2, <2>3 DEF Lossless, Clean, Matching
<1> QED
  BY <1>4, <1>6, <1>7, FilesClean DEF Clean

\* Globals that could not be written can not be read: the thread routes with
\* the complete globals of an earlier iteration.
LEMMA ReadNothingClean ==
  ASSUME Lossless, NEW c \in Conns, workerStep(c), WP!readGlobals(c),
         PathOf(JobOf(c)) \notin globals
  PROVE  Clean'
<1>1. /\ pc[c] = "read" /\ Live(c)
      /\ pc' = [pc EXCEPT ![c] = "run"]
      /\ with' = [with EXCEPT ![c] = loaded[host[c]]]
      /\ UNCHANGED <<alive, host, path, loaded, infiles, outfile, globals, reply>>
      /\ UNCHANGED <<client, tries, answer, iter>>
  BY DEF WP!readGlobals, WP!StartRun, WP!Goto, WP!fileVars, workerStep, router, Live
<1>2. \A d \in Conns : d # c => ~ Live(d)
  BY <1>1, LiveThread
<1>3. /\ pc'[c] = "run"
      /\ \A d \in Conns : d # c => pc'[d] \notin {"read", "load", "run", "route", "write", "send"}
  BY <1>1, ThreadAlone
<1>4. path[host[c]] = PathOf(JobOf(c)) /\ loaded[host[c]] # WP!Torn
  BY <1>1 DEF Lossless, Clean, PathStored
<1>5. with'[c] = loaded[host[c]] /\ loaded[host[c]] # WP!Absent
  BY <1>1, LiveThread, Contents DEF Lossless, LateInv, TypeInv, TypeOK, WP!TypeOK
<1>6. PathStored' /\ RoutesOwn' /\ Seen'
  BY <1>1, <1>3, <1>4, <1>5 DEF Lossless, Clean, PathStored, RoutesOwn, Result, Seen
<1>7. Matching'
  <2>1. SUFFICES ASSUME NEW p \in alive, p # host[c]
                 PROVE  loaded[p] # WP!Torn /\ (path[p] \in globals => loaded[p] = path[p])
    BY <1>1, <1>4 DEF Matching
  <2>3. \A d \in Conns : host[d] = p => pc[d] \notin {"read", "load"}
    BY <1>2, <2>1 DEF Live
  <2> QED
    BY <2>3 DEF Lossless, Clean, Matching
<1> QED
  BY <1>1, <1>6, <1>7, FilesClean DEF Clean

\* The globals are those of the path, and the thread routes with them.
LEMMA LoadClean ==
  ASSUME Lossless, NEW c \in Conns, workerStep(c), WP!load(c)
  PROVE  Clean'
<1>1. /\ pc[c] = "load" /\ Live(c)
      /\ pc' = [pc EXCEPT ![c] = "run"]
      /\ loaded' = [loaded EXCEPT ![host[c]] = PathOf(JobOf(c))]
      /\ with' = [with EXCEPT ![c] = loaded'[host[c]]]
      /\ UNCHANGED <<alive, host, path, infiles, outfile, globals, reply>>
      /\ UNCHANGED <<client, tries, answer, iter>>
  BY DEF WP!load, WP!StartRun, WP!Goto, WP!fileVars, workerStep, router, Live
<1>2. \A d \in Conns : d # c => ~ Live(d)
  BY <1>1, LiveThread
<1>3. /\ pc'[c] = "run"
      /\ \A d \in Conns : d # c => pc'[d] \notin {"read", "load", "run", "route", "write", "send"}
  BY <1>1, ThreadAlone
<1>4. /\ loaded'[host[c]] = PathOf(JobOf(c)) /\ with'[c] = PathOf(JobOf(c))
      /\ \A p \in Slots : p # host[c] => loaded'[p] = loaded[p]
  BY <1>1, LiveThread DEF Lossless, LateInv, TypeInv, TypeOK, WP!TypeOK
<1>5. PathOf(JobOf(c)) \notin {WP!Absent, WP!Torn}
  BY <1>1, LiveThread, Contents
<1>6. PathStored' /\ RoutesOwn' /\ Seen'
  BY <1>1, <1>3, <1>4, <1>5 DEF Lossless, Clean, PathStored, RoutesOwn, Result, Seen
<1>7. Matching'
  <2>1. path[host[c]] = PathOf(JobOf(c))
    BY <1>1 DEF Lossless, Clean, PathStored
  <2>2. SUFFICES ASSUME NEW p \in alive, p # host[c]
                 PROVE  loaded'[p] # WP!Torn /\ (path[p] \in globals => loaded'[p] = path[p])
    BY <1>1, <1>4, <1>5, <2>1 DEF Matching
  <2>3. p \in Slots
    BY DEF Lossless, LateInv, TypeInv, TypeOK, WP!TypeOK
  <2>4. \A d \in Conns : host[d] = p => pc[d] \notin {"read", "load"}
    BY <1>2, <2>2 DEF Live
  <2> QED
    BY <1>4, <2>2, <2>3, <2>4 DEF Lossless, Clean, Matching
<1> QED
  BY <1>1, <1>6, <1>7, FilesClean DEF Clean

\* The only writer of a job's result file is the current try of the job.
LEMMA WriteClean ==
  ASSUME Lossless, NEW c \in Conns, workerStep(c),
         WP!runDRWorker(c) \/ WP!route_queue(c) \/ WP!reloadedMain(c)
  PROVE  Clean'
<1>0. Live(c) /\ \A d \in Conns : d # c => ~ Live(d)
  <2>1. Live(c)
    BY DEF WP!runDRWorker, WP!route_queue, WP!reloadedMain, Live
  <2> QED
    BY <2>1, LiveThread
<1>1. PICK l \in {"route", "write", "send"} :
        /\ pc' = [pc EXCEPT ![c] = l]
        /\ pc[c] \in {"run", "route", "write"}
        /\ outfile' = [outfile EXCEPT ![JobOf(c)] = outfile'[JobOf(c)]]
        /\ l = "send" => outfile'[JobOf(c)] = with[c]
  <2>0. JobOf(c) \in Jobs /\ outfile \in [Jobs -> WP!Loaded \cup {WP!Absent}]
    BY <1>0, LiveThread DEF Lossless, LateInv, TypeInv, TypeOK, WP!TypeOK
  <2>1. CASE WP!runDRWorker(c)
    BY <2>0, <2>1 DEF WP!runDRWorker, WP!Goto, WP!fileVars
  <2>2. CASE WP!route_queue(c)
    BY <2>0, <2>2 DEF WP!route_queue, WP!Goto
  <2>3. CASE WP!reloadedMain(c)
    <3>1. pc[c] = "write" /\ pc' = [pc EXCEPT ![c] = "send"]
      BY <2>3 DEF WP!reloadedMain, WP!Goto
    <3>2. \A d \in Conns \ {c} : pc[d] # "write"
      BY <1>0 DEF Live
    <3>3. outfile' = [outfile EXCEPT ![JobOf(c)] = with[c]]
      BY <2>3, <3>2 DEF WP!reloadedMain
    <3> QED
      BY <2>0, <3>1, <3>3
  <2> QED
    BY <2>1, <2>2, <2>3
<1>2. /\ UNCHANGED <<alive, host, path, loaded, with, globals, reply>>
      /\ UNCHANGED <<client, tries, answer, iter>>
  BY <1>1 DEF WP!runDRWorker, WP!route_queue, WP!reloadedMain, WP!fileVars, workerStep, router
<1>3. /\ pc'[c] = l
      /\ \A d \in Conns : d # c => /\ pc'[d] = pc[d]
                                   /\ pc'[d] \notin {"read", "load", "run", "route",
                                                     "write", "send"}
  BY <1>0, <1>1, <1>2, ThreadAlone
<1>4. PathStored' /\ Seen' /\ Current'
  BY <1>2, <1>3 DEF Lossless, Clean, PathStored, Seen, Current
<1>5. RoutesOwn'
  <2>1. Result(JobOf(c), with[c])
    BY <1>1 DEF Lossless, Clean, RoutesOwn
  <2> QED
    BY <1>1, <1>2, <1>3, <2>1 DEF RoutesOwn, Result
<1>6. Matching'
  <2>1. \A d \in Conns : pc'[d] \in {"read", "load"} <=> pc[d] \in {"read", "load"}
    BY <1>1, <1>3
  <2> QED
    BY <1>2, <2>1 DEF Lossless, Clean, Matching
<1>7. \A j \in Jobs : j # c[1] => outfile'[j] = outfile[j]
  BY <1>1 DEF JobOf, Lossless, LateInv, TypeInv, TypeOK, WP!TypeOK
<1>8. reply[c] = "open" /\ client[c[1]] = "read" /\ tries[c[1]] = c[2]
  BY <1>0, LiveThread
<1>9. Announced'
  <2>1. SUFFICES ASSUME NEW d \in Conns, reply[d] = "result", client[d[1]] = "read",
                        tries[d[1]] = d[2]
                 PROVE  outfile'[d[1]] = outfile[d[1]]
    BY <1>2 DEF Lossless, Clean, Announced, Result
  <2>2. d[1] # c[1]
    BY <1>8, <2>1, SameTry
  <2> QED
    BY <1>7, <2>2, ConnParts
<1>10. Kept'
  BY <1>2, <1>7, <1>8 DEF Lossless, Clean, Kept, Result
<1> QED
  BY <1>4, <1>5, <1>6, <1>9, <1>10 DEF Clean

\* A process that dies takes its threads with it.
LEMMA DieClean ==
  ASSUME Lossless, NEW p \in Slots, WP!Die(p), UNCHANGED router, UNCHANGED answer
  PROVE  Clean'
<1>1. /\ alive' = alive \ {p}
      /\ \A d \in Conns :
           /\ pc'[d] = IF host[d] = p /\ pc[d] # "closed" THEN "dead" ELSE pc[d]
           /\ reply'[d] = IF host[d] = p /\ reply[d] = "open" THEN "empty" ELSE reply[d]
      /\ UNCHANGED <<path, loaded, host, with, infiles, outfile, globals>>
  BY DEF WP!Die, WP!fileVars
<1>2. UNCHANGED <<client, tries, iter, answer>>
  BY DEF router
<1>3. Current' /\ Seen' /\ Kept'
  BY <1>1, <1>2 DEF Lossless, Clean, Current, Seen, Kept, Result
<1>4. PathStored' /\ RoutesOwn'
  BY <1>1 DEF Lossless, Clean, PathStored, RoutesOwn, Result
<1>5. Matching'
  BY <1>1 DEF Lossless, Clean, Matching
<1>6. Announced'
  BY <1>1, <1>2 DEF Lossless, Clean, Announced, Result
<1> QED
  BY <1>3, <1>4, <1>5, <1>6 DEF Clean

\* The balancer hands the connection over: its thread holds nothing yet.
LEMMA ForwardClean ==
  ASSUME Lossless, NEW c \in Conns, handle_read(c)
  PROVE  Clean'
<1> DEFINE p == target[c]
<1>1. \A d \in Conns : stage[d] # "forwarding"
  BY DEF handle_read, LB!handle_read, LB!Idle
<1>2. /\ pc' = [pc EXCEPT ![c] = "received"]
      /\ host' = [host EXCEPT ![c] = p]
      /\ UNCHANGED <<alive, path, loaded, with, reply, outfile, globals>>
      /\ UNCHANGED <<client, tries, iter, answer>>
  BY DEF handle_read, WP!receive, WP!Goto, WP!fileVars, router
<1>3. \A d \in Conns : ~ Live(d)
  BY <1>1, LiveThread
<1>4. /\ pc'[c] = "received"
      /\ \A d \in Conns : d # c => pc'[d] = pc[d] /\ host'[d] = host[d]
  BY <1>2 DEF Lossless, LateInv, TypeInv, TypeOK, WP!TypeOK
<1>5. PathStored' /\ RoutesOwn' /\ Seen'
  BY <1>2, <1>4 DEF Lossless, Clean, PathStored, RoutesOwn, Result, Seen
<1>6. Matching'
  BY <1>2, <1>3, <1>4 DEF Lossless, Clean, Matching, Live
<1> QED
  BY <1>2, <1>5, <1>6, FilesClean DEF Clean

\* The other steps of the balancer end a connection, or move one that is not
\* forwarded.
LEMMA BalancerClean ==
  ASSUME Lossless, NEW c \in Conns,
         \/ handle_accept(c) \/ handle_read_drop(c) \/ handle_read_refused(c)
         \/ handle_read_done(c) \/ abortClose(c)
  PROVE  Clean'
<1>1. UNCHANGED worker /\ UNCHANGED files /\ UNCHANGED router
  BY DEF handle_accept, handle_read_drop, handle_read_refused, handle_read_done, abortClose
<1>2. UNCHANGED <<alive, path, loaded, pc, host, with, reply, outfile, globals, client,
                  tries, iter>>
  BY <1>1 DEF worker, files, router
<1>3. Current' /\ Seen' /\ PathStored' /\ Matching' /\ RoutesOwn' /\ Kept'
  BY <1>2 DEF Lossless, Clean, Current, Seen, PathStored, Matching, RoutesOwn, Kept, Result
<1>4. Announced'
  <2>1. \A d \in Conns : answer'[d] = "result" => reply[d] = "result"
    <3>1. \/ answer' = answer
          \/ \E v \in {"empty", reply[c]} : answer' = [answer EXCEPT ![c] = v]
      BY DEF handle_accept, handle_read_drop, handle_read_refused, handle_read_done,
         abortClose, Answer
    <3> QED
      BY <3>1 DEF Lossless, Clean, Announced, LateInv, TypeInv, TypeOK
  <2> QED
    BY <1>2, <2>1 DEF Lossless, Clean, Announced, Result
<1> QED
  BY <1>3, <1>4 DEF Clean


\* The steps of the router that leave the balancer alone.
LEMMA RouterClean ==
  ASSUME Lossless, NEW j \in Jobs,
         \/ distributedMain(j) \/ distributedMain_unwritten(j) \/ distributedMain_skip(j)
         \/ sendJob_throws(j) \/ sendJob_false(j) \/ lostBalancer(j) \/ readMsg(j)
         \/ updateDesign(j)
  PROVE  Clean'
<1> USE DEF distributedMain, distributedMain_unwritten, distributedMain_skip,
    sendJob_throws, sendJob_false, lostBalancer, readMsg, updateDesign
<1>1. UNCHANGED worker /\ UNCHANGED <<tries, iter, answer, globals>>
  BY DEF files
<1>2. UNCHANGED <<alive, path, loaded, pc, host, with, reply, tries, iter, answer, globals>>
  BY <1>1 DEF worker
<1>3. PICK l \in {"connect", "skipped", "failed", "refused", "ok", "merged"} : Goto(j, l)
  OBVIOUS
<1>4. client'[j] = l /\ \A i \in Jobs : i # j => client'[i] = client[i]
  BY <1>3 DEF Goto, Lossless, LateInv, TypeInv, TypeOK
<1>5. Current'
  <2>1. l \in {"connect", "ok"} => IterOf[j] = iter
    BY <1>4 DEF Lossless, Clean, Current, At, Goto, LateInv, TypeInv, TypeOK
  <2> QED
    BY <1>2, <1>4, <2>1 DEF Lossless, Clean, Current
<1>6. Seen' /\ PathStored' /\ Matching'
  BY <1>2 DEF Lossless, Clean, Seen, PathStored, Matching
<1>7. outfile' = outfile \/ (client[j] = "ok" /\ l = "merged")
  BY <1>4 DEF At, Goto, files, Lossless, LateInv, TypeInv, TypeOK
<1>8. \A i \in Jobs : i # j => outfile'[i] = outfile[i]
  BY DEF files, Lossless, LateInv, TypeInv, TypeOK, WP!TypeOK
<1>9. RoutesOwn'
  <2>1. SUFFICES ASSUME NEW c \in Conns, pc[c] = "send"
                 PROVE  outfile'[c[1]] = outfile[c[1]]
    BY <1>2 DEF Lossless, Clean, RoutesOwn, JobOf, Result
  <2>2. client[c[1]] = "read"
    BY <2>1, LiveThread DEF Live
  <2> QED
    BY <1>7, <1>8, <2>2, ConnParts
<1>10. Announced'
  BY <1>2, <1>4, <1>8, ConnParts DEF Lossless, Clean, Announced, Result
<1>11. Kept'
  <2>1. l = "ok" => Result(j, outfile[j]) /\ outfile' = outfile
    <3>1. SUFFICES ASSUME l = "ok"
                   PROVE  Result(j, outfile[j])
      BY <1>7
    <3>2. client[j] = "read" /\ answer[Try(j)] = "result"
      BY <1>4, <3>1 DEF At, Goto, Lossless, LateInv, TypeInv, TypeOK
    <3>3. Try(j) \in Conns
      BY <3>2, TryMade DEF Lossless, LateInv, TypeInv
    <3> QED
      BY <3>2, <3>3 DEF Lossless, Clean, Announced, Try
  <2> QED
    BY <1>2, <1>4, <1>8, <2>1 DEF Lossless, Clean, Kept, Result
<1> QED
  BY <1>5, <1>6, <1>9, <1>10, <1>11 DEF Clean

\* A new try is a connection nothing has been sent on.
LEMMA ConnectClean ==
  ASSUME Lossless, NEW j \in Jobs, sendJob_connect(j)
  PROVE  Clean'
<1>1. /\ client[j] = "connect" /\ Goto(j, "send")
      /\ tries' = [tries EXCEPT ![j] = @ + 1]
      /\ UNCHANGED <<alive, path, loaded, pc, host, with, reply, outfile, globals, iter, answer>>
  BY DEF sendJob_connect, At, worker, files
<1>2. /\ client'[j] = "send"
      /\ \A i \in Jobs : i # j => client'[i] = client[i] /\ tries'[i] = tries[i]
  BY <1>1 DEF Goto, Lossless, LateInv, TypeInv, TypeOK
<1>3. Current' /\ Seen' /\ PathStored' /\ Matching' /\ RoutesOwn' /\ Kept'
  BY <1>1, <1>2 DEF Lossless, Clean, Current, Seen, PathStored, Matching, RoutesOwn, Kept,
     Result
<1>4. Announced'
  BY <1>1, <1>2, ConnParts DEF Lossless, Clean, Announced, Result
<1> QED
  BY <1>3, <1>4 DEF Clean

\* The packet is sent once on a connection whose thread has not started.
LEMMA SendClean ==
  ASSUME Lossless, NEW j \in Jobs, sendMsg(j)
  PROVE  Clean'
<1> DEFINE e == Try(j)
<1>1. client[j] = "send" /\ Goto(j, "read")
  BY DEF sendMsg, At
<1>2. e \in Conns
  BY <1>1, TryMade DEF Lossless, LateInv, TypeInv
<1>3. stage[e] \in {"backlog", "reading"}
  BY DEF sendMsg, LB!ClientSend
<1>4. UNCHANGED <<alive, path, loaded, pc, host, with, reply, outfile, globals, tries,
                  iter, answer>>
  BY DEF sendMsg, worker, files
<1>5. client'[j] = "read" /\ \A i \in Jobs : i # j => client'[i] = client[i]
  BY <1>1 DEF Goto, Lossless, LateInv, TypeInv, TypeOK
<1>6. e[1] = j /\ e[2] = tries[j]
  BY DEF Try
<1>7. Current' /\ Seen' /\ PathStored' /\ Matching' /\ RoutesOwn' /\ Kept'
  BY <1>1, <1>4, <1>5 DEF Lossless, Clean, Current, Seen, PathStored, Matching, RoutesOwn,
     Kept, Result
<1>8. Announced'
  <2>1. reply[e] = "open"
    BY <1>2, <1>3 DEF Lossless, LateInv, Threads, Waiting, Silent
  <2>2. SUFFICES ASSUME NEW d \in Conns, reply[d] = "result", client'[d[1]] = "read",
                        tries[d[1]] = d[2]
                 PROVE  client[d[1]] = "read"
    BY <1>4 DEF Lossless, Clean, Announced, Result
  <2>3. d[1] # j
    BY <1>2, <1>6, <2>1, <2>2, SameTry
  <2> QED
    BY <1>5, <2>2, <2>3, ConnParts
<1> QED
  BY <1>7, <1>8 DEF Clean

\* The globals change when no job is under way and no thread runs, and no
\* worker knows the new ones: a path that has lost its file does not get it back.
LEMMA IterationClean ==
  ASSUME Lossless, searchRepair
  PROVE  Clean'
<1>1. UNCHANGED <<alive, path, loaded, pc, host, with, reply, outfile, client, tries, answer>>
  BY DEF searchRepair, worker
<1>2. \A j \in Jobs : client[j] \notin {"connect", "send", "read", "ok"}
  BY DEF searchRepair, Lossless, Clean, Current
<1>3. \A c \in Conns : ~ Live(c)
  <2>1. SUFFICES ASSUME NEW c \in Conns, Live(c)
                 PROVE  FALSE
    OBVIOUS
  <2> QED
    BY <1>2, <2>1, LiveThread, ConnParts
<1>4. /\ iter \in 1 .. Len(Globals) /\ iter' = iter + 1 /\ iter' \in 1 .. Len(Globals)
      /\ \A k \in 1 .. iter : k \in 1 .. iter' /\ k \in 1 .. Len(Globals) /\ k # iter'
  <2>1. iter \in 1 .. Len(Globals) /\ iter < Len(Globals) /\ iter' = iter + 1
    BY DEF searchRepair, Lossless, LateInv, TypeInv, TypeOK
  <2>2. Len(Globals) \in Nat
    BY DistributedAssumption
  <2> QED
    BY <2>1, <2>2
<1>5. Seen'
  BY <1>1, <1>4 DEF Lossless, Clean, Seen
<1>6. Matching'
  <2>1. SUFFICES ASSUME NEW p \in alive
                 PROVE  loaded[p] # WP!Torn /\ (path[p] \in globals' => loaded[p] = path[p])
    BY <1>1 DEF Matching
  <2>2. loaded[p] # WP!Torn /\ (path[p] \in globals => loaded[p] = path[p])
    BY <1>3 DEF Lossless, Clean, Matching, Live
  <2>3. path[p] # Globals[iter']
    <3>1. p \in Slots
      BY DEF Lossless, LateInv, TypeInv, TypeOK, WP!TypeOK
    <3>2. CASE path[p] = WP!NoPath
      <4>1. Globals[iter'] \in Paths
        BY <1>4, DistributedAssumption DEF Paths
      <4> QED
        BY <3>2, <4>1, Contents
    <3>3. CASE path[p] # WP!NoPath
      <4>1. PICK k \in 1 .. iter : path[p] = Globals[k]
        BY <3>1, <3>3 DEF Lossless, Clean, Seen
      <4>2. k \in 1 .. Len(Globals) /\ k # iter' /\ iter' \in 1 .. Len(Globals)
        BY <1>4
      <4> QED
        BY <4>1, <4>2, DistributedAssumption
    <3> QED
      BY <3>2, <3>3
  <2>4. globals' \subseteq globals \cup {Globals[iter']}
    BY <1>4 DEF searchRepair, Written
  <2> QED
    BY <2>2, <2>3, <2>4
<1>7. PathStored' /\ RoutesOwn'
  BY <1>1, <1>3 DEF PathStored, RoutesOwn, Live
<1>8. Current' /\ Announced' /\ Kept'
  BY <1>1, <1>2, ConnParts DEF Lossless, Clean, Current, Announced, Kept
<1> QED
  BY <1>5, <1>6, <1>7, <1>8 DEF Clean

\* Every step but the loss of a connection or a packet.
LEMMA StepClean ==
  ASSUME Lossless, [Next]_vars, ~ Fault
  PROVE  Clean'
<1>1. ASSUME NEW c \in Conns, workerStep(c)
      PROVE  Clean'
  <2>1. CASE WP!runDRWorker_missing(c)
    <3>1. host[c] \in Slots
      BY <2>1 DEF WP!runDRWorker_missing, Lossless, LateInv, TypeInv, Hosted
    <3> QED
      BY <1>1, <2>1, <3>1, DieClean DEF WP!runDRWorker_missing, workerStep
  <2>2. CASE WP!readGlobals(c)
    BY <1>1, <2>2, ReadClean, ReadNothingClean
  <2> QED
    BY <1>1, <2>1, <2>2, ReceivedClean, CheckClean, AssignClean, LoadClean, WriteClean
    DEF workerStep, WP!Step
<1>2. ASSUME NEW p \in Slots, workerCrash(p)
      PROVE  Clean'
  BY <1>2, DieClean DEF workerCrash, WP!crash
<1>3. ASSUME NEW c \in Conns, BalancerStep(c) \/ abortClose(c)
      PROVE  Clean'
  BY <1>3, ForwardClean, BalancerClean DEF BalancerStep
<1>4. ASSUME NEW j \in Jobs, RouterStep(j)
      PROVE  Clean'
  BY <1>4, RouterClean, ConnectClean, SendClean DEF RouterStep
<1>5. /\ ~ (\E j \in Jobs : lostConnection(j))
      /\ ~ (\E c \in Conns : handle_read_broken(c) \/ workerFault(c))
  BY DEF lostConnection, handle_read_broken, workerFault, Break
<1>6. CASE UNCHANGED vars
  <2>1. UNCHANGED <<alive, path, loaded, pc, host, with, reply, outfile, globals, client,
                    tries, iter, answer>>
    BY <1>6 DEF vars, worker, files, router
  <2> QED
    BY <2>1 DEF Lossless, Clean, Current, Seen, PathStored, Matching, RoutesOwn, Announced,
       Kept, Result
<1> QED
  BY <1>1, <1>2, <1>3, <1>4, <1>5, <1>6, IterationClean DEF Next

\* Nothing is broken as long as no fault is counted.
LEMMA FaultlessLossless ==
  ASSUME DistributedInv, faults = 0
  PROVE  Lossless
BY DEF DistributedInv, LateInv, BrokenByFault, Lossless

LEMMA StepDistributed == DistributedInv /\ [Next]_vars => DistributedInv'
<1> SUFFICES ASSUME DistributedInv, [Next]_vars
             PROVE  DistributedInv'
  OBVIOUS
<1>1. LateInv'
  BY StepLate DEF DistributedInv
<1>2. faults \in Nat
  <2>1. MaxFaults \in Nat
    BY DistributedAssumption
  <2>2. faults \in 0 .. MaxFaults
    BY DEF DistributedInv, LateInv, TypeInv, TypeOK
  <2> QED
    BY <2>1, <2>2
<1>3. CASE Fault
  <2>1. faults' # 0
    BY <1>2, <1>3 DEF Fault
  <2> QED
    BY <1>1, <2>1 DEF DistributedInv
<1>4. CASE ~ Fault
  <2>1. faults' = faults
    BY <1>4, BrokenGrows DEF DistributedInv, LateInv
  <2>2. faults' = 0 => Clean'
    BY <1>4, <2>1, FaultlessLossless, StepClean
  <2> QED
    BY <1>1, <2>2 DEF DistributedInv
<1> QED
  BY <1>3, <1>4

LEMMA InitDistributed == Init => DistributedInv
BY InitLate, InitClean DEF DistributedInv

LEMMA DistributedInvariant == Spec => []DistributedInv
BY InitDistributed, StepDistributed, PTL DEF Spec

\* While no connection is lost at most one thread of all workers is between
\* the access() test and close(), whatever the number of workers and jobs.
THEOREM DistributedOneExecution == Spec => []OneExecution
<1>1. ASSUME DistributedInv
      PROVE  OneExecution
  <2>1. SUFFICES ASSUME faults = 0, NEW c \in Conns, NEW d \in Conns,
                        Executing(c), Executing(d)
                 PROVE  c = d
    BY DEF OneExecution
  <2>2. Live(c) /\ Live(d) /\ Lossless
    BY <1>1, <2>1, ExecutingIsLive, FaultlessLossless
  <2> QED
    BY <2>2, LiveThread
<1> QED
  BY <1>1, DistributedInvariant, PTL

\* While no connection is lost sendJob() returns true only for a complete
\* result, routed with the globals of the job's own iteration unless the file
\* of these could not be written: whatever globals workers were left with by
\* earlier iterations, and however many of them died.
THEOREM DistributedResultIsOwn == Spec => []ResultIsOwn
<1>1. ASSUME DistributedInv
      PROVE  ResultIsOwn
  BY <1>1 DEF DistributedInv, Clean, Kept, Result, ResultIsOwn
<1> QED
  BY <1>1, DistributedInvariant, PTL

-----------------------------------------------------------------------------
(* When connections are lost. *)

\* The lost connections and packets, and the dead workers.
Losses == faults + Cardinality(Slots \ alive)

\* The try of a connection can not return a result any more.
Lost(c) ==
  \/ reply[c] \in {"zero", "empty"}
  \/ stage[c] = "closed" /\ answer[c] # "result"

\* sendJob() has made a connection and has not given it up.
Trying(j) == client[j] \in {"send", "read"}

\* A connection is given up by a thread that goes on with another one, and
\* after it was made.
Held ==
  /\ \A c \in gone : stage[c] # "none"
  /\ ~ Aborted => \A j \in Jobs : Trying(j) => Try(j) \notin gone

\* The worker file is written before the first try, which is the first
\* connection of the job.
Supplied == \A j \in Jobs : client[j] = "idle" => tries[j] = 0 /\ j \notin infiles

\* A connection that was accepted has a worker, if there is one.
Assigned ==
  Slots # {} => \A c \in Conns : stage[c] \in {"reading", "forwarding"} => target[c] # NoSlot

\* Every try of a job with a worker file that was given up, and one that is
\* lost, was lost to a connection or to a worker of its own.
Spent ==
  up /\ Slots # {} => \A j \in infiles :
    /\ client[j] = "connect" => tries[j] <= Losses
    /\ Trying(j) => tries[j] <= Losses + 1
    /\ Trying(j) /\ Lost(Try(j)) => tries[j] <= Losses

CauseInv ==
  /\ DistributedInv /\ Held /\ Supplied /\ Assigned
  /\ ~ Aborted => Spent
  /\ FailureHasCause

LEMMA InitCause == Init => CauseInv
<1> SUFFICES ASSUME Init
             PROVE  CauseInv
  OBVIOUS
<1>1. DistributedInv
  BY InitDistributed
<1>2. infiles = {} /\ \A j \in Jobs : client[j] = "idle" /\ tries[j] = 0
  BY DEF Init
<1>3. Held /\ Supplied /\ Assigned
  BY <1>2 DEF Init, LB!Init, Held, Supplied, Assigned, Trying
<1>4. Spent /\ FailureHasCause
  BY <1>2 DEF Spent, FailureHasCause
<1> QED
  BY <1>1, <1>3, <1>4 DEF CauseInv

\* Losses are counted and workers do not come back.
LEMMA LossesAre ==
  ASSUME TypeInv
  PROVE  /\ faults \in Nat /\ MaxFaults \in Nat
         /\ IsFiniteSet(Slots \ alive) /\ Cardinality(Slots \ alive) \in Nat
         /\ Losses \in Nat
<1>1. faults \in 0 .. MaxFaults /\ MaxFaults \in Nat /\ IsFiniteSet(Slots)
  BY DistributedAssumption DEF TypeInv, TypeOK
<1>2. IsFiniteSet(Slots \ alive)
  BY <1>1, FS_Difference
<1>3. Cardinality(Slots \ alive) \in Nat
  BY <1>2, FS_CardinalityType
<1> QED
  BY <1>1, <1>2, <1>3 DEF Losses

LEMMA LostConnectionCounts ==
  ASSUME TypeInv, Fault, UNCHANGED alive
  PROVE  Losses' = Losses + 1
BY LossesAre DEF Fault, Losses

LEMMA DeathCounts ==
  ASSUME TypeInv, NEW p \in alive, WP!Die(p), UNCHANGED faults
  PROVE  Losses' = Losses + 1
<1>1. /\ alive' = alive \ {p} /\ p \in Slots /\ p \notin Slots \ alive
      /\ Slots \ alive' = (Slots \ alive) \cup {p}
  BY DEF WP!Die, TypeInv, TypeOK, WP!TypeOK
<1>2. IsFiniteSet(Slots \ alive)
  BY LossesAre
<1>3. Cardinality((Slots \ alive) \cup {p}) = Cardinality(Slots \ alive) + 1
  <2> DEFINE D == Slots \ alive
  <2>1. IsFiniteSet(D) /\ p \notin D
    BY <1>1, <1>2
  <2> HIDE DEF D
  <2>2. Cardinality(D \cup {p}) = Cardinality(D) + 1
    BY <2>1, FS_AddElement
  <2> QED
    BY <2>2 DEF D
<1>4. Cardinality(Slots \ alive') = Cardinality(Slots \ alive) + 1
  BY <1>1, <1>3
<1> QED
  BY <1>4, LossesAre DEF Losses

LEMMA AssignedStep ==
  ASSUME TypeInv, Assigned, [Next]_vars
  PROVE  Assigned'
<1>1. NoSlot \notin Slots
  BY DistributedAssumption
<1> SUFFICES ASSUME Slots # {}, NEW c \in Conns, stage'[c] \in {"reading", "forwarding"}
             PROVE  target'[c] # NoSlot
  BY DEF Assigned
<1>2. Slots \ {NoSlot} = Slots
  BY <1>1
<1>3. \/ target'[c] = target[c] /\ stage[c] \in {"reading", "forwarding"}
      \/ target'[c] \in Slots
  BY <1>2, BalancerStepRefined, StageMoves DEF TypeInv, TypeOK
<1> QED
  BY <1>1, <1>3 DEF Assigned

\* The worker file of a job is written by distributedMain(), if at all.
LEMMA FileSupplied ==
  ASSUME TypeInv, [Next]_vars, NEW j \in Jobs, j \in infiles', j \notin infiles
  PROVE  distributedMain(j)
BY JobEffect DEF RouterStep, distributedMain_skip, distributedMain_unwritten,
   sendJob_throws, sendJob_connect, sendJob_false, sendMsg, lostBalancer, readMsg,
   updateDesign, lostConnection, files

LEMMA SuppliedStep ==
  ASSUME TypeInv, Supplied, [Next]_vars
  PROVE  Supplied'
<1> SUFFICES ASSUME NEW j \in Jobs, client'[j] = "idle"
             PROVE  tries'[j] = 0 /\ j \notin infiles'
  BY DEF Supplied
<1>1. ~ RouterStep(j) /\ ~ lostConnection(j)
  BY DEF RouterStep, distributedMain, distributedMain_skip, distributedMain_unwritten,
     sendJob_throws, sendJob_connect, sendJob_false, sendMsg, lostBalancer, readMsg,
     updateDesign, lostConnection, Goto, TypeInv, TypeOK
<1> QED
  BY <1>1, JobEffect DEF Supplied

\* A new try is not given up when it is made, and a job is not stopped by a
\* try of another one.
LEMMA HeldStep ==
  ASSUME TypeInv, Held, [Next]_vars
  PROVE  Held'
<1>1. ASSUME NEW c \in gone' PROVE stage'[c] # "none"
  <2>1. c \in Conns
    BY <1>1, StepTypes DEF TypeInv, TypeOK, LB!TypeOK
  <2>2. /\ c \in gone \/ LB!ClientGone(c)
        /\ stage[c] # "none" => stage'[c] # "none"
    BY <1>1, <2>1, BalancerStepRefined, StageMoves DEF TypeInv, TypeOK
  <2>3. LB!ClientGone(c) => stage[c] # "none"
    BY DEF LB!ClientGone
  <2> QED
    BY <2>2, <2>3 DEF Held
<1>2. ASSUME ~ Aborted', NEW j \in Jobs, Trying(j)'
      PROVE  Try(j)' \notin gone'
  <2>1. ~ Aborted
    BY <1>2, AbortedStays
  <2>2. CASE sendJob_connect(j)
    <3>1. /\ stage[<<j, tries[j] + 1>>] = "none" /\ gone' = gone
          /\ tries'[j] = tries[j] + 1
      BY <2>2 DEF sendJob_connect, LB!Connect, TypeInv, TypeOK
    <3> QED
      BY <3>1 DEF Held, Try
  <2>3. ASSUME Trying(j), tries'[j] = tries[j], ~ lostConnection(j)
        PROVE  Try(j)' \notin gone'
    <3>1. Try(j)' = Try(j) /\ Try(j) \notin gone
      BY <2>1, <2>3 DEF Held, Try
    <3>2. ASSUME NEW i \in Jobs, lostConnection(i)
          PROVE  Try(j)' \notin gone'
      <4>1. gone' = gone \cup {Try(i)} /\ i # j
        BY <2>3, <3>2 DEF lostConnection, LB!ClientGone
      <4> QED
        BY <3>1, <4>1 DEF Try
    <3>3. ASSUME \A i \in Jobs : ~ lostConnection(i)
          PROVE  gone' = gone
      BY <2>1, <3>3 DEF Next, RouterStep, BalancerStep, vars, balancer, distributedMain,
         distributedMain_skip, distributedMain_unwritten,
   sendJob_throws, sendJob_connect, sendJob_false, sendMsg, lostBalancer,
         readMsg, updateDesign, searchRepair, abortClose, handle_accept,
         handle_read_drop, handle_read, handle_read_refused, handle_read_done,
         handle_read_broken, workerStep, workerFault, workerCrash, LB!Connect,
         LB!ClientSend, LB!handle_accept, LB!handle_accept_err, LB!handle_read_drop,
         LB!handle_read, LB!handle_read_refused, LB!handle_read_done
    <3> QED
      BY <3>1, <3>2, <3>3
  <2>4. CASE \/ distributedMain(j) \/ distributedMain_unwritten(j) \/ distributedMain_skip(j)
             \/ sendJob_throws(j) \/ sendJob_false(j) \/ lostBalancer(j) \/ readMsg(j)
             \/ updateDesign(j) \/ lostConnection(j)
    BY <1>2, <2>4 DEF distributedMain, distributedMain_unwritten, distributedMain_skip,
       sendJob_throws, sendJob_false,
       lostBalancer, readMsg, updateDesign, lostConnection, Goto, Trying, TypeInv, TypeOK
  <2>5. CASE sendMsg(j)
    <3>1. Trying(j) /\ tries'[j] = tries[j] /\ ~ lostConnection(j)
      BY <2>5 DEF sendMsg, lostConnection, At, Trying, Goto, TypeInv, TypeOK
    <3> QED
      BY <2>3, <3>1
  <2>6. CASE client'[j] = client[j] /\ tries'[j] = tries[j]
    <3>1. Trying(j)
      BY <1>2, <2>6 DEF Trying
    <3>2. ~ lostConnection(j)
      BY <2>6 DEF lostConnection, At, Goto, TypeInv, TypeOK
    <3> QED
      BY <2>3, <2>6, <3>1, <3>2
  <2> QED
    BY <2>2, <2>4, <2>5, <2>6, JobEffect DEF RouterStep
<1> QED
  BY <1>1, <1>2 DEF Held

\* Losses are not taken back, nor is the end of the balancer.
LEMMA LossesGrow ==
  ASSUME TypeInv, Sheltered, [Next]_vars
  PROVE  /\ Losses' \in Nat /\ Losses' >= Losses
         /\ faults' \in Nat /\ faults' >= faults
         /\ up' => up
<1>1. Losses \in Nat /\ faults \in Nat
  BY LossesAre
<1>2. up' => up
  <2>1. [LB!Next]_(LB!vars)
    BY BalancerStepRefined DEF TypeInv
  <2> QED
    BY <2>1 DEF LB!Next, LB!vars, LB!Connect, LB!ClientSend, LB!ClientGone,
       LB!handle_accept, LB!handle_accept_err, LB!handle_read_drop, LB!handle_read,
       LB!handle_read_refused, LB!handle_read_done
<1>3. CASE \/ \E c \in Conns : workerStep(c) /\ WP!runDRWorker_missing(c)
           \/ \E p \in Slots : workerCrash(p)
  <2>1. Losses' = Losses + 1 /\ faults' = faults
    BY <1>3, DeathEffect, DeathCounts
  <2> QED
    BY <1>1, <1>2, <2>1
<1>4. CASE UNCHANGED alive
  <2>1. faults' = faults \/ Fault
    BY BrokenGrows
  <2>2. faults' = faults => Losses' = Losses
    BY <1>4 DEF Losses
  <2>3. Fault => Losses' = Losses + 1 /\ faults' = faults + 1
    BY <1>4, LostConnectionCounts DEF Fault
  <2> QED
    BY <1>1, <1>2, <2>1, <2>2, <2>3
<1>5. ASSUME NEW c \in Conns, handle_read(c)
      PROVE  UNCHANGED alive
  BY <1>5 DEF handle_read, WP!receive
<1> QED
  BY <1>3, <1>4, <1>5, OtherEffect, ThreadEffect DEF Quiet, worker

\* The end of a job has a cause.
LEMMA FailureStep ==
  ASSUME CauseInv, [Next]_vars
  PROVE  FailureHasCause'
<1>1. /\ TypeInv /\ Sheltered /\ Losses \in Nat /\ Losses' >= Losses /\ Losses' \in Nat
      /\ faults \in Nat /\ faults' >= faults /\ faults' \in Nat /\ (up' => up)
      /\ MAX_TRIES \in Nat
  <2>1. TypeInv /\ Sheltered
    BY DEF CauseInv, DistributedInv, LateInv, Threads
  <2> QED
    BY <2>1, LossesGrow, LossesAre, DistributedAssumption
<1> SUFFICES ASSUME NEW j \in Jobs, client'[j] = "failed", Slots # {}, up', j \in infiles'
             PROVE  \/ Losses' >= MAX_TRIES
                    \/ faults' > 0 /\ got'[j] \in {WP!Absent, WP!Torn}
  BY DEF FailureHasCause, Losses
<1>2. up
  BY <1>1
<1>3. CASE client[j] = "failed"
  <2>1. Aborted
    BY <1>3 DEF Aborted
  <2>2. got'[j] = got[j] /\ j \in infiles
    BY <1>1, <2>1, JobEffect
  <2>3. \/ Losses >= MAX_TRIES
        \/ faults > 0 /\ got[j] \in {WP!Absent, WP!Torn}
    BY <1>2, <1>3, <2>2 DEF CauseInv, FailureHasCause, Losses
  <2> QED
    BY <1>1, <2>2, <2>3
<1>4. CASE sendJob_false(j)
  <2>1. client[j] = "connect" /\ tries[j] = MAX_TRIES /\ ~ Aborted /\ j \in infiles
    BY <1>4 DEF sendJob_false, At, files
  <2>2. MAX_TRIES <= Losses
    BY <1>2, <2>1 DEF CauseInv, Spent
  <2> QED
    BY <1>1, <2>2
<1>5. CASE updateDesign(j)
  <2>1. /\ client[j] = "ok" /\ got'[j] = outfile[j] /\ faults' = faults
        /\ outfile[j] \in {WP!Absent, WP!Torn}
    BY <1>1, <1>5 DEF updateDesign, network, At, Goto, TypeInv, TypeOK
  <2>2. faults # 0
    BY <2>1 DEF CauseInv, DistributedInv, Clean, Kept, Result
  <2> QED
    BY <1>1, <2>1, <2>2
<1>6. CASE \/ distributedMain(j) \/ distributedMain_unwritten(j) \/ distributedMain_skip(j)
           \/ sendJob_connect(j) \/ sendJob_throws(j) \/ sendMsg(j) \/ lostBalancer(j)
           \/ readMsg(j) \/ lostConnection(j)
  BY <1>1, <1>6 DEF distributedMain, distributedMain_unwritten, distributedMain_skip,
     sendJob_connect, sendJob_throws, sendMsg,
     lostBalancer, readMsg, lostConnection, Goto, TypeInv, TypeOK
<1> QED
  BY <1>1, <1>3, <1>4, <1>5, <1>6, JobEffect DEF RouterStep

\* A step that loses something accounts for one try of every job; any other
\* step loses no try.
LEMMA TryLost ==
  ASSUME CauseInv, [Next]_vars, Slots # {}, up', ~ Aborted',
         NEW j \in infiles, Trying(j), Lost(Try(j))',
         client'[j] \in {"send", "read"}, tries'[j] = tries[j]
  PROVE  Lost(Try(j)) \/ Losses' = Losses + 1
<1>0. TypeInv /\ Sheltered /\ Held /\ Assigned
  BY DEF CauseInv, DistributedInv, LateInv, Threads
<1>1. /\ TypeInv /\ Sheltered /\ Held /\ Assigned /\ ~ Aborted /\ up
      /\ j \in Jobs
  BY <1>0, AbortedStays, LossesGrow DEF TypeInv, TypeOK, WP!TypeOK
<1> DEFINE e == Try(j)
<1>2. /\ e \in Conns /\ Try(j)' = e /\ e \notin gone /\ JobOf(e) \in infiles
      /\ NoSlot \notin Slots
  BY <1>1, TryMade, DistributedAssumption DEF Trying, TypeInv, Try, Held, JobOf
<1>3. \/ reply'[e] \in {"zero", "empty"}
      \/ stage'[e] = "closed" /\ answer'[e] # "result"
  BY <1>2 DEF Lost
<1> SUFFICES ASSUME ~ Lost(e)
             PROVE  Losses' = Losses + 1
  OBVIOUS
<1>4. /\ reply[e] \notin {"zero", "empty"}
      /\ stage[e] = "closed" => answer[e] = "result"
  BY DEF Lost
<1> HIDE DEF e
<1>5. CASE Fault /\ UNCHANGED alive
  BY <1>1, <1>5, LostConnectionCounts
<1>6. CASE \/ \E c \in Conns : workerStep(c) /\ WP!runDRWorker_missing(c)
           \/ \E p \in Slots : workerCrash(p)
  BY <1>1, <1>6, DeathEffect, DeathCounts
<1>7. ASSUME NEW c \in Conns,
             \/ workerStep(c) /\ ~ WP!runDRWorker_missing(c)
             \/ workerFault(c)
      PROVE  Losses' = Losses + 1
  <2>1. UNCHANGED <<alive, stage, answer>>
    BY <1>1, <1>7, ThreadEffect DEF balancer
  <2>2. reply'[e] \in {"zero", "empty"}
    BY <1>3, <1>4, <2>1
  <2>3. PICK r \in {"result", "zero", "empty"} :
          /\ reply' = [reply EXCEPT ![c] = r]
          /\ r = "result" \/ Fault \/ JobOf(c) \notin infiles
    BY <1>1, <1>4, <1>7, <2>2, ThreadEffect
  <2>4. c = e /\ r # "result"
    BY <1>1, <1>2, <1>4, <2>2, <2>3 DEF TypeInv, TypeOK, WP!TypeOK
  <2>5. Fault
    BY <1>2, <2>3, <2>4
  <2> QED
    BY <1>5, <2>1, <2>5
<1>8. ASSUME NEW c \in Conns, handle_read_broken(c)
      PROVE  Losses' = Losses + 1
  BY <1>5, <1>8 DEF handle_read_broken, worker, Break
<1>9. ASSUME NEW c \in Conns, handle_read_done(c)
      PROVE  FALSE
  <2>1. /\ reply' = reply /\ reply[c] # "open" /\ stage' = [stage EXCEPT ![c] = "closed"]
        /\ answer' = [answer EXCEPT ![c] = reply[c]]
    BY <1>9 DEF handle_read_done, worker, LB!handle_read_done, Answer
  <2>2. c = e
    BY <1>1, <1>2, <1>3, <1>4, <2>1 DEF TypeInv, TypeOK, LB!TypeOK
  <2>3. answer'[e] = reply[e] /\ reply[e] \in {"open", "result", "zero", "empty"}
    BY <1>1, <1>2, <2>1, <2>2 DEF TypeInv, TypeOK, WP!TypeOK
  <2> QED
    BY <1>3, <1>4, <2>1, <2>2, <2>3
<1>10. ASSUME NEW c \in Conns, handle_accept(c) \/ handle_read_drop(c)
       PROVE  FALSE
  <2>1. /\ UNCHANGED <<reply>>
        /\ \/ stage' = [stage EXCEPT ![c] = "reading"]
           \/ /\ stage' = [stage EXCEPT ![c] = "closed"]
              /\ c \in gone \/ (target[c] = NoSlot /\ stage[c] = "reading")
        /\ answer' = answer \/ answer' = [answer EXCEPT ![c] = "empty"]
    BY <1>10 DEF handle_accept, handle_read_drop, worker, LB!handle_accept,
       LB!handle_accept_err, LB!handle_read_drop, Answer
  <2>2. stage[e] = "reading" => target[e] # NoSlot
    BY <1>1, <1>2 DEF Assigned
  <2>3. c # e => stage'[e] = stage[e] /\ answer'[e] = answer[e]
    BY <1>1, <1>2, <2>1 DEF TypeInv, TypeOK, LB!TypeOK
  <2>4. c = e => stage'[e] = "reading"
    BY <1>1, <1>2, <2>1, <2>2 DEF TypeInv, TypeOK, LB!TypeOK
  <2> QED
    BY <1>3, <1>4, <2>1, <2>3, <2>4
<1>11. ASSUME NEW c \in Conns, handle_read(c)
       PROVE  FALSE
  <2>1. reply' = reply /\ answer' = answer /\ stage' = [stage EXCEPT ![c] = "forwarding"]
    BY <1>11 DEF handle_read, WP!receive, LB!handle_read
  <2>2. stage'[e] = "closed" => stage[e] = "closed"
    BY <1>1, <1>2, <2>1 DEF TypeInv, TypeOK, LB!TypeOK
  <2> QED
    BY <1>3, <1>4, <2>1, <2>2
<1>12. ASSUME NEW i \in Jobs, sendJob_connect(i)
       PROVE  FALSE
  <2>1. /\ reply' = reply /\ answer' = answer
        /\ stage' = [stage EXCEPT ![<<i, tries[i] + 1>>] = "backlog"]
    BY <1>12 DEF sendJob_connect, LB!Connect, worker
  <2>2. stage'[e] = "closed" => stage[e] = "closed"
    BY <1>1, <1>2, <2>1 DEF TypeInv, TypeOK, LB!TypeOK
  <2> QED
    BY <1>3, <1>4, <2>1, <2>2
<1>13. ~ UNCHANGED <<reply, answer, stage>>
  BY <1>3, <1>4
<1>14. ASSUME NEW c \in Conns, abortClose(c) \/ handle_read_refused(c)
       PROVE  FALSE
  BY <1>1, <1>13, <1>14 DEF abortClose, handle_read_refused, LB!handle_read_refused,
     LB!ClientGone, worker
<1>15. ASSUME NEW i \in Jobs,
              \/ lostConnection(i) \/ distributedMain(i) \/ distributedMain_skip(i)
              \/ distributedMain_unwritten(i) \/ sendJob_throws(i)
              \/ sendJob_false(i) \/ sendMsg(i) \/ lostBalancer(i) \/ readMsg(i)
              \/ updateDesign(i)
       PROVE  FALSE
  BY <1>13, <1>15 DEF lostConnection, distributedMain, distributedMain_skip,
     distributedMain_unwritten, sendJob_throws,
     sendJob_false, sendMsg, lostBalancer, readMsg, updateDesign, balancer, worker,
     LB!ClientGone, LB!ClientSend
<1>16. ~ searchRepair /\ ~ UNCHANGED vars
  BY <1>13 DEF searchRepair, vars, balancer, worker
<1> QED
  BY <1>6, <1>7, <1>8, <1>9, <1>10, <1>11, <1>12, <1>14, <1>15, <1>16
  DEF Next, RouterStep, BalancerStep

LEMMA SpentStep ==
  ASSUME CauseInv, [Next]_vars, ~ Aborted'
  PROVE  Spent'
<1>0. TypeInv /\ Sheltered /\ Waiting /\ Silent
  BY DEF CauseInv, DistributedInv, LateInv, Threads
<1>1. /\ TypeInv /\ Sheltered /\ Waiting /\ Silent /\ ~ Aborted
      /\ Losses \in Nat /\ Losses' \in Nat /\ Losses' >= Losses /\ (up' => up)
  BY <1>0, LossesGrow, LossesAre, AbortedStays
<1> SUFFICES ASSUME up', Slots # {}, NEW j \in infiles'
             PROVE  /\ client'[j] = "connect" => tries'[j] <= Losses'
                    /\ client'[j] \in {"send", "read"} => tries'[j] <= Losses' + 1
                    /\ client'[j] \in {"send", "read"} /\ Lost(Try(j))' => tries'[j] <= Losses'
  BY DEF Spent, Trying
<1>j. j \in Jobs
  BY <1>1, StepTypes DEF TypeInv, TypeOK, WP!TypeOK
<1>n. tries[j] \in Nat
  <2>1. tries[j] \in 0 .. MAX_TRIES /\ MAX_TRIES \in Nat
    BY <1>1, <1>j, DistributedAssumption DEF TypeInv, TypeOK
  <2> QED
    BY <2>1
<1>3. CASE distributedMain(j)
  <2>1. client[j] = "idle" /\ client'[j] = "connect" /\ tries'[j] = tries[j]
    BY <1>1, <1>j, <1>3 DEF distributedMain, At, Goto, TypeInv, TypeOK
  <2>2. tries[j] = 0
    BY <1>j, <2>1 DEF CauseInv, Supplied
  <2> QED
    BY <1>1, <2>1, <2>2
<1> SUFFICES ASSUME j \in infiles, ~ distributedMain(j)
             PROVE  /\ client'[j] = "connect" => tries'[j] <= Losses'
                    /\ client'[j] \in {"send", "read"} => tries'[j] <= Losses' + 1
                    /\ client'[j] \in {"send", "read"} /\ Lost(Try(j))' => tries'[j] <= Losses'
  BY <1>1, <1>j, <1>3, FileSupplied
<1>2. /\ tries[j] \in Nat /\ j \in Jobs
      /\ client[j] = "connect" => tries[j] <= Losses
      /\ Trying(j) => tries[j] <= Losses + 1
      /\ Trying(j) /\ Lost(Try(j)) => tries[j] <= Losses
  BY <1>1, <1>j, <1>n DEF CauseInv, Spent
<1>4. CASE sendJob_connect(j)
  <2> DEFINE e == <<j, tries[j] + 1>>
  <2>1. /\ client[j] = "connect" /\ client'[j] = "send" /\ tries'[j] = tries[j] + 1
        /\ tries[j] < MAX_TRIES /\ stage[e] = "none"
        /\ stage' = [stage EXCEPT ![e] = "backlog"] /\ reply' = reply
    BY <1>1, <1>2, <1>4 DEF sendJob_connect, LB!Connect, At, Goto, worker, TypeInv, TypeOK
  <2>2. e \in Conns
    BY <1>1, <1>2, <2>1, NextTry DEF TypeInv
  <2>3. Try(j)' = e
    BY <2>1 DEF Try
  <2> HIDE DEF e
  <2>4. reply[e] = "open" /\ stage'[e] = "backlog"
    BY <1>1, <2>1, <2>2 DEF Waiting, Silent, TypeInv, TypeOK, LB!TypeOK
  <2>5. ~ Lost(Try(j))'
    BY <2>1, <2>3, <2>4 DEF Lost
  <2>6. tries'[j] <= Losses' + 1
    BY <1>1, <1>2, <2>1
  <2> QED
    BY <2>1, <2>5, <2>6
<1>5. CASE lostConnection(j)
  <2>1. Trying(j) /\ client'[j] = "connect" /\ tries'[j] = tries[j] /\ Fault /\ UNCHANGED alive
    BY <1>1, <1>2, <1>5 DEF lostConnection, Break, At, Goto, Trying, worker, TypeInv, TypeOK
  <2>2. Losses' = Losses + 1
    BY <1>1, <2>1, LostConnectionCounts
  <2> QED
    BY <1>2, <2>1, <2>2
<1>6. CASE lostBalancer(j)
  BY <1>1, <1>6 DEF lostBalancer
<1>7. CASE readMsg(j)
  <2>1. /\ Trying(j) /\ tries'[j] = tries[j]
        /\ client'[j] = "connect" \/ client'[j] = "ok"
        /\ client'[j] = "connect" => Lost(Try(j))
    BY <1>1, <1>2, <1>7 DEF readMsg, At, Goto, Trying, Lost, TypeInv, TypeOK
  <2> QED
    BY <1>1, <1>2, <2>1
<1>8. CASE distributedMain_skip(j) \/ sendJob_throws(j) \/ sendJob_false(j) \/ updateDesign(j)
  BY <1>1, <1>2, <1>8 DEF distributedMain_skip, sendJob_throws, sendJob_false, updateDesign,
     Goto, TypeInv, TypeOK
<1>12. CASE distributedMain_unwritten(j)
  <2>1. client[j] = "idle"
    BY <1>12 DEF distributedMain_unwritten, At
  <2> QED
    BY <1>2, <2>1 DEF CauseInv, Supplied
<1>9. ASSUME client'[j] \in {"send", "read"}, Trying(j), tries'[j] = tries[j]
      PROVE  /\ tries'[j] <= Losses' + 1
             /\ Lost(Try(j))' => tries'[j] <= Losses'
  <2>1. Lost(Try(j))' => Lost(Try(j)) \/ Losses' = Losses + 1
    BY <1>9, TryLost
  <2> QED
    BY <1>1, <1>2, <1>9, <2>1
<1>10. CASE sendMsg(j)
  <2>1. client'[j] = "read" /\ Trying(j) /\ tries'[j] = tries[j]
    BY <1>1, <1>2, <1>10 DEF sendMsg, At, Goto, Trying, TypeInv, TypeOK
  <2> QED
    BY <1>9, <2>1
<1>11. CASE client'[j] = client[j] /\ tries'[j] = tries[j]
  <2>1. client[j] = "connect" => tries'[j] <= Losses'
    BY <1>1, <1>2, <1>11
  <2> QED
    BY <1>9, <1>11, <2>1 DEF Trying
<1> QED
  BY <1>1, <1>2, <1>4, <1>5, <1>6, <1>7, <1>8, <1>10, <1>11, <1>12, JobEffect
  DEF RouterStep

LEMMA StepCause == CauseInv /\ [Next]_vars => CauseInv'
<1> SUFFICES ASSUME CauseInv, [Next]_vars
             PROVE  CauseInv'
  OBVIOUS
<1>1. DistributedInv' /\ FailureHasCause'
  BY StepDistributed, FailureStep DEF CauseInv
<1>2. Held' /\ Supplied' /\ Assigned'
  BY HeldStep, SuppliedStep, AssignedStep DEF CauseInv, DistributedInv, LateInv
<1> QED
  BY <1>1, <1>2, SpentStep DEF CauseInv

\* The router gives up a job whose connect() did not throw only if there is no
\* worker, the balancer went down, the worker file was not written, as many
\* connections, packets and workers were lost as tries are made, or a try that
\* was given up, or a full disk, damaged the result file: for any number of
\* workers, jobs and tries, no loss is charged twice to a job.
THEOREM DistributedFailureHasCause == Spec => []FailureHasCause
<1>1. CauseInv => FailureHasCause
  BY DEF CauseInv
<1> QED
  BY <1>1, InitCause, StepCause, PTL DEF Spec
=============================================================================
