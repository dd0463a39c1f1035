------------------------- MODULE WorkerProcessProofs -------------------------
(***************************************************************************)
(* What a worker process guarantees about its globals for every number of  *)
(* processes, connections, jobs and globals files.                         *)
(***************************************************************************)
EXTENDS WorkerProcess, TLAPS

-----------------------------------------------------------------------------
(* The inductive invariant. *)

\* A thread that got as far as its packet belongs to a process.
Hosted == \A c \in Conns : pc[c] # "none" => host[c] \in Procs

\* A thread that reloads has stored the path of what it reads.
PathStored ==
  \A c \in Conns : pc[c] \in {"read", "load"} => path[host[c]] = PathOf(JobOf(c))

\* The globals in memory are those of the path, unless a thread reloads them or
\* the file is gone.
Matching ==
  \A p \in Procs : mx[p] = NoConn => loaded[p] = path[p] \/ path[p] \notin globals

ReloadInv ==
  /\ TypeOK
  /\ Hosted
  /\ MutexHolders
  /\ PathStored
  /\ Matching

\* A process that has just been started has no connection and no globals.
LEMMA InitReload == Init => ReloadInv
<1> SUFFICES ASSUME Init
             PROVE  ReloadInv
  OBVIOUS
<1>1. TypeOK
  BY DEF Init, ProcInit, TypeOK, PCs, Loaded
<1> QED
  BY <1>1 DEF Init, ProcInit, ReloadInv, Hosted, MutexHolders, PathStored, Matching

\* The path a connection's job names.
LEMMA PathType ==
  ASSUME NEW c \in Conns
  PROVE  /\ JobOf(c) \in Jobs
         /\ PathOf(JobOf(c)) \in Paths
         /\ PathOf(JobOf(c)) \in Loaded
BY JobAssumption DEF Loaded

-----------------------------------------------------------------------------
(* The steps preserve it. *)

\* Steps of a thread before it reloads the globals or after it uses them:
\* they change neither the path, nor the globals, nor the mutex.
LEMMA QuietSteps ==
  ASSUME ReloadInv, NEW c \in Conns,
         \/ handle_read_err(c) \/ handle_read_bad(c) \/ onRoutingJobReceived(c)
         \/ check(c) \/ sendResult(c) \/ sendResult_fail(c)
         \/ runDRWorker(c) \/ route_queue(c) \/ reloadedMain(c)
         \/ reloadedMain_unwritten(c)
  PROVE  ReloadInv'
<1>1. /\ UNCHANGED <<alive, path, loaded, mx, host, infiles, globals>>
      /\ \E l \in {"check", "closed", "run", "lock", "route", "write", "send"} :
           pc' = [pc EXCEPT ![c] = l]
      /\ pc[c] # "none"
  BY DEF handle_read_err, handle_read_bad, onRoutingJobReceived, check, sendResult,
     sendResult_fail, runDRWorker, route_queue, reloadedMain, reloadedMain_unwritten, Goto, Close, StartRun, fileVars
<1>2. pc' \in [Conns -> PCs]
  BY <1>1 DEF ReloadInv, TypeOK, PCs
<1>3. with' \in [Conns -> Loaded]
  <2>1. host[c] \in Procs
    BY <1>1 DEF ReloadInv, Hosted
  <2>2. with' = with \/ with' = [with EXCEPT ![c] = loaded[host[c]]]
    BY <1>1 DEF handle_read_err, handle_read_bad, onRoutingJobReceived, check,
       sendResult, sendResult_fail, runDRWorker, route_queue, reloadedMain,
       reloadedMain_unwritten, StartRun
  <2> QED
    BY <2>1, <2>2 DEF ReloadInv, TypeOK
<1>4. reply' \in [Conns -> {"open", "result", "zero", "empty"}]
  <2>1. reply' = reply \/ \E r \in {"result", "zero", "empty"} :
                            reply' = [reply EXCEPT ![c] = r]
    BY DEF handle_read_err, handle_read_bad, onRoutingJobReceived, check,
       sendResult, sendResult_fail, runDRWorker, route_queue, reloadedMain,
       reloadedMain_unwritten, Close
  <2> QED
    BY <2>1 DEF ReloadInv, TypeOK
<1>5. outfile' \in [Jobs -> Loaded \cup {Absent}]
  <2>1. with[c] \in Loaded /\ Torn \in Loaded
    BY DEF ReloadInv, TypeOK, Loaded
  <2>2. outfile' = outfile \/ \E v \in Loaded :
                                outfile' = [outfile EXCEPT ![JobOf(c)] = v]
    BY <2>1 DEF handle_read_err, handle_read_bad, onRoutingJobReceived, check,
       sendResult, sendResult_fail, runDRWorker, route_queue, reloadedMain,
       reloadedMain_unwritten, fileVars
  <2> QED
    BY <2>2, PathType DEF ReloadInv, TypeOK
<1>6. TypeOK'
  BY <1>1, <1>2, <1>3, <1>4, <1>5 DEF ReloadInv, TypeOK
<1>7. \A d \in Conns : d # c => pc'[d] = pc[d]
  BY <1>1 DEF ReloadInv, TypeOK
<1>8. pc'[c] \notin {"none", "assign", "read", "load"}
  BY <1>1 DEF ReloadInv, TypeOK
<1>9. Hosted' /\ MutexHolders' /\ PathStored'
  BY <1>1, <1>7, <1>8 DEF ReloadInv, Hosted, MutexHolders, PathStored
<1> QED
  BY <1>1, <1>6, <1>9 DEF ReloadInv, Matching

\* A message from the balancer starts a thread that holds nothing yet.
LEMMA ReceiveStep ==
  ASSUME ReloadInv, NEW c \in Conns, NEW p \in Procs, receive(c, p)
  PROVE  ReloadInv'
<1>1. /\ pc[c] = "none"
      /\ pc' = [pc EXCEPT ![c] = "received"] /\ host' = [host EXCEPT ![c] = p]
      /\ UNCHANGED <<alive, path, loaded, mx, with, reply, infiles, outfile, globals>>
  BY DEF receive, Goto, fileVars
<1>2. pc' \in [Conns -> PCs] /\ host' \in [Conns -> Procs \cup {NoProc}]
  BY <1>1 DEF ReloadInv, TypeOK, PCs
<1>3. TypeOK'
  BY <1>1, <1>2 DEF ReloadInv, TypeOK
<1>4. \A d \in Conns : d # c => pc'[d] = pc[d] /\ host'[d] = host[d]
  BY <1>1 DEF ReloadInv, TypeOK
<1>5. pc'[c] = "received" /\ host'[c] = p
  BY <1>1 DEF ReloadInv, TypeOK
<1>6. Hosted' /\ MutexHolders' /\ PathStored'
  BY <1>1, <1>4, <1>5 DEF ReloadInv, Hosted, MutexHolders, PathStored
<1> QED
  BY <1>1, <1>3, <1>6 DEF ReloadInv, Matching

\* A thread takes mx_ of its own process, when nobody holds it.
LEMMA LockStep ==
  ASSUME ReloadInv, NEW c \in Conns, lock(c)
  PROVE  ReloadInv'
<1>1. /\ pc[c] = "lock" /\ mx[host[c]] = NoConn
      /\ pc' = [pc EXCEPT ![c] = "assign"] /\ mx' = [mx EXCEPT ![host[c]] = c]
      /\ UNCHANGED <<alive, path, loaded, host, with, reply, infiles, outfile, globals>>
  BY DEF lock, Goto, fileVars
<1>2. host[c] \in Procs
  BY <1>1 DEF ReloadInv, Hosted
<1>3. pc' \in [Conns -> PCs] /\ mx' \in [Procs -> Conns \cup {NoConn}]
  BY <1>1 DEF ReloadInv, TypeOK, PCs
<1>4. TypeOK'
  BY <1>1, <1>3 DEF ReloadInv, TypeOK
<1>5. /\ \A d \in Conns : d # c => pc'[d] = pc[d]
      /\ \A p \in Procs : p # host[c] => mx'[p] = mx[p]
      /\ pc'[c] = "assign" /\ mx'[host[c]] = c
  BY <1>1, <1>2 DEF ReloadInv, TypeOK
<1>6. MutexHolders'
  <2>1. SUFFICES ASSUME NEW d \in Conns, pc'[d] \in {"assign", "read", "load"}, d # c
                 PROVE  mx'[host[d]] = d
    BY <1>1, <1>5 DEF MutexHolders
  <2>2. mx[host[d]] = d /\ host[d] \in Procs
    BY <1>5, <2>1 DEF ReloadInv, MutexHolders, Hosted
  <2>3. host[d] # host[c]
    BY <1>1, <2>2, JobAssumption
  <2> QED
    BY <1>5, <2>2, <2>3
<1>7. Hosted' /\ PathStored'
  BY <1>1, <1>5 DEF ReloadInv, Hosted, PathStored
<1>8. Matching'
  BY <1>1, <1>2, <1>5, JobAssumption DEF ReloadInv, Matching
<1> QED
  BY <1>1, <1>4, <1>6, <1>7, <1>8 DEF ReloadInv

\* The holder of mx_ stores the new path before it reads the globals: the
\* path and the globals differ, and the holder is about to read.
LEMMA AssignStep ==
  ASSUME ReloadInv, NEW c \in Conns, assign(c)
  PROVE  ReloadInv'
<1> DEFINE p == host[c]
<1>1. /\ pc[c] = "assign"
      /\ pc' = [pc EXCEPT ![c] = "read"]
      /\ path' = [path EXCEPT ![p] = PathOf(JobOf(c))]
      /\ UNCHANGED <<alive, loaded, mx, host, with, reply, infiles, outfile, globals>>
  BY DEF assign, Goto, fileVars
<1>2. p \in Procs /\ mx[p] = c
  BY <1>1 DEF ReloadInv, Hosted, MutexHolders
<1>3. pc' \in [Conns -> PCs] /\ path' \in [Procs -> Paths \cup {NoPath}]
  BY <1>1, PathType DEF ReloadInv, TypeOK, PCs
<1>4. TypeOK'
  BY <1>1, <1>3 DEF ReloadInv, TypeOK
<1>5. /\ \A d \in Conns : d # c => pc'[d] = pc[d]
      /\ \A q \in Procs : q # p => path'[q] = path[q]
      /\ pc'[c] = "read" /\ path'[p] = PathOf(JobOf(c))
  BY <1>1, <1>2 DEF ReloadInv, TypeOK
<1>6. Hosted' /\ MutexHolders'
  BY <1>1, <1>2, <1>5 DEF ReloadInv, Hosted, MutexHolders
<1>7. PathStored'
  <2>1. SUFFICES ASSUME NEW d \in Conns, pc'[d] \in {"read", "load"}, d # c
                 PROVE  path'[host[d]] = PathOf(JobOf(d))
    BY <1>1, <1>5 DEF PathStored
  <2>2. mx[host[d]] = d /\ host[d] \in Procs /\ path[host[d]] = PathOf(JobOf(d))
    BY <1>5, <2>1 DEF ReloadInv, MutexHolders, Hosted, PathStored
  <2>3. host[d] # p
    BY <1>2, <2>1, <2>2
  <2> QED
    BY <1>5, <2>2, <2>3
<1>8. Matching'
  BY <1>1, <1>2, <1>5, JobAssumption DEF ReloadInv, Matching
<1> QED
  BY <1>1, <1>4, <1>6, <1>7, <1>8 DEF ReloadInv

\* The mutex is held while the globals are overwritten: no path matches them.
LEMMA OverwriteStep ==
  ASSUME ReloadInv, NEW c \in Conns, readGlobals(c), PathOf(JobOf(c)) \in globals
  PROVE  ReloadInv'
<1> DEFINE p == host[c]
<1>1. pc[c] = "read" /\ p \in Procs /\ mx[p] = c
  BY DEF readGlobals, ReloadInv, Hosted, MutexHolders
<1>3. /\ loaded' = [loaded EXCEPT ![p] = Torn]
      /\ with' = [d \in Conns |-> IF d \in Running(p) THEN Torn ELSE with[d]]
      /\ pc' = [pc EXCEPT ![c] = "load"]
      /\ UNCHANGED <<alive, path, mx, host, reply, infiles, outfile, globals>>
  BY DEF readGlobals, Goto, fileVars
<1>4. /\ pc' \in [Conns -> PCs] /\ loaded' \in [Procs -> Loaded]
      /\ with' \in [Conns -> Loaded]
  BY <1>3 DEF ReloadInv, TypeOK, PCs, Loaded
<1>5. TypeOK'
  BY <1>3, <1>4 DEF ReloadInv, TypeOK
<1>6. /\ \A d \in Conns : d # c => pc'[d] = pc[d]
      /\ \A q \in Procs : q # p => loaded'[q] = loaded[q]
      /\ pc'[c] = "load"
  BY <1>1, <1>3 DEF ReloadInv, TypeOK
<1>7. Hosted' /\ MutexHolders' /\ PathStored'
  BY <1>1, <1>3, <1>6 DEF ReloadInv, Hosted, MutexHolders, PathStored
<1>8. Matching'
  BY <1>1, <1>3, <1>6, JobAssumption DEF ReloadInv, Matching
<1> QED
  BY <1>5, <1>7, <1>8 DEF ReloadInv

\* A thread whose globals file is gone releases the mutex with the path stored:
\* that file does not come back.
LEMMA MissingStep ==
  ASSUME ReloadInv, NEW c \in Conns, readGlobals(c), PathOf(JobOf(c)) \notin globals
  PROVE  ReloadInv'
<1> DEFINE p == host[c]
<1>1. pc[c] = "read" /\ p \in Procs /\ mx[p] = c /\ path[p] = PathOf(JobOf(c))
  BY DEF readGlobals, ReloadInv, Hosted, MutexHolders, PathStored
<1>2. /\ mx' = [mx EXCEPT ![p] = NoConn]
      /\ pc' = [pc EXCEPT ![c] = "run"]
      /\ with' = [with EXCEPT ![c] = loaded[p]]
      /\ UNCHANGED <<alive, path, loaded, host, reply, infiles, outfile, globals>>
  BY DEF readGlobals, StartRun, Goto, fileVars
<1>3. /\ pc' \in [Conns -> PCs] /\ mx' \in [Procs -> Conns \cup {NoConn}]
      /\ with' \in [Conns -> Loaded]
  BY <1>1, <1>2 DEF ReloadInv, TypeOK, PCs
<1>4. TypeOK'
  BY <1>2, <1>3 DEF ReloadInv, TypeOK
<1>5. /\ \A d \in Conns : d # c => pc'[d] = pc[d]
      /\ \A q \in Procs : q # p => mx'[q] = mx[q]
      /\ pc'[c] = "run"
  BY <1>1, <1>2 DEF ReloadInv, TypeOK
<1>6. MutexHolders'
  <2>1. SUFFICES ASSUME NEW d \in Conns, pc'[d] \in {"assign", "read", "load"}
                 PROVE  mx'[host[d]] = d
    BY <1>2 DEF MutexHolders
  <2>2. d # c /\ mx[host[d]] = d /\ host[d] \in Procs
    BY <1>5, <2>1 DEF ReloadInv, MutexHolders, Hosted
  <2>3. host[d] # p
    BY <1>1, <2>2
  <2> QED
    BY <1>5, <2>2, <2>3
<1>7. Hosted' /\ PathStored'
  BY <1>1, <1>2, <1>5 DEF ReloadInv, Hosted, PathStored
<1>8. Matching'
  BY <1>1, <1>2, <1>5 DEF ReloadInv, Matching
<1> QED
  BY <1>4, <1>6, <1>7, <1>8 DEF ReloadInv

\* Either way the agreement is kept.
LEMMA ReadStep ==
  ASSUME ReloadInv, NEW c \in Conns, readGlobals(c)
  PROVE  ReloadInv'
BY OverwriteStep, MissingStep

\* The mutex is released when the globals are those of the stored path.
LEMMA LoadStep ==
  ASSUME ReloadInv, NEW c \in Conns, load(c)
  PROVE  ReloadInv'
<1> DEFINE p == host[c]
<1>1. /\ pc[c] = "load" /\ p \in Procs /\ mx[p] = c
      /\ path[p] = PathOf(JobOf(c))
  BY DEF load, ReloadInv, Hosted, MutexHolders, PathStored
<1>2. /\ loaded' = [loaded EXCEPT ![p] = PathOf(JobOf(c))]
      /\ mx' = [mx EXCEPT ![p] = NoConn]
      /\ pc' = [pc EXCEPT ![c] = "run"]
      /\ with' = [with EXCEPT ![c] = loaded'[p]]
      /\ UNCHANGED <<alive, path, host, reply, infiles, outfile, globals>>
  BY DEF load, StartRun, Goto, fileVars
<1>3. /\ pc' \in [Conns -> PCs] /\ loaded' \in [Procs -> Loaded]
      /\ mx' \in [Procs -> Conns \cup {NoConn}]
  BY <1>2, PathType DEF ReloadInv, TypeOK, PCs
<1>4. with' \in [Conns -> Loaded]
  BY <1>1, <1>2, <1>3 DEF ReloadInv, TypeOK
<1>5. TypeOK'
  BY <1>2, <1>3, <1>4 DEF ReloadInv, TypeOK
<1>6. /\ \A d \in Conns : d # c => pc'[d] = pc[d]
      /\ \A q \in Procs : q # p => loaded'[q] = loaded[q] /\ mx'[q] = mx[q]
      /\ pc'[c] = "run" /\ loaded'[p] = path[p]
  BY <1>1, <1>2 DEF ReloadInv, TypeOK
<1>7. MutexHolders'
  <2>1. SUFFICES ASSUME NEW d \in Conns, pc'[d] \in {"assign", "read", "load"}
                 PROVE  mx'[host[d]] = d
    BY <1>2 DEF MutexHolders
  <2>2. d # c /\ mx[host[d]] = d /\ host[d] \in Procs
    BY <1>6, <2>1 DEF ReloadInv, MutexHolders, Hosted
  <2>3. host[d] # p
    BY <1>1, <2>2
  <2> QED
    BY <1>6, <2>2, <2>3
<1>8. Hosted' /\ PathStored'
  BY <1>1, <1>2, <1>6 DEF ReloadInv, Hosted, PathStored
<1>9. Matching'
  BY <1>2, <1>6 DEF ReloadInv, Matching
<1> QED
  BY <1>2, <1>5, <1>7, <1>8, <1>9 DEF ReloadInv

\* A process that dies may leave the mutex held and the globals torn.
LEMMA DieStep ==
  ASSUME ReloadInv, NEW p \in Procs, Die(p)
  PROVE  ReloadInv'
<1>1. /\ alive' = alive \ {p}
      /\ pc' = [c \in Conns |-> IF host[c] = p /\ pc[c] # "closed"
                                THEN "dead" ELSE pc[c]]
      /\ reply' = [c \in Conns |-> IF host[c] = p /\ reply[c] = "open"
                                   THEN "empty" ELSE reply[c]]
      /\ UNCHANGED <<path, loaded, mx, host, with, infiles, outfile, globals>>
  BY DEF Die, fileVars
<1>2. pc' \in [Conns -> PCs]
  BY <1>1 DEF ReloadInv, TypeOK, PCs
<1>3. reply' \in [Conns -> {"open", "result", "zero", "empty"}]
  BY <1>1 DEF ReloadInv, TypeOK
<1>4. TypeOK'
  BY <1>1, <1>2, <1>3 DEF ReloadInv, TypeOK
<1>5. \A c \in Conns : pc'[c] = pc[c] \/ (pc'[c] = "dead" /\ host[c] = p)
  BY <1>1
<1>6. MutexHolders' /\ PathStored'
  BY <1>1, <1>5 DEF ReloadInv, MutexHolders, PathStored
<1>7. Hosted'
  BY <1>1, <1>5 DEF ReloadInv, Hosted
<1>8. Matching'
  BY <1>1 DEF ReloadInv, Matching
<1> QED
  BY <1>1, <1>4, <1>6, <1>7, <1>8 DEF ReloadInv

\* The files of a job are removed by the router; no process holds them.
LEMMA CleanupStep ==
  ASSUME ReloadInv, NEW j \in Jobs, Cleanup(j)
  PROVE  ReloadInv'
<1>1. /\ infiles' = infiles \ {j}
      /\ outfile' = [outfile EXCEPT ![j] = Absent]
      /\ UNCHANGED <<alive, path, loaded, mx, pc, host, with, reply, globals>>
  BY DEF Cleanup, procVars
<1>2. TypeOK'
  BY <1>1 DEF ReloadInv, TypeOK
<1> QED
  BY <1>1, <1>2 DEF ReloadInv, Hosted, MutexHolders, PathStored, Matching

\* A globals file that is gone may only take processes out of the agreement.
LEMMA RemoveStep ==
  ASSUME ReloadInv, NEW g \in globals, RemoveGlobals(g)
  PROVE  ReloadInv'
<1>1. /\ globals' = globals \ {g}
      /\ UNCHANGED <<alive, path, loaded, mx, pc, host, with, reply, infiles, outfile>>
  BY DEF RemoveGlobals, procVars
<1>2. TypeOK'
  BY <1>1 DEF ReloadInv, TypeOK
<1> QED
  BY <1>1, <1>2 DEF ReloadInv, Hosted, MutexHolders, PathStored, Matching

\* Every step of every process keeps the agreement.
LEMMA NextReload == ReloadInv /\ [Next]_vars => ReloadInv'
<1> SUFFICES ASSUME ReloadInv, [Next]_vars
             PROVE  ReloadInv'
  OBVIOUS
<1>1. CASE \E c \in Conns, p \in Procs : receive(c, p)
  BY <1>1, ReceiveStep
<1>2. CASE \E c \in Conns :
             \/ Step(c) \/ handle_read_err(c) \/ handle_read_bad(c)
             \/ sendResult_fail(c) \/ reloadedMain_unwritten(c)
  <2>1. PICK c \in Conns :
               \/ Step(c) \/ handle_read_err(c) \/ handle_read_bad(c)
               \/ sendResult_fail(c) \/ reloadedMain_unwritten(c)
    BY <1>2
  <2>2. CASE lock(c)
    BY <2>2, LockStep
  <2>3. CASE assign(c)
    BY <2>3, AssignStep
  <2>4. CASE readGlobals(c)
    BY <2>4, ReadStep
  <2>5. CASE load(c)
    BY <2>5, LoadStep
  <2>6. CASE runDRWorker_missing(c)
    <3>1. host[c] \in Procs /\ Die(host[c])
      BY <2>6 DEF runDRWorker_missing, ReloadInv, Hosted
    <3> QED
      BY <3>1, DieStep
  <2>7. CASE \/ handle_read_err(c) \/ handle_read_bad(c) \/ onRoutingJobReceived(c)
             \/ check(c) \/ sendResult(c) \/ sendResult_fail(c)
             \/ runDRWorker(c) \/ route_queue(c) \/ reloadedMain(c)
             \/ reloadedMain_unwritten(c)
    BY <2>7, QuietSteps
  <2> QED
    BY <2>1, <2>2, <2>3, <2>4, <2>5, <2>6, <2>7 DEF Step
<1>3. CASE \E p \in Procs : crash(p)
  BY <1>3, DieStep DEF crash
<1>4. CASE \E j \in Jobs : Cleanup(j)
  BY <1>4, CleanupStep
<1>5. CASE \E g \in globals : RemoveGlobals(g)
  BY <1>5, RemoveStep
<1>6. CASE UNCHANGED vars
  BY <1>6 DEF vars, procVars, fileVars, ReloadInv, TypeOK, Hosted, MutexHolders,
     PathStored, Matching
<1> QED
  BY <1>1, <1>2, <1>3, <1>4, <1>5, <1>6 DEF Next

-----------------------------------------------------------------------------
\* Every variable keeps its type, for every number of processes and threads.
THEOREM TypeCorrect == Spec => []TypeOK
<1>1. ReloadInv => TypeOK
  BY DEF ReloadInv
<1> QED
  BY <1>1, InitReload, NextReload, PTL DEF Spec

\* A worker that is not reloading holds the globals its globals_path_ names, or
\* the file of that path is gone: comparing the path outside of the mutex lets
\* no stale globals pass for those of a file that a job can still name.
THEOREM GlobalsMatch == Spec => []GlobalsMatchPath
<1>1. ReloadInv => GlobalsMatchPath
  BY DEF ReloadInv, TypeOK, Matching, GlobalsMatchPath
<1> QED
  BY <1>1, InitReload, NextReload, PTL DEF Spec
=============================================================================
