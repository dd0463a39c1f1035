---------------------------- MODULE WorkerProcess ----------------------------
(***************************************************************************)
(* The worker processes of the distributed detailed router: dst::Worker    *)
(* and dst::WorkerConnection (src/dst/src/Worker.cc, WorkerConnection.cc), *)
(* the callback fr::RoutingCallBack (src/drt/src/RoutingCallBack.h) and    *)
(* what it calls in TritonRoute.cpp and dr/FlexDR.cpp.                     *)
(*                                                                         *)
(* Every connection is handled by a thread of its own.  A job names a      *)
(* worker file and a globals file.  The callback compares the path of the  *)
(* globals with the last one loaded, outside of its mutex; if they differ  *)
(* it takes the mutex, stores the path and only then reads the file, into  *)
(* the process-wide globals that threads already routing are using.        *)
(***************************************************************************)
EXTENDS Naturals

CONSTANTS
  Procs,     \* worker processes
  Conns,     \* connections a worker may receive
  Jobs,      \* clips to route: a worker file and a result file each
  JobOf(_),  \* the job a connection carries
  PathOf(_), \* the globals file a job names
  Paths,     \* globals files
  NoConn,    \* mx_ is not held
  NoProc     \* a connection that was not made yet

NoPath == "no globals"    \* globals_path_ and the globals of a new process
Torn == "torn"            \* a file or the globals while they are written
Absent == "absent"        \* a result file that does not exist

ASSUME JobAssumption ==
  /\ \A c \in Conns : JobOf(c) \in Jobs
  /\ \A j \in Jobs : PathOf(j) \in Paths
  /\ NoConn \notin Conns
  /\ NoProc \notin Procs
  /\ {NoPath, Torn, Absent} \cap Paths = {}

VARIABLES
  alive,    \* processes that run
  path,     \* RoutingCallBack::globals_path_
  loaded,   \* the globals in memory: the file they were read from
  mx,       \* the thread that holds RoutingCallBack::mx_
  pc,       \* where the thread of a connection is
  host,     \* the process a connection was made to
  with,     \* the globals the thread of a connection has been routing with
  reply,    \* what the worker sent before it closed the connection
  infiles,  \* jobs whose .worker.in file exists
  outfile,  \* .worker.out files: the globals the result was routed with
  globals   \* globals files that exist

procVars == <<alive, path, loaded, mx, pc, host, with, reply>>
fileVars == <<infiles, outfile, globals>>

Loaded == Paths \cup {NoPath, Torn}

PCs == {"none", "received", "check", "lock", "assign", "read", "load", "run",
        "route", "write", "send", "closed", "dead"}

\* Type invariant.
TypeOK ==
  /\ alive \in SUBSET Procs
  /\ path \in [Procs -> Paths \cup {NoPath}]
  /\ loaded \in [Procs -> Loaded]
  /\ mx \in [Procs -> Conns \cup {NoConn}]
  /\ pc \in [Conns -> PCs]
  /\ host \in [Conns -> Procs \cup {NoProc}]
  /\ with \in [Conns -> Loaded]
  /\ reply \in [Conns -> {"open", "result", "zero", "empty"}]
  /\ infiles \in SUBSET Jobs
  /\ outfile \in [Jobs -> Loaded \cup {Absent}]
  /\ globals \in SUBSET Paths

\* runWorker() in every process, no connection yet.
ProcInit ==
  /\ alive = Procs
  /\ path = [p \in Procs |-> NoPath]
  /\ loaded = [p \in Procs |-> NoPath]
  /\ mx = [p \in Procs |-> NoConn]
  /\ pc = [c \in Conns |-> "none"]
  /\ host = [c \in Conns |-> NoProc]
  /\ with = [c \in Conns |-> NoPath]
  /\ reply = [c \in Conns |-> "open"]

-----------------------------------------------------------------------------
Goto(c, label) == pc' = [pc EXCEPT ![c] = label]

\* The thread ends; sock is closed with what was written to it.
Close(c, what) ==
  /\ Goto(c, "closed")
  /\ reply' = [reply EXCEPT ![c] = what]

\* runDRWorker() starts to use the globals as they are.
StartRun(c) ==
  /\ Goto(c, "run")
  /\ with' = [with EXCEPT ![c] = loaded'[host[c]]]

Running(p) == {c \in Conns : host[c] = p /\ pc[c] \in {"run", "route"}}

\* handle_accept(), start() and the packet read: a thread is detached.
receive(c, p) ==
  /\ pc[c] = "none"
  /\ p \in alive
  /\ host' = [host EXCEPT ![c] = p]
  /\ Goto(c, "received")
  /\ UNCHANGED <<alive, path, loaded, mx, with, reply>>
  /\ UNCHANGED fileVars

\* handle_read() with an error: a warning, and close().
handle_read_err(c) ==
  /\ pc[c] = "received"
  /\ Close(c, "empty")
  /\ UNCHANGED <<alive, path, loaded, mx, host, with>>
  /\ UNCHANGED fileVars

\* handle_read() of a packet that does not parse or is not a routing job:
\* "0" is the answer.
handle_read_bad(c) ==
  /\ pc[c] = "received"
  /\ Close(c, "zero")
  /\ UNCHANGED <<alive, path, loaded, mx, host, with>>
  /\ UNCHANGED fileVars

\* onRoutingJobReceived() up to the access() test: return without an answer
\* if the worker file is not there.
onRoutingJobReceived(c) ==
  /\ pc[c] = "received"
  /\ \/ JobOf(c) \in infiles /\ Goto(c, "check") /\ UNCHANGED reply
     \/ JobOf(c) \notin infiles /\ Close(c, "empty")
  /\ UNCHANGED <<alive, path, loaded, mx, host, with>>
  /\ UNCHANGED fileVars

\* globals_path_ != desc->getGlobalsPath(), read without the mutex: while
\* another thread assigns the string the comparison may go either way.
Racing(c) == \E d \in Conns \ {c} : host[d] = host[c] /\ pc[d] = "assign"

\* Mutant: globals are loaded once.
SamePathOnce(c) == path[host[c]] # NoPath

SamePath(c) == path[host[c]] = PathOf(JobOf(c))

check(c) ==
  /\ pc[c] = "check"
  /\ UNCHANGED loaded
  /\ \/ (SamePath(c) \/ Racing(c)) /\ StartRun(c)
     \/ (~ SamePath(c) \/ Racing(c)) /\ Goto(c, "lock") /\ UNCHANGED with
  /\ UNCHANGED <<alive, path, mx, host, reply>>
  /\ UNCHANGED fileVars

\* Mutant: no mutex.
lock_none(c) ==
  /\ pc[c] = "lock"
  /\ mx' = [mx EXCEPT ![host[c]] = c]
  /\ Goto(c, "assign")
  /\ UNCHANGED <<alive, path, loaded, host, with, reply>>
  /\ UNCHANGED fileVars

\* std::lock_guard<std::mutex> lock(mx_)
lock(c) ==
  /\ pc[c] = "lock"
  /\ mx[host[c]] = NoConn
  /\ mx' = [mx EXCEPT ![host[c]] = c]
  /\ Goto(c, "assign")
  /\ UNCHANGED <<alive, path, loaded, host, with, reply>>
  /\ UNCHANGED fileVars

\* Mutant: the worker path is stored instead of the globals path.
assign_worker(c) ==
  /\ pc[c] = "assign"
  /\ path' = [path EXCEPT ![host[c]] = JobOf(c)]
  /\ Goto(c, "read")
  /\ UNCHANGED <<alive, loaded, mx, host, with, reply>>
  /\ UNCHANGED fileVars

\* globals_path_ = ...; setSharedVolume()
assign(c) ==
  /\ pc[c] = "assign"
  /\ path' = [path EXCEPT ![host[c]] = PathOf(JobOf(c))]
  /\ Goto(c, "read")
  /\ UNCHANGED <<alive, loaded, mx, host, with, reply>>
  /\ UNCHANGED fileVars

\* updateGlobals(): readGlobals() starts to overwrite the globals, under
\* every thread that routes; a file that does not open is not an error.
readGlobals(c) ==
  LET p == host[c] IN
  /\ pc[c] = "read"
  /\ \/ /\ PathOf(JobOf(c)) \in globals
        /\ loaded' = [loaded EXCEPT ![p] = Torn]
        /\ with' = [d \in Conns |-> IF d \in Running(p) THEN Torn ELSE with[d]]
        /\ Goto(c, "load")
        /\ UNCHANGED mx
     \/ /\ PathOf(JobOf(c)) \notin globals
        /\ UNCHANGED loaded
        /\ mx' = [mx EXCEPT ![p] = NoConn]
        /\ StartRun(c)
  /\ UNCHANGED <<alive, path, host, reply>>
  /\ UNCHANGED fileVars

\* Mutant: the mutex is not released.
load_locked(c) ==
  /\ pc[c] = "load"
  /\ loaded' = [loaded EXCEPT ![host[c]] = PathOf(JobOf(c))]
  /\ StartRun(c)
  /\ UNCHANGED <<alive, path, mx, host, reply>>
  /\ UNCHANGED fileVars

\* The globals are read, the mutex is released.
load(c) ==
  /\ pc[c] = "load"
  /\ loaded' = [loaded EXCEPT ![host[c]] = PathOf(JobOf(c))]
  /\ mx' = [mx EXCEPT ![host[c]] = NoConn]
  /\ StartRun(c)
  /\ UNCHANGED <<alive, path, host, reply>>
  /\ UNCHANGED fileVars

\* runDRWorker(): the worker is loaded; its file is not needed any more.
runDRWorker(c) ==
  /\ pc[c] = "run"
  /\ JobOf(c) \in infiles
  /\ Goto(c, "route")
  /\ UNCHANGED <<alive, path, loaded, mx, host, with, reply>>
  /\ UNCHANGED fileVars

\* reloadedMain(): the worker is routed, and its result file is opened.
route_queue(c) ==
  /\ pc[c] = "route"
  /\ Goto(c, "write")
  /\ outfile' = [outfile EXCEPT ![JobOf(c)] = Torn]
  /\ UNCHANGED <<alive, path, loaded, mx, host, with, reply>>
  /\ UNCHANGED <<infiles, globals>>

\* The result is written.  Another thread may have the same file open.
reloadedMain(c) ==
  /\ pc[c] = "write"
  /\ Goto(c, "send")
  /\ outfile' = [outfile EXCEPT ![JobOf(c)] =
       IF \E d \in Conns \ {c} : JobOf(d) = JobOf(c) /\ pc[d] = "write"
       THEN Torn ELSE with[c]]
  /\ UNCHANGED <<alive, path, loaded, mx, host, with, reply>>
  /\ UNCHANGED <<infiles, globals>>

\* The result file does not open; reloadedMain() ignores that.
reloadedMain_unwritten(c) ==
  /\ pc[c] = "route"
  /\ Goto(c, "send")
  /\ UNCHANGED <<alive, path, loaded, mx, host, with, reply>>
  /\ UNCHANGED fileVars

\* sendResult(), and close().
sendResult(c) ==
  /\ pc[c] = "send"
  /\ Close(c, "result")
  /\ UNCHANGED <<alive, path, loaded, mx, host, with>>
  /\ UNCHANGED fileVars

\* sendResult() gives up after MAX_TRIES: a warning, and close().
sendResult_fail(c) ==
  /\ pc[c] = "send"
  /\ Close(c, "empty")
  /\ UNCHANGED <<alive, path, loaded, mx, host, with>>
  /\ UNCHANGED fileVars

\* The process dies, all of its threads with it.
Die(p) ==
  /\ alive' = alive \ {p}
  /\ pc' = [c \in Conns |-> IF host[c] = p /\ pc[c] # "closed"
                            THEN "dead" ELSE pc[c]]
  /\ reply' = [c \in Conns |-> IF host[c] = p /\ reply[c] = "open"
                               THEN "empty" ELSE reply[c]]
  /\ UNCHANGED <<path, loaded, mx, host, with>>
  /\ UNCHANGED fileVars

\* A crash, or an exception that leaves the thread of a connection: of
\* remote_endpoint(), when a client that sent a bad packet is gone.
crash(p) == p \in alive /\ Die(p)

\* runDRWorker() of a worker file that is gone: load() ignores that, and
\* route_queue() runs on a FlexDRWorker without a design.
runDRWorker_missing(c) ==
  /\ pc[c] = "run"
  /\ JobOf(c) \notin infiles
  /\ Die(host[c])

\* What a thread does by itself.
Step(c) ==
  \/ onRoutingJobReceived(c) \/ check(c) \/ lock(c) \/ assign(c)
  \/ readGlobals(c) \/ load(c) \/ runDRWorker(c) \/ runDRWorker_missing(c)
  \/ route_queue(c) \/ reloadedMain(c) \/ sendResult(c)

-----------------------------------------------------------------------------
(* Worker processes whose clients connect to them directly and at any time. *)

vars == <<procVars, fileVars>>

Init ==
  /\ ProcInit
  /\ infiles = Jobs
  /\ outfile = [j \in Jobs |-> Absent]
  /\ globals = Paths

\* A client that got the result of a job removes the job's files.
Cleanup(j) ==
  /\ j \in infiles
  /\ \E c \in Conns : JobOf(c) = j /\ reply[c] = "result"
  /\ infiles' = infiles \ {j}
  /\ outfile' = [outfile EXCEPT ![j] = Absent]
  /\ UNCHANGED globals
  /\ UNCHANGED procVars

\* The router's next iteration removes the globals file of the last one,
\* whatever the threads of a worker still do with it.
RemoveGlobals(g) ==
  /\ globals' = globals \ {g}
  /\ UNCHANGED <<infiles, outfile>>
  /\ UNCHANGED procVars

Next ==
  \/ \E c \in Conns :
       \/ \E p \in Procs : receive(c, p)
       \/ Step(c)
       \/ handle_read_err(c) \/ handle_read_bad(c) \/ sendResult_fail(c)
       \/ reloadedMain_unwritten(c)
  \/ \E p \in Procs : crash(p)
  \/ \E j \in Jobs : Cleanup(j)
  \/ \E g \in globals : RemoveGlobals(g)

\* The scheduler runs every thread.
Spec == Init /\ [][Next]_vars /\ \A c \in Conns : WF_vars(Step(c))

\* A thread that has to reload takes the mutex, and only then.
MutexHolders ==
  \A c \in Conns : pc[c] \in {"assign", "read", "load"} => mx[host[c]] = c

\* Whenever no thread is reloading, the globals in memory are those that
\* globals_path_ names, so that a later comparison of the path decides
\* correctly, unless the file of that path was removed: a thread that came too
\* late has then stored the path of globals it could not read.
GlobalsMatchPath ==
  \A p \in alive : mx[p] = NoConn => loaded[p] = path[p] \/ path[p] \notin globals

\* Every thread ends, whatever the order in which threads reload.
ThreadsEnd == \A c \in Conns : pc[c] = "received" ~> pc[c] \in {"closed", "dead"}
=============================================================================
