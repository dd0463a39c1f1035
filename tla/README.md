# OpenROAD in TLA+

OpenROAD is a chip layout tool: about twenty engines over one in-memory design
database. This directory models the parts whose correctness is a matter of
*steps* rather than of numbers: the distributed mode of the detailed router
(`src/dst` with `src/drt`), the batches and iterations of that router, the
tables every object of the database (`src/odb`) lives in and is found by, the
netlist and its journal of edits, and the incremental update of global routes
(`src/grt`, driven by `src/rsz`) when the netlist is edited.
Paths below are relative to `src/` of the repository.

## 1. Inventory

| Component | State it keeps | Operations | Correct when |
|---|---|---|---|
| Load balancer, `dst/src/LoadBalancer.cc`, `BalancerConnection.cc` | `workers_`, a priority queue of addresses with an `unsigned short` priority; one connection object per client | accept a client and bind it to the top entry; read its packet; forward it to the worker, **blocking** for the answer; copy the answer back; give the priority back | every connection that is bound gives back exactly what it took, on every path; clients go to a free worker; every client is answered or closed |
| Worker process, `dst/src/Worker.cc`, `WorkerConnection.cc` | a listening socket, one detached thread per connection | accept, read a packet, run the callback, send the result | every thread ends and closes its socket |
| Routing callback, `drt/src/RoutingCallBack.h` | `globals_path_`, `mx_`, and the process-wide router globals | compare the path of the globals *outside* the mutex; reload under it; route the clip; write the result file | a clip is routed with the globals its job names |
| Jobs and messages, `dst/src/Distributed.cc`, `JobMessage.cc` | none | `sendJob()` with five tries, `sendMsg()`, `readMsg()`, `sendResult()` | a job succeeds or its failure has a cause |
| Optimization iterations, `drt/src/dr/FlexDR.cpp` | clips, batches, markers (violations), the costs of the iteration, the globals file | 65 calls of `searchRepair()`; per clip `init()`, `route_queue()`, `end()` | parallel clips do not disturb each other; a repair iteration does no harm; workers use the costs of the coordinator |
| Object table, `odb/src/db/dbTable.hpp` | pages of slots, a free list, counts per page, the first and last index | `create`, `duplicate`, `destroy`, `clear`, streams, iteration | an id names one object; no slot is lost; iteration visits every object |
| Hash table, `odb/src/db/dbHashTable.hpp` | chains threaded through the objects, the number of entries | `insert`, `remove`, `find`, growing and shrinking inside them | every object is found under its name, and under no other |
| Connectivity, `odb/src/db/dbITerm.cpp`, `dbBTerm.cpp`, `dbNet.cpp`, `dbInst.cpp` | doubly linked lists through the terminals of a net; the terminals of an instance in the order of its master | create, connect, disconnect, swap of a master, destroy | a terminal is on the list of exactly its net; nothing refers to a slot that is free; a swap keeps what is on each pin |
| Journal (ECO), `odb/src/db/dbJournal.cpp`, `dbDatabase.cpp` | a log of edits | record, replay | replay makes a copy of the block what the edited one is (records name objects by id) |
| Incremental global routing, `grt/src/GlobalRouter.cpp`, `AntennaRepair.cpp`, `rsz/src/EstimateWireParasitics.cc` | `db_net_map_`, `dirty_nets_`, `routes_` | callbacks of the database mark nets dirty; dirty nets are rerouted | a net that is not dirty is routed as the database has it; no destroyed net is referred to |
| Clip router, `drt/src/dr/FlexDR_maze.cpp`, `FlexGridGraph*` | grid costs, rip-up queue | A\* search | quality, not steps |
| Other engines: `ant cts dbSta dpl dpo fin gpl gui ifp mpl mpl2 pad par pdn ppl psm rcx rmp rsz stt tap` | scratch data of one call | one call over the database | geometry and numerics |
| `utl`, the application | log, Tcl and Python bindings | | |

**How they interact.** The router runs `FlexDRWorker::distributedMain()` in the
threads of an OpenMP loop, one clip per thread. Each writes the clip to a shared
directory and calls `Distributed::sendJob()`: connect to the balancer, write one
packet, read until the balancer closes. The balancer picks a worker, does the
same with it, and copies the answer. The worker's thread loads the clip (and, if
their path changed, the globals), routes, writes the result file and answers.
The router reads the file, removes both, and merges the clip after the batch.
Globals are replaced between iterations by the router's main thread. Everything
in `odb` is called by one thread, but not by one caller: a call that changes the
netlist runs the callbacks of every observer of the block before and after each
change, also between the turns of the loops that take a net or an instance apart.
Global routing is such an observer, while the resizer or the antenna repair has an
`IncrementalGRoute`.

**What is hard.** Threads of one worker share globals that one of them may be
overwriting; the path is compared without the mutex. A lost connection makes
`sendJob()` try again while the first attempt may still run. The balancer's
handlers run on one thread that blocks on a worker without a timeout. The
priority is 16 bits wide and wraps. `init()` of a clip counts violations that
`end()` compares with after other clips have been written back. Globals are
written by some iterations, and iterations may be skipped. In the database it is
long sequences of legal calls: a slot linked twice, a page count that is off, a
chain that is rehashed at the moment an object is inserted, an id left behind in a
list when its slot is given to the next object. A journal has to lead a copy
through the same slots in the same order, with records that name objects by id.
And an observer has to hear of every change, or know that it has not:
`GlobalRouter` keeps pointers to nets and its own copy of their pins.
`PROJECT.json` lists these hazards at their lines.

## 2. Modules

```
LoadBalancer ----\
                  +--> DistributedRouting      (their composition with the router)
WorkerProcess ---/
SearchRepair                                   (what the router does around the jobs)
dbTable        dbHashTable                     (database containers)
dbBlock                                        (the netlist of a block as a value)
  +--> dbNetlist --> IncrementalRoute          (its calls, step by step; global routing on top)
  |       +-- refines TermLists                (what connectivity promises)
  +--> dbJournal                               (the same calls, recorded and replayed)
LoadBalancerProofs  WorkerProcessProofs  DistributedRoutingProofs
SearchRepairProofs  dbTableProofs  dbHashTableProofs
dbNetlistProofs  (dbNetlist and IncrementalRoute)  --> dbJournalProofs
MC*.tla                                        (values of the constants for TLC)
```

Definitions keep the names of the source. In each module the operators whose
comment begins with "Mutant:" are deliberately wrong variants of the definition
that follows them; no specification uses them. They are there to show that each
property can fail: put in place of the right definition, TLC finds the property
violated.

### LoadBalancer

`workers` are the entries that `addWorker()` made before `run()`, any subset of
`Slots`. `priority` is `worker::priority` of every entry; `Modulus` is its 2^16. `stage` follows a connection: in the kernel's backlog, bound and reading,
forwarding, closed. One action per path through a handler: `handle_accept`,
`handle_accept_err`, `handle_read` (up to the blocking read), `handle_read_drop`
(read error or no worker), `handle_read_refused` (the throwing `connect()` that
leaves `io_service.run()` and ends the process) and `handle_read_done` (the rest,
including `updateWorker()` and `close()`). `Idle` is the single thread: no
handler starts while one connection is forwarding. The environment connects,
sends, and disappears at any time. A tie at the top of the heap is an arbitrary
choice. `Endpoint` lets two entries have one address, which `addWorker()` does
not prevent.

### WorkerProcess

`pc` follows the thread of a connection through
`RoutingCallBack::onRoutingJobReceived()`, one step for each access to something
threads share: `check` (the comparison without the mutex; while another thread
assigns the string it may go either way), `lock`, `assign`, `readGlobals` (the
globals are torn from here on, for every thread of the process that is routing),
`load`, `runDRWorker` (the worker file is loaded), `route_queue` (routed, and the
result file opened), `reloadedMain` (written; `reloadedMain_unwritten` if the file
did not open, which the code ignores), and `sendResult`. `with` is a history: the
globals a thread has been routing with, `Torn` if they changed under it. Files are
tokens: which jobs have a worker file, which globals files exist, with which globals
a result was made. A globals file that cannot be read is no error either: the thread
has stored its path and routes with the globals of before. `crash` and `Die` end all
threads of a process, as does a worker file that is gone when it is loaded
(`runDRWorker_missing`: `load()` ignores that and `route_queue()` runs on an object
without a design); a file removed later does no harm. In the run of this module
alone, clients connect to the worker directly and in any order, and globals files are
removed at any time (`RemoveGlobals`): more interleavings than the balancer and the
router let through.

### DistributedRouting

The composition: instances of the two modules over shared variables, and the
router's threads (`client`, `tries`, `got`, `iter`). Connection `<<j, k>>` is the
k-th try of job `j`. `distributedMain` writes the worker file, `sendJob_*`,
`sendMsg`, `readMsg` are the loop of `sendJob()`, `updateDesign` reads and removes
the files and merges, `searchRepair` goes to the next iteration and replaces the
globals file. `sendJob_throws` is a `connect()` that throws, for whatever reason and
whether or not the balancer is up: `sendJob()` returns false at once, without another
try. The result of writing a file is looked at nowhere: `distributedMain_unwritten`
sends a job without its worker file, and `Written` is what may be left of a globals
file; `Unwritable` bounds which files that happens to. Faults are actions that may happen and need not: `lostConnection`,
`handle_read_broken`, `workerFault` (at most `MaxFaults` together) and
`workerCrash` (at most `MaxCrashes`); `broken` is a history of the connections that
were lost. A job that fails terminates the router
(`logger_->error()` throws out of an OpenMP loop), and the kernel closes its
sockets (`abortClose`).

### SearchRepair

`main()`'s 65 calls with their clip sizes, offsets, rip-up modes and costs
(`clipSize`, `offset`, `RipupAll`, `FixedShapeCost`), the division of the grid
into clips (`Columns`, `Span`), the colouring and cutting into batches
(`batchIdx`, `Rank`, `Batch`), and per clip `init_skip`/`init`, `route_queue`,
`end`. A violation is a gcell; routing replaces the violations of a clip's drc
box by *any* set, so what holds does not rest on the router being good.
`check` is the connectivity checker, which may leave recheck markers anywhere
when a net was written back. The labels in the comments of `main()` are off by
one at the end (the call labelled 56 is number 62, counted from 0; the calls 63
and 64 are labelled 62 and 63); the model follows the calls.

Three things worth knowing that the model shows: a clip that is only rechecked
has an initial count of 0, so in a repair iteration any result with a violation
is discarded and its recheck marker stays. After iteration 2 a design without
markers stays without, because every clip is skipped. And that is what the
consistency of the workers' costs rests on: iterations 3, 10, 15, ... are the only
ones to write the globals file, and any of them may be skipped.

### dbTable

Slots are numbered through all pages and slot 0 is the null reference. `create`
includes `newPage()` and the growth of the page table, `destroy` includes
`findBottom()`/`findTop()`; `write`/`read` are the streams, where `image` is the
last saved table and `readPage()` recounts the pages. `next` is the iteration,
with its short cut at `top_idx` and its skipping of empty pages.

### dbHashTable

A chain is the sequence of its objects. `Rehash` is the common part of
`growTable()` and `shrinkTable()`, one entry at a time as the code has it: `Stack`
takes all entries off their chains, `Refill` pops each and links it at the head of its
new chain (`Link`). That sizes are powers of two is `PowerOfTwo`: no odd divisor but 1.
The table is driven by the protocol of `dbNet::create()`,
`rename()` and `destroy()`, including `create()` with `skipExistingCheck`, by which
names become ambiguous. `CHAIN_LENGTH` is a constant, 4 in the code.

### dbBlock, dbNetlist and TermLists

`dbBlock` has no variables. A block is a record: the live objects, the free lists of
the four tables (last in, first out, as `dbTable` hands out slots), the links of
the terminals, and of the rest what the journal and the router tell apart (names,
masters, terminals of an instance with the index of their mterm, origin,
orientation, bounding box). `Sound` says what a block is that the program can have read. Every call of the interface is an operator on such
records: `Linked` and `Unlinked` are the list surgery of `connect()` and
`disconnect()`, with all the ids that the code leaves in the objects;
`swapMaster` has the map of indices and the sort. Both the netlist and the
journal are built from these operators.

`dbNetlist` takes them as steps. Calls that return at once are one step. The two
loops of `dbNet::destroy()` and the loop of `dbInst::destroy()` take one step per
turn, with the iterator in the variable `call`, because callbacks see the netlist
between the turns. No callback in the repository edits the netlist from there, so
no other call starts meanwhile. `TermLists` is what callers may rely on: a
terminal is on at most one list, and the last one connected comes first.
`ListsRefined` is the refinement, with a walk along the ids as its mapping.

### dbJournal

`remote` is the block that is edited, `log` its journal; `master` is a copy with a
journal `mlog` of its own, as in `test/cpp/TestJournal.cpp`. `EcoInit` starts from any of
`Images`, which are sound blocks: for TLC a block with connected objects, and one in which
objects were destroyed before the copy was made. An action (`EcoCreateNet`, ...) on the remote block changes it and appends the records of
the code, in their order (`connect_log`, `disconnect_log`, `Net_destroy_log`,
`Inst_destroy_log`). `redo_*` pops one record and makes the call on the master,
including its early returns and what it journals in turn; `Size` bounds the tables of
both blocks, so that creating an object has `Room` as a guard on either side. `redo_lost` is a record
whose object the copy does not have, `redo_misaligned` one that redo() does not
read to its end. `unlogged` is a history: a change of which the journal has no usable
record.

### IncrementalRoute

`db_net_map` is the pins that `GlobalRouter` knows of every net (`NoNet`: no `Net`
object), `routes` the pins that the route of a net connects. A pin is a terminal and the
place its instance puts it. Each action of `dbNetlist` that changes the netlist is
joined with the callbacks it makes, if an `IncrementalGRoute` is `registered`: to a
terminal (`Touched`), to a move or a swap (`instItermsDirty`, which passes over special
nets), to a net that is created or destroyed (`removeNet`). `SetKind` is
`setSpecial()`, `clearSpecial()`, and a wire that is made or destroyed: a net that
`addNet()` skips comes and goes, and the router is not told. `globalRoute`,
`updateDirtyRoutes`, `repairAntennas`, `ensureWireParasitic` and the two ends of
`incrementalParasitics` are the router's side.

Most of that side may throw (`logger_->error()`), and the program goes on.
`globalRoute_throws`: after `clear()` there are no routes, and of the nets those that
`initNetlist()` had come to (`Interrupted`: none, all, or those before the net whose
pins could not be made, of which some were). `updateDirtyRoutes_throws`: some of the
dirty nets have new pins and all stay dirty. `repairAntennas_throws`: some nets were
marked without an `IncrementalGRoute`, and one keeps the wire that was made for the
check. The errors on congestion come after everything was stored and are part of the
ordinary actions.

`missed` is a history: nets that were changed without being marked, since nobody
listened or since moves and swaps pass over special nets, and nets that a
`globalRoute()` which threw did not read. `skipped` is another: the nets that `addNet()`
skipped in the last `globalRoute()`, whatever has become of their flags and wires.
`failed` says that this one threw. `crashed` is the end of the program in
`updateDirtyNets()`.

## 3. Runs

| Run | Instance | Distinct states | Question |
|---|---|---|---|
| `balancer` | any of 3 entries, 2 with one address, 4 connections, Avail 1, 3-bit priority | 111139 (symmetric) | Do priorities account for all connections, and by how much not when an address is registered twice? Where do connections go below and above Avail? |
| `balancer_live` | the same, 3 connections | 92509 | Is every client closed, also when no worker is registered? |
| `worker_process` | 1 process, 3 threads, 2 jobs, 2 globals files | 254318 | Do path and globals agree after any interleaving of reloads, also while globals files go away; do all threads end? |
| `distributed` | 2 workers, 3 clips in 2 iterations, no loss, 1 crash, any file may not be written | 300412 | Is only one job executed at a time; is a result its own, with its iteration's globals? |
| `distributed_faults` | 2 workers, 2 clips, 1 loss, 1 crash, 2 tries, one worker and one globals file may not be written | 255994 | Does every job end; why can one fail; can a job be executed behind the router's back, or leave anything? |
| `object_table` | 3 pages of 2 slots | 119025 | Is every sequence of create, destroy, clear, save and load exact? |
| `hash_table` | 6 nets, 3 names, CHAIN_LENGTH 2 | 194 (symmetric) | Is every net found, the newest first, across resizing? |
| `search_repair` | 9 x 12 gcells, 2 violation sites, all 65 calls, distributed | 31927 | Is what `init()` counted still true at `end()`; can repair do harm; do the clips of every call cut up the grid; do workers use the coordinator's costs? |
| `netlist` | 2 nets, 1 block terminal, 1 instance of up to 3 terminals, 3 masters | 228727 | Are lists, references and pins sound between any two steps; do the lists implement `TermLists`? |
| `eco` | 2 nets, 2 block terminals, 2 instances, 3 calls | 96017 | Does a commit make the copy what the original is? |
| `eco_rule` | the same, 2 calls | (violated) | Does redo() read every record to its end? |
| `incremental_routes` | 2 nets, 1 block terminal, 2 instances, 3 edits or throws | 624447 | Is what is not dirty routed as the database has it; does the router keep a destroyed net; why can it crash? |

Where a module's type invariant is checked together with another one, the conjunction has
a name of its own: `PagesExact`, `ChainsSound`, `ReplaySound`, `RoutesSound`.

What they show, beyond "it holds":

* `PriorityAccounting` names the error exactly: an address registered twice
  leaves each of its entries one higher for every connection the other closed.
* `LeastLoaded` and `OverloadAttracts` are the two sides of the 16-bit wrap. Up
  to Avail (10) connections per worker, a client goes to a least loaded worker.
  Once one worker has more, its priority is near 65535 and it gets *every*
  further client, idle workers or not.
* `OneExecution`: the balancer serialises the jobs. While no
  connection is lost at most one worker is routing, and this is what keeps the
  callback's comparison outside the mutex harmless. With a loss the guarantee is
  gone: a result may be torn or routed with torn globals, which is why
  `OneExecution` and `ResultIsOwn` are stated for `faults = 0`. Crashes of workers,
  a `connect()` that throws and files that are not written are no such faults and are
  covered: if a globals file could not be written, a worker routes with what it has,
  and that is the one exception in `ResultIsOwn`.
* `ExecutionAwaited` holds under every fault: what a worker executes is the try that
  `sendJob()` waits for, unless that try's own connection broke. Empty answers, dead
  workers and a balancer that went down lead to retries that overlap nothing.
  `NothingLeft` is its consequence for the files: only a worker that was cut off can
  still be at a job that is merged, and leave a result behind.
* `FailureHasCause`: five tries fail only to a balancer that went down, to a worker
  file that was not written, to as many losses, or to an attempt that was given up, or
  a full disk, that damaged the result file. A worker crash alone takes the balancer
  down only when it is chosen again and its connection is refused. A job whose
  `connect()` threw needs no further cause: the code does not try again (state
  `refused`).
* `GlobalsMatchPath` names its exception: a thread that comes after the globals file
  was removed has stored the path of globals it never read, and every later job with
  that path passes the comparison. It is harmless as long as no job names a removed
  file, which the router sees to by waiting for the batch.
* `CommitReproduces` says what a commit does and names the exceptions: a net that was
  created with `skipExistingCheck` under an existing name and any `rename()` leave
  no usable record, and an instance that was turned keeps its old bounding box in
  the copy, because `redo_updateInstField()` writes the word of flags past
  `setOrient()`. `RejournalsSame`: the same word is missing from the copy's own
  journal, so a chain of copies loses orientations at the second commit.
* `RecordsAligned` is **violated**, by one call of `setNonDefaultRule()`: the record
  has the type and id of the *rule* where `redo()` reads those of the net
  (`dbNet.cpp:2712`). `redo_updateField()` has no case for that type and reads no
  further, and `redo()` takes the next bytes of the record for its end, against its own
  assertion (`dbJournal.cpp:283`). In a release build the rest of the ECO is read
  from the wrong place.
* `IteratorAtHead`: the loops of `dbNet::destroy()` work because the iterator is
  advanced *before* the terminal is taken off. It always stands at the head, so a
  callback sees a list that begins where the loop goes on.
* `RoutesCurrent` (in `RoutesSound`) holds for what was changed while somebody listened, whatever
  `IncrementalGRoute`s come and go and whatever throws. The exceptions are the code's.
  A net that was moved while it was special is not marked, and after `clearSpecial()`
  it is an ordinary net with a stale route. Nets that are left with one pin or none
  keep the route they had. After a `globalRoute()` that threw no net has a route, and
  those it did not reach are neither known nor dirty.
* `CrashHasCause`: `updateDirtyNets()` dereferences `db_net_map_[net]` unchecked. It is
  null for nets that `addNet()` skipped, which the callbacks of their terminals mark
  dirty all the same, whether or not they are still special or have wires; for nets
  created while nobody listened; and for nets that a `globalRoute()` which threw did
  not reach. `clear()` does
  not clear `dirty_nets_`, so a net that was marked, and destroyed unseen before the next
  `globalRoute()`, is still in it.
* `NewestFound`: which of several nets of one name is found does not depend on
  when the table was resized. `NoThrashing` excludes that one net that is
  renamed at a threshold rehashes the block every time.

**Why the bounds suffice.** Avail 1 and three bits put both sides of the wrap
within four connections, the last of which shows where it goes; with subsets of
three entries there are none, one, two of one address and two of different ones. Two workers and three
threads of one process are the least that let a reload overlap both a routing
thread and another reload; two jobs with one globals file and one with another
give both outcomes of the comparison. Two tries separate first, last and
exhausted. Three pages of two slots have a first, an inner and a last page that
can be empty, and a page table that doubles twice. Six nets with chains of two
reach one, two and four chains, so growth from and shrinking to each size;
the slack of a tenth in the threshold starts at ten nets and is not reached. The
two sites are on either side of the corner where four clips of iteration 0 meet, so that
violations are shared by drc boxes of clips in all four colours; on a grid of 9 x 12
clips of all three sizes are cut off at the border by the various offsets. Three
terminals on two nets give lists with a first, an inner and a last element, a
terminal that changes its net, and free lists in every order; three pins permuted in a
cycle tell a map from its inverse, which an exchange of two would not. Three calls
reach a slot that is freed, taken and connected in one ECO; longer ones are covered by the
proofs. Three edits are a net
destroyed unseen and another made in its slot, the two ends of a change of net
around an update, or a net that becomes special, is moved, and is cleared again; a call
that throws counts as one of the three (`MaxEdits`), so a `globalRoute()` that threw can be
followed by two edits of what it left. `Unwritable` has, in `distributed`, every worker file
and both globals files, and in `distributed_faults` the file of a first and that of a later
iteration. Capacity bounds (`MaxPages`, `Size`, `MaxCalls`, `MaxEdits`, `MaxFaults`, `MaxCrashes`, `Sites`,
`Unwritable`, `MAX_TRIES`) are constants with these names.

`CHECK_DEADLOCK FALSE` stands only where the program stops: the balancer or the
router has ended, all connections are closed, `main()` has returned, the last exchange of
ECOs is over, or the router has crashed. The two containers and the netlist are checked for
deadlock.

## 4. Fairness

Weak fairness in the three modules with a liveness property (`LoadBalancer`, `WorkerProcess`,
`DistributedRouting`), none on faults, crashes or losses. The other modules state safety only
and assume no fairness.

* the `io_service` runs every handler that is ready, and a client that has
  connected writes its packet or goes away (`sendJob()` does one or the other);
* **assumption**: a worker that has been sent a packet answers or dies. The code
  has no timeout on that read: if a worker hangs, so do the balancer and with it
  every client. In `DistributedRouting` this is not assumed but follows from the
  threads of the worker being scheduled;
* `std::thread`s, OpenMP threads and the main thread are scheduled. One
  fairness condition per thread: no action of a thread is favoured over another;
* `mx_` needs only weak fairness in the runs because each thread takes it once.

## 5. Proofs

Checked by TLAPS for all values of the constants; the assumptions are the named
`ASSUME`s of the modules (finite sets, positive sizes, disjoint tokens), which TLC
evaluates for the instances.

* **LoadBalancerProofs.** `TypeCorrect`. `Accounting` is proved by `AccountingInv`:
  the type, `Unbound` (a connection has a target only after `handle_accept()`) and
  the property itself. The work is in lemmas on cardinality (what one step adds to
  `Load` and `Drift`) and on arithmetic modulo the width. From it,
  `LeastLoadedHolds` and `OverloadAttractsHolds`: a priority read modulo the width
  orders the entries by load below Avail, and above everything past it.
  `OneForwardedHolds` (no two connections wait for a worker) from `Idle`.
* **WorkerProcessProofs.** `GlobalsMatch`: whenever nobody holds `mx_`, the globals
  in memory are those of `globals_path_`, or the file of that path is gone. It is not
  inductive; `ReloadInv` adds
  where a thread's process is recorded (`Hosted`), that exactly threads between `lock` and `load` hold the
  mutex (`MutexHolders`), and that the stored path is the holder's own
  (`PathStored`).
* **DistributedRoutingProofs.** For the composition, with losses, crashes, `connect()`s that
  throw and files that are not written. `DistributedTypes` adds `TriesMade` (a thread that
  sends has connected) and `Hosted`. Everything else stands on `LateInv`, which holds *whatever*
  is lost. A thread that runs on a connection that did not break has it *forwarded*
  (`Forwarded`: the worker writes nothing before it ends, so the balancer is still
  blocked in the read), only one connection is, and the balancer does not go down meanwhile
  (`Blocking`); so the router still waits on that very try (`Attended`). A merged job is not waited for, so it
  has no thread that could write its result file again (`Left`), unless a connection of it
  broke. From it
  `DistributedExecutionAwaited` and `DistributedNothingLeft`.
  `DistributedInv` adds what holds until the first fault (`Clean`). With no connection broken,
  the one thread (`LiveThread`) is of the iteration that is current (`Current`), and the
  path it compares is that of the globals in memory, or of a file that is not there (`Seen`,
  `PathStored`, `Matching`). So the thread routes with its own globals (`RoutesOwn`) and nobody
  else writes its result file (`Announced`, `Kept`). From it `DistributedOneExecution` and
  `DistributedResultIsOwn`. A worker that crashes takes its threads with it and breaks none of
  this. `DistributedFailureHasCause` is about losses. `CauseInv` adds that the
  tries a job with a worker file has spent are at most the losses (faults and dead workers)
  while the balancer is up (`Spent`). That is inductive because a job has one current try, so that
  one loss takes at most one try of each job, and because a try ends without an answer only by a
  loss: its connection was not given up by its client (`Held`), its file was there from the
  first try on or never (`Supplied`), and a connection that was accepted has a
  worker unless none is registered (`Assigned`). It counts workers, and so assumes
  `IsFiniteSet(Slots)`. That the balancer's part of a step is a step of `LoadBalancer` is a
  lemma (`BalancerStepRefined`): it holds by the shape of the composition and serves to use
  the invariants of the balancer, and is no result of its own.
* **SearchRepairProofs.** Geometry first: clips of one parity are a clip width
  apart (`ColumnsApart`), so drc boxes of one batch are disjoint (`ClipsApart`).
  `CountInv` adds what is quiet in each phase, that the clips under way are of one
  batch, and that results stay in their box. From it `CountCurrent` (what `init()`
  counted still holds at `end()`) and `RepairNeverWorsensHolds`, on the
  cardinality of a set of which a part is replaced. `GlobalsCurrentHolds` rests on
  `CostInv`: either the file has the costs of the last iteration that ran, or the
  design is clean (and `CleanSkips`: no clip is routed), or the last iteration is
  past. `ClipsPartitionHolds`: the clips of each of the calls cut up a grid of any size.
* **dbTableProofs.** `FreeList`: a slot is an object or on the free list, exactly
  once, for every page size, **and** for the table read back from the last image:
  the invariant `FreeInv` speaks of both, since `read` replaces one by the other.
  `TablePagesExact` and `TableIterationExact` need more: `PagesInv` says of a table that it
  is `Tidy`, namely that the count of a page is the number of its objects, that the bottom and top
  indices are the least and the greatest object, and that pages past the last are
  empty. `findTop()` and `findBottom()` start from the old index, which is right only because
  nothing lies beyond it; the iteration stops early at `top_idx` and skips pages by their
  count, which is right only because both are exact. Assumed: `MaxPages > 0`.
* **dbHashTableProofs.** `HashChainsSound`, `HashNewestFound` and `HashNoThrashing`, for any
  set of nets and names, any hash function and any `CHAIN_LENGTH`
  above 1. The invariant `HashInv` says
  that the chains hold each live net exactly once, on the chain of its name, that the count is
  their number, and that the number of chains is a power of two the count does not overrun.
  That growing and shrinking preserve the order of nets of one name takes both halves of `Rehash`:
  `Stack` reverses it, `Refill` reverses it back, and the lemmas follow one pair of entries through both
  loops. The thresholds are arithmetic with integer division (`DivBelow`, `GrowKeeps`,
  `ShrinkKeeps`). The recursive functions are bounded by the number of entries, and what they
  compute is proved by a least counterexample (`UpTo`, from the well-foundedness of the
  numbers), because the library's induction theorems cannot be instantiated.
* **dbNetlistProofs.** `NetlistTypes`, `NetlistListsSound`, `NetlistNoDangling`,
  `NetlistIteratorAtHead` and `NetlistPinsInOrder`, for tables of every size and any masters, from one
  invariant, `IInv`. None of them is inductive. That the lists can be mended by
  two ids needs that a terminal on a list is live (else `create()` would hand it out
  again); that the list of a net is empty when its loop has ended needs more than the
  neighbours pointing at each other, which a ring without a head would satisfy: `IInv`
  has a *rank* of the terminals, a number that grows along the next ids, and
  `HeadlessEmpty` takes the terminal of least rank, which has no predecessor and must be
  the head. Free slots are distinct and have no links, an instance owns its terminals
  and no two share one, and of a running `destroy()` the invariant keeps which terminals
  are already gone. `LinkedInv`, `UnlinkedInv`, `TakeInv`, `GiveInv` and
  `SwapMasterInv` carry it through the operators of `dbBlock`; the proof that a step
  preserves it then has one step per action. `NetlistSwapKeepsPins` is the action property:
  what was connected to a pin is on the pin of that name afterwards, through the map of
  indices and the sort. `NetlistListsRefined` is the refinement of `TermLists`. `Walked` says of
  every list that its walk is that list: its terminals, each once, from the head to 0. It is
  inductive together with `IInv`, because `Linked` puts its terminal before the sequence
  (`LinkedLists`) and `Unlinked` cuts it out (`UnlinkedLists`, where the predecessor that the code
  finds in the terminal is the one before it in the sequence). `WalkIs` shows that the recursive
  walk returns the sequence: the walks of each length exist, and are what they should be up to the
  number of terminals, which bounds the list. Each call is then a step of `TermLists` or leaves
  the walks alone. Assumed are the sizes of the tables
  and that the mterms of a master have different names.
  `RouterInvariant`, and from it `RouterRoutesSound`,
  `RouterNoDeadNets` and `RouterCrashHasCause`, are about `IncrementalRoute`. The three
  properties are stated of the router's data, but what a call changes is known only of a sound
  netlist, so the invariant joins that of the netlist with them (`RouterInv`), and with
  `NetsMade`: a live net that was neither skipped by the last `globalRoute()`, nor made unseen, nor
  left out by one that threw, has a `Net` object, whatever its flags and wires are now. The step of each call has to show that the callbacks it makes name *every* net whose
  pins it changes: lemmas state for each operator of `dbBlock` which nets keep their pins.
  Assumed is that a design that is read is sound (`DesignsAssumption`), which TLC evaluates for
  the designs of the run.
* **dbJournalProofs.** `JournalReplaySound`, `JournalCommitReproduces` and
  `JournalRejournalsSame`, for blocks of any size and any number of calls and exchanges, from
  `JournalInvariant`. The invariant cannot say that the copy is the original, for in the middle
  of a replay it is not. `EcoInv` says that there is a sequence of blocks, from the one the
  exchange began with to the remote as it is, of which each record of the log leads to the next
  (`Following`), and that the master is like the block at the record that redo() has come to.
  Two things keep that. The first is about the remote: every call takes its block to the next *by way of its
  records* (`Logged`). For most calls that is one record; for `dbNet::destroy()` and
  `dbInst::destroy()` it is the records of the terminals and then of the object, while the code
  of `dbInst::destroy()` takes terminals off and frees them in *one* loop. That the two
  orders end in the same block (`InstDestroySame`) is shown on the links and on the free list
  separately. What the records of a net are is read off its lists by walking along the ids, so
  `InvWalked` gives, of any well-formed block, the sequence that a walk returns. The second is about the
  master: what redo() makes of a record does to a block that is like another what the record did
  to the other, with the same record in the master's journal (`Agrees`; the `*Sim` lemmas).
  "Like" (`Sim`) is equality of everything, free lists included,
  but for the boxes of instances whose flags are in the log. That redo() calls
  `dbNet::destroy()`, which would have records for terminals too, does no harm because the
  records before it have taken the terminals off (`NetDestroyBare`, `InstDestroyBare`).
  Assumed is that the blocks an exchange starts from are sound (`ImagesAssumption`).

### Only model-checked

* Liveness (`EveryConnectionCloses`, `ThreadsEnd`, `JobsReturn`): out of the
  prover's reach. Every invariant and every action property of the passing runs, and the
  refinement of `TermLists`, are proved.
* `RecordsAligned`, which the code violates; `JournalInvariant` covers the states after
  that only as far as the types of the blocks.

## 6. Not modelled

* The engines other than `drt` and the incremental part of `grt`: functions of a snapshot of the database, on one
  thread. Floating-point placement and analysis is out of reach of TLC; for most
  others what could be stated is geometry.
* The contents of clips: paths, pins, the A\* search, design rules. A clip's
  result is any set of violations in its box.
* The text archive of messages: a message is the job it carries and parses or
  does not.
* Code outside the repository: boost::asio (a socket is connected, closed or
  broken), OpenSTA and ABC (their directories are empty submodules).
* Memory: allocation failure, and the data race on the `std::string`
  `globals_path_` beyond the outcome of the comparison. A torn read of globals is
  `Torn`, whatever it contains.
* In the netlist: `dbInstHdr` objects (a cache of a master's terminals, counted by
  instances), wires, pins, regions, modules, groups and hierarchy, `mergeNet()`; names of nets
  are in no property but that they exist. LEF and DEF readers and writers are
  sequential I/O over these calls.
* In the journal: parasitics (`dbRSeg`, `dbCapNode`, `dbCCSeg`), wires, the flags of nets,
  block terminals and the block, whose records are of the form of those modelled;
  `undo()`, which the source marks as work in progress; `setNonDefaultRule(NULL)` with an open
  journal, which dereferences the null pointer; the file itself.
* In global routing: FastRoute, its capacities and what `removeDirtyNetsRouting()` gives
  back to them, layers, guides. A route is the set of pins it connects.
* In the containers: copy construction, comparison and diff; the streams of the
  hash table, which copy its fields.

## 7. What could follow

1. Model. The rip-up queue and the markers inside one `FlexDRWorker`; the edge
   resources of FastRoute that `removeDirtyNetsRouting()` returns; `dbInstHdr` and its
   count of instances; the journal's records of parasitics, which are created and destroyed
   in pairs.
2. Prove. Step by step, `dbNetlist` as an implementation of the operators that the journal and the
   router take as one call (`Net_destroy`, `Inst_destroy`), by the same loop lemmas.
