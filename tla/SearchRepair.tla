---------------------------- MODULE SearchRepair ----------------------------
(***************************************************************************)
(* The optimization iterations of the detailed router: FlexDR::main() and  *)
(* FlexDR::searchRepair() (src/drt/src/dr/FlexDR.cpp), and of a clip's     *)
(* FlexDRWorker what it does to the violations of the design: init(),      *)
(* route_queue() and end() (FlexDR_init.cpp, FlexDR_maze.cpp,              *)
(* FlexDR_end.cpp).                                                        *)
(*                                                                         *)
(* The grid of gcells is cut into clips.  Clips of one batch are routed in *)
(* parallel, each from what its init() read of the design, and are written *)
(* back one after the other.  Clip <<k, l>> is the one in column k and row *)
(* l.  A violation is placed by its gcell; drcBox_ reaches less than a     *)
(* gcell over the clip and is modelled as reaching one.                    *)
(***************************************************************************)
EXTENDS Integers, FiniteSets

CONSTANTS
  XCount, YCount,  \* gcells in x and y
  Sites,           \* gcells that may hold a violation (a bound)
  BATCHSIZE,       \* 1024 in global.cpp
  MAX_THREADS,
  END_ITERATION,   \* 80 in global.cpp, up to 64 from Tcl
  dist_on          \* distributed routing

ASSUME GridAssumption ==
  /\ XCount \in Nat \ {0} /\ YCount \in Nat \ {0}
  /\ Sites \subseteq (0 .. XCount - 1) \X (0 .. YCount - 1)
  /\ IsFiniteSet(Sites)
  /\ BATCHSIZE \in Nat \ {0} /\ MAX_THREADS \in Nat \ {0}
  /\ END_ITERATION \in Int
  /\ dist_on \in BOOLEAN

Iters == 0 .. 64   \* the calls of main()

-----------------------------------------------------------------------------
(* The arguments of the calls in main(), and what depends on iter. *)

\* ripupMode is 1: everything in a clip is rerouted.
RipupAll(i) == i < 3 \/ (i >= 10 /\ (i - 2) % 8 = 7)

clipSize(i) == IF ~ RipupAll(i) \/ i < 25 THEN 7 ELSE IF i = 25 THEN 5 ELSE 3

offset(i) ==
  CASE i = 0 -> 0   [] i = 1 -> -2  [] i = 2 -> -5
    [] i = 17 -> -3 [] i = 25 -> -2 [] i = 33 -> -1
    [] i = 41 -> -2 [] i = 49 -> 0  [] i = 57 -> -1
    [] i \in 3 .. 9 -> 3 - i
    [] OTHER -> -((i - 2) % 8)

\* FIXEDSHAPECOST, in units of ROUTESHAPECOST.
FixedShapeCost(i) ==
  CASE i < 3 -> 1 [] i \in 3 .. 9 -> 2 [] i \in 10 .. 14 -> 3
    [] i \in 15 .. 19 -> 4 [] i \in 20 .. 29 -> 10
    [] i \in 30 .. 39 -> 50 [] OTHER -> 100

\* Mutant: the change at iteration 15 is forgotten.
WritesGlobalsTens(i) == (i % 10 = 0 /\ i # 60) \/ i = 3

\* Iterations that write a globals file.
WritesGlobals(i) == (i % 10 = 0 /\ i # 60) \/ i = 3 \/ i = 15

-----------------------------------------------------------------------------
(* Clips and batches. *)

Columns(count, i) ==
  {k \in 0 .. count + 6 : offset(i) + k * clipSize(i) < count}

Clips(i) == Columns(XCount, i) \X Columns(YCount, i)

\* The number of clips that progress is reported against.
tot(i) == ((XCount - 1 - offset(i)) \div clipSize(i) + 1)
          * ((YCount - 1 - offset(i)) \div clipSize(i) + 1)

Low(k, i) == offset(i) + k * clipSize(i)

\* Mutant: the next clip's first gcell is the last of this one.
Span_shared(k, count, i) ==
  {g \in 0 .. count - 1 : Low(k, i) <= g /\ g <= Low(k, i) + clipSize(i)}

\* The gcells of column (row) k: getGCellBox() cuts them off at the die.
Span(k, count, i) ==
  {g \in 0 .. count - 1 : Low(k, i) <= g /\ g <= Low(k, i) + clipSize(i) - 1}

Bloat(S, count) ==
  {g \in 0 .. count - 1 : \E h \in S : g \in {h - 1, h, h + 1}}

DrcBox(c, i) == Bloat(Span(c[1], XCount, i), XCount)
                \X Bloat(Span(c[2], YCount, i), YCount)

\* Mutant: a checkerboard of two colours.
batchIdx_checker(c) == (c[1] + c[2]) % 2

\* batchStepX = batchStepY = 2
batchIdx(c) == (c[1] % 2) * 2 + (c[2] % 2)

\* The order in which the clips were created.
Before(c, d) == c[1] < d[1] \/ (c[1] = d[1] /\ c[2] < d[2])

\* The place of a clip among the batches of its batchIdx.
Rank(c, i) ==
  Cardinality({d \in Clips(i) : batchIdx(d) = batchIdx(c) /\ Before(d, c)})

Batch(b, n, i) ==
  {c \in Clips(i) : batchIdx(c) = b /\ Rank(c, i) \div BATCHSIZE = n}

-----------------------------------------------------------------------------
VARIABLES
  iterNum,   \* the next call of searchRepair(), or the one under way
  phase,     \* "call", "route" (the parallel loop), "end" or "done"
  batch,     \* <<batchIdx, n>>: the batch under way
  todo,      \* its clips that no thread has taken yet
  running,   \* clips whose init() was done, not yet their route_queue()
  routed,    \* clips that were routed, not yet written back by end()
  initNum,   \* initNumMarkers_ of the clips
  best,      \* bestMarkers_ of the clips
  drc,       \* gcells with a violation in the design
  recheck,   \* gcells with a recheck marker in the design
  modified,  \* some net was written back since the last check()
  cost,      \* FIXEDSHAPECOST in ROUTESHAPECOSTs, 0 before the first call
  decay,     \* MARKERDECAY, in thousandths
  file       \* the globals file that workers are sent to

clipVars == <<todo, running, routed, initNum, best>>
globalVars == <<cost, decay, file>>
vars == <<iterNum, phase, batch, clipVars, drc, recheck, modified, globalVars>>

NoFile == [iter |-> -1, cost |-> 0, decay |-> 0]

\* Type invariant.
TypeOK ==
  /\ iterNum \in 0 .. 65
  /\ phase \in {"call", "route", "end", "done"}
  /\ batch \in (0 .. 3) \X Nat
  /\ phase \in {"route", "end"} =>
       /\ iterNum \in Iters
       /\ todo \cup running \cup routed \subseteq Batch(batch[1], batch[2], iterNum)
  /\ initNum \in [running \cup routed -> Nat]
  /\ best \in [routed -> SUBSET Sites]
  /\ drc \subseteq Sites /\ recheck \subseteq Sites
  /\ modified \in BOOLEAN
  /\ cost \in Nat /\ decay \in Nat
  /\ file \in [iter : Int, cost : Nat, decay : Nat]

Init ==
  /\ iterNum = 0 /\ phase = "call" /\ batch = <<0, 0>>
  /\ todo = {} /\ running = {} /\ routed = {}
  /\ initNum = [c \in {} |-> 0] /\ best = [c \in {} |-> {}]
  /\ drc = {} /\ recheck = {} /\ modified = FALSE
  /\ cost = 0 /\ decay = 950 /\ file = NoFile

-----------------------------------------------------------------------------
\* A function without c, and with c.
Without(f, c) == [d \in DOMAIN f \ {c} |-> f[d]]
With(f, c, v) == [d \in DOMAIN f \cup {c} |-> IF d = c THEN v ELSE f[d]]

Batches(i) == {<<batchIdx(c), Rank(c, i) \div BATCHSIZE>> : c \in Clips(i)}

\* b is the first of the batches in B.
First(b, B) == b \in B /\ \A d \in B : d = b \/ Before(b, d)

\* The parallel loop of batch b starts.
Start(b, i) ==
  /\ phase' = "route"
  /\ batch' = b
  /\ todo' = Batch(b[1], b[2], i)

\* searchRepair() has nothing to do.
Idle(i) == i > END_ITERATION \/ (~ RipupAll(i) /\ drc \cup recheck = {})

searchRepair_return ==
  /\ phase = "call" /\ iterNum \in Iters
  /\ Idle(iterNum)
  /\ iterNum' = iterNum + 1
  /\ UNCHANGED <<phase, batch, clipVars, drc, recheck, modified, globalVars>>

\* searchRepair() up to the first batch: costs, the globals file, the clips.
searchRepair ==
  /\ phase = "call" /\ iterNum \in Iters
  /\ ~ Idle(iterNum)
  /\ cost' = FixedShapeCost(iterNum)
  /\ decay' = CASE iterNum = 40 -> 990 [] iterNum = 50 -> 999 [] OTHER -> decay
  /\ file' = IF dist_on /\ WritesGlobals(iterNum)
             THEN [iter |-> iterNum, cost |-> cost', decay |-> decay']
             ELSE file
  /\ \E b \in Batches(iterNum) : First(b, Batches(iterNum)) /\ Start(b, iterNum)
  /\ UNCHANGED <<iterNum, running, routed, initNum, best, drc, recheck, modified>>

\* initMarkers()
InitNum(c, i) ==
  LET n == Cardinality(drc \cap DrcBox(c, i))
  IN IF i <= 1 /\ n = 0 THEN 1 ELSE n

skipRouting(c, i) ==
  i # 0 /\ InitNum(c, i) = 0 /\ recheck \cap DrcBox(c, i) = {}

Take(c) == phase = "route" /\ c \in todo /\ Cardinality(running) < MAX_THREADS

\* A thread takes a clip; init() finds nothing to repair.
init_skip(c) ==
  /\ Take(c) /\ skipRouting(c, iterNum)
  /\ todo' = todo \ {c}
  /\ UNCHANGED <<iterNum, phase, batch, running, routed, initNum, best>>
  /\ UNCHANGED <<drc, recheck, modified, globalVars>>

\* A thread takes a clip; init() reads the design.
init(c) ==
  /\ Take(c) /\ ~ skipRouting(c, iterNum)
  /\ todo' = todo \ {c}
  /\ running' = running \cup {c}
  /\ initNum' = With(initNum, c, InitNum(c, iterNum))
  /\ UNCHANGED <<iterNum, phase, batch, routed, best>>
  /\ UNCHANGED <<drc, recheck, modified, globalVars>>

\* route_queue(), here or in a worker process: the violations of the clip
\* are whatever the router leaves.
route_queue(c) ==
  /\ c \in running
  /\ running' = running \ {c}
  /\ routed' = routed \cup {c}
  /\ \E m \in SUBSET (Sites \cap DrcBox(c, iterNum)) : best' = With(best, c, m)
  /\ UNCHANGED <<iterNum, phase, batch, todo, initNum>>
  /\ UNCHANGED <<drc, recheck, modified, globalVars>>

\* The barrier at the end of the parallel loop.
barrier ==
  /\ phase = "route" /\ todo = {} /\ running = {}
  /\ phase' = "end"
  /\ UNCHANGED <<iterNum, batch, clipVars, drc, recheck, modified, globalVars>>

\* Mutant: the number of violations is not compared in repair iterations.
Worse_ripup(c) ==
  iterNum # 0 /\ RipupAll(iterNum) /\ Cardinality(best[c]) > 5 * initNum[c]

\* end() does not write a result back that is worse than what it replaces.
Worse(c) ==
  \/ ~ RipupAll(iterNum) /\ Cardinality(best[c]) > initNum[c]
  \/ iterNum # 0 /\ RipupAll(iterNum) /\ Cardinality(best[c]) > 5 * initNum[c]

\* end() of the clips of a batch, one after the other.
end(c) ==
  /\ phase = "end" /\ First(c, routed)
  /\ IF Worse(c)
     THEN UNCHANGED <<drc, recheck, modified>>
     ELSE /\ drc' = (drc \ DrcBox(c, iterNum)) \cup best[c]
          /\ recheck' = recheck \ DrcBox(c, iterNum)
          /\ modified' = TRUE
  /\ routed' = routed \ {c}
  /\ initNum' = Without(initNum, c)
  /\ best' = Without(best, c)
  /\ UNCHANGED <<iterNum, phase, batch, todo, running, globalVars>>

\* The batches that are left.
Later(i) == {b \in Batches(i) : Before(batch, b)}

\* Mutant: the next batch starts before the last end().
nextBatch_early ==
  /\ phase = "end" /\ Cardinality(routed) <= 1
  /\ \E b \in Later(iterNum) : First(b, Later(iterNum)) /\ Start(b, iterNum)
  /\ UNCHANGED <<iterNum, running, routed, initNum, best>>
  /\ UNCHANGED <<drc, recheck, modified, globalVars>>

nextBatch ==
  /\ phase = "end" /\ routed = {}
  /\ \E b \in Later(iterNum) : First(b, Later(iterNum)) /\ Start(b, iterNum)
  /\ UNCHANGED <<iterNum, running, routed, initNum, best>>
  /\ UNCHANGED <<drc, recheck, modified, globalVars>>

\* FlexDRConnectivityChecker::check(): a recheck marker wherever a shape of
\* a net that was written back is shortened or removed.
check ==
  /\ phase = "end" /\ routed = {} /\ Later(iterNum) = {}
  /\ \E m \in SUBSET Sites : recheck' = recheck \cup (IF modified THEN m ELSE {})
  /\ modified' = FALSE
  /\ phase' = "call"
  /\ iterNum' = iterNum + 1
  /\ UNCHANGED <<batch, clipVars, drc, globalVars>>

\* main() returns.
main_return ==
  /\ phase = "call" /\ iterNum \notin Iters
  /\ phase' = "done"
  /\ UNCHANGED <<iterNum, batch, clipVars, drc, recheck, modified, globalVars>>

MainStep ==
  \/ searchRepair_return \/ searchRepair \/ barrier \/ nextBatch \/ check
  \/ main_return \/ (\E c \in routed : end(c))

ThreadStep == \E c \in todo \cup running : init_skip(c) \/ init(c) \/ route_queue(c)

Next == MainStep \/ ThreadStep

Spec == Init /\ [][Next]_vars

-----------------------------------------------------------------------------
\* The clips of an iteration cut the grid up, in columns and in rows, and
\* progress is reported against their number.
CutsUp(count, i) ==
  \A g \in 0 .. count - 1 :
    \E k \in Columns(count, i) :
      \A l \in Columns(count, i) : g \in Span(l, count, i) <=> l = k

ClipsPartition ==
  phase = "call" /\ iterNum \in Iters =>
    /\ CutsUp(XCount, iterNum) /\ CutsUp(YCount, iterNum)
    /\ tot(iterNum) = Cardinality(Clips(iterNum))

\* What end() compares a result with is still the number of violations around
\* the clip, although other clips were written back since init() counted
\* them: the clips of a batch do not reach into one another.
InitCountCurrent ==
  \A c \in running \cup routed : initNum[c] = InitNum(c, iterNum)

\* A repair iteration never adds violations, in whatever order its clips are
\* routed.
RepairNeverWorsens ==
  [][~ RipupAll(iterNum) => Cardinality(drc') <= Cardinality(drc)]_vars

\* Whenever a clip is routed, the globals file that its worker is sent to has
\* the costs of the coordinator.  Not every iteration that changes a cost runs
\* and writes a new file: but one that is not run found the design clean, and
\* then no later iteration finds a clip to route.
GlobalsCurrent ==
  dist_on /\ running # {} =>
    file # NoFile /\ file.cost = cost /\ file.decay = decay
=============================================================================
