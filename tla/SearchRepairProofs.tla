------------------------- MODULE SearchRepairProofs -------------------------
(***************************************************************************)
(* What searchRepair() guarantees for every grid, every place where        *)
(* violations may arise, every BATCHSIZE and every number of threads.      *)
(***************************************************************************)
EXTENDS SearchRepair, FiniteSetTheorems, TLAPS

-----------------------------------------------------------------------------
(* The geometry of the clips. *)

\* Clips are odd and at least 3 gcells wide, whichever call of main() it is.
LEMMA ClipSizes ==
  ASSUME NEW i \in Iters
  PROVE  clipSize(i) \in {3, 5, 7} /\ offset(i) \in Int
<1>1. i \in Int /\ (i - 2) % 8 \in Int
  BY DEF Iters
<1>2. clipSize(i) \in {3, 5, 7}
  BY DEF clipSize
<1>3. offset(i) \in Int
  BY <1>1 DEF offset
<1> QED
  BY <1>2, <1>3

\* Two columns (rows) of the same parity are a clip apart, and do not meet
\* when each is extended by a gcell.
LEMMA ColumnsApart ==
  ASSUME NEW i \in Iters, NEW count \in Nat,
         NEW k \in Columns(count, i), NEW l \in Columns(count, i),
         k # l, k % 2 = l % 2
  PROVE  Bloat(Span(k, count, i), count) \cap Bloat(Span(l, count, i), count) = {}
<1>1. k \in Int /\ l \in Int /\ (k >= l + 2 \/ l >= k + 2)
  BY DEF Columns
<1>2. clipSize(i) \in {3, 5, 7} /\ offset(i) \in Int
  BY ClipSizes
<1>3. Low(k, i) \in Int /\ Low(l, i) \in Int
  BY <1>1, <1>2 DEF Low
<1>4. \/ Low(k, i) >= Low(l, i) + 2 * clipSize(i)
      \/ Low(l, i) >= Low(k, i) + 2 * clipSize(i)
  <2>1. CASE clipSize(i) = 3
    BY <1>1, <1>2, <2>1 DEF Low
  <2>2. CASE clipSize(i) = 5
    BY <1>1, <1>2, <2>2 DEF Low
  <2>3. CASE clipSize(i) = 7
    BY <1>1, <1>2, <2>3 DEF Low
  <2> QED
    BY <1>2, <2>1, <2>2, <2>3
<1>5. SUFFICES ASSUME NEW g \in Bloat(Span(k, count, i), count),
                      g \in Bloat(Span(l, count, i), count)
               PROVE  FALSE
  OBVIOUS
<1>6. PICK a \in Span(k, count, i) : g \in {a - 1, a, a + 1}
  BY <1>5 DEF Bloat
<1>7. PICK b \in Span(l, count, i) : g \in {b - 1, b, b + 1}
  BY <1>5 DEF Bloat
<1>8. /\ a \in Int /\ Low(k, i) <= a /\ a <= Low(k, i) + clipSize(i) - 1
      /\ b \in Int /\ Low(l, i) <= b /\ b <= Low(l, i) + clipSize(i) - 1
  BY <1>6, <1>7 DEF Span
<1>9. a - b \in {-2, -1, 0, 1, 2}
  BY <1>6, <1>7, <1>8
<1> QED
  BY <1>2, <1>3, <1>4, <1>8, <1>9

\* Two clips with the same batchIdx do not reach into one another.
LEMMA ClipsApart ==
  ASSUME NEW i \in Iters, NEW c \in Clips(i), NEW d \in Clips(i),
         c # d, batchIdx(c) = batchIdx(d)
  PROVE  DrcBox(c, i) \cap DrcBox(d, i) = {}
<1>1. /\ c[1] \in Columns(XCount, i) /\ c[2] \in Columns(YCount, i)
      /\ d[1] \in Columns(XCount, i) /\ d[2] \in Columns(YCount, i)
      /\ c[1] # d[1] \/ c[2] # d[2]
  BY DEF Clips
<1>2. c[1] \in Int /\ c[2] \in Int /\ d[1] \in Int /\ d[2] \in Int
  BY <1>1 DEF Columns
<1>3. c[1] % 2 = d[1] % 2 /\ c[2] % 2 = d[2] % 2
  <2>1. /\ c[1] % 2 \in {0, 1} /\ c[2] % 2 \in {0, 1}
        /\ d[1] % 2 \in {0, 1} /\ d[2] % 2 \in {0, 1}
    BY <1>2
  <2>2. (c[1] % 2) * 2 + (c[2] % 2) = (d[1] % 2) * 2 + (d[2] % 2)
    BY DEF batchIdx
  <2> QED
    BY <2>1, <2>2
<1>4. XCount \in Nat /\ YCount \in Nat
  BY GridAssumption
<1>5. CASE c[1] # d[1]
  <2>1. Bloat(Span(c[1], XCount, i), XCount)
        \cap Bloat(Span(d[1], XCount, i), XCount) = {}
    BY <1>1, <1>3, <1>4, <1>5, ColumnsApart
  <2> QED
    BY <2>1 DEF DrcBox
<1>6. CASE c[2] # d[2]
  <2>1. Bloat(Span(c[2], YCount, i), YCount)
        \cap Bloat(Span(d[2], YCount, i), YCount) = {}
    BY <1>1, <1>3, <1>4, <1>6, ColumnsApart
  <2> QED
    BY <2>1 DEF DrcBox
<1> QED
  BY <1>1, <1>5, <1>6

\* The batches of an iteration are named by a batchIdx and a number.
LEMMA BatchNames ==
  ASSUME NEW i \in Iters
  PROVE  Batches(i) \subseteq (0 .. 3) \X Nat
<1>1. IsFiniteSet(Clips(i))
  <2>1. ASSUME NEW count \in Nat
        PROVE  IsFiniteSet(Columns(count, i))
    <3>1. IsFiniteSet(0 .. count + 6)
      BY FS_Interval
    <3> QED
      BY <3>1, FS_Subset DEF Columns
  <2> QED
    BY <2>1, FS_Product, GridAssumption DEF Clips
<1>2. SUFFICES ASSUME NEW c \in Clips(i)
               PROVE  batchIdx(c) \in 0 .. 3 /\ Rank(c, i) \div BATCHSIZE \in Nat
  BY DEF Batches
<1>3. c[1] \in Int /\ c[2] \in Int
  BY DEF Clips, Columns
<1>4. batchIdx(c) \in 0 .. 3
  BY <1>3 DEF batchIdx
<1>5. Rank(c, i) \in Nat
  <2>1. {d \in Clips(i) : batchIdx(d) = batchIdx(c) /\ Before(d, c)}
        \in SUBSET Clips(i)
    OBVIOUS
  <2> QED
    BY <1>1, <2>1, FS_Subset, FS_CardinalityType DEF Rank
<1>6. BATCHSIZE \in Nat \ {0}
  BY GridAssumption
<1>7. Rank(c, i) \div BATCHSIZE \in Nat
  BY <1>5, <1>6
<1> QED
  BY <1>4, <1>7

-----------------------------------------------------------------------------
(* The inductive invariant. *)

\* Between the batches no clip is under way, and after the barrier of the
\* parallel loop none is being routed.
Quiet ==
  /\ phase \in {"call", "done"} => todo = {} /\ running = {} /\ routed = {}
  /\ phase = "end" => todo = {} /\ running = {}

\* The clips under way belong to the batch under way.
OneBatch ==
  phase \in {"route", "end"} =>
    \A c \in running \cup routed \cup todo :
      c \in Clips(iterNum) /\ batchIdx(c) = batch[1]

\* No clip is at two places.
Apart == todo \cap (running \cup routed) = {} /\ running \cap routed = {}

\* Results stay within their clip's drcBox_.
BestInBox == \A c \in routed : best[c] \subseteq DrcBox(c, iterNum)

CountInv ==
  /\ TypeOK
  /\ Quiet
  /\ OneBatch
  /\ Apart
  /\ BestInBox
  /\ InitCountCurrent

\* main() starts with no clip in work.
LEMMA InitCountInv == Init => CountInv
<1> SUFFICES ASSUME Init
             PROVE  CountInv
  OBVIOUS
<1>1. initNum \in [running \cup routed -> Nat] /\ best \in [routed -> SUBSET Sites]
  <2>1. running \cup routed = {} /\ routed = {}
    BY DEF Init
  <2>2. [c \in {} |-> 0] \in [{} -> Nat] /\ [c \in {} |-> {}] \in [{} -> SUBSET Sites]
    OBVIOUS
  <2> QED
    BY <2>1, <2>2 DEF Init
<1>2. file \in [iter : Int, cost : Nat, decay : Nat]
  BY DEF Init, NoFile
<1>3. /\ iterNum \in 0 .. 65 /\ batch \in (0 .. 3) \X Nat
      /\ cost \in Nat /\ decay \in Nat
  BY DEF Init
<1>4. modified \in BOOLEAN /\ phase = "call" /\ drc \subseteq Sites /\ recheck \subseteq Sites
  BY DEF Init
<1>5. TypeOK
  BY <1>1, <1>2, <1>3, <1>4 DEF TypeOK
<1> QED
  BY <1>5 DEF Init, CountInv, Quiet, OneBatch, Apart, BestInBox, InitCountCurrent

\* A count of violations is a number.
LEMMA CountType ==
  ASSUME TypeOK, NEW c, NEW i
  PROVE  /\ IsFiniteSet(drc)
         /\ Cardinality(drc \cap DrcBox(c, i)) \in Nat
         /\ InitNum(c, i) \in Nat
<1>1. IsFiniteSet(drc)
  BY FS_Subset, GridAssumption DEF TypeOK
<1>2. Cardinality(drc \cap DrcBox(c, i)) \in Nat
  BY <1>1, FS_Intersection, FS_CardinalityType
<1> QED
  BY <1>1, <1>2 DEF InitNum

\* A batch starts when no clip is under way.
LEMMA StartStep ==
  ASSUME CountInv, running = {}, routed = {},
         NEW i \in Iters, NEW b \in Batches(i), Start(b, i),
         iterNum' = i, UNCHANGED <<running, routed, initNum, best>>,
         UNCHANGED <<drc, recheck, modified>>,
         (cost \in Nat)', (decay \in Nat)',
         (file \in [iter : Int, cost : Nat, decay : Nat])'
  PROVE  CountInv'
<1>1. b \in (0 .. 3) \X Nat
  BY BatchNames
<1>2. todo' = Batch(b[1], b[2], i) /\ batch' = b /\ phase' = "route"
  BY DEF Start
<1>3. \A c \in todo' : c \in Clips(i) /\ batchIdx(c) = b[1]
  BY <1>2 DEF Batch
<1>4. TypeOK'
  BY <1>1, <1>2 DEF CountInv, TypeOK, Iters
<1> QED
  BY <1>2, <1>3, <1>4 DEF CountInv, Quiet, OneBatch, Apart, BestInBox, InitCountCurrent

-----------------------------------------------------------------------------
(* The steps preserve it. *)

\* A call of searchRepair() starts its first batch with no count taken.
LEMMA CountSearchRepair ==
  ASSUME CountInv, searchRepair
  PROVE  CountInv'
<1>1. iterNum \in Iters /\ running = {} /\ routed = {} /\ iterNum' = iterNum
  BY DEF searchRepair, CountInv, Quiet
<1>2. PICK b \in Batches(iterNum) : Start(b, iterNum)
  BY DEF searchRepair
<1>3. (cost \in Nat)' /\ (decay \in Nat)'
  <2>1. FixedShapeCost(iterNum) \in Nat
    BY DEF FixedShapeCost
  <2> QED
    BY <2>1 DEF searchRepair, CountInv, TypeOK
<1>4. (file \in [iter : Int, cost : Nat, decay : Nat])'
  <2>1. file \in [iter : Int, cost : Nat, decay : Nat]
    BY DEF CountInv, TypeOK
  <2>2. iterNum \in Int /\ cost' \in Nat /\ decay' \in Nat
    BY <1>1, <1>3 DEF Iters
  <2>3. file' = file \/ file' = [iter |-> iterNum, cost |-> cost', decay |-> decay']
    BY DEF searchRepair
  <2> QED
    BY <2>1, <2>2, <2>3
<1>5. UNCHANGED <<running, routed, initNum, best>>
  BY DEF searchRepair
<1>6. UNCHANGED <<drc, recheck, modified>>
  BY DEF searchRepair
<1> QED
  BY <1>1, <1>2, <1>3, <1>4, <1>5, <1>6, StartStep

\* A further batch starts when the one before has ended, so again with none.
LEMMA CountNextBatch ==
  ASSUME CountInv, nextBatch
  PROVE  CountInv'
<1>1. iterNum \in Iters /\ running = {} /\ routed = {} /\ iterNum' = iterNum
  BY DEF nextBatch, CountInv, Quiet, TypeOK
<1>2. PICK b \in Batches(iterNum) : Start(b, iterNum)
  BY DEF nextBatch, Later, First
<1>3. /\ (cost \in Nat)' /\ (decay \in Nat)'
      /\ (file \in [iter : Int, cost : Nat, decay : Nat])'
  BY DEF nextBatch, globalVars, CountInv, TypeOK
<1> QED
  BY <1>1, <1>2, <1>3, StartStep DEF nextBatch

\* init() of a clip counts the violations there are now.
LEMMA CountInit ==
  ASSUME CountInv, NEW c \in todo, init(c)
  PROVE  CountInv'
<1>1. /\ phase = "route" /\ iterNum \in Iters /\ phase' = phase
      /\ iterNum' = iterNum /\ batch' = batch /\ drc' = drc
      /\ todo' = todo \ {c} /\ running' = running \cup {c} /\ routed' = routed
      /\ best' = best /\ recheck' = recheck
  BY DEF init, Take, CountInv, TypeOK
<1>2. InitNum(c, iterNum) \in Nat
  BY CountType DEF CountInv
<1>3. initNum' = [d \in (running \cup routed) \cup {c} |->
                    IF d = c THEN InitNum(c, iterNum) ELSE initNum[d]]
  BY DEF init, With, CountInv, TypeOK
<1>4. initNum' \in [running' \cup routed' -> Nat]
  BY <1>1, <1>2, <1>3 DEF CountInv, TypeOK
<1>5. TypeOK'
  BY <1>1, <1>4 DEF init, globalVars, CountInv, TypeOK
<1>6. \A d : InitNum(d, iterNum)' = InitNum(d, iterNum)
  BY <1>1 DEF InitNum
<1>7. InitCountCurrent'
  BY <1>1, <1>3, <1>6 DEF CountInv, InitCountCurrent
<1> QED
  BY <1>1, <1>5, <1>7 DEF CountInv, Quiet, OneBatch, Apart, BestInBox

\* Routing a clip changes no violation of the design and keeps what it found
\* inside the clip.
LEMMA CountRoute ==
  ASSUME CountInv, NEW c, route_queue(c)
  PROVE  CountInv'
<1>1. /\ c \in running /\ phase = "route" /\ phase' = phase
      /\ iterNum' = iterNum /\ batch' = batch /\ drc' = drc
      /\ todo' = todo /\ running' = running \ {c} /\ routed' = routed \cup {c}
      /\ initNum' = initNum /\ recheck' = recheck
  BY DEF route_queue, CountInv, Quiet, TypeOK
<1>2. PICK m \in SUBSET (Sites \cap DrcBox(c, iterNum)) : best' = With(best, c, m)
  BY DEF route_queue
<1>3. best' = [d \in routed \cup {c} |-> IF d = c THEN m ELSE best[d]]
  BY <1>2 DEF With, CountInv, TypeOK
<1>4. best' \in [routed' -> SUBSET Sites]
  BY <1>1, <1>2, <1>3 DEF CountInv, TypeOK
<1>5. running' \cup routed' = running \cup routed
  BY <1>1
<1>6. TypeOK'
  BY <1>1, <1>4, <1>5 DEF route_queue, globalVars, CountInv, TypeOK
<1>7. InitCountCurrent'
  BY <1>1, <1>5 DEF CountInv, InitCountCurrent, InitNum
<1>8. BestInBox'
  BY <1>1, <1>2, <1>3 DEF CountInv, BestInBox
<1> QED
  BY <1>1, <1>6, <1>7, <1>8 DEF CountInv, Quiet, OneBatch, Apart

\* The clips that wait for their end() are not touched by that of another.
LEMMA CountEnd ==
  ASSUME CountInv, NEW c \in routed, end(c)
  PROVE  CountInv'
<1>1. /\ phase = "end" /\ iterNum \in Iters /\ phase' = phase
      /\ iterNum' = iterNum /\ batch' = batch /\ running = {} /\ todo = {}
      /\ todo' = todo /\ running' = running /\ routed' = routed \ {c}
      /\ c \in Clips(iterNum) /\ best[c] \subseteq Sites
      /\ best[c] \subseteq DrcBox(c, iterNum)
  BY DEF end, CountInv, TypeOK, Quiet, OneBatch, BestInBox
<1>2. /\ initNum' = [d \in routed \ {c} |-> initNum[d]]
      /\ best' = [d \in routed \ {c} |-> best[d]]
  BY <1>1 DEF end, Without, CountInv, TypeOK
<1>3. \/ UNCHANGED <<drc, recheck, modified>>
      \/ /\ drc' = (drc \ DrcBox(c, iterNum)) \cup best[c]
         /\ recheck' = recheck \ DrcBox(c, iterNum)
         /\ modified' = TRUE
  BY DEF end
<1>4. TypeOK'
  <2>1. initNum' \in [running' \cup routed' -> Nat] /\ best' \in [routed' -> SUBSET Sites]
    BY <1>1, <1>2 DEF CountInv, TypeOK
  <2>2. drc' \subseteq Sites /\ recheck' \subseteq Sites /\ modified' \in BOOLEAN
    BY <1>1, <1>3 DEF CountInv, TypeOK
  <2> QED
    BY <1>1, <2>1, <2>2 DEF end, globalVars, CountInv, TypeOK
<1>5. InitCountCurrent'
  <2>1. SUFFICES ASSUME NEW d \in routed \ {c}
                 PROVE  initNum'[d] = InitNum(d, iterNum)'
    BY <1>1 DEF InitCountCurrent
  <2>2. DrcBox(d, iterNum) \cap DrcBox(c, iterNum) = {}
    <3>1. d \in Clips(iterNum) /\ batchIdx(c) = batchIdx(d)
      BY <1>1, <2>1 DEF CountInv, OneBatch
    <3> QED
      BY <1>1, <2>1, <3>1, ClipsApart
  <2>3. drc' \cap DrcBox(d, iterNum) = drc \cap DrcBox(d, iterNum)
    BY <1>1, <1>3, <2>2
  <2>4. InitNum(d, iterNum)' = InitNum(d, iterNum)
    BY <1>1, <2>3 DEF InitNum
  <2> QED
    BY <1>2, <2>1, <2>4 DEF CountInv, InitCountCurrent
<1> QED
  BY <1>1, <1>2, <1>4, <1>5 DEF CountInv, Quiet, OneBatch, Apart, BestInBox

\* Steps that change neither the clips under way nor the violations.
LEMMA CountQuiet ==
  ASSUME CountInv,
         \/ searchRepair_return \/ barrier \/ check \/ main_return
         \/ \E c \in todo : init_skip(c)
  PROVE  CountInv'
<1>1. CASE searchRepair_return \/ main_return
  <2>1. /\ phase = "call" /\ phase' \in {"call", "done"} /\ iterNum' \in 0 .. 65
        /\ UNCHANGED <<batch, clipVars, drc, recheck, modified, globalVars>>
    BY <1>1 DEF searchRepair_return, main_return, CountInv, TypeOK, Iters
  <2> QED
    BY <2>1 DEF clipVars, globalVars, CountInv, TypeOK, Quiet, OneBatch, Apart,
       BestInBox, InitCountCurrent
<1>2. CASE barrier
  BY <1>2 DEF barrier, clipVars, globalVars, CountInv, TypeOK, Quiet, OneBatch, Apart,
     BestInBox, InitCountCurrent, InitNum
<1>3. CASE check
  <2>1. recheck' \subseteq Sites
    BY <1>3 DEF check, CountInv, TypeOK
  <2>2. /\ todo = {} /\ running = {} /\ routed = {} /\ iterNum' \in 0 .. 65
        /\ phase' = "call" /\ modified' \in BOOLEAN
        /\ UNCHANGED <<batch, clipVars, drc, globalVars>>
    <3>1. phase = "end" /\ iterNum \in Iters
      BY <1>3 DEF check, CountInv, TypeOK
    <3>2. todo = {} /\ running = {} /\ routed = {}
      BY <1>3, <3>1 DEF check, CountInv, Quiet
    <3>3. iterNum' \in 0 .. 65
      BY <1>3, <3>1 DEF check, Iters
    <3>4. modified' \in BOOLEAN
      BY <1>3 DEF check
    <3> QED
      BY <1>3, <3>2, <3>3, <3>4 DEF check
  <2>3. TypeOK'
    BY <2>1, <2>2 DEF clipVars, globalVars, CountInv, TypeOK
  <2> QED
    BY <2>2, <2>3 DEF clipVars, globalVars, CountInv, TypeOK, Quiet, OneBatch,
       Apart, BestInBox, InitCountCurrent
<1>4. CASE \E c \in todo : init_skip(c)
  BY <1>4 DEF init_skip, Take, globalVars, CountInv, TypeOK, Quiet, OneBatch, Apart,
     BestInBox, InitCountCurrent, InitNum
<1> QED
  BY <1>1, <1>2, <1>3, <1>4

\* Every step of an iteration keeps the counts.
LEMMA CountNext == CountInv /\ [Next]_vars => CountInv'
<1> SUFFICES ASSUME CountInv, [Next]_vars
             PROVE  CountInv'
  OBVIOUS
<1>1. CASE searchRepair
  BY <1>1, CountSearchRepair
<1>2. CASE nextBatch
  BY <1>2, CountNextBatch
<1>3. CASE \E c \in routed : end(c)
  BY <1>3, CountEnd
<1>4. CASE searchRepair_return \/ barrier \/ check \/ main_return
  BY <1>4, CountQuiet
<1>5. CASE ThreadStep
  <2>1. PICK c \in todo \cup running : init_skip(c) \/ init(c) \/ route_queue(c)
    BY <1>5 DEF ThreadStep
  <2>2. init_skip(c) \/ init(c) => c \in todo
    BY DEF init_skip, init, Take
  <2> QED
    BY <2>1, <2>2, CountQuiet, CountInit, CountRoute
<1>6. CASE UNCHANGED vars
  BY <1>6 DEF vars, clipVars, globalVars, CountInv, TypeOK, Quiet, OneBatch, Apart,
     BestInBox, InitCountCurrent, InitNum
<1> QED
  BY <1>1, <1>2, <1>3, <1>4, <1>5, <1>6 DEF Next, MainStep

\* Every variable keeps its type, for every grid, bound and number of threads.
THEOREM TypeCorrect == Spec => []TypeOK
<1>1. CountInv => TypeOK
  BY DEF CountInv
<1> QED
  BY <1>1, InitCountInv, CountNext, PTL DEF Spec

\* The number that end() compares a clip's result with is still that of the
\* design: two clips that are routed at the same time never reach into one
\* another, whatever the grid and the iteration.
THEOREM CountCurrent == Spec => []InitCountCurrent
<1>1. CountInv => InitCountCurrent
  BY DEF CountInv
<1> QED
  BY <1>1, InitCountInv, CountNext, PTL DEF Spec

-----------------------------------------------------------------------------
(* Repair iterations. *)

\* Replacing the part of a finite set in D by one that is no larger.
LEMMA ReplaceNoLarger ==
  ASSUME NEW S, IsFiniteSet(S), NEW D, NEW B, IsFiniteSet(B),
         Cardinality(B) <= Cardinality(S \cap D)
  PROVE  Cardinality((S \ D) \cup B) <= Cardinality(S)
<1>1. /\ IsFiniteSet(S \ D)
      /\ Cardinality(S \ D) = Cardinality(S) - Cardinality(S \cap D)
  BY FS_Difference
<1>2. Cardinality((S \ D) \cup B)
        = Cardinality(S \ D) + Cardinality(B) - Cardinality((S \ D) \cap B)
  BY <1>1, FS_Union
<1>3. /\ Cardinality((S \ D) \cap B) \in Nat /\ Cardinality(B) \in Nat
      /\ Cardinality(S) \in Nat /\ Cardinality(S \cap D) \in Nat
  BY <1>1, FS_Intersection, FS_CardinalityType
<1> QED
  BY <1>1, <1>2, <1>3

\* In repair iterations the design never gets more violations.
LEMMA RepairStep ==
  ASSUME CountInv, [Next]_vars, ~ RipupAll(iterNum)
  PROVE  Cardinality(drc') <= Cardinality(drc)
<1>1. IsFiniteSet(drc) /\ Cardinality(drc) \in Nat
  BY CountType, FS_CardinalityType DEF CountInv
<1>2. CASE drc' = drc
  BY <1>1, <1>2
<1>3. CASE \E c \in routed : end(c)
  <2>1. PICK c \in routed : end(c)
    BY <1>3
  <2>2. CASE Worse(c)
    BY <1>2, <2>1, <2>2 DEF end
  <2>3. CASE ~ Worse(c)
    <3>1. drc' = (drc \ DrcBox(c, iterNum)) \cup best[c]
      BY <2>1, <2>3 DEF end
    <3>2. IsFiniteSet(best[c]) /\ Cardinality(best[c]) \in Nat
      BY FS_Subset, FS_CardinalityType, GridAssumption DEF CountInv, TypeOK
    <3>3. Cardinality(best[c]) <= initNum[c]
      <4>1. initNum[c] \in Nat
        BY DEF CountInv, TypeOK
      <4> QED
        BY <2>3, <3>2, <4>1 DEF Worse
    <3>4. initNum[c] = Cardinality(drc \cap DrcBox(c, iterNum))
      <4>1. iterNum > 1
        BY DEF RipupAll, CountInv, TypeOK
      <4> QED
        BY <4>1 DEF CountInv, TypeOK, InitCountCurrent, InitNum
    <3> QED
      BY <1>1, <3>1, <3>2, <3>3, <3>4, ReplaceNoLarger
  <2> QED
    BY <2>2, <2>3
<1>4. drc' = drc \/ \E c \in routed : end(c)
  BY DEF Next, MainStep, ThreadStep, vars, searchRepair_return, searchRepair, barrier,
     nextBatch, check, main_return, init_skip, init, route_queue
<1> QED
  BY <1>2, <1>3, <1>4

\* A repair iteration never adds violations, whatever the router finds and
\* in whatever order the threads route the clips.
THEOREM RepairNeverWorsensHolds == Spec => RepairNeverWorsens
<1>1. CountInv /\ [Next]_vars
        => [~ RipupAll(iterNum) => Cardinality(drc') <= Cardinality(drc)]_vars
  BY RepairStep
<1> QED
  BY <1>1, InitCountInv, CountNext, PTL DEF Spec, RepairNeverWorsens

-----------------------------------------------------------------------------
(* Costs. *)

\* MARKERDECAY in iteration i, if it was not missed.
DecayOf(i) == IF i < 40 THEN 950 ELSE IF i < 50 THEN 990 ELSE 999

\* The costs that iteration i sets are also those of the globals file.
Synced(i) ==
  /\ decay = DecayOf(i) /\ file.decay = DecayOf(i)
  /\ file.cost = FixedShapeCost(i)

\* From iteration 2 on, a design without markers stays so: no clip is routed.
Clean == iterNum > 2 /\ drc = {} /\ recheck = {} /\ ~ modified

BetweenCalls ==
  /\ ~ modified
  /\ iterNum = 0 => decay = DecayOf(0)
  /\ iterNum > 0 => Clean \/ iterNum - 1 > END_ITERATION \/ Synced(iterNum - 1)

DuringCall ==
  /\ cost = FixedShapeCost(iterNum)
  /\ (Clean /\ running = {} /\ routed = {}) \/ Synced(iterNum)

\* The coordinator's costs and the file's differ only when nothing is routed.
CostInv ==
  dist_on =>
    /\ phase = "call" => BetweenCalls
    /\ phase \in {"route", "end"} => DuringCall

\* Every iteration that changes a cost writes the globals file.
LEMMA CostsChange ==
  ASSUME NEW i \in Iters, i > 0, ~ WritesGlobals(i)
  PROVE  FixedShapeCost(i) = FixedShapeCost(i - 1) /\ DecayOf(i) = DecayOf(i - 1)
BY DEF Iters, WritesGlobals, FixedShapeCost, DecayOf

\* MARKERDECAY changes at iterations 40 and 50 only.
LEMMA DecayChange ==
  ASSUME NEW i \in Iters, i > 0, decay = DecayOf(i - 1)
  PROVE  (CASE i = 40 -> 990 [] i = 50 -> 999 [] OTHER -> decay) = DecayOf(i)
BY DEF Iters, DecayOf

\* A call that runs writes its costs, or finds them written.
LEMMA CostSearchRepair ==
  ASSUME CountInv, CostInv, searchRepair
  PROVE  CostInv'
<1> SUFFICES ASSUME dist_on
             PROVE  DuringCall'
  BY DEF searchRepair, Start, CostInv
<1> DEFINE i == iterNum
           d == CASE i = 40 -> 990 [] i = 50 -> 999 [] OTHER -> decay
<1>1. /\ phase = "call" /\ i \in Iters /\ ~ Idle(i)
      /\ cost' = FixedShapeCost(i) /\ decay' = d
      /\ file' = IF WritesGlobals(i)
                 THEN [iter |-> i, cost |-> FixedShapeCost(i), decay |-> d] ELSE file
      /\ UNCHANGED <<iterNum, running, routed, drc, recheck, modified>>
  BY DEF searchRepair
<1>2. BetweenCalls /\ running = {} /\ routed = {}
  BY <1>1 DEF CostInv, CountInv, Quiet
<1>3. CASE Clean
  BY <1>1, <1>2, <1>3 DEF DuringCall, Clean
<1>4. CASE i = 0
  <2>1. WritesGlobals(i) /\ d = DecayOf(i)
    BY <1>2, <1>4 DEF WritesGlobals, BetweenCalls, DecayOf
  <2> QED
    BY <1>1, <2>1 DEF DuringCall, Synced
<1>5. CASE i > 0 /\ Synced(i - 1)
  <2>1. d = DecayOf(i)
    BY <1>1, <1>5, DecayChange DEF Synced
  <2>2. CASE WritesGlobals(i)
    BY <1>1, <2>1, <2>2 DEF DuringCall, Synced
  <2>3. CASE ~ WritesGlobals(i)
    BY <1>1, <1>5, <2>1, <2>3, CostsChange DEF DuringCall, Synced
  <2> QED
    BY <2>2, <2>3
<1>6. ~ (i > 0 /\ i - 1 > END_ITERATION)
  BY <1>1, GridAssumption DEF Idle, Iters
<1> QED
  BY <1>1, <1>2, <1>3, <1>4, <1>5, <1>6 DEF BetweenCalls, Iters

\* A call that has nothing to do found the design clean, or is past the last.
LEMMA CostReturn ==
  ASSUME CountInv, CostInv, searchRepair_return
  PROVE  CostInv'
<1> SUFFICES ASSUME dist_on
             PROVE  BetweenCalls'
  BY DEF searchRepair_return, CostInv
<1>1. /\ phase = "call" /\ iterNum \in Iters /\ Idle(iterNum) /\ iterNum' = iterNum + 1
      /\ UNCHANGED <<drc, recheck, modified, decay, file>>
  BY DEF searchRepair_return, globalVars
<1>2. BetweenCalls
  BY <1>1 DEF CostInv
<1>3. CASE iterNum > END_ITERATION
  BY <1>1, <1>2, <1>3 DEF BetweenCalls, Iters
<1>4. CASE ~ RipupAll(iterNum) /\ drc \cup recheck = {}
  BY <1>1, <1>2, <1>4 DEF BetweenCalls, Clean, RipupAll, Iters
<1> QED
  BY <1>1, <1>3, <1>4 DEF Idle

\* A clip of a clean design is skipped.
LEMMA CleanSkips ==
  ASSUME CountInv, Clean, NEW c
  PROVE  skipRouting(c, iterNum)
<1>1. Cardinality(drc \cap DrcBox(c, iterNum)) = 0
  BY FS_EmptySet DEF Clean
<1> QED
  BY <1>1 DEF Clean, skipRouting, InitNum, CountInv, TypeOK

\* Every step of an iteration keeps what the costs rest on.
LEMMA CostNext == CountInv /\ CostInv /\ [Next]_vars => CostInv'
<1> SUFFICES ASSUME CountInv, CostInv, [Next]_vars
             PROVE  CostInv'
  OBVIOUS
<1> USE DEF CostInv, DuringCall, Synced, Clean
<1>1. CASE searchRepair
  BY <1>1, CostSearchRepair
<1>2. CASE searchRepair_return
  BY <1>2, CostReturn
<1>3. CASE check
  <2>1. /\ phase = "end" /\ routed = {} /\ phase' = "call" /\ iterNum' = iterNum + 1
        /\ ~ modified => recheck' = recheck
        /\ ~ modified' /\ UNCHANGED <<drc, decay, file>> /\ iterNum \in Iters
    BY <1>3 DEF check, clipVars, globalVars, CountInv, TypeOK
  <2> QED
    BY <2>1 DEF BetweenCalls, Iters
<1>4. CASE \E c \in todo : init(c)
  <2>1. PICK c \in todo : init(c)
    BY <1>4
  <2> QED
    BY <2>1, CleanSkips DEF init, Take, globalVars
<1>5. CASE \E c \in running : route_queue(c)
  BY <1>5 DEF route_queue, globalVars, CountInv, Quiet, TypeOK
<1>6. CASE \E c \in routed : end(c)
  BY <1>6 DEF end, globalVars
<1>7. CASE (\E c \in todo : init_skip(c)) \/ nextBatch \/ barrier \/ main_return
  BY <1>7 DEF init_skip, Take, nextBatch, Start, barrier, main_return, clipVars, globalVars
<1>8. CASE UNCHANGED vars
  BY <1>8 DEF vars, clipVars, globalVars, BetweenCalls
<1>9. ThreadStep => \/ \E c \in todo : init(c) \/ init_skip(c)
                    \/ \E c \in running : route_queue(c)
  BY DEF ThreadStep, init, init_skip, Take, route_queue
<1> QED
  BY <1>1, <1>2, <1>3, <1>4, <1>5, <1>6, <1>7, <1>8, <1>9 DEF Next, MainStep

\* No clip is routed by a worker process with other costs than the router's,
\* although iterations that would write the globals file may not run.
THEOREM GlobalsCurrentHolds == Spec => []GlobalsCurrent
<1>1. Init => CostInv
  BY DEF Init, CostInv, BetweenCalls, DecayOf
<1>2. CountInv /\ CostInv => GlobalsCurrent
  <2> SUFFICES ASSUME CountInv, CostInv, dist_on, running # {}
               PROVE  file # NoFile /\ file.cost = cost /\ file.decay = decay
    BY DEF GlobalsCurrent
  <2>1. phase = "route" /\ iterNum \in Iters
    BY DEF CountInv, Quiet, TypeOK
  <2>2. Synced(iterNum) /\ cost = FixedShapeCost(iterNum)
    BY <2>1 DEF CostInv, DuringCall
  <2>3. FixedShapeCost(iterNum) # 0
    BY <2>1 DEF FixedShapeCost, Iters
  <2> QED
    BY <2>2, <2>3 DEF Synced, NoFile
<1> QED
  BY <1>1, <1>2, InitCountInv, CountNext, CostNext, PTL DEF Spec

-----------------------------------------------------------------------------
(* The clips of an iteration. *)

\* The first clip starts less than a clip before the grid.
LEMMA OffsetRange ==
  ASSUME NEW i \in Iters
  PROVE  offset(i) \in -7 .. 0
<1>1. i \in Nat /\ i <= 64
  BY DEF Iters
<1>2. (i - 2) % 8 \in 0 .. 7
  BY <1>1
<1>3. i \in 3 .. 9 => 3 - i \in -6 .. 0
  BY <1>1
<1> QED
  BY <1>2, <1>3 DEF offset

\* Columns are numbered from 0, without a gap, up to the one of the last gcell.
LEMMA ColumnsAre ==
  ASSUME NEW i \in Iters, NEW count \in Nat \ {0},
         NEW n, n = (count - 1 - offset(i)) \div clipSize(i)
  PROVE  n \in Nat /\ Columns(count, i) = 0 .. n
<1> DEFINE s == clipSize(i)
           o == offset(i)
<1>1. s \in {3, 5, 7} /\ o \in Int /\ -7 <= o /\ o <= 0
  BY ClipSizes, OffsetRange
<1>2. n = (count - 1 - o) \div s
  OBVIOUS
<1>3. \A k : k \in Columns(count, i) <=> k \in 0 .. count + 6 /\ o + k * s < count
  BY DEF Columns
<1> HIDE DEF s, o
<1>4. n \in Int /\ n * s <= count - 1 - o /\ count - 1 - o < n * s + s
  <2>1. CASE s = 3
    BY <1>1, <1>2, <2>1
  <2>2. CASE s = 5
    BY <1>1, <1>2, <2>2
  <2>3. CASE s = 7
    BY <1>1, <1>2, <2>3
  <2> QED
    BY <1>1, <2>1, <2>2, <2>3
<1>5. n \in Nat /\ n <= count + 6
  <2>1. CASE s = 3
    BY <1>1, <1>4, <2>1
  <2>2. CASE s = 5
    BY <1>1, <1>4, <2>2
  <2>3. CASE s = 7
    BY <1>1, <1>4, <2>3
  <2> QED
    BY <1>1, <2>1, <2>2, <2>3
<1>6. ASSUME NEW k \in Nat
      PROVE  o + k * s \in Int /\ (k <= n <=> o + k * s < count)
  <2>1. CASE s = 3
    BY <1>1, <1>4, <2>1
  <2>2. CASE s = 5
    BY <1>1, <1>4, <2>2
  <2>3. CASE s = 7
    BY <1>1, <1>4, <2>3
  <2> QED
    BY <1>1, <2>1, <2>2, <2>3
<1>7. Columns(count, i) = 0 .. n
  <2>1. \A k : k \in 0 .. count + 6 => k \in Nat
    OBVIOUS
  <2>2. \A k : k \in 0 .. n <=> k \in 0 .. count + 6 /\ k <= n
    BY <1>5
  <2>3. \A k : k \in Columns(count, i) <=> k \in 0 .. n
    BY <1>3, <1>6, <2>1, <2>2
  <2> QED
    BY <2>3
<1> QED
  BY <1>5, <1>7

\* Every gcell is in exactly one column.
LEMMA ColumnsCut ==
  ASSUME NEW i \in Iters, NEW count \in Nat \ {0}
  PROVE  CutsUp(count, i)
<1> DEFINE s == clipSize(i)
           o == offset(i)
<1>1. s \in {3, 5, 7} /\ o \in Int /\ -7 <= o /\ o <= 0
  BY ClipSizes, OffsetRange
<1>2. \A k : Low(k, i) = o + k * s
  BY DEF Low
<1>3. \A k : k \in Columns(count, i) <=> k \in 0 .. count + 6 /\ o + k * s < count
  BY DEF Columns
<1>4. \A k, g : g \in Span(k, count, i)
                  <=> g \in 0 .. count - 1 /\ o + k * s <= g /\ g <= o + k * s + s - 1
  BY DEF Span, Low
<1> HIDE DEF s, o
<1> SUFFICES ASSUME NEW g \in 0 .. count - 1
             PROVE  \E k \in Columns(count, i) :
                      \A l \in Columns(count, i) : g \in Span(l, count, i) <=> l = k
  BY DEF CutsUp
<1> DEFINE k == (g - o) \div s
<1>5. k \in Int /\ k * s <= g - o /\ g - o < k * s + s
  <2>1. CASE s = 3
    BY <1>1, <2>1
  <2>2. CASE s = 5
    BY <1>1, <2>2
  <2>3. CASE s = 7
    BY <1>1, <2>3
  <2> QED
    BY <1>1, <2>1, <2>2, <2>3
<1> HIDE DEF k
<1>6. k \in 0 .. count + 6 /\ o + k * s < count
  <2>1. CASE s = 3
    BY <1>1, <1>5, <2>1
  <2>2. CASE s = 5
    BY <1>1, <1>5, <2>2
  <2>3. CASE s = 7
    BY <1>1, <1>5, <2>3
  <2> QED
    BY <1>1, <2>1, <2>2, <2>3
<1>7. ASSUME NEW l \in 0 .. count + 6
      PROVE  (o + l * s <= g /\ g <= o + l * s + s - 1) <=> l = k
  <2>1. CASE s = 3
    BY <1>1, <1>5, <2>1
  <2>2. CASE s = 5
    BY <1>1, <1>5, <2>2
  <2>3. CASE s = 7
    BY <1>1, <1>5, <2>3
  <2> QED
    BY <1>1, <2>1, <2>2, <2>3
<1> QED
  BY <1>3, <1>4, <1>6, <1>7

\* The clips are as many as progress is reported against.
LEMMA ClipsCounted ==
  ASSUME NEW i \in Iters
  PROVE  tot(i) = Cardinality(Clips(i))
<1> DEFINE m == (XCount - 1 - offset(i)) \div clipSize(i)
           n == (YCount - 1 - offset(i)) \div clipSize(i)
<1>1. XCount \in Nat \ {0} /\ YCount \in Nat \ {0}
  BY GridAssumption
<1>2. m \in Nat /\ Columns(XCount, i) = 0 .. m /\ n \in Nat /\ Columns(YCount, i) = 0 .. n
  BY <1>1, ColumnsAre
<1>3. tot(i) = (m + 1) * (n + 1) /\ Clips(i) = Columns(XCount, i) \X Columns(YCount, i)
  BY DEF tot, Clips
<1> HIDE DEF m, n
<1>4. ASSUME NEW k \in Nat
      PROVE  IsFiniteSet(0 .. k) /\ Cardinality(0 .. k) = k + 1
  <2>1. IsFiniteSet(0 .. k) /\ Cardinality(0 .. k) = IF 0 > k THEN 0 ELSE k - 0 + 1
    BY FS_Interval
  <2> QED
    BY <2>1
<1>5. Cardinality((0 .. m) \X (0 .. n)) = Cardinality(0 .. m) * Cardinality(0 .. n)
  BY <1>2, <1>4, FS_Product
<1> QED
  BY <1>2, <1>3, <1>4, <1>5

\* Whatever the grid and the iteration, every gcell is in exactly one column
\* and one row of clips, although the first clips hang over the grid and the
\* last ones are cut off, and the total of the progress report is the number
\* of clips.
THEOREM ClipsPartitionHolds == Spec => []ClipsPartition
<1>1. ClipsPartition
  <2>1. XCount \in Nat \ {0} /\ YCount \in Nat \ {0}
    BY GridAssumption
  <2> QED
    BY <2>1, ColumnsCut, ClipsCounted DEF ClipsPartition
<1> QED
  BY <1>1, PTL
=============================================================================
