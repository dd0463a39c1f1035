--------------------------- MODULE dbTableProofs ---------------------------
(***************************************************************************)
(* What the paged object table guarantees for every page size and every    *)
(* number of pages.                                                        *)
(***************************************************************************)
EXTENDS dbTable, FiniteSetTheorems, SequenceTheorems, WellFoundedInduction,
        TLAPS

-----------------------------------------------------------------------------
(* The free list of a table with slots 0 .. top - 1. *)

\* The slots 1 .. top - 1 are objs and, once each, the slots on q.
Exact(objs, q, top) ==
  /\ top \in Nat /\ objs \subseteq 1 .. top - 1
  /\ q \in Seq(Nat)
  /\ \A i, j \in DOMAIN q : i # j => q[i] # q[j]
  /\ \A i \in DOMAIN q : q[i] \in (1 .. top - 1) \ objs
  /\ \A id \in (1 .. top - 1) \ objs : \E i \in DOMAIN q : q[i] = id

\* popQ()
LEMMA ExactPop ==
  ASSUME NEW objs, NEW q, NEW top, Exact(objs, q, top), q # << >>
  PROVE  /\ Head(q) \in (1 .. top - 1) \ objs
         /\ Exact(objs \cup {Head(q)}, Tail(q), top)
<1>1. /\ Len(q) \in Nat /\ DOMAIN q = 1 .. Len(q) /\ Len(q) > 0
      /\ Tail(q) \in Seq(Nat) /\ Len(Tail(q)) = Len(q) - 1
      /\ \A i \in 1 .. Len(Tail(q)) : Tail(q)[i] = q[i + 1]
      /\ DOMAIN Tail(q) = 1 .. Len(q) - 1
  BY HeadTailProperties, LenProperties, EmptySeq DEF Exact
<1>2. Head(q) = q[1]
  BY <1>1 DEF Exact
<1>3. Head(q) \in (1 .. top - 1) \ objs
  BY <1>1, <1>2 DEF Exact
<1>4. \A i \in DOMAIN Tail(q) : i + 1 \in DOMAIN q /\ Tail(q)[i] = q[i + 1]
  BY <1>1
<1>5. \A i, j \in DOMAIN Tail(q) : i # j => Tail(q)[i] # Tail(q)[j]
  BY <1>1, <1>4 DEF Exact
<1>6. \A i \in DOMAIN Tail(q) : Tail(q)[i] \in (1 .. top - 1) \ (objs \cup {Head(q)})
  BY <1>1, <1>2, <1>4 DEF Exact
<1>7. ASSUME NEW id \in (1 .. top - 1) \ (objs \cup {Head(q)})
      PROVE  \E i \in DOMAIN Tail(q) : Tail(q)[i] = id
  <2>1. PICK k \in DOMAIN q : q[k] = id
    BY DEF Exact
  <2>2. k # 1 /\ k - 1 \in DOMAIN Tail(q)
    BY <1>1, <1>2, <2>1
  <2> QED
    BY <1>1, <2>1, <2>2
<1> QED
  BY <1>1, <1>3, <1>5, <1>6, <1>7 DEF Exact

\* pushQ()
LEMMA ExactPush ==
  ASSUME NEW objs, NEW q, NEW top, Exact(objs, q, top), NEW id \in objs
  PROVE  Exact(objs \ {id}, pushQ(q, id), top)
<1> DEFINE r == pushQ(q, id)
<1>1. id \in Nat /\ id \in 1 .. top - 1
  BY DEF Exact
<1>2. Len(q) \in Nat /\ DOMAIN q = 1 .. Len(q)
  BY LenProperties DEF Exact
<1>3. /\ r \in Seq(Nat) /\ Len(r) = Len(q) + 1
      /\ \A i \in 1 .. Len(q) + 1 : r[i] = IF i = 1 THEN id ELSE q[i - 1]
  <2>1. <<id>> \in Seq(Nat) /\ Len(<<id>>) = 1 /\ <<id>>[1] = id
    BY <1>1
  <2>2. /\ r \in Seq(Nat) /\ Len(r) = 1 + Len(q)
        /\ \A i \in 1 .. 1 + Len(q) : r[i] = IF i <= 1 THEN <<id>>[i] ELSE q[i - 1]
    BY <2>1, ConcatProperties DEF pushQ, Exact
  <2> QED
    BY <1>2, <2>1, <2>2
<1>4. DOMAIN r = 1 .. Len(q) + 1
  BY <1>3, LenProperties
<1> HIDE DEF r
<1>5. \A i \in DOMAIN r : i # 1 => i - 1 \in DOMAIN q /\ r[i] = q[i - 1]
  BY <1>2, <1>3, <1>4
<1>6. 1 \in DOMAIN r /\ r[1] = id
  BY <1>2, <1>3, <1>4
<1>7. \A i, j \in DOMAIN r : i # j => r[i] # r[j]
  <2>1. \A i \in DOMAIN q : q[i] # id
    BY DEF Exact
  <2>2. \A i, j \in DOMAIN r : i # j /\ i # 1 /\ j # 1 => r[i] # r[j]
    BY <1>4, <1>5 DEF Exact
  <2> QED
    BY <1>5, <1>6, <2>1, <2>2
<1>8. \A i \in DOMAIN r : r[i] \in (1 .. top - 1) \ (objs \ {id})
  BY <1>1, <1>5, <1>6 DEF Exact
<1>9. ASSUME NEW x \in (1 .. top - 1) \ (objs \ {id})
      PROVE  \E i \in DOMAIN r : r[i] = x
  <2>1. CASE x = id
    BY <1>6, <2>1
  <2>2. CASE x # id
    <3>1. PICK k \in DOMAIN q : q[k] = x
      BY <2>2 DEF Exact
    <3>2. k + 1 \in DOMAIN r /\ r[k + 1] = x
      BY <1>2, <1>3, <1>4, <3>1
    <3> QED
      BY <3>2
  <2> QED
    BY <2>1, <2>2
<1> QED
  BY <1>3, <1>7, <1>8, <1>9 DEF Exact, r

\* newPage() when the free list is empty.
LEMMA ExactPage ==
  ASSUME NEW objs, page_cnt \in Nat, Exact(objs, << >>, page_cnt * PageSize)
  PROVE  /\ Exact(objs, NewPage, (page_cnt + 1) * PageSize)
         /\ NewPage # << >>
<1> DEFINE first == IF page_cnt = 0 THEN 1 ELSE page_cnt * PageSize
           top == (page_cnt + 1) * PageSize
           m == top - first
<1>1. PageSize \in Nat /\ PageSize > 1
  BY PageAssumption
<1>2. page_cnt * PageSize \in Nat /\ top = page_cnt * PageSize + PageSize
  BY <1>1
<1>3. first \in Nat /\ top \in Nat /\ m \in Nat /\ m > 0 /\ first >= 1
  <2>1. page_cnt # 0 => page_cnt * PageSize >= 1
    BY <1>1
  <2>2. page_cnt = 0 => top = PageSize
    BY <1>1
  <2> QED
    BY <1>1, <1>2, <2>1, <2>2
<1>4. objs = 1 .. page_cnt * PageSize - 1 /\ objs = 1 .. first - 1
  <2>1. \A id \in 1 .. page_cnt * PageSize - 1 : id \in objs
    BY DEF Exact
  <2>2. objs \subseteq 1 .. page_cnt * PageSize - 1
    BY DEF Exact
  <2>3. page_cnt = 0 => 1 .. page_cnt * PageSize - 1 = {} /\ 1 .. first - 1 = {}
    BY <1>1
  <2>4. page_cnt # 0 => first = page_cnt * PageSize
    OBVIOUS
  <2> HIDE DEF first
  <2> QED
    BY <2>1, <2>2, <2>3, <2>4
<1>5. NewPage = [i \in 1 .. m |-> first + i - 1]
  BY DEF NewPage
<1> HIDE DEF m, first, top
<1>6. NewPage \in Seq(Nat)
  <2>1. [i \in 1 .. m |-> first + i - 1] \in [1 .. m -> Nat]
    BY <1>3
  <2> QED
    BY <1>3, <1>5, <2>1, SeqDef
<1>7. DOMAIN NewPage = 1 .. m /\ \A i \in 1 .. m : NewPage[i] = first + i - 1
  BY <1>5
<1>8. top = first + m
  BY <1>3 DEF m
<1>9. \A x : x \in objs <=> x \in Int /\ 1 <= x /\ x <= first - 1
  <2>1. objs = 1 .. first - 1
    BY <1>4
  <2> QED
    BY <1>3, <2>1
<1>10. \A i, j \in 1 .. m : i # j => NewPage[i] # NewPage[j]
  BY <1>3, <1>7
<1>11. \A i \in 1 .. m : NewPage[i] \in (1 .. top - 1) \ objs
  BY <1>3, <1>9, <1>7, <1>8
<1>12. ASSUME NEW id \in (1 .. top - 1) \ objs
       PROVE  \E i \in 1 .. m : NewPage[i] = id
  <2>1. id - first + 1 \in 1 .. m
    BY <1>3, <1>9, <1>8
  <2>2. NewPage[id - first + 1] = id
    BY <1>3, <1>7, <2>1
  <2> QED
    BY <2>1, <2>2
<1>13. objs \subseteq 1 .. top - 1
  BY <1>3, <1>9, <1>8
<1>14. NewPage # << >>
  BY <1>3, <1>7
<1> QED
  BY <1>3, <1>6, <1>7, <1>10, <1>11, <1>12, <1>13, <1>14 DEF Exact, top

-----------------------------------------------------------------------------
(* The inductive invariant: the table and its image are exact. *)

Size(counts) == Len(counts) * PageSize

\* image is a record of the fields that operator<< writes.
IsTable(t) ==
  t = [allocated |-> t.allocated, free_list |-> t.free_list,
       alloccnt |-> t.alloccnt, alloc_cnt |-> t.alloc_cnt,
       bottom_idx |-> t.bottom_idx, top_idx |-> t.top_idx,
       page_tbl_size |-> t.page_tbl_size]

FreeInv ==
  /\ alloccnt \in Seq(Int)
  /\ Exact(allocated, free_list, Size(alloccnt))
  /\ IsTable(image)
  /\ image.alloccnt \in Seq(Int)
  /\ Exact(image.allocated, image.free_list, Size(image.alloccnt))

\* A table without pages has neither objects nor free slots.
LEMMA ExactNone == << >> \in Seq(Int) /\ Exact({}, << >>, Size(<< >>))
<1>1. Size(<< >>) = 0
  BY PageAssumption, EmptySeq DEF Size
<1>2. DOMAIN << >> = {} /\ << >> \in Seq(Nat) /\ << >> \in Seq(Int)
  BY EmptySeq
<1> QED
  BY <1>1, <1>2 DEF Exact

\* A new table is exact, and so is the image nobody has written yet.
LEMMA InitFree == Init => FreeInv
<1> SUFFICES ASSUME Init
             PROVE  FreeInv
  OBVIOUS
<1>1. /\ Cleared.allocated = {} /\ Cleared.free_list = << >>
      /\ Cleared.alloccnt = << >> /\ IsTable(Cleared)
  BY DEF Cleared, IsTable
<1> QED
  BY <1>1, ExactNone DEF Init, FreeInv

\* % and \div are the remainder and the quotient of a division.
LEMMA Division ==
  ASSUME NEW M \in Nat \ {0}, NEW a \in Int
  PROVE  /\ a % M \in 0 .. M - 1
         /\ a \div M \in Int
         /\ a = M * (a \div M) + (a % M)
OBVIOUS

\* Counting an object changes neither the number of pages nor their type.
LEMMA CountLength ==
  ASSUME NEW counts \in Seq(Int), NEW id \in 1 .. Size(counts) - 1, NEW d \in Int
  PROVE  Count(counts, Page(id), d) \in Seq(Int) /\ Len(Count(counts, Page(id), d)) = Len(counts)
<1> DEFINE k == Page(id) + 1
<1>1. PageSize \in Nat \ {0} /\ Len(counts) \in Nat
  BY PageAssumption, LenProperties
<1>2. /\ id \div PageSize \in Int /\ id % PageSize \in 0 .. PageSize - 1
      /\ id = PageSize * (id \div PageSize) + (id % PageSize)
  <2>1. id \in Int
    OBVIOUS
  <2> QED
    BY <1>1, <2>1, Division
<1>3. id < Len(counts) * PageSize /\ id >= 1
  BY <1>1 DEF Size
<1>4. id \div PageSize < Len(counts) /\ id \div PageSize >= 0
  <2> DEFINE n == Len(counts)
             v == id \div PageSize
  <2>1. n \in Nat /\ v \in Int /\ PageSize \in Nat \ {0}
    BY <1>1, <1>2
  <2>2. PageSize * v <= id /\ id < PageSize * (v + 1)
    BY <1>1, <1>2, <1>3
  <2> HIDE DEF n, v
  <2>3. v >= n => PageSize * v >= n * PageSize
    BY <2>1
  <2>4. v < 0 => PageSize * (v + 1) <= 0
    BY <2>1
  <2>5. id < n * PageSize
    BY <1>3 DEF n
  <2>6. v < n /\ v >= 0
    BY <1>3, <2>1, <2>2, <2>3, <2>4, <2>5
  <2> QED
    BY <2>6 DEF n, v
<1>5. k \in 1 .. Len(counts)
  BY <1>1, <1>2, <1>4 DEF Page
<1>6. counts[k] + d \in Int
  BY <1>5, ElementOfSeq
<1> QED
  BY <1>5, <1>6, ExceptSeq DEF Count

\* create() takes one slot from the list to the objects, after newPage() put
\* the slots of a new page on the list if it was empty.
LEMMA CreateStep ==
  ASSUME FreeInv, create
  PROVE  FreeInv'
<1> DEFINE grow == free_list = << >>
           q == IF grow THEN NewPage ELSE free_list
           counts == IF grow THEN Append(alloccnt, 0) ELSE alloccnt
<1>1. /\ allocated' = allocated \cup {Head(q)}
      /\ free_list' = Tail(q)
      /\ alloccnt' = Count(counts, Page(Head(q)), 1)
      /\ image' = image
  BY DEF create
<1>2. page_cnt \in Nat /\ page_cnt = Len(alloccnt)
  BY LenProperties DEF FreeInv, page_cnt
<1>3. counts \in Seq(Int) /\ Exact(allocated, q, Size(counts)) /\ q # << >>
  <2>1. CASE grow
    <3>1. Append(alloccnt, 0) \in Seq(Int) /\ Len(Append(alloccnt, 0)) = page_cnt + 1
      BY <1>2 DEF FreeInv
    <3>2. Exact(allocated, << >>, page_cnt * PageSize)
      BY <1>2, <2>1 DEF FreeInv, Size
    <3> QED
      BY <1>2, <2>1, <3>1, <3>2, ExactPage DEF Size
  <2>2. CASE ~ grow
    BY <2>2 DEF FreeInv
  <2> QED
    BY <2>1, <2>2
<1> HIDE DEF q, counts
<1>4. /\ Head(q) \in (1 .. Size(counts) - 1) \ allocated
      /\ Exact(allocated \cup {Head(q)}, Tail(q), Size(counts))
  BY <1>3, ExactPop
<1>5. alloccnt' \in Seq(Int) /\ Len(alloccnt') = Len(counts)
  BY <1>1, <1>3, <1>4, CountLength
<1> QED
  BY <1>1, <1>4, <1>5 DEF FreeInv, Size

\* destroy() gives one slot back, and no page.
LEMMA DestroyStep ==
  ASSUME FreeInv, NEW id \in allocated, destroy(id)
  PROVE  FreeInv'
<1>1. /\ allocated' = allocated \ {id}
      /\ free_list' = pushQ(free_list, id)
      /\ alloccnt' = Count(alloccnt, Page(id), -1)
      /\ image' = image
  BY DEF destroy
<1>2. Exact(allocated', free_list', Size(alloccnt))
  BY <1>1, ExactPush DEF FreeInv
<1>3. id \in 1 .. Size(alloccnt) - 1
  BY DEF FreeInv, Exact
<1>4. alloccnt' \in Seq(Int) /\ Len(alloccnt') = Len(alloccnt)
  BY <1>1, <1>3, CountLength DEF FreeInv
<1> QED
  BY <1>1, <1>2, <1>4 DEF FreeInv, Size

\* clear(), saving and loading: the image was exact when it was written.
LEMMA StreamStep ==
  ASSUME FreeInv, clear \/ write \/ read
  PROVE  FreeInv'
<1>1. CASE clear
  BY <1>1, ExactNone DEF clear, Set, Cleared, FreeInv
<1>2. CASE write
  BY <1>2 DEF write, table, FreeInv, IsTable
<1>3. CASE read
  <2> DEFINE counts == ReadCounts(image.allocated, Len(image.alloccnt))
  <2>1. /\ allocated' = image.allocated /\ free_list' = image.free_list
        /\ alloccnt' = counts /\ image' = image
    BY <1>3 DEF read, Set, FreeInv, IsTable
  <2>2. Len(image.alloccnt) \in Nat
    BY LenProperties DEF FreeInv
  <2>3. IsFiniteSet(image.allocated)
    <3>1. IsFiniteSet(1 .. Size(image.alloccnt) - 1)
      BY FS_Interval DEF FreeInv, Exact
    <3> QED
      BY <3>1, FS_Subset DEF FreeInv, Exact
  <2>4. counts \in [1 .. Len(image.alloccnt) -> Int]
    <3>1. ASSUME NEW p
          PROVE  Cardinality(image.allocated \cap SlotsOf(p)) \in Int
      <4>1. IsFiniteSet(image.allocated \cap SlotsOf(p))
        BY <2>3, FS_Intersection
      <4> QED
        BY <4>1, FS_CardinalityType
    <3> QED
      BY <3>1 DEF ReadCounts
  <2>5. counts \in Seq(Int) /\ Len(counts) = Len(image.alloccnt)
    BY <2>2, <2>4, SeqDef
  <2> QED
    BY <2>1, <2>5 DEF FreeInv, Size
<1> QED
  BY <1>1, <1>2, <1>3

\* Every operation of the table keeps objects and free slots apart.
LEMMA NextFree == FreeInv /\ [Next]_vars => FreeInv'
<1> SUFFICES ASSUME FreeInv, [Next]_vars
             PROVE  FreeInv'
  OBVIOUS
<1>1. CASE UNCHANGED vars
  BY <1>1 DEF vars, table, FreeInv
<1> QED
  BY <1>1, CreateStep, DestroyStep, StreamStep DEF Next

-----------------------------------------------------------------------------
\* Whatever is created, destroyed, saved and restored, a slot is an object
\* or on the free list, once: create() never returns an id in use, no slot
\* is lost, and a file restores the ids that will be given next.
THEOREM FreeList == Spec => []FreeListExact
<1>1. FreeInv => FreeListExact
  BY DEF FreeInv, Exact, FreeListExact, Size, Usable, page_cnt
<1> QED
  BY <1>1, InitFree, NextFree, PTL DEF Spec

-----------------------------------------------------------------------------
(* Pages. *)

LEMMA PageSizeFact == PageSize \in Nat /\ PageSize > 1 /\ MaxPages \in Nat /\ MaxPages > 0
  BY PageAssumption

LEMMA Times ==
  ASSUME NEW m \in Int, NEW n \in Int, m <= n
  PROVE  m * PageSize <= n * PageSize
<1> DEFINE s == PageSize
<1>1. s \in Nat
  BY PageSizeFact
<1> HIDE DEF s
<1>2. m * s <= n * s
  BY <1>1
<1> QED
  BY <1>2 DEF s

\* A slot is in exactly one page, and the pages are in the order of the slots.
LEMMA PageOf ==
  ASSUME NEW a \in Nat
  PROVE  Page(a) \in Nat /\ \A p \in Int : a \in SlotsOf(p) <=> p = Page(a)
<1> DEFINE s == PageSize
           v == Page(a)
<1>1. s \in Nat \ {0} /\ v \in Int /\ a \in Int
      /\ a = s * v + (a % s) /\ a % s \in 0 .. s - 1
  BY PageSizeFact, Division DEF Page
<1> HIDE DEF s, v
<1>2. s * v <= a /\ a < s * v + s
  BY <1>1
<1>3. v >= 0
  <2>1. v < 0 => s * v + s <= 0
    BY <1>1
  <2> QED
    BY <1>1, <1>2, <2>1
<1>4. ASSUME NEW p \in Int
      PROVE  (p * s <= a /\ a <= (p + 1) * s - 1) <=> p = v
  <2>1. p < v => p * s + s <= s * v
    BY <1>1
  <2>2. p > v => s * v + s <= p * s
    BY <1>1
  <2>3. (p + 1) * s = p * s + s /\ p * s \in Int /\ s * v \in Int
    BY <1>1
  <2>4. p = v => p * s = s * v
    BY <1>1
  <2> QED
    BY <1>1, <1>2, <2>1, <2>2, <2>3, <2>4
<1>5. ASSUME NEW p \in Int
      PROVE  a \in SlotsOf(p) <=> (p * s <= a /\ a <= (p + 1) * s - 1)
  BY <1>1 DEF SlotsOf, s
<1> QED
  BY <1>1, <1>3, <1>4, <1>5 DEF v

LEMMA PageOrder ==
  ASSUME NEW a \in Nat, NEW b \in Nat
  PROVE  /\ Page(a) < Page(b) => a < b
         /\ a <= b => Page(a) <= Page(b)
<1> DEFINE s == PageSize
           p == Page(a)
           q == Page(b)
<1>1. /\ p \in Nat /\ q \in Nat /\ s \in Nat
      /\ p * s <= a /\ a <= (p + 1) * s - 1
      /\ q * s <= b /\ b <= (q + 1) * s - 1
  BY PageOf, PageSizeFact DEF SlotsOf
<1>2. p < q => (p + 1) * s <= q * s
  BY <1>1, Times
<1> HIDE DEF p, q, s
<1>3. p < q => a < b
  BY <1>1, <1>2
<1>4. q < p => (q + 1) * s <= p * s
  BY <1>1, Times DEF s
<1>5. q < p => b < a
  BY <1>1, <1>4
<1> QED
  BY <1>1, <1>3, <1>5 DEF p, q

\* The slots of a table with n pages are in its pages.
LEMMA PageBound ==
  ASSUME NEW n \in Nat, NEW a \in 1 .. n * PageSize - 1
  PROVE  Page(a) \in 0 .. n - 1
<1> DEFINE s == PageSize
           p == Page(a)
<1>1. p \in Nat /\ a \in SlotsOf(p) /\ s \in Nat /\ n * s \in Nat
  BY PageOf, PageSizeFact
<1>2. p * s <= a /\ a < n * s
  BY <1>1 DEF SlotsOf
<1>3. n <= p => n * s <= p * s
  BY <1>1, Times
<1>4. p * s \in Nat
  BY <1>1
<1> HIDE DEF p, s
<1>5. ~ n <= p
  <2>1. a \in Nat
    BY <1>1 DEF s
  <2> QED
    BY <1>1, <1>2, <1>3, <1>4, <2>1
<1>6. p \in 0 .. n - 1
  BY <1>1, <1>5
<1> QED
  BY <1>6 DEF p

-----------------------------------------------------------------------------
(* First and last objects. *)

LEMMA MinIs ==
  ASSUME NEW S \in SUBSET Int, NEW x \in S, \A y \in S : x <= y
  PROVE  Min(S) = x
<1>1. \A z \in S : (\A y \in S : z <= y) => z = x
  OBVIOUS
<1> QED
  BY <1>1 DEF Min

LEMMA MaxIs ==
  ASSUME NEW S \in SUBSET Int, NEW x \in S, \A y \in S : y <= x
  PROVE  Max(S) = x
<1>1. \A z \in S : (\A y \in S : y <= z) => z = x
  OBVIOUS
<1> QED
  BY <1>1 DEF Max

\* Every set of slots has a first one.
LEMMA MinExists ==
  ASSUME NEW S \in SUBSET Nat, S # {}
  PROVE  Min(S) \in S /\ \A y \in S : Min(S) <= y
<1> DEFINE R == OpToRel(<, Nat)
<1>1. \A x, y \in Nat : <<x, y>> \in R <=> x < y
  BY DEF OpToRel
<1>2. IsWellFoundedOn(R, Nat)
  BY NatLessThanWellFounded
<1> HIDE DEF R
<1>3. PICK x \in S : \A y \in S : ~ (<<y, x>> \in R)
  BY <1>2, WFMin
<1>4. ASSUME NEW y \in S PROVE x <= y
  <2>1. x \in Nat /\ y \in Nat /\ ~ (y < x)
    BY <1>1, <1>3
  <2> QED
    BY <2>1
<1>5. S \in SUBSET Int
  OBVIOUS
<1>6. Min(S) = x
  BY <1>4, <1>5, MinIs
<1> QED
  BY <1>4, <1>6

\* Every set of slots of a table has a last one: the first one counted from
\* the end of the table.
LEMMA MaxExists ==
  ASSUME NEW n \in Int, NEW S \in SUBSET (0 .. n), S # {}
  PROVE  Max(S) \in S /\ \A y \in S : y <= Max(S)
<1> DEFINE T == {n - y : y \in S}
           x == n - Min(T)
<1>1. T \in SUBSET Nat /\ T # {}
  <2>1. \A y \in S : n - y \in Nat
    OBVIOUS
  <2>2. \E y \in S : n - y \in T
    OBVIOUS
  <2> QED
    BY <2>1, <2>2
<1>2. Min(T) \in T /\ \A z \in T : Min(T) <= z
  BY <1>1, MinExists
<1>3. x \in S /\ \A y \in S : n - y \in T
  BY <1>2
<1> HIDE DEF T
<1>4. \A y \in S : y <= x
  <2>1. Min(T) \in Nat
    BY <1>1, <1>2
  <2>2. ASSUME NEW y \in S PROVE y <= n - Min(T)
    <3>1. Min(T) <= n - y /\ y \in Int
      BY <1>2, <1>3
    <3> QED
      BY <2>1, <3>1
  <2> QED
    BY <2>2
<1> HIDE DEF x
<1>5. S \in SUBSET Int
  OBVIOUS
<1> QED
  BY <1>3, <1>4, <1>5, MaxIs

\* The first object is the first one of the first page that has objects.
LEMMA FirstPage ==
  ASSUME NEW S \in SUBSET Nat, NEW p \in Nat, S \cap SlotsOf(p) # {},
         \A y \in S : Page(y) >= p
  PROVE  Min(S \cap SlotsOf(p)) = Min(S)
<1> DEFINE H == S \cap SlotsOf(p)
           x == Min(H)
<1>1. /\ H \in SUBSET Nat /\ H # {} /\ S \in SUBSET Int /\ S \in SUBSET Nat
      /\ \A y : y \in H <=> y \in S /\ y \in SlotsOf(p)
  <2>1. H \subseteq S /\ \A y : y \in H <=> y \in S /\ y \in SlotsOf(p)
    OBVIOUS
  <2>2. H # {}
    OBVIOUS
  <2> HIDE DEF H
  <2>3. S \subseteq Nat /\ S \subseteq Int
    OBVIOUS
  <2> QED
    BY <2>1, <2>2, <2>3
<1> HIDE DEF H
<1>2. x \in H /\ \A y \in H : x <= y
  BY <1>1, MinExists
<1>3. x \in S /\ x \in Nat /\ Page(x) = p
  <2>1. x \in S /\ x \in SlotsOf(p)
    BY <1>1, <1>2
  <2>2. x \in Nat
    BY <1>1, <2>1
  <2> HIDE DEF x
  <2> QED
    BY <2>1, <2>2, PageOf
<1> HIDE DEF x
<1>4. ASSUME NEW y \in S PROVE x <= y
  <2>1. y \in Nat /\ Page(y) \in Nat /\ Page(y) >= p
    BY PageOf
  <2>2. CASE Page(y) = p
    <3>1. y \in H
      BY <1>1, <2>1, <2>2, PageOf
    <3> QED
      BY <1>2, <3>1
  <2>3. CASE Page(y) # p
    <3>1. Page(x) < Page(y)
      BY <1>3, <2>1, <2>3
    <3>2. x < y
      BY <1>3, <2>1, <3>1, PageOrder
    <3> QED
      BY <1>3, <2>1, <3>2
  <2> QED
    BY <2>2, <2>3
<1>5. Min(S) = x
  BY <1>1, <1>3, <1>4, MinIs
<1> QED
  BY <1>5 DEF x, H

\* The last object is the last one of the last page that has objects.
LEMMA LastPage ==
  ASSUME NEW n \in Int, NEW S \in SUBSET (1 .. n), NEW p \in Nat,
         S \cap SlotsOf(p) # {}, \A y \in S : Page(y) <= p
  PROVE  Max(S \cap SlotsOf(p)) = Max(S)
<1> DEFINE H == S \cap SlotsOf(p)
           x == Max(H)
<1>1. /\ H \in SUBSET (0 .. n) /\ H # {} /\ S \in SUBSET Int /\ S \in SUBSET Nat
      /\ \A y : y \in H <=> y \in S /\ y \in SlotsOf(p)
  <2>1. H \subseteq S /\ \A y : y \in H <=> y \in S /\ y \in SlotsOf(p)
    OBVIOUS
  <2>2. H # {}
    OBVIOUS
  <2> HIDE DEF H
  <2>3. S \subseteq Nat /\ S \subseteq Int
    OBVIOUS
  <2> QED
    BY <2>1, <2>2, <2>3
<1> HIDE DEF H
<1>2. x \in H /\ \A y \in H : y <= x
  BY <1>1, MaxExists
<1>3. x \in S /\ x \in Nat /\ Page(x) = p
  <2>1. x \in S /\ x \in SlotsOf(p)
    BY <1>1, <1>2
  <2>2. x \in Nat
    BY <1>1, <2>1
  <2> HIDE DEF x
  <2> QED
    BY <2>1, <2>2, PageOf
<1> HIDE DEF x
<1>4. ASSUME NEW y \in S PROVE y <= x
  <2>1. y \in Nat /\ Page(y) \in Nat /\ Page(y) <= p
    BY PageOf
  <2>2. CASE Page(y) = p
    <3>1. y \in H
      BY <1>1, <2>1, <2>2, PageOf
    <3> QED
      BY <1>2, <3>1
  <2>3. CASE Page(y) # p
    <3>1. Page(y) < Page(x)
      BY <1>3, <2>1, <2>3
    <3>2. y < x
      BY <1>3, <2>1, <3>1, PageOrder
    <3> QED
      BY <1>3, <2>1, <3>2
  <2> QED
    BY <2>2, <2>3
<1>5. Max(S) = x
  BY <1>1, <1>3, <1>4, MaxIs
<1> QED
  BY <1>5 DEF x, H

-----------------------------------------------------------------------------
(* The counts of the pages. *)

Counted(objs, counts) ==
  \A p \in 0 .. Len(counts) - 1 :
    counts[p + 1] = Cardinality(objs \cap SlotsOf(p))

\* The objects of a table are finitely many.
LEMMA ObjectsFinite ==
  ASSUME NEW n \in Int, NEW objs \in SUBSET (1 .. n)
  PROVE  /\ IsFiniteSet(objs) /\ Cardinality(objs) \in Nat
         /\ \A S : IsFiniteSet(objs \cap S) /\ Cardinality(objs \cap S) \in Nat
<1>1. IsFiniteSet(1 .. n)
  BY FS_Interval
<1>2. IsFiniteSet(objs)
  BY <1>1, FS_Subset
<1>3. \A S : IsFiniteSet(objs \cap S)
  BY <1>2, FS_Intersection
<1> QED
  BY <1>2, <1>3, FS_CardinalityType

\* The count of the page of a slot changes, and no other one.
LEMMA CountAt ==
  ASSUME NEW counts \in Seq(Int), NEW id \in 1 .. Size(counts) - 1, NEW d \in Int,
         NEW p \in 0 .. Len(counts) - 1
  PROVE  Count(counts, Page(id), d)[p + 1]
           = IF p = Page(id) THEN counts[p + 1] + d ELSE counts[p + 1]
<1> DEFINE k == Page(id)
<1>1. Len(counts) \in Nat
  BY LenProperties
<1>2. k \in 0 .. Len(counts) - 1
  BY <1>1, PageBound DEF Size
<1> HIDE DEF k
<1>3. k + 1 \in 1 .. Len(counts) /\ p + 1 \in 1 .. Len(counts)
  BY <1>1, <1>2
<1>4. counts[k + 1] + d \in Int
  BY <1>3, ElementOfSeq
<1>5. [counts EXCEPT ![k + 1] = counts[k + 1] + d][p + 1]
        = IF p + 1 = k + 1 THEN counts[k + 1] + d ELSE counts[p + 1]
  BY <1>3, <1>4, ExceptSeq
<1>6. p + 1 = k + 1 <=> p = k
  BY <1>1, <1>2
<1>7. Count(counts, k, d)[p + 1] = IF p = k THEN counts[p + 1] + d ELSE counts[p + 1]
  BY <1>5, <1>6 DEF Count
<1> QED
  BY <1>7 DEF k

\* newPage(): a page without objects.
LEMMA CountedPage ==
  ASSUME NEW counts \in Seq(Int), NEW objs \in SUBSET (1 .. Size(counts) - 1),
         Counted(objs, counts)
  PROVE  Counted(objs, Append(counts, 0))
<1> DEFINE n == Len(counts)
           more == Append(counts, 0)
<1>1. /\ n \in Nat /\ Len(more) = n + 1 /\ more[n + 1] = 0
      /\ \A i \in 1 .. n : more[i] = counts[i]
  BY LenProperties, AppendProperties
<1> HIDE DEF n, more
<1>2. objs \cap SlotsOf(n) = {}
  <2>1. ASSUME NEW y \in objs PROVE y \notin SlotsOf(n)
    <3>1. y \in 1 .. n * PageSize - 1
      BY DEF Size, n
    <3>2. Page(y) \in 0 .. n - 1
      BY <1>1, <3>1, PageBound
    <3>3. y \in Nat /\ n \in Int /\ Page(y) # n
      BY <1>1, <3>1, <3>2
    <3> QED
      BY <3>3, PageOf
  <2> QED
    BY <2>1
<1>3. ASSUME NEW p \in 0 .. n
      PROVE  more[p + 1] = Cardinality(objs \cap SlotsOf(p))
  <2>1. CASE p = n
    BY <1>1, <1>2, <2>1, FS_EmptySet
  <2>2. CASE p # n
    <3>1. p \in 0 .. n - 1 /\ p + 1 \in 1 .. n
      BY <1>1, <2>2
    <3> QED
      BY <1>1, <3>1 DEF Counted, n
  <2> QED
    BY <2>1, <2>2
<1>4. Len(more) - 1 = n
  BY <1>1
<1> QED
  BY <1>3, <1>4 DEF Counted, more

\* One more object in the page of its slot.
LEMMA CountedAdd ==
  ASSUME NEW counts \in Seq(Int), NEW objs \in SUBSET (1 .. Size(counts) - 1),
         Counted(objs, counts), NEW id \in (1 .. Size(counts) - 1) \ objs
  PROVE  Counted(objs \cup {id}, Count(counts, Page(id), 1))
<1> DEFINE more == objs \cup {id}
           new == Count(counts, Page(id), 1)
<1>1. Len(counts) \in Nat /\ Len(new) = Len(counts) /\ Size(counts) \in Int /\ id \in Nat
  BY LenProperties, CountLength, PageSizeFact DEF Size
<1>2. \A S : IsFiniteSet(objs \cap S) /\ Cardinality(objs \cap S) \in Nat
  <2> DEFINE m == Size(counts) - 1
  <2>1. m \in Int /\ objs \in SUBSET (1 .. m)
    BY <1>1
  <2> HIDE DEF m
  <2> QED
    BY <2>1, ObjectsFinite
<1>3. ASSUME NEW p \in 0 .. Len(counts) - 1
      PROVE  new[p + 1] = Cardinality(more \cap SlotsOf(p))
  <2>1. new[p + 1] = IF p = Page(id) THEN counts[p + 1] + 1 ELSE counts[p + 1]
    BY CountAt
  <2>2. counts[p + 1] = Cardinality(objs \cap SlotsOf(p))
    BY DEF Counted
  <2>3. id \in SlotsOf(p) <=> p = Page(id)
    BY <1>1, PageOf
  <2>4. CASE p = Page(id)
    <3>1. more \cap SlotsOf(p) = (objs \cap SlotsOf(p)) \cup {id} /\ id \notin objs \cap SlotsOf(p)
      BY <2>3, <2>4
    <3>2. IsFiniteSet(objs \cap SlotsOf(p))
      BY <1>2
    <3>3. Cardinality((objs \cap SlotsOf(p)) \cup {id}) = Cardinality(objs \cap SlotsOf(p)) + 1
      <4> DEFINE here == objs \cap SlotsOf(p)
      <4>1. IsFiniteSet(here) /\ id \notin here
        BY <3>1, <3>2
      <4> HIDE DEF here
      <4>2. Cardinality(here \cup {id}) = Cardinality(here) + 1
        BY <4>1, FS_AddElement
      <4> QED
        BY <4>2 DEF here
    <3> QED
      BY <2>1, <2>2, <2>4, <3>1, <3>3
  <2>5. CASE p # Page(id)
    <3>1. more \cap SlotsOf(p) = objs \cap SlotsOf(p)
      BY <2>3, <2>5
    <3> QED
      BY <2>1, <2>2, <2>5, <3>1
  <2> QED
    BY <2>4, <2>5
<1> QED
  BY <1>1, <1>3 DEF Counted

\* One object less in the page of its slot.
LEMMA CountedRemove ==
  ASSUME NEW counts \in Seq(Int), NEW objs \in SUBSET (1 .. Size(counts) - 1),
         Counted(objs, counts), NEW id \in objs
  PROVE  Counted(objs \ {id}, Count(counts, Page(id), -1))
<1> DEFINE less == objs \ {id}
           new == Count(counts, Page(id), -1)
<1>1. Len(counts) \in Nat /\ Len(new) = Len(counts) /\ Size(counts) \in Int /\ id \in Nat
  BY LenProperties, CountLength, PageSizeFact DEF Size
<1>2. \A S : IsFiniteSet(objs \cap S) /\ Cardinality(objs \cap S) \in Nat
  <2> DEFINE m == Size(counts) - 1
  <2>1. m \in Int /\ objs \in SUBSET (1 .. m)
    BY <1>1
  <2> HIDE DEF m
  <2> QED
    BY <2>1, ObjectsFinite
<1>3. ASSUME NEW p \in 0 .. Len(counts) - 1
      PROVE  new[p + 1] = Cardinality(less \cap SlotsOf(p))
  <2>1. new[p + 1] = IF p = Page(id) THEN counts[p + 1] + (-1) ELSE counts[p + 1]
    BY CountAt
  <2>2. counts[p + 1] = Cardinality(objs \cap SlotsOf(p))
    BY DEF Counted
  <2>3. id \in SlotsOf(p) <=> p = Page(id)
    BY <1>1, PageOf
  <2>4. CASE p = Page(id)
    <3>1. less \cap SlotsOf(p) = (objs \cap SlotsOf(p)) \ {id} /\ id \in objs \cap SlotsOf(p)
      BY <2>3, <2>4
    <3>2. IsFiniteSet(objs \cap SlotsOf(p)) /\ Cardinality(objs \cap SlotsOf(p)) \in Nat
      BY <1>2
    <3>3. Cardinality(less \cap SlotsOf(p)) = Cardinality(objs \cap SlotsOf(p)) - 1
      BY <3>1, <3>2, FS_RemoveElement
    <3>4. new[p + 1] = Cardinality(objs \cap SlotsOf(p)) + (-1)
      BY <2>1, <2>2, <2>4
    <3> HIDE DEF new, less
    <3> QED
      BY <3>2, <3>3, <3>4
  <2>5. CASE p # Page(id)
    <3>1. less \cap SlotsOf(p) = objs \cap SlotsOf(p)
      BY <2>3, <2>5
    <3> QED
      BY <2>1, <2>2, <2>5, <3>1
  <2> QED
    BY <2>4, <2>5
<1> QED
  BY <1>1, <1>3 DEF Counted

-----------------------------------------------------------------------------
(* The search for the first and the last object. *)

First(S) == IF S = {} THEN 0 ELSE Min(S)

Last(S) == IF S = {} THEN 0 ELSE Max(S)

\* The pages after page k, and those before it, that have objects.
Later(S, k, n) == {p \in k + 1 .. n - 1 : S \cap SlotsOf(p) # {}}

Earlier(S, k) == {p \in 0 .. k - 1 : S \cap SlotsOf(p) # {}}

FirstFrom(S, k, later) ==
  IF S \cap SlotsOf(k) # {} THEN Min(S \cap SlotsOf(k))
  ELSE IF later = {} THEN 0
  ELSE Min(S \cap SlotsOf(Min(later)))

LastFrom(S, k, earlier) ==
  IF S \cap SlotsOf(k) # {} THEN Max(S \cap SlotsOf(k))
  ELSE IF earlier = {} THEN 0
  ELSE Max(S \cap SlotsOf(Max(earlier)))

\* Of objects that are all in page k or later.
LEMMA FirstOf ==
  ASSUME NEW n \in Nat, NEW k \in Nat, NEW S \in SUBSET (1 .. n * PageSize - 1),
         \A y \in S : Page(y) >= k
  PROVE  First(S) = FirstFrom(S, k, Later(S, k, n))
<1> DEFINE later == Later(S, k, n)
<1>0. later \in SUBSET (k + 1 .. n - 1) /\ \A p \in k + 1 .. n - 1 : p \in later <=> S \cap SlotsOf(p) # {}
  BY DEF Later
<1> HIDE DEF later
<1> SUFFICES First(S) = FirstFrom(S, k, later)
  BY DEF later
<1> USE DEF FirstFrom
<1>1. S \in SUBSET Nat
  OBVIOUS
<1>2. CASE S \cap SlotsOf(k) # {}
  BY <1>1, <1>2, FirstPage DEF First
<1>3. CASE S \cap SlotsOf(k) = {}
  <2>1. ASSUME NEW y \in S PROVE Page(y) \in later
    <3>1. y \in Nat /\ y \in 1 .. n * PageSize - 1
      BY <1>1
    <3>2. Page(y) \in 0 .. n - 1 /\ Page(y) \in Int
      BY <3>1, PageBound
    <3>3. Page(y) # k
      BY <1>3, <3>1, PageOf
    <3>4. Page(y) \in k + 1 .. n - 1
      BY <3>2, <3>3
    <3>5. y \in SlotsOf(Page(y))
      BY <3>1, PageOf
    <3> QED
      BY <1>0, <3>4, <3>5
  <2>2. CASE later = {}
    <3>1. S = {}
      BY <2>1, <2>2
    <3> QED
      BY <2>2, <3>1, <1>3 DEF First
  <2>3. CASE later # {}
    <3> DEFINE m == Min(later)
    <3>1. later \in SUBSET Nat
      BY <1>0
    <3>2. m \in later /\ \A p \in later : m <= p
      BY <2>3, <3>1, MinExists
    <3>3. m \in Nat /\ S \cap SlotsOf(m) # {}
      BY <1>0, <3>1, <3>2
    <3> HIDE DEF m
    <3>4. \A y \in S : Page(y) >= m
      BY <2>1, <3>1, <3>2
    <3>5. Min(S \cap SlotsOf(m)) = Min(S)
      BY <1>1, <3>3, <3>4, FirstPage
    <3>6. S # {}
      BY <3>3
    <3> QED
      BY <1>3, <2>3, <3>5, <3>6 DEF First, m
  <2> QED
    BY <2>2, <2>3
<1> QED
  BY <1>2, <1>3

\* Of objects that are all in page k or earlier.
LEMMA LastOf ==
  ASSUME NEW n \in Nat, NEW k \in Nat, NEW S \in SUBSET (1 .. n * PageSize - 1),
         \A y \in S : Page(y) <= k
  PROVE  Last(S) = LastFrom(S, k, Earlier(S, k))
<1> DEFINE earlier == Earlier(S, k)
<1>0. earlier \in SUBSET (0 .. k - 1) /\ \A p \in 0 .. k - 1 : p \in earlier <=> S \cap SlotsOf(p) # {}
  BY DEF Earlier
<1> HIDE DEF earlier
<1> SUFFICES Last(S) = LastFrom(S, k, earlier)
  BY DEF earlier
<1> USE DEF LastFrom
<1> DEFINE top == n * PageSize - 1
<1>1. S \in SUBSET Nat /\ top \in Int /\ S \in SUBSET (1 .. top)
  <2>1. n * PageSize \in Nat
    BY PageSizeFact
  <2> QED
    BY <2>1
<1> HIDE DEF top
<1>2. CASE S \cap SlotsOf(k) # {}
  BY <1>1, <1>2, LastPage DEF Last
<1>3. CASE S \cap SlotsOf(k) = {}
  <2>1. ASSUME NEW y \in S PROVE Page(y) \in earlier
    <3>1. y \in Nat
      BY <1>1
    <3>2. Page(y) \in Nat /\ y \in SlotsOf(Page(y)) /\ Page(y) # k
      BY <1>3, <3>1, PageOf
    <3>3. Page(y) \in 0 .. k - 1
      BY <3>2
    <3> QED
      BY <1>0, <3>2, <3>3
  <2>2. CASE earlier = {}
    <3>1. S = {}
      BY <2>1, <2>2
    <3> QED
      BY <2>2, <3>1, <1>3 DEF Last
  <2>3. CASE earlier # {}
    <3> DEFINE m == Max(earlier)
    <3>1. /\ earlier \in SUBSET Nat /\ earlier \in SUBSET (0 .. k - 1)
          /\ k - 1 \in Int
      BY <1>0
    <3>2. m \in earlier /\ \A p \in earlier : p <= m
      BY <2>3, <3>1, MaxExists
    <3>3. m \in Nat /\ S \cap SlotsOf(m) # {}
      BY <1>0, <3>1, <3>2
    <3> HIDE DEF m
    <3>4. \A y \in S : Page(y) <= m
      BY <2>1, <3>1, <3>2
    <3>5. Max(S \cap SlotsOf(m)) = Max(S)
      BY <1>1, <3>3, <3>4, LastPage
    <3>6. S # {}
      BY <3>3
    <3> QED
      BY <1>3, <2>3, <3>5, <3>6 DEF Last, m
  <2> QED
    BY <2>2, <2>3
<1> QED
  BY <1>2, <1>3

-----------------------------------------------------------------------------
(* The counts, the bounds and the size of the page table, with the free     *)
(* list: the second inductive invariant.                                    *)

Tidy(objs, counts, cnt, bottom, top, tbl) ==
  /\ Len(counts) <= MaxPages
  /\ cnt = Cardinality(objs)
  /\ Counted(objs, counts)
  /\ bottom = First(objs)
  /\ top = Last(objs)
  /\ tbl \in Nat /\ Len(counts) <= tbl /\ tbl <= 2 * Len(counts)

TableTidy == Tidy(allocated, alloccnt, alloc_cnt, bottom_idx, top_idx, page_tbl_size)

ImageTidy ==
  Tidy(image.allocated, image.alloccnt, image.alloc_cnt, image.bottom_idx,
       image.top_idx, image.page_tbl_size)

PagesInv == FreeInv /\ TableTidy /\ ImageTidy

LEMMA TidyNone == Tidy({}, << >>, 0, 0, 0, 0)
<1>1. Len(<< >>) = 0
  BY EmptySeq
<1>2. Counted({}, << >>)
  BY <1>1 DEF Counted
<1> QED
  BY <1>1, <1>2, FS_EmptySet, PageSizeFact DEF Tidy, First, Last

LEMMA InitPages == Init => PagesInv
<1> SUFFICES ASSUME Init
             PROVE  TableTidy /\ ImageTidy
  BY InitFree DEF PagesInv
<1>1. /\ Cleared.allocated = {} /\ Cleared.alloccnt = << >> /\ Cleared.alloc_cnt = 0
      /\ Cleared.bottom_idx = 0 /\ Cleared.top_idx = 0 /\ Cleared.page_tbl_size = 0
  BY DEF Cleared
<1> QED
  BY <1>1, TidyNone DEF Init, TableTidy, ImageTidy

\* The objects are slots of the pages there are.
LEMMA ObjectsIn ==
  ASSUME FreeInv
  PROVE  /\ page_cnt \in Nat /\ Size(alloccnt) = page_cnt * PageSize
         /\ Size(alloccnt) \in Nat
         /\ allocated \in SUBSET (1 .. Size(alloccnt) - 1)
         /\ allocated \in SUBSET Nat
         /\ IsFiniteSet(allocated)
<1>1. page_cnt \in Nat /\ Size(alloccnt) = page_cnt * PageSize
  BY LenProperties DEF FreeInv, Size, page_cnt
<1>2. Size(alloccnt) \in Nat /\ allocated \in SUBSET (1 .. Size(alloccnt) - 1)
  BY DEF FreeInv, Exact
<1>3. IsFiniteSet(allocated)
  <2> DEFINE n == Size(alloccnt) - 1
  <2>1. n \in Int /\ allocated \in SUBSET (1 .. n)
    BY <1>2
  <2> HIDE DEF n
  <2> QED
    BY <2>1, ObjectsFinite
<1>4. allocated \in SUBSET Nat
  BY <1>2
<1> QED
  BY <1>1, <1>2, <1>3, <1>4

\* create() moves the first bound down or the last one up if it has to.
LEMMA LowerRaise ==
  ASSUME NEW n \in Int, allocated \in SUBSET (1 .. n), NEW id \in 1 .. n,
         bottom_idx = First(allocated), top_idx = Last(allocated)
  PROVE  /\ Lower(id) = First(allocated \cup {id})
         /\ Raise(id) = Last(allocated \cup {id})
<1> DEFINE more == allocated \cup {id}
<1>1. id \in Nat /\ id > 0 /\ id \in more /\ more # {} /\ more \in SUBSET Int
      /\ allocated \in SUBSET Nat /\ 0 \notin allocated
      /\ \A y \in more : y = id \/ y \in allocated
  OBVIOUS
<1> HIDE DEF more
<1>2. CASE allocated = {}
  <2>1. Min(more) = id /\ Max(more) = id
    BY <1>1, <1>2, MinIs, MaxIs
  <2>2. bottom_idx = 0 /\ top_idx = 0
    BY <1>2 DEF First, Last
  <2>3. Lower(id) = id /\ Raise(id) = id
    BY <1>1, <2>2 DEF Lower, Raise
  <2> QED
    BY <1>1, <2>1, <2>3 DEF First, Last, more
<1>3. CASE allocated # {}
  <2>1. bottom_idx \in allocated /\ \A y \in allocated : bottom_idx <= y
    BY <1>1, <1>3, MinExists DEF First
  <2>2. top_idx \in allocated /\ \A y \in allocated : y <= top_idx
    <3>1. allocated \in SUBSET (0 .. n)
      OBVIOUS
    <3> QED
      BY <1>3, <3>1, MaxExists DEF Last
  <2>3. bottom_idx \in Nat /\ bottom_idx # 0 /\ top_idx \in Nat
    BY <1>1, <2>1, <2>2
  <2>4. Min(more) = Lower(id)
    <3>1. Lower(id) = IF id < bottom_idx THEN id ELSE bottom_idx
      BY <2>3 DEF Lower
    <3>2. Lower(id) \in more
      BY <2>1, <3>1 DEF more
    <3>3. \A y \in more : Lower(id) <= y
      BY <1>1, <2>1, <2>3, <3>1
    <3> QED
      BY <1>1, <3>2, <3>3, MinIs
  <2>5. Max(more) = Raise(id)
    <3>1. Raise(id) = IF id > top_idx THEN id ELSE top_idx
      BY DEF Raise
    <3>2. Raise(id) \in more
      BY <2>2, <3>1 DEF more
    <3>3. \A y \in more : y <= Raise(id)
      BY <1>1, <2>2, <2>3, <3>1
    <3> QED
      BY <1>1, <3>2, <3>3, MaxIs
  <2> QED
    BY <1>1, <2>4, <2>5 DEF First, Last, more
<1> QED
  BY <1>2, <1>3

\* create(): in a new page if there is no free slot.
LEMMA CreatePages ==
  ASSUME PagesInv, create
  PROVE  TableTidy'
<1> DEFINE grow == free_list = << >>
           q == IF grow THEN NewPage ELSE free_list
           id == Head(q)
           counts == IF grow THEN Append(alloccnt, 0) ELSE alloccnt
<1>1. /\ grow => page_cnt < MaxPages
      /\ allocated' = allocated \cup {id}
      /\ alloccnt' = Count(counts, Page(id), 1)
      /\ alloc_cnt' = alloc_cnt + 1
      /\ bottom_idx' = Lower(id) /\ top_idx' = Raise(id)
      /\ page_tbl_size' = IF grow THEN NewTblSize ELSE page_tbl_size
  BY DEF create
<1>2. /\ page_cnt \in Nat /\ page_cnt = Len(alloccnt) /\ alloccnt \in Seq(Int)
      /\ allocated \in SUBSET (1 .. Size(alloccnt) - 1) /\ IsFiniteSet(allocated)
      /\ FreeInv /\ TableTidy
  BY ObjectsIn DEF PagesInv, FreeInv, page_cnt
<1>3. counts \in Seq(Int) /\ Len(counts) = IF grow THEN page_cnt + 1 ELSE page_cnt
  BY <1>2, AppendProperties
<1>4. Exact(allocated, q, Size(counts)) /\ q # << >>
  <2>1. CASE grow
    <3>1. Exact(allocated, << >>, page_cnt * PageSize)
      BY <1>2, <2>1 DEF FreeInv, Size
    <3> QED
      BY <1>2, <1>3, <2>1, <3>1, ExactPage DEF Size
  <2>2. CASE ~ grow
    BY <1>2, <2>2 DEF FreeInv
  <2> QED
    BY <2>1, <2>2
<1>5. Counted(allocated, counts)
  BY <1>2, CountedPage DEF TableTidy, Tidy
<1>6. NewTblSize = IF page_tbl_size = 0 THEN 1
                   ELSE IF page_tbl_size = page_cnt THEN 2 * page_tbl_size
                   ELSE page_tbl_size
  BY DEF NewTblSize
<1> HIDE DEF q, counts
<1>7. /\ id \in (1 .. Size(counts) - 1) \ allocated
      /\ allocated \in SUBSET (1 .. Size(counts) - 1)
      /\ Size(counts) \in Nat
  BY <1>4, ExactPop DEF Exact
<1> HIDE DEF id
<1>8. Counted(allocated', alloccnt') /\ Len(alloccnt') = Len(counts)
  BY <1>1, <1>3, <1>5, <1>7, CountedAdd, CountLength
<1>9. alloc_cnt' = Cardinality(allocated')
  <2>1. Cardinality(allocated \cup {id}) = Cardinality(allocated) + 1
    BY <1>2, <1>7, FS_AddElement
  <2> QED
    BY <1>1, <1>2, <2>1 DEF TableTidy, Tidy
<1>10. bottom_idx' = First(allocated') /\ top_idx' = Last(allocated')
  <2> DEFINE n == Size(counts) - 1
  <2>1. n \in Int /\ allocated \in SUBSET (1 .. n) /\ id \in 1 .. n
    BY <1>7
  <2>2. bottom_idx = First(allocated) /\ top_idx = Last(allocated)
    BY <1>2 DEF TableTidy, Tidy
  <2> HIDE DEF n
  <2>3. Lower(id) = First(allocated \cup {id}) /\ Raise(id) = Last(allocated \cup {id})
    BY <2>1, <2>2, LowerRaise
  <2> QED
    BY <1>1, <2>3
<1>11. /\ Len(alloccnt') <= MaxPages /\ page_tbl_size' \in Nat
       /\ Len(alloccnt') <= page_tbl_size' /\ page_tbl_size' <= 2 * Len(alloccnt')
  <2>1. /\ page_cnt <= MaxPages /\ page_tbl_size \in Nat
        /\ page_cnt <= page_tbl_size /\ page_tbl_size <= 2 * page_cnt
    BY <1>2 DEF TableTidy, Tidy
  <2> QED
    BY <1>1, <1>2, <1>3, <1>6, <1>8, <2>1, PageSizeFact
<1> QED
  BY <1>8, <1>9, <1>10, <1>11 DEF TableTidy, Tidy

\* The pages that findBottom(), findTop() and next() stop at are those with
\* objects.
LEMMA ValidPages ==
  ASSUME NEW counts \in Seq(Int), NEW n \in Int, NEW objs \in SUBSET (1 .. n),
         Counted(objs, counts), NEW p \in 0 .. Len(counts) - 1
  PROVE  counts[p + 1] # 0 <=> objs \cap SlotsOf(p) # {}
<1>1. counts[p + 1] = Cardinality(objs \cap SlotsOf(p))
  BY DEF Counted
<1>2. IsFiniteSet(objs \cap SlotsOf(p))
  BY ObjectsFinite
<1>3. Cardinality(objs \cap SlotsOf(p)) = 0 <=> objs \cap SlotsOf(p) = {}
  BY <1>2, FS_EmptySet
<1> QED
  BY <1>1, <1>3

\* findBottom(), after the first object was freed.
LEMMA BottomFound ==
  ASSUME PagesInv, NEW id \in allocated, id = bottom_idx,
         NEW objs, objs = allocated \ {id},
         NEW counts \in Seq(Int), Len(counts) = page_cnt, Counted(objs, counts)
  PROVE  findBottom(objs, counts) = First(objs)
<1> DEFINE n == page_cnt
           k == Page(id)
           valid == {p \in 0 .. n - 1 : counts[p + 1] # 0}
           later == Later(objs, k, n)
<1>1. /\ n \in Nat /\ allocated \in SUBSET (1 .. n * PageSize - 1)
      /\ allocated \in SUBSET Nat /\ n * PageSize - 1 \in Int
  BY ObjectsIn DEF PagesInv
<1>2. id \in Nat /\ k \in 0 .. n - 1 /\ id \in 1 .. n * PageSize - 1
  BY <1>1, PageBound
<1>3. \A y \in objs : y \in Nat /\ y > id /\ Page(y) >= k
  <2>1. id = Min(allocated)
    BY DEF PagesInv, TableTidy, Tidy, First
  <2>2. \A y \in allocated : id <= y
    BY <1>1, <2>1, MinExists
  <2>3. ASSUME NEW y \in objs PROVE y \in Nat /\ y > id /\ Page(y) >= k
    <3>1. y \in Nat /\ y # id /\ id <= y
      BY <1>1, <2>2
    <3>2. Page(id) <= Page(y) /\ Page(y) \in Nat
      BY <1>2, <3>1, PageOrder, PageOf
    <3> QED
      BY <1>2, <3>1, <3>2
  <2> QED
    BY <2>3
<1>4. objs \in SUBSET (1 .. n * PageSize - 1)
  BY <1>1
<1>5. \A p \in 0 .. n - 1 : p \in valid <=> objs \cap SlotsOf(p) # {}
  <2> DEFINE m == n * PageSize - 1
  <2>1. m \in Int /\ objs \in SUBSET (1 .. m)
    BY <1>1, <1>4
  <2> HIDE DEF m
  <2> QED
    BY <2>1, ValidPages
<1>6. {p \in valid : p > k} = later
  <2>1. \A p : p \in valid /\ p > k => p \in later
    BY <1>1, <1>2, <1>5 DEF Later
  <2>2. \A p : p \in later => p \in valid /\ p > k
    BY <1>1, <1>2, <1>5 DEF Later
  <2> QED
    BY <2>1, <2>2
<1>7. {i \in objs \cap SlotsOf(k) : i > id} = objs \cap SlotsOf(k)
  BY <1>3
<1>8. findBottom(objs, counts)
        = IF objs = {} THEN 0
          ELSE IF k \in valid THEN Min({i \in objs \cap SlotsOf(k) : i > id})
          ELSE Min(objs \cap SlotsOf(Min({p \in valid : p > k})))
  BY DEF findBottom
<1> HIDE DEF valid, later
<1>9. First(objs) = FirstFrom(objs, k, later)
  <2>1. k \in Nat /\ \A y \in objs : Page(y) >= k
    BY <1>2, <1>3
  <2> HIDE DEF k, n
  <2> QED
    BY <1>1, <1>4, <2>1, FirstOf DEF later
<1>10. objs # {} /\ objs \cap SlotsOf(k) = {} => later # {}
  <2>1. ASSUME NEW y \in objs, objs \cap SlotsOf(k) = {} PROVE Page(y) \in later
    <3>1. y \in Nat /\ Page(y) >= k /\ y \in 1 .. n * PageSize - 1
      BY <1>3, <1>4
    <3>2. Page(y) \in 0 .. n - 1 /\ y \in SlotsOf(Page(y)) /\ Page(y) # k
      BY <1>1, <2>1, <3>1, PageBound, PageOf
    <3>3. Page(y) \in k + 1 .. n - 1
      BY <1>1, <1>2, <3>1, <3>2
    <3> QED
      BY <3>2, <3>3 DEF later, Later
  <2> QED
    BY <2>1
<1> QED
  BY <1>2, <1>5, <1>6, <1>7, <1>8, <1>9, <1>10 DEF First, FirstFrom

\* findTop(), after the last object was freed.
LEMMA TopFound ==
  ASSUME PagesInv, NEW id \in allocated, id = top_idx,
         NEW objs, objs = allocated \ {id},
         NEW counts \in Seq(Int), Len(counts) = page_cnt, Counted(objs, counts)
  PROVE  findTop(objs, counts) = Last(objs)
<1> DEFINE n == page_cnt
           k == Page(id)
           valid == {p \in 0 .. n - 1 : counts[p + 1] # 0}
           earlier == Earlier(objs, k)
<1>1. /\ n \in Nat /\ allocated \in SUBSET (1 .. n * PageSize - 1)
      /\ allocated \in SUBSET Nat /\ n * PageSize - 1 \in Int
  BY ObjectsIn DEF PagesInv
<1>2. id \in Nat /\ k \in 0 .. n - 1 /\ id \in 1 .. n * PageSize - 1
  BY <1>1, PageBound
<1>3. \A y \in objs : y \in Nat /\ y < id /\ Page(y) <= k
  <2>1. id = Max(allocated)
    BY DEF PagesInv, TableTidy, Tidy, Last
  <2>2. \A y \in allocated : y <= id
    <3> DEFINE m == n * PageSize - 1
    <3>1. m \in Int /\ allocated \in SUBSET (0 .. m)
      BY <1>1
    <3> HIDE DEF m
    <3> QED
      BY <2>1, <3>1, MaxExists
  <2>3. ASSUME NEW y \in objs PROVE y \in Nat /\ y < id /\ Page(y) <= k
    <3>1. y \in Nat /\ y # id /\ y <= id
      BY <1>1, <2>2
    <3>2. Page(y) <= Page(id) /\ Page(y) \in Nat
      BY <1>2, <3>1, PageOrder, PageOf
    <3> QED
      BY <1>2, <3>1, <3>2
  <2> QED
    BY <2>3
<1>4. objs \in SUBSET (1 .. n * PageSize - 1)
  BY <1>1
<1>5. \A p \in 0 .. n - 1 : p \in valid <=> objs \cap SlotsOf(p) # {}
  <2> DEFINE m == n * PageSize - 1
  <2>1. m \in Int /\ objs \in SUBSET (1 .. m)
    BY <1>1, <1>4
  <2> HIDE DEF m
  <2> QED
    BY <2>1, ValidPages
<1>6. {p \in valid : p < k} = earlier
  <2>1. \A p : p \in valid /\ p < k => p \in earlier
    BY <1>1, <1>2, <1>5 DEF Earlier
  <2>2. \A p : p \in earlier => p \in valid /\ p < k
    BY <1>1, <1>2, <1>5 DEF Earlier
  <2> QED
    BY <2>1, <2>2
<1>7. {i \in objs \cap SlotsOf(k) : i < id} = objs \cap SlotsOf(k)
  BY <1>3
<1>8. findTop(objs, counts)
        = IF objs = {} THEN 0
          ELSE IF k \in valid THEN Max({i \in objs \cap SlotsOf(k) : i < id})
          ELSE Max(objs \cap SlotsOf(Max({p \in valid : p < k})))
  BY DEF findTop
<1> HIDE DEF valid, earlier
<1>9. Last(objs) = LastFrom(objs, k, earlier)
  <2>1. k \in Nat /\ \A y \in objs : Page(y) <= k
    BY <1>2, <1>3
  <2> HIDE DEF k, n
  <2> QED
    BY <1>1, <1>4, <2>1, LastOf DEF earlier
<1>10. objs # {} /\ objs \cap SlotsOf(k) = {} => earlier # {}
  <2>1. ASSUME NEW y \in objs, objs \cap SlotsOf(k) = {} PROVE Page(y) \in earlier
    <3>1. y \in Nat /\ Page(y) <= k
      BY <1>3
    <3>2. Page(y) \in Nat /\ y \in SlotsOf(Page(y)) /\ Page(y) # k
      BY <1>2, <2>1, <3>1, PageOf
    <3>3. Page(y) \in 0 .. k - 1
      BY <1>2, <3>1, <3>2
    <3> QED
      BY <3>2, <3>3 DEF earlier, Earlier
  <2> QED
    BY <2>1
<1> QED
  BY <1>2, <1>5, <1>6, <1>7, <1>8, <1>9, <1>10 DEF Last, LastFrom

\* The first and the last object stay as long as they are not freed.
LEMMA BoundsStay ==
  ASSUME NEW n \in Int, NEW S \in SUBSET (1 .. n), NEW id \in S
  PROVE  /\ id # First(S) => First(S \ {id}) = First(S)
         /\ id # Last(S) => Last(S \ {id}) = Last(S)
<1> DEFINE less == S \ {id}
           lo == Min(S)
           hi == Max(S)
<1>1. /\ S \in SUBSET Nat /\ S # {} /\ S \in SUBSET (0 .. n) /\ less \in SUBSET Int
      /\ \A y \in less : y \in S
  OBVIOUS
<1>2. lo \in S /\ \A y \in S : lo <= y
  BY <1>1, MinExists
<1>3. hi \in S /\ \A y \in S : y <= hi
  BY <1>1, MaxExists
<1> HIDE DEF lo, hi
<1>4. id # lo => lo \in less /\ Min(less) = lo
  <2>1. ASSUME id # lo PROVE lo \in less
    BY <1>2, <2>1
  <2> HIDE DEF less
  <2> QED
    BY <1>1, <1>2, <2>1, MinIs
<1>5. id # hi => hi \in less /\ Max(less) = hi
  <2>1. ASSUME id # hi PROVE hi \in less
    BY <1>3, <2>1
  <2> HIDE DEF less
  <2> QED
    BY <1>1, <1>3, <2>1, MaxIs
<1> HIDE DEF less
<1>6. First(S) = lo /\ Last(S) = hi
  BY <1>1 DEF First, Last, lo, hi
<1>7. (less # {} => First(less) = Min(less)) /\ (less # {} => Last(less) = Max(less))
  BY DEF First, Last
<1>8. (id # First(S) => First(less) = First(S)) /\ (id # Last(S) => Last(less) = Last(S))
  BY <1>4, <1>5, <1>6, <1>7
<1> QED
  BY <1>8 DEF less

LEMMA DestroyPages ==
  ASSUME PagesInv, NEW id \in allocated, destroy(id)
  PROVE  TableTidy'
<1> DEFINE objs == allocated \ {id}
           counts == Count(alloccnt, Page(id), -1)
<1>1. /\ allocated' = objs /\ alloccnt' = counts /\ alloc_cnt' = alloc_cnt - 1
      /\ bottom_idx' = IF id = bottom_idx THEN findBottom(objs, counts) ELSE bottom_idx
      /\ top_idx' = IF id = top_idx THEN findTop(objs, counts) ELSE top_idx
      /\ page_tbl_size' = page_tbl_size
  BY DEF destroy
<1>2. /\ page_cnt \in Nat /\ page_cnt = Len(alloccnt) /\ alloccnt \in Seq(Int)
      /\ allocated \in SUBSET (1 .. Size(alloccnt) - 1) /\ IsFiniteSet(allocated)
      /\ id \in 1 .. Size(alloccnt) - 1 /\ Size(alloccnt) - 1 \in Int
      /\ TableTidy
  BY ObjectsIn DEF PagesInv, FreeInv, page_cnt
<1>3. counts \in Seq(Int) /\ Len(counts) = page_cnt
  BY <1>2, CountLength
<1>4. Counted(objs, counts)
  BY <1>2, CountedRemove DEF TableTidy, Tidy
<1> HIDE DEF counts
<1>5. alloc_cnt' = Cardinality(objs)
  <2>1. Cardinality(objs) = Cardinality(allocated) - 1
    BY <1>2, FS_RemoveElement
  <2> QED
    BY <1>1, <1>2, <2>1 DEF TableTidy, Tidy
<1>6. bottom_idx' = First(objs) /\ top_idx' = Last(objs)
  <2>1. bottom_idx = First(allocated) /\ top_idx = Last(allocated)
    BY <1>2 DEF TableTidy, Tidy
  <2>2. id = bottom_idx => findBottom(objs, counts) = First(objs)
    BY <1>3, <1>4, BottomFound
  <2>3. id = top_idx => findTop(objs, counts) = Last(objs)
    BY <1>3, <1>4, TopFound
  <2>4. /\ id # First(allocated) => First(objs) = First(allocated)
        /\ id # Last(allocated) => Last(objs) = Last(allocated)
    <3> DEFINE n == Size(alloccnt) - 1
    <3>1. n \in Int /\ allocated \in SUBSET (1 .. n)
      BY <1>2
    <3> HIDE DEF n
    <3> QED
      BY <3>1, BoundsStay
  <2> QED
    BY <1>1, <2>1, <2>2, <2>3, <2>4
<1> HIDE DEF objs
<1>7. Tidy(objs, counts, alloc_cnt', bottom_idx', top_idx', page_tbl_size)
  BY <1>2, <1>3, <1>4, <1>5, <1>6 DEF TableTidy, Tidy
<1> QED
  BY <1>1, <1>7 DEF TableTidy

\* readPage() counts what create() and destroy() had counted.
LEMMA CountsRead ==
  ASSUME FreeInv, ImageTidy
  PROVE  ReadCounts(image.allocated, Len(image.alloccnt)) = image.alloccnt
<1> DEFINE n == Len(image.alloccnt)
           counts == ReadCounts(image.allocated, n)
<1>1. image.alloccnt \in Seq(Int) /\ n \in Nat /\ DOMAIN image.alloccnt = 1 .. n
      /\ image.alloccnt = [i \in 1 .. n |-> image.alloccnt[i]]
  BY LenProperties, SeqDef DEF FreeInv
<1>2. ASSUME NEW i \in 1 .. n
      PROVE  image.alloccnt[i] = Cardinality(image.allocated \cap SlotsOf(i - 1))
  <2>1. i - 1 \in 0 .. n - 1 /\ (i - 1) + 1 = i
    BY <1>1
  <2>2. image.alloccnt[(i - 1) + 1] = Cardinality(image.allocated \cap SlotsOf(i - 1))
    BY <2>1 DEF ImageTidy, Tidy, Counted
  <2> QED
    BY <2>1, <2>2
<1>3. counts = [i \in 1 .. n |-> Cardinality(image.allocated \cap SlotsOf(i - 1))]
  BY DEF ReadCounts
<1> HIDE DEF counts, n
<1>4. counts = image.alloccnt
  BY <1>1, <1>2, <1>3
<1> QED
  BY <1>4 DEF counts, n

\* A table that was read has the bounds and counts it had when it was written.
LEMMA StreamPages ==
  ASSUME PagesInv, clear \/ write \/ read
  PROVE  TableTidy' /\ ImageTidy'
<1>1. CASE clear
  BY <1>1, TidyNone DEF clear, Set, Cleared, PagesInv, TableTidy, ImageTidy
<1>2. CASE write
  BY <1>2 DEF write, table, PagesInv, TableTidy, ImageTidy
<1>3. CASE read
  <2>1. ReadCounts(image.allocated, Len(image.alloccnt)) = image.alloccnt
    BY CountsRead DEF PagesInv
  <2>2. /\ allocated' = image.allocated /\ alloccnt' = image.alloccnt
        /\ alloc_cnt' = image.alloc_cnt /\ bottom_idx' = image.bottom_idx
        /\ top_idx' = image.top_idx /\ page_tbl_size' = image.page_tbl_size
        /\ image' = image
    BY <1>3, <2>1 DEF read, Set, PagesInv, FreeInv, IsTable
  <2> QED
    BY <2>2 DEF PagesInv, TableTidy, ImageTidy
<1> QED
  BY <1>1, <1>2, <1>3

LEMMA NextPages == PagesInv /\ [Next]_vars => PagesInv'
<1> SUFFICES ASSUME PagesInv, [Next]_vars
             PROVE  TableTidy' /\ ImageTidy'
  BY NextFree DEF PagesInv
<1>1. CASE UNCHANGED vars
  BY <1>1 DEF vars, table, PagesInv, TableTidy, ImageTidy
<1>2. ASSUME image' = image PROVE ImageTidy'
  BY <1>2 DEF PagesInv, ImageTidy
<1>3. CASE create
  BY <1>2, <1>3, CreatePages DEF create
<1>4. ASSUME NEW id \in allocated, destroy(id)
      PROVE  TableTidy' /\ ImageTidy'
  BY <1>2, <1>4, DestroyPages DEF destroy
<1> QED
  BY <1>1, <1>3, <1>4, StreamPages DEF Next

-----------------------------------------------------------------------------
(* What the invariant gives. *)

LEMMA PagesTypes == PagesInv => TypeOK
<1> SUFFICES ASSUME PagesInv
             PROVE  TypeOK
  OBVIOUS
<1> DEFINE n == Size(alloccnt)
           all == MaxPages * PageSize
<1>1. /\ page_cnt \in Nat /\ n = page_cnt * PageSize /\ n \in Nat
      /\ allocated \in SUBSET (1 .. n - 1) /\ IsFiniteSet(allocated)
  BY ObjectsIn DEF PagesInv
<1>2. /\ alloccnt \in Seq(Int) /\ Exact(allocated, free_list, n)
      /\ page_cnt = Len(alloccnt) /\ TableTidy
  BY DEF PagesInv, FreeInv, page_cnt
<1>3. /\ page_cnt <= MaxPages /\ alloc_cnt = Cardinality(allocated)
      /\ Counted(allocated, alloccnt) /\ bottom_idx = First(allocated)
      /\ top_idx = Last(allocated) /\ page_tbl_size \in Nat
      /\ page_tbl_size <= 2 * page_cnt
  BY <1>2 DEF TableTidy, Tidy
<1>4. n <= all /\ all \in Nat /\ all > 0
  <2>1. n <= all
    BY <1>1, <1>3, PageSizeFact, Times
  <2>2. MaxPages * PageSize \in Nat /\ MaxPages * PageSize > 0
    BY PageSizeFact
  <2> QED
    BY <2>1, <2>2
<1>5. Slots = 0 .. all - 1
  BY DEF Slots
<1> HIDE DEF n, all
<1>6. 0 \in Slots /\ allocated \in SUBSET Slots
  BY <1>1, <1>4, <1>5
<1>7. free_list \in Seq(Slots)
  <2>1. free_list \in Seq(Nat) /\ DOMAIN free_list = 1 .. Len(free_list)
    BY <1>2, LenProperties DEF Exact
  <2>2. \A i \in 1 .. Len(free_list) : free_list[i] \in 1 .. n - 1
    BY <1>2, <2>1 DEF Exact
  <2>3. \A i \in 1 .. Len(free_list) : free_list[i] \in Slots
    BY <1>1, <1>4, <1>5, <2>2
  <2>4. Len(free_list) \in Nat /\ free_list = [i \in 1 .. Len(free_list) |-> free_list[i]]
    BY <2>1, LenProperties, SeqDef
  <2>5. free_list \in [1 .. Len(free_list) -> Slots]
    BY <2>3, <2>4
  <2> QED
    BY <2>4, <2>5, SeqDef
<1>8. alloccnt \in Seq(0 .. PageSize)
  <2>1. ASSUME NEW i \in 1 .. page_cnt PROVE alloccnt[i] \in 0 .. PageSize
    <3> DEFINE p == i - 1
    <3>1. p \in 0 .. page_cnt - 1 /\ p + 1 = i /\ p \in Int
      BY <1>1
    <3> HIDE DEF p
    <3>2. alloccnt[i] = Cardinality(allocated \cap SlotsOf(p))
      BY <1>2, <1>3, <3>1 DEF Counted
    <3>3. SlotsOf(p) = p * PageSize .. p * PageSize + PageSize - 1 /\ p * PageSize \in Int
      BY <3>1, PageSizeFact DEF SlotsOf
    <3>4. IsFiniteSet(SlotsOf(p)) /\ Cardinality(SlotsOf(p)) = PageSize
      <4> DEFINE a == p * PageSize
      <4>1. a \in Int /\ a + PageSize - 1 \in Int
        BY <3>3, PageSizeFact
      <4>2. SlotsOf(p) = a .. a + PageSize - 1
        BY <3>3
      <4> HIDE DEF a
      <4> DEFINE b == a + PageSize - 1
      <4>3. b \in Int /\ ~ (a > b) /\ b - a + 1 = PageSize
        BY <4>1, PageSizeFact
      <4> HIDE DEF b
      <4>4. IsFiniteSet(a .. b) /\ Cardinality(a .. b) = PageSize
        BY <4>1, <4>3, FS_Interval
      <4> QED
        BY <4>2, <4>4 DEF b
    <3>5. /\ Cardinality(allocated \cap SlotsOf(p)) \in Nat
          /\ Cardinality(allocated \cap SlotsOf(p)) <= PageSize
      BY <1>1, <3>4, FS_Intersection, FS_CardinalityType
    <3> QED
      BY <3>2, <3>5, PageSizeFact
  <2>2. page_cnt \in Nat /\ alloccnt = [i \in 1 .. page_cnt |-> alloccnt[i]]
    BY <1>2, LenProperties, SeqDef
  <2>3. alloccnt \in [1 .. page_cnt -> 0 .. PageSize]
    BY <2>1, <2>2
  <2> QED
    BY <2>2, <2>3, SeqDef
<1>9. alloc_cnt \in Slots
  <2>1. CASE n = 0
    <3>1. allocated = {}
      BY <1>1, <2>1
    <3> QED
      BY <1>3, <1>6, <3>1, FS_EmptySet
  <2>2. CASE n > 0
    <3>1. IsFiniteSet(1 .. n - 1) /\ Cardinality(1 .. n - 1) = n - 1
      <4>1. n - 1 \in Int /\ 1 \in Int
        BY <1>1
      <4>2. /\ IsFiniteSet(1 .. n - 1)
            /\ Cardinality(1 .. n - 1) = IF 1 > n - 1 THEN 0 ELSE n - 1 - 1 + 1
        BY <4>1, FS_Interval
      <4> QED
        BY <1>1, <2>2, <4>2
    <3>2. Cardinality(allocated) <= n - 1 /\ Cardinality(allocated) \in Nat
      <4> DEFINE whole == 1 .. n - 1
      <4>1. /\ IsFiniteSet(whole) /\ Cardinality(whole) = n - 1
            /\ allocated \in SUBSET whole
        BY <1>1, <3>1
      <4> HIDE DEF whole
      <4> QED
        BY <1>1, <4>1, FS_Subset, FS_CardinalityType
    <3> QED
      BY <1>1, <1>3, <1>4, <1>5, <3>2
  <2> QED
    BY <1>1, <2>1, <2>2
<1>10. bottom_idx \in Slots /\ top_idx \in Slots
  <2>1. CASE allocated = {}
    BY <1>3, <1>6, <2>1 DEF First, Last
  <2>2. CASE allocated # {}
    <3>1. n - 1 \in Int /\ allocated \in SUBSET Nat /\ allocated \in SUBSET (0 .. n - 1)
      BY <1>1
    <3>2. Min(allocated) \in allocated
      BY <2>2, <3>1, MinExists
    <3>3. Max(allocated) \in allocated
      BY <2>2, <3>1, MaxExists
    <3> QED
      BY <1>3, <1>6, <2>2, <3>2, <3>3 DEF First, Last
  <2> QED
    BY <2>1, <2>2
<1>11. page_tbl_size \in 0 .. 2 * MaxPages
  BY <1>1, <1>3, PageSizeFact
<1> QED
  BY <1>3, <1>6, <1>7, <1>8, <1>9, <1>10, <1>11 DEF TypeOK

LEMMA PagesSound == PagesInv => PagesExact
<1> SUFFICES ASSUME PagesInv
             PROVE  CountsExact /\ BoundsExact /\ PageTblFits
  BY PagesTypes DEF PagesExact
<1> QED
  BY DEF PagesInv, TableTidy, Tidy, CountsExact, Counted, BoundsExact, First, Last,
         PageTblFits, page_cnt

\* next() looks for the first of the objects after id where they can be.
LEMMA NextFinds ==
  ASSUME PagesInv, NEW id \in allocated, NEW after,
         after = {i \in allocated : i > id}
  PROVE  next(id) = First(after)
<1> DEFINE n == page_cnt
           k == Page(id + 1)
           here == {i \in allocated \cap SlotsOf(k) : i > id}
           later == {p \in k + 1 .. n - 1 : alloccnt[p + 1] # 0}
<1>1. /\ n \in Nat /\ allocated \in SUBSET (1 .. n * PageSize - 1)
      /\ allocated \in SUBSET Nat /\ n * PageSize - 1 \in Int
      /\ n = Len(alloccnt) /\ alloccnt \in Seq(Int) /\ Counted(allocated, alloccnt)
      /\ top_idx = Max(allocated)
  BY ObjectsIn DEF PagesInv, FreeInv, page_cnt, TableTidy, Tidy, Last
<1>2. id \in Nat /\ id + 1 \in Nat /\ k \in Nat
  <2> DEFINE a == id + 1
  <2>1. id \in Nat /\ a \in Nat
    BY <1>1
  <2> HIDE DEF a
  <2>2. Page(a) \in Nat
    BY <2>1, PageOf
  <2> QED
    BY <2>1, <2>2 DEF a
<1>3. \A y \in after : y \in allocated /\ y \in Nat /\ y >= id + 1 /\ Page(y) >= k
  <2>1. ASSUME NEW y \in after PROVE y \in allocated /\ y \in Nat /\ y >= id + 1
    BY <1>1, <1>2
  <2>2. ASSUME NEW y \in after PROVE Page(id + 1) <= Page(y) /\ Page(y) \in Nat
    BY <1>2, <2>1, PageOrder, PageOf
  <2> QED
    BY <1>2, <2>1, <2>2
<1>4. after \in SUBSET (1 .. n * PageSize - 1)
  BY <1>1
<1>5. here = after \cap SlotsOf(k)
  OBVIOUS
<1>6. ASSUME NEW p \in k + 1 .. n - 1
      PROVE  after \cap SlotsOf(p) = allocated \cap SlotsOf(p)
  <2>1. ASSUME NEW y \in allocated \cap SlotsOf(p) PROVE y \in after
    <3>1. y \in Nat /\ p \in Int /\ Page(y) = p
      BY <1>1, <1>2, PageOf
    <3>2. Page(id + 1) < Page(y)
      BY <1>2, <3>1
    <3>3. id + 1 < y
      BY <1>2, <3>1, <3>2, PageOrder
    <3> QED
      BY <1>2, <3>1, <3>3
  <2> QED
    BY <2>1
<1>7. later = Later(after, k, n)
  <2> DEFINE m == n * PageSize - 1
  <2>1. m \in Int /\ allocated \in SUBSET (1 .. m)
    BY <1>1
  <2> HIDE DEF m
  <2>2. \A p \in 0 .. n - 1 : alloccnt[p + 1] # 0 <=> allocated \cap SlotsOf(p) # {}
    BY <1>1, <2>1, ValidPages
  <2>3. \A p \in k + 1 .. n - 1 : p \in 0 .. n - 1
    BY <1>2
  <2> HIDE DEF k, n
  <2> QED
    BY <1>6, <2>2, <2>3 DEF Later
<1>8. next(id) = IF id + 1 > top_idx THEN 0
                 ELSE IF here # {} THEN Min(here)
                 ELSE IF later = {} THEN 0
                 ELSE Min(allocated \cap SlotsOf(Min(later)))
  BY DEF next
<1> HIDE DEF here, later
<1>9. First(after) = FirstFrom(after, k, later)
  <2> HIDE DEF k, n
  <2> QED
    BY <1>1, <1>2, <1>3, <1>4, <1>7, FirstOf
<1>10. id + 1 > top_idx => after = {}
  <2> DEFINE m == n * PageSize - 1
  <2>1. m \in Int /\ allocated \in SUBSET (0 .. m) /\ allocated # {}
    BY <1>1
  <2> HIDE DEF m
  <2>2. top_idx \in allocated /\ \A y \in allocated : y <= top_idx
    BY <1>1, <2>1, MaxExists
  <2>3. top_idx \in Nat
    BY <1>1, <2>2
  <2>4. ASSUME NEW y \in after, id + 1 > top_idx PROVE FALSE
    <3>1. y \in Nat /\ y >= id + 1 /\ y <= top_idx
      BY <1>3, <2>2, <2>4
    <3> QED
      BY <1>2, <2>3, <2>4, <3>1
  <2> QED
    BY <2>4
<1>11. later # {} => Min(later) \in k + 1 .. n - 1
  <2>1. later \in SUBSET Nat /\ later \in SUBSET (k + 1 .. n - 1)
    BY <1>2 DEF later
  <2> QED
    BY <2>1, MinExists
<1>12. later # {} => after \cap SlotsOf(Min(later)) = allocated \cap SlotsOf(Min(later))
  BY <1>6, <1>11
<1>13. after = {} => First(after) = 0
  BY DEF First
<1> QED
  BY <1>5, <1>8, <1>9, <1>10, <1>12, <1>13 DEF FirstFrom

\* The counts, the bounds and the page table that the loops over pages trust
\* are exact after every call, whatever is created, destroyed, saved and
\* restored: what create() and destroy() keep up to date is what readPage()
\* counts, and findBottom() and findTop() find the bounds again.
THEOREM TablePagesExact == Spec => []PagesExact
<1> QED
  BY InitPages, NextPages, PagesSound, PTL DEF Spec

\* Iteration with next() visits every object once, in the order of the ids.
THEOREM TableIterationExact == Spec => []IterationExact
<1>1. PagesInv => IterationExact
  BY NextFinds DEF IterationExact, First
<1> QED
  BY <1>1, InitPages, NextPages, PTL DEF Spec
=============================================================================
