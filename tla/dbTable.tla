------------------------------ MODULE dbTable ------------------------------
(***************************************************************************)
(* The paged object table of the design database, odb::dbTable<T>          *)
(* (src/odb/src/db/dbTable.hpp).  Every database object lives in one, and  *)
(* its id, the index of its slot, is the only reference to it the database *)
(* stores, in memory, in files and in the journal.                         *)
(*                                                                         *)
(* Slots are numbered through all pages; slot 0 of page 0 stands for the   *)
(* null reference.  Free slots are threaded on one list, last in first     *)
(* out, which is saved with the table: which id the next create() returns  *)
(* is a function of the saved state.                                       *)
(***************************************************************************)
EXTENDS Integers, Sequences, FiniteSets, FiniteSetsExt

CONSTANTS
  PageSize,  \* slots of a page, a power of two
  MaxPages   \* bound on the number of pages

ASSUME PageAssumption ==
  /\ PageSize \in Nat /\ PageSize > 1
  /\ MaxPages \in Nat /\ MaxPages > 0

VARIABLES
  allocated,  \* slots with DB_ALLOC_BIT set in _oid
  free_list,  \* the slots on _free_list, first to last
  alloccnt,   \* _alloccnt of every page
  alloc_cnt, bottom_idx, top_idx, page_tbl_size,
  image       \* the fields and pages written by the last operator<<

\* _page_cnt: pages are never given back before clear().
page_cnt == Len(alloccnt)

table == <<allocated, free_list, alloccnt, alloc_cnt, bottom_idx, top_idx,
           page_tbl_size>>

vars == <<table, image>>

Slots == 0 .. MaxPages * PageSize - 1

Page(id) == id \div PageSize

SlotsOf(page) == page * PageSize .. (page + 1) * PageSize - 1

\* The slots that may hold an object.
Usable == 1 .. page_cnt * PageSize - 1

\* Type invariant.
TypeOK ==
  /\ allocated \in SUBSET Slots
  /\ free_list \in Seq(Slots)
  /\ alloccnt \in Seq(0 .. PageSize) /\ page_cnt <= MaxPages
  /\ {alloc_cnt, bottom_idx, top_idx} \subseteq Slots
  /\ page_tbl_size \in 0 .. 2 * MaxPages

Cleared ==
  [allocated |-> {}, free_list |-> << >>, alloccnt |-> << >>, alloc_cnt |-> 0,
   bottom_idx |-> 0, top_idx |-> 0, page_tbl_size |-> 0]

Set(t) ==
  /\ allocated' = t.allocated
  /\ free_list' = t.free_list
  /\ alloccnt' = t.alloccnt
  /\ alloc_cnt' = t.alloc_cnt
  /\ bottom_idx' = t.bottom_idx
  /\ top_idx' = t.top_idx
  /\ page_tbl_size' = t.page_tbl_size

Init ==
  /\ allocated = {} /\ free_list = << >> /\ alloccnt = << >>
  /\ alloc_cnt = 0 /\ bottom_idx = 0 /\ top_idx = 0 /\ page_tbl_size = 0
  /\ image = Cleared

-----------------------------------------------------------------------------
(* The free list and the pages. *)

\* Mutant: the zero-object is linked too.
NewPageWithZero == [i \in 1 .. PageSize |-> page_cnt * PageSize + i - 1]

\* newPage(): the slots of the page, low to high; not the zero-object.
NewPage ==
  LET first == IF page_cnt = 0 THEN 1 ELSE page_cnt * PageSize
  IN [i \in 1 .. (page_cnt + 1) * PageSize - first |-> first + i - 1]

\* The page table doubles when it is full.
NewTblSize ==
  IF page_tbl_size = 0 THEN 1
  ELSE IF page_tbl_size = page_cnt THEN 2 * page_tbl_size
  ELSE page_tbl_size

pushQ(q, id) == <<id>> \o q

Count(counts, page, d) == [counts EXCEPT ![page + 1] = @ + d]

Lower(id) == IF bottom_idx = 0 \/ id < bottom_idx THEN id ELSE bottom_idx

Raise(id) == IF id > top_idx THEN id ELSE top_idx

\* create() and duplicate().
create ==
  LET grow == free_list = << >>
      q == IF grow THEN NewPage ELSE free_list
      id == Head(q)
      counts == IF grow THEN Append(alloccnt, 0) ELSE alloccnt
  IN /\ grow => page_cnt < MaxPages
     /\ allocated' = allocated \cup {id}
     /\ free_list' = Tail(q)
     /\ alloccnt' = Count(counts, Page(id), 1)
     /\ alloc_cnt' = alloc_cnt + 1
     /\ bottom_idx' = Lower(id)
     /\ top_idx' = Raise(id)
     /\ page_tbl_size' = IF grow THEN NewTblSize ELSE page_tbl_size
     /\ UNCHANGED image

-----------------------------------------------------------------------------
(* The bounds of the allocated slots, after a slot was freed. *)

\* Mutant: the search starts again in the page of the bound, valid or not.
findBottomHere(objs, counts) ==
  IF objs = {} THEN 0
  ELSE LET here == objs \cap SlotsOf(Page(bottom_idx))
       IN IF here # {} THEN Min(here) ELSE bottom_idx

\* findBottom(): the next object of the page if the page has objects, or the
\* first one of the next page that has some.
findBottom(objs, counts) ==
  LET valid == {p \in 0 .. page_cnt - 1 : counts[p + 1] # 0}
      page == Page(bottom_idx)
  IN IF objs = {} THEN 0
     ELSE IF page \in valid
     THEN Min({i \in objs \cap SlotsOf(page) : i > bottom_idx})
     ELSE Min(objs \cap SlotsOf(Min({p \in valid : p > page})))

\* findTop(): the same downwards.
findTop(objs, counts) ==
  LET valid == {p \in 0 .. page_cnt - 1 : counts[p + 1] # 0}
      page == Page(top_idx)
  IN IF objs = {} THEN 0
     ELSE IF page \in valid
     THEN Max({i \in objs \cap SlotsOf(page) : i < top_idx})
     ELSE Max(objs \cap SlotsOf(Max({p \in valid : p < page})))

destroy(id) ==
  LET objs == allocated \ {id}
      counts == Count(alloccnt, Page(id), -1)
  IN /\ id \in allocated
     /\ allocated' = objs
     /\ free_list' = pushQ(free_list, id)
     /\ alloccnt' = counts
     /\ alloc_cnt' = alloc_cnt - 1
     /\ bottom_idx' = IF id = bottom_idx THEN findBottom(objs, counts) ELSE bottom_idx
     /\ top_idx' = IF id = top_idx THEN findTop(objs, counts) ELSE top_idx
     /\ UNCHANGED <<image, page_tbl_size>>

clear == Set(Cleared) /\ UNCHANGED image

-----------------------------------------------------------------------------
(* Streams. *)

\* operator<<
write ==
  /\ image' = [allocated |-> allocated, free_list |-> free_list,
               alloccnt |-> alloccnt, alloc_cnt |-> alloc_cnt,
               bottom_idx |-> bottom_idx, top_idx |-> top_idx,
               page_tbl_size |-> page_tbl_size]
  /\ UNCHANGED table

\* readPage() counts the objects of a page itself.
ReadCounts(objs, pages) ==
  [p \in 1 .. pages |-> Cardinality(objs \cap SlotsOf(p - 1))]

\* operator>>
read ==
  /\ Set([image EXCEPT !.alloccnt = ReadCounts(image.allocated, Len(@))])
  /\ UNCHANGED image

Next ==
  \/ create
  \/ \E id \in allocated : destroy(id)
  \/ clear
  \/ write
  \/ read

Spec == Init /\ [][Next]_vars

-----------------------------------------------------------------------------
(* What the rest of the database relies on. *)

\* Mutant: the last page is left out.
next_short(id) ==
  LET here == {i \in allocated \cap SlotsOf(Page(id + 1)) : i > id}
      later == {p \in Page(id + 1) + 1 .. page_cnt - 2 : alloccnt[p + 1] # 0}
  IN IF id + 1 > top_idx THEN 0
     ELSE IF here # {} THEN Min(here)
     ELSE IF later = {} THEN 0
     ELSE Min(allocated \cap SlotsOf(Min(later)))

\* next(id): an object in the rest of the page, or the first one of the next
\* page that has some; 0 ends the iteration.
next(id) ==
  LET here == {i \in allocated \cap SlotsOf(Page(id + 1)) : i > id}
      later == {p \in Page(id + 1) + 1 .. page_cnt - 1 : alloccnt[p + 1] # 0}
  IN IF id + 1 > top_idx THEN 0
     ELSE IF here # {} THEN Min(here)
     ELSE IF later = {} THEN 0
     ELSE Min(allocated \cap SlotsOf(Min(later)))

\* A slot is either an object or on the free list, once; so create() never
\* returns a slot in use and no slot is lost.
FreeListExact ==
  /\ \A i, j \in DOMAIN free_list : i # j => free_list[i] # free_list[j]
  /\ \A i \in DOMAIN free_list : free_list[i] \in Usable \ allocated
  /\ allocated \subseteq Usable
  /\ \A id \in Usable \ allocated : \E i \in DOMAIN free_list : free_list[i] = id

\* size() and the page counts that findBottom(), findTop() and next() skip
\* empty pages by.
CountsExact ==
  /\ alloc_cnt = Cardinality(allocated)
  /\ \A p \in 0 .. page_cnt - 1 :
       alloccnt[p + 1] = Cardinality(allocated \cap SlotsOf(p))

\* Iteration starts at the first object and ends after the last one.
BoundsExact ==
  /\ bottom_idx = IF allocated = {} THEN 0 ELSE Min(allocated)
  /\ top_idx = IF allocated = {} THEN 0 ELSE Max(allocated)

\* The page table has room for the pages and at most twice as much.
PageTblFits ==
  /\ page_cnt <= page_tbl_size
  /\ page_tbl_size <= 2 * page_cnt

\* The counts, bounds and sizes that the loops over pages trust hold together
\* after every call: they are kept by create() and destroy(), counted again
\* by readPage(), and searched for again when the first or last object goes.
PagesExact == TypeOK /\ CountsExact /\ BoundsExact /\ PageTblFits

\* next() steps from every object to the one after it, over the holes that
\* destroy() left.
IterationExact ==
  \A id \in allocated :
    LET after == {i \in allocated : i > id}
    IN next(id) = IF after = {} THEN 0 ELSE Min(after)
=============================================================================
