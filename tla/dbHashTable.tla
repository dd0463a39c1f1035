---------------------------- MODULE dbHashTable ----------------------------
(***************************************************************************)
(* The hash table by which the database finds an object by its name,       *)
(* odb::dbHashTable<T> (src/odb/src/db/dbHashTable.hpp), under the protocol*)
(* that dbNet::create(), rename() and destroy() drive the net table of a   *)
(* block with (src/odb/src/db/dbNet.cpp; instances, modules, groups and    *)
(* block terminals do the same).                                           *)
(*                                                                         *)
(* Chains are threaded through the objects (_next_entry): a chain is the   *)
(* sequence of its objects.  Names need not be unique: create() skips its  *)
(* test when it is told to (by dbBlock::createExtCornerBlock() and by      *)
(* dbCreateNetUtil::copyNet()), and the order of the chain then decides    *)
(* which of several objects find() returns.  The terminals, wires, groups  *)
(* and journal records of a net are not the table's business.              *)
(***************************************************************************)
EXTENDS Integers, SequencesExt

CONSTANTS
  Objects,
  Names,
  Hash,         \* hash_string(), a number for every name
  CHAIN_LENGTH  \* the load at which the table grows; 4 in the code

None == "none"

ASSUME HashAssumption ==
  /\ None \notin Objects \cup Names
  /\ Hash \in [Names -> Nat]
  /\ CHAIN_LENGTH \in Nat /\ CHAIN_LENGTH > 1

VARIABLES
  net_name,  \* _name of every object; None when it does not exist
  net_hash   \* _hash_tbl as chains, and _num_entries

vars == <<net_name, net_hash>>

Live == {o \in Objects : net_name[o] # None}

\* The mask sz - 1 needs a size that is a power of two: 1 is its only odd divisor.
PowerOfTwo(n) == \A d, k \in 1 .. n : d * k = n /\ d % 2 = 1 => d = 1

\* Type invariant.
TypeOK ==
  /\ net_name \in [Objects -> Names \cup {None}]
  /\ net_hash.tbl \in Seq(Seq(Objects))
  /\ Len(net_hash.tbl) = 0 \/ PowerOfTwo(Len(net_hash.tbl))
  /\ net_hash.num \in Nat

Init ==
  /\ net_name = [o \in Objects |-> None]
  /\ net_hash = [tbl |-> << >>, num |-> 0]

-----------------------------------------------------------------------------
(* The chains. *)

\* hash_string(name) & (sz - 1), as an index of tbl.
Hid(name, sz) == (Hash[name] % sz) + 1

\* Mutant: an entry goes to the tail of its chain.
LinkAtTail(tbl, names, o) == [tbl EXCEPT ![Hid(names[o], Len(tbl))] = @ \o <<o>>]

\* The object becomes the head of the chain of its name.
Link(tbl, names, o) == [tbl EXCEPT ![Hid(names[o], Len(tbl))] = <<o>> \o @]

\* growTable() and shrinkTable() push the entries, chain by chain, on a stack,
Stack(tbl) ==
  LET pushed[k \in 0 .. Len(tbl)] ==
        IF k = 0 THEN << >> ELSE Reverse(tbl[k]) \o pushed[k - 1]
  IN pushed[Len(tbl)]

\* and take them from it to link each into a table of sz empty chains.
Refill(stack, names, sz) ==
  LET filled[k \in 0 .. Len(stack)] ==
        IF k = 0 THEN [hid \in 1 .. sz |-> << >>]
        ELSE Link(filled[k - 1], names, stack[k])
  IN filled[Len(stack)]

Rehash(tbl, names, sz) == Refill(Stack(tbl), names, sz)

growTable(tbl, names) == Rehash(tbl, names, 2 * Len(tbl))

shrinkTable(tbl, names) == Rehash(tbl, names, Len(tbl) \div 2)

mustGrow(num, sz) == num \div sz > CHAIN_LENGTH

\* Mutant: shrinks as soon as the table could be smaller.
mustShrinkEarly(num, sz) == (num + num \div 10) \div sz < CHAIN_LENGTH /\ sz > 1

mustShrink(num, sz) ==
  (num + num \div 10) \div sz < CHAIN_LENGTH \div 2 /\ sz > 1

\* Mutant: the chain is chosen with the size from before growTable().
insertOldSize(h, names, o) ==
  LET sz == Len(h.tbl)
      tbl == IF sz = 0 THEN << << >> >>
             ELSE IF mustGrow(h.num + 1, sz) THEN growTable(h.tbl, names)
             ELSE h.tbl
      hid == Hid(names[o], IF sz = 0 THEN 1 ELSE sz)
  IN [tbl |-> [tbl EXCEPT ![hid] = <<o>> \o @], num |-> h.num + 1]

insert(h, names, o) ==
  LET sz == Len(h.tbl)
      tbl == IF sz = 0 THEN << << >> >>
             ELSE IF mustGrow(h.num + 1, sz) THEN growTable(h.tbl, names)
             ELSE h.tbl
  IN [tbl |-> Link(tbl, names, o), num |-> h.num + 1]

\* A chain without the entry o.
Unlink(chain, o) == RemoveAt(chain, CHOOSE i \in DOMAIN chain : chain[i] = o)

\* remove(): an object that is not in the chain of its name is left alone.
remove(h, names, o) ==
  LET sz == Len(h.tbl)
      hid == Hid(names[o], sz)
      tbl == [h.tbl EXCEPT ![hid] = Unlink(@, o)]
      num == h.num - 1
  IN IF ~Contains(h.tbl[hid], o) THEN h
     ELSE [tbl |-> IF mustShrink(num, sz) THEN shrinkTable(tbl, names) ELSE tbl,
           num |-> num]

\* find(), hasMember(): the first of the chain with the name.
find(h, names, name) ==
  LET chain == h.tbl[Hid(name, Len(h.tbl))]
      places == {i \in DOMAIN chain : names[chain[i]] = name}
  IN IF h.tbl = << >> \/ places = {} THEN None ELSE chain[Min(places)]

-----------------------------------------------------------------------------
(* The net table of a block. *)

\* dbNet::create()
create(o, name, skipExistingCheck) ==
  /\ net_name[o] = None
  /\ skipExistingCheck \/ find(net_hash, net_name, name) = None
  /\ net_name' = [net_name EXCEPT ![o] = name]
  /\ net_hash' = insert(net_hash, net_name', o)

\* dbNet::rename(): false when the name is taken.
rename(o, name) ==
  /\ net_name[o] # None
  /\ find(net_hash, net_name, name) = None
  /\ net_name' = [net_name EXCEPT ![o] = name]
  /\ net_hash' = insert(remove(net_hash, net_name, o), net_name', o)

\* dbNet::destroy()
destroy(o) ==
  /\ net_name[o] # None
  /\ net_name' = [net_name EXCEPT ![o] = None]
  /\ net_hash' = remove(net_hash, net_name, o)

Next ==
  \E o \in Objects :
    \/ \E name \in Names, skip \in BOOLEAN : create(o, name, skip)
    \/ \E name \in Names : rename(o, name)
    \/ destroy(o)

Spec == Init /\ [][Next]_vars

-----------------------------------------------------------------------------
(* What lookups rely on. *)

\* The places an object has in the chains.
PlacesOf(o) ==
  {hid \in DOMAIN net_hash.tbl : Contains(net_hash.tbl[hid], o)}

\* Every net, and nothing else, is in the chain its name is looked up in, and
\* once: growing, shrinking and renaming lose no net, leave none behind under
\* an old name, and make no cycle through _next_entry.
Placed ==
  /\ \A o \in Objects :
       PlacesOf(o) = IF o \in Live
                     THEN {Hid(net_name[o], Len(net_hash.tbl))} ELSE {}
  /\ \A hid \in DOMAIN net_hash.tbl : IsInjective(net_hash.tbl[hid])
  /\ net_hash.num = Cardinality(Live)

\* insert() keeps the average chain within CHAIN_LENGTH.
LoadBounded ==
  net_hash.tbl # << >> => net_hash.num \div Len(net_hash.tbl) <= CHAIN_LENGTH

\* The number of chains is a power of two, as the mask needs, chains are short,
\* and every net is where it is looked up, after every resize.
ChainsSound == TypeOK /\ Placed /\ LoadBounded

Ahead(chain, o, p) ==
  \E i, j \in DOMAIN chain : i < j /\ chain[i] = o /\ chain[j] = p

\* o is found before p under the name they share.
Before(o, p) ==
  \E hid \in DOMAIN net_hash.tbl : Ahead(net_hash.tbl[hid], o, p)

\* A net that keeps its name keeps its place among those of that name, and one
\* that gets a name is then found under it.
NewestStep ==
  \A o \in Objects :
    IF net_name'[o] = net_name[o]
    THEN \A p \in Live :
           net_name'[p] = net_name[p] /\ net_name[p] = net_name[o]
             => (Before(o, p) <=> Before(o, p)')
    ELSE net_name'[o] # None => find(net_hash', net_name', net_name'[o]) = o

\* Among nets of one name find() returns the one that got the name last, and
\* neither growTable() nor shrinkTable() changes which comes first: the net
\* that is found under a name does not depend on how many other nets there are.
NewestFound == [][NewestStep]_vars

\* After growing, one net less does not shrink the table; after shrinking, one
\* net more does not grow it.
ResizeStep ==
  LET before == Len(net_hash.tbl)
      after == Len(net_hash'.tbl)
  IN /\ before > 0 /\ after > before => ~ mustShrink(net_hash'.num - 1, after)
     /\ after < before => ~ mustGrow(net_hash.num, after)

\* A table that has just grown does not shrink when the net is removed again,
\* nor one that has just shrunk grow when the net is put back, by rename() or
\* by a client: one net that comes and goes at the boundary does not rehash
\* the block every time.
NoThrashing == [][ResizeStep]_vars
=============================================================================
