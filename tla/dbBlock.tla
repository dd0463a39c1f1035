------------------------------- MODULE dbBlock -------------------------------
(***************************************************************************)
(* The netlist of one dbBlock of OpenDB as a value, and what the calls of  *)
(* its interface do to it (src/odb/src/db/dbNet.cpp, dbITerm.cpp,          *)
(* dbBTerm.cpp, dbInst.cpp).                                               *)
(*                                                                         *)
(* An object is <<table, id>>.  A net has two doubly linked lists, of the  *)
(* dbITerms and of the dbBTerms connected to it, threaded through the      *)
(* terminals; <<net, table>> names a list.  Ids come from dbTable's free   *)
(* list, which is last in, first out; a table has one page here.  Left     *)
(* out: the dbInstHdr objects, which cache the terminals of a master, and  *)
(* the regions, modules, groups, pins and wires that hang off an object.   *)
(***************************************************************************)
EXTENDS Integers, Sequences

CONSTANTS
  Size,       \* objects a table has room for, per table
  Names,      \* names of nets, terminals and instances, per table
  MTerms,     \* per master: the names of its mterms, in the order of _order_id
  Rules       \* non-default rules

Tables == {"net", "bterm", "iterm", "inst"}

ASSUME SizeAssumption == Size \in [Tables -> Nat]

Masters == DOMAIN MTerms

\* The mterms of a master have different names.
ASSUME MTermsAssumption ==
  \A m \in Masters :
    /\ MTerms[m] \in Seq(STRING)
    /\ \A j, k \in DOMAIN MTerms[m] : MTerms[m][j] = MTerms[m][k] => j = k

Objects(tbl) == {<<tbl, i>> : i \in 1 .. Size[tbl]}

Nets == Objects("net")
BTerms == Objects("bterm")
ITerms == Objects("iterm")
Insts == Objects("inst")
Terms == BTerms \cup ITerms

Null == <<"none", 0>>     \* the id 0
NoName == "no name"
NoRule == "no rule"
NoMaster == "no master"

Lists == Nets \X {"bterm", "iterm"}

\* The list of a net that a terminal belongs on.
ListOf(n, t) == <<n, t[1]>>

Elements(s) == {s[i] : i \in DOMAIN s}

-----------------------------------------------------------------------------
(* The lists: links is a record of _net, _next_..., _prev_... of the         *)
(* terminals and _iterms and _bterms of the nets.                            *)

\* Mutant: the old head is not told of its new predecessor.
LinkedOneWay(l, t, n) ==
  [net  |-> [l.net EXCEPT ![t] = n],
   head |-> [l.head EXCEPT ![ListOf(n, t)] = t],
   next |-> [l.next EXCEPT ![t] = l.head[ListOf(n, t)]],
   prev |-> [l.prev EXCEPT ![t] = Null]]

\* connectNet() and the end of dbITerm::connect(): t becomes the head.
Linked(l, t, n) ==
  LET old == l.head[ListOf(n, t)]
  IN [net  |-> [l.net EXCEPT ![t] = n],
      head |-> [l.head EXCEPT ![ListOf(n, t)] = t],
      next |-> [l.next EXCEPT ![t] = old],
      prev |-> [u \in Terms |-> IF u = t THEN Null
                                ELSE IF u = old THEN t ELSE l.prev[u]]]

\* Mutant: the head is only replaced if it has a successor.
UnlinkedKeepLast(l, t) ==
  LET list == ListOf(l.net[t], t)
      n == l.next[t]
      p == l.prev[t]
      first == l.head[list] = t
  IN [net  |-> [l.net EXCEPT ![t] = Null],
      head |-> IF first /\ n # Null THEN [l.head EXCEPT ![list] = n] ELSE l.head,
      next |-> [u \in Terms |-> IF ~ first /\ u = p THEN n ELSE l.next[u]],
      prev |-> [u \in Terms |-> IF u # n THEN l.prev[u]
                                ELSE IF first THEN Null ELSE p]]

\* disconnectNet() and dbITerm::disconnect(): the neighbours of t are joined.
\* The links of t itself keep their values.
Unlinked(l, t) ==
  LET list == ListOf(l.net[t], t)
      n == l.next[t]
      p == l.prev[t]
      first == l.head[list] = t
  IN [net  |-> [l.net EXCEPT ![t] = Null],
      head |-> IF first THEN [l.head EXCEPT ![list] = n] ELSE l.head,
      next |-> [u \in Terms |-> IF ~ first /\ u = p THEN n ELSE l.next[u]],
      prev |-> [u \in Terms |-> IF u # n THEN l.prev[u]
                                ELSE IF first THEN Null ELSE p]]

\* dbSet<dbITerm> and dbSet<dbBTerm> of a net: from the head along the next
\* ids to 0.  It gives up after more steps than there are terminals.
Walk(l, list) ==
  LET from[k \in 0 .. Size["bterm"] + Size["iterm"]] ==
        [t \in Terms \cup {Null} |->
           IF t = Null \/ k = 0 THEN << >> ELSE <<t>> \o from[k - 1][l.next[t]]]
  IN from[Size["bterm"] + Size["iterm"]][l.head[list]]

-----------------------------------------------------------------------------
(* Blocks. *)

Empty ==
  [live   |-> {},
   free   |-> [tbl \in Tables |-> [i \in 1 .. Size[tbl] |-> <<tbl, i>>]],
   links  |-> [net  |-> [t \in Terms |-> Null], head |-> [s \in Lists |-> Null],
               next |-> [t \in Terms |-> Null], prev |-> [t \in Terms |-> Null]],
   name   |-> [o \in Nets \cup BTerms \cup Insts |-> NoName],
   rule   |-> [n \in Nets |-> NoRule],
   master |-> [i \in Insts |-> NoMaster],
   iterms |-> [i \in Insts |-> << >>],
   pin    |-> [t \in ITerms |-> 0],
   x      |-> [i \in Insts |-> 0],
   orient |-> [i \in Insts |-> "R0"],
   bbox   |-> [i \in Insts |-> << >>]]

\* dbTable::create(), k times, and dbTable::destroy().  A free slot has the
\* values that the constructor will give the next object in it.
Taken(b, tbl, k) == SubSeq(b.free[tbl], 1, k)

Take(b, tbl, k) ==
  [b EXCEPT !.live = @ \cup Elements(Taken(b, tbl, k)),
            !.free[tbl] = SubSeq(@, k + 1, Len(@))]

Give(b, o) ==
  [b EXCEPT !.live = @ \ {o}, !.free[o[1]] = <<o>> \o @]

Room(b, tbl, k) == Len(b.free[tbl]) >= k

\* hasMember() of the hash table of the names of a table.
HasMember(b, tbl, name) ==
  \E o \in b.live : o[1] = tbl /\ b.name[o] = name

\* setInstBBox(): the boundary of the master, transformed.
BBox(b, i) == <<b.master[i], b.x[i], b.orient[i]>>

WithBBox(b, i) == [b EXCEPT !.bbox[i] = BBox(b, i)]

-----------------------------------------------------------------------------
(* Terminals. *)

\* dbITerm::disconnect() of a connected terminal; disconnectNet().
Disconnected(b, t) == [b EXCEPT !.links = Unlinked(@, t)]

\* dbITerm::disconnect() and dbBTerm::disconnect().
disconnect(b, t) == IF b.links.net[t] = Null THEN b ELSE Disconnected(b, t)

\* dbITerm::connect() returns if t is on net n already; dbBTerm::connect()
\* makes t the head of the list of n again.
connect(b, t, n) ==
  IF t \in ITerms /\ b.links.net[t] = n THEN b
  ELSE [disconnect(b, t) EXCEPT !.links = Linked(@, t, n)]

\* dbBTerm::create() on net n, if the name is new.
BTerm_create(b, n, name) ==
  LET t == Head(b.free["bterm"])
      new == [Take(b, "bterm", 1) EXCEPT !.name[t] = name]
  IN [new EXCEPT !.links = Linked(@, t, n)]

\* Mutant: the terminal is not taken off the list of its net.
Term_destroy_linked(b, t) ==
  [Give(b, t) EXCEPT !.links.next[t] = Null, !.links.prev[t] = Null]

\* dbBTerm::destroy(), and disconnect() and destroy() of an instance terminal
\* in the loop of dbInst::destroy().
Term_destroy(b, t) ==
  [Give(disconnect(b, t), t) EXCEPT !.links.next[t] = Null,
                                    !.links.prev[t] = Null]

-----------------------------------------------------------------------------
(* Nets and instances. *)

\* dbNet::create(), after the check of the name.
Net_create(b, name) ==
  LET n == Head(b.free["net"])
  IN [Take(b, "net", 1) EXCEPT !.name[n] = name]

\* The end of dbNet::destroy(), after its terminals.
Net_delete(b, n) == [Give(b, n) EXCEPT !.name[n] = NoName, !.rule[n] = NoRule]

\* dbInst::create(), after the check of the name: a dbITerm for each mterm.
Inst_create(b, m, name) ==
  LET i == Head(b.free["inst"])
      k == Len(MTerms[m])
      ts == Taken(b, "iterm", k)
      pin(t) == CHOOSE j \in 1 .. k : ts[j] = t
      new == [Take(Take(b, "inst", 1), "iterm", k) EXCEPT
                !.name[i] = name, !.master[i] = m, !.iterms[i] = ts,
                !.pin = [t \in ITerms |->
                           IF t \in Elements(ts) THEN pin(t) ELSE @[t]]]
  IN WithBBox(new, i)

\* The end of dbInst::destroy(), after its terminals.
Inst_delete(b, i) ==
  [Give(b, i) EXCEPT
     !.name[i] = NoName, !.master[i] = NoMaster, !.iterms[i] = << >>,
     !.x[i] = 0, !.orient[i] = "R0", !.bbox[i] = << >>]

\* The mterms of two masters are equivalent: the same names, in any order.
Equivalent(m, o) ==
  /\ Len(MTerms[m]) = Len(MTerms[o])
  /\ Elements(MTerms[m]) = Elements(MTerms[o])

\* Mutant: _iterms is left in the order of the old master.
swapMaster_unsorted(b, i, m) ==
  LET to(j) == CHOOSE k \in DOMAIN MTerms[m] : MTerms[m][k] = MTerms[b.master[i]][j]
      old == b.iterms[i]
  IN IF ~ Equivalent(m, b.master[i]) THEN b
     ELSE WithBBox([b EXCEPT
            !.master[i] = m,
            !.pin = [t \in ITerms |->
                       IF t \in Elements(old) THEN to(@[t]) ELSE @[t]]], i)

\* Mutant: idx_map goes from the new master to the old one.
swapMaster_inverse(b, i, m) ==
  LET to(j) == CHOOSE k \in DOMAIN MTerms[m] : MTerms[m][j] = MTerms[b.master[i]][k]
      old == b.iterms[i]
  IN IF ~ Equivalent(m, b.master[i]) THEN b
     ELSE WithBBox([b EXCEPT
            !.master[i] = m,
            !.pin = [t \in ITerms |->
                       IF t \in Elements(old) THEN to(@[t]) ELSE @[t]],
            !.iterms[i] = [k \in DOMAIN old |->
                             CHOOSE t \in Elements(old) : to(b.pin[t]) = k]], i)

\* Mutant: idx_map counts from one.
swapMaster_shifted(b, i, m) ==
  LET old == b.iterms[i]
  IN IF ~ Equivalent(m, b.master[i]) THEN b
     ELSE WithBBox([b EXCEPT
            !.master[i] = m,
            !.pin = [t \in ITerms |->
                       IF t \in Elements(old) THEN @[t] + 1 ELSE @[t]]], i)

\* swapMaster(): idx_map takes the index of an mterm of the old master to
\* that of the mterm with its name; _iterms is then sorted by the new index.
swapMaster(b, i, m) ==
  LET to(j) == CHOOSE k \in DOMAIN MTerms[m] : MTerms[m][k] = MTerms[b.master[i]][j]
      old == b.iterms[i]
  IN IF ~ Equivalent(m, b.master[i]) THEN b
     ELSE WithBBox([b EXCEPT
            !.master[i] = m,
            !.pin = [t \in ITerms |->
                       IF t \in Elements(old) THEN to(@[t]) ELSE @[t]],
            !.iterms[i] = [k \in DOMAIN old |->
                             CHOOSE t \in Elements(old) : to(b.pin[t]) = k]], i)

\* setOrigin(): nothing if the origin does not change.
setOrigin(b, i, x) ==
  IF b.x[i] = x THEN b ELSE WithBBox([b EXCEPT !.x[i] = x], i)

\* setOrient()
setOrient(b, i, o) ==
  IF b.orient[i] = o THEN b ELSE WithBBox([b EXCEPT !.orient[i] = o], i)

\* dbNet::setNonDefaultRule()
setNonDefaultRule(b, n, r) == [b EXCEPT !.rule[n] = r]

\* rename() of dbNet, dbBTerm and dbInst.
rename(b, o, name) ==
  IF HasMember(b, o[1], name) THEN b ELSE [b EXCEPT !.name[o] = name]

-----------------------------------------------------------------------------
(* The type of a block. *)

LinksType(l) ==
  /\ DOMAIN l = {"net", "head", "next", "prev"}
  /\ l.net \in [Terms -> Nets \cup {Null}]
  /\ l.head \in [Lists -> Terms \cup {Null}]
  /\ l.next \in [Terms -> Terms \cup {Null}]
  /\ l.prev \in [Terms -> Terms \cup {Null}]

Fields == {"live", "free", "links", "name", "rule", "master", "iterms", "pin",
           "x", "orient", "bbox"}

BlockType(b) ==
  /\ DOMAIN b = Fields
  /\ b.live \subseteq Nets \cup Terms \cup Insts
  /\ DOMAIN b.free = Tables
  /\ \A tbl \in Tables : b.free[tbl] \in Seq(Objects(tbl))
  /\ LinksType(b.links)
  /\ b.rule \in [Nets -> Rules \cup {NoRule}]
  /\ b.master \in [Insts -> Masters \cup {NoMaster}]
  /\ b.iterms \in [Insts -> Seq(ITerms)]
  /\ b.pin \in [ITerms -> 0 .. Size["iterm"]]
  /\ DOMAIN b.x = Insts /\ DOMAIN b.orient = Insts

-----------------------------------------------------------------------------
(* Sound blocks. *)

\* Terminal u is on the list that t is on.
SameList(l, t, u) == u \in Terms /\ l.net[u] = l.net[t] /\ u[1] = t[1]

HeadsSound(l) ==
  \A s \in Lists : l.head[s] # Null =>
    l.net[l.head[s]] = s[1] /\ l.head[s][1] = s[2] /\ l.prev[l.head[s]] = Null

NeighboursSound(l) ==
  \A t \in Terms : l.net[t] # Null =>
    /\ l.next[t] # Null => SameList(l, t, l.next[t]) /\ l.prev[l.next[t]] = t
    /\ l.prev[t] # Null => SameList(l, t, l.prev[t]) /\ l.next[l.prev[t]] = t
    /\ l.prev[t] = Null => l.head[ListOf(l.net[t], t)] = t

\* r grows along every list.
Ascends(l, r) ==
  \A t \in Terms : l.net[t] # Null /\ l.prev[t] # Null => r[l.prev[t]] < r[t]

\* A slot is free or live, and free once.
Slots(b) ==
  \A tbl \in Tables :
    /\ \A j \in DOMAIN b.free[tbl] : b.free[tbl][j] \notin b.live
    /\ \A j, k \in DOMAIN b.free[tbl] : b.free[tbl][j] = b.free[tbl][k] => j = k

\* A connected terminal and its net are live.
Connected(b) ==
  \A t \in Terms : b.links.net[t] # Null =>
    t \in b.live /\ b.links.net[t] \in b.live

\* An instance has a live terminal for every mterm of its master, in the order
\* of their indices.
PinsOf(b, i) ==
  /\ b.master[i] \in Masters
  /\ Len(b.iterms[i]) = Len(MTerms[b.master[i]])
  /\ \A k \in DOMAIN b.iterms[i] :
       b.pin[b.iterms[i][k]] = k /\ b.iterms[i][k] \in b.live

\* A terminal of an instance is a terminal of no other.
Owner(b, t) ==
  \E i \in Insts : \A j \in Insts : t \in Elements(b.iterms[j]) <=> j = i

\* What dbDatabase::read() makes is what write() found: a block in a state
\* that the calls of dbNetlist reach, whatever the names are.
Sound(b) ==
  /\ BlockType(b) /\ DOMAIN b.bbox = Insts
  /\ Slots(b) /\ Connected(b)
  /\ HeadsSound(b.links) /\ NeighboursSound(b.links)
  /\ \E r \in [Terms -> 1 .. Size["bterm"] + Size["iterm"]] : Ascends(b.links, r)
  /\ \A i \in Insts : IF i \in b.live THEN PinsOf(b, i) ELSE b.iterms[i] = << >>
  /\ \A t \in ITerms \cap b.live : Owner(b, t)
=============================================================================
