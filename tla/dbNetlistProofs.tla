--------------------------- MODULE dbNetlistProofs ---------------------------
(***************************************************************************)
(* Proofs about dbNetlist, for blocks of any size and any masters, and     *)
(* about IncrementalRoute, which listens to its calls: for every design,   *)
(* whatever is edited while the router listens or does not.                *)
(***************************************************************************)
EXTENDS IncrementalRoute, SequenceTheorems, WellFoundedInduction, FiniteSetTheorems,
        TLAPS

(***************************************************************************)
(* Objects of different tables are different, and none of them is Null.    *)
(***************************************************************************)
LEMMA BTermFacts == \A t \in BTerms : t[1] = "bterm" /\ t \in Terms /\ t # Null
  BY DEF Objects, Null, BTerms, Terms

LEMMA ITermFacts == \A t \in ITerms : t[1] = "iterm" /\ t \in Terms /\ t # Null
  BY DEF Objects, Null, ITerms, Terms

LEMMA NetFacts == \A n \in Nets : n[1] = "net" /\ n # Null /\ n \notin Terms
  BY DEF Objects, Null, Nets, Terms, BTerms, ITerms

LEMMA InstFacts ==
  \A i \in Insts : i[1] = "inst" /\ i \notin Terms /\ i \notin Nets
  BY DEF Objects, Insts, Terms, BTerms, ITerms, Nets

LEMMA TermFacts ==
  \A t \in Terms : /\ t # Null
                   /\ t[1] \in {"bterm", "iterm"}
                   /\ t[1] = "bterm" <=> t \in BTerms
                   /\ t[1] = "iterm" <=> t \in ITerms
  BY BTermFacts, ITermFacts DEF Terms

LEMMA ListOfType ==
  \A n \in Nets, t \in Terms :
    /\ ListOf(n, t) \in Lists
    /\ ListOf(n, t)[1] = n /\ ListOf(n, t)[2] = t[1]
  BY TermFacts DEF ListOf, Lists

(***************************************************************************)
(* Two terminals belong on the same list exactly if their nets and their   *)
(* tables are the same.                                                    *)
(***************************************************************************)
LEMMA ListOfEqual ==
  \A n, o \in Nets, t, u \in Terms :
    ListOf(n, t) = ListOf(o, u) <=> n = o /\ t[1] = u[1]
  BY DEF ListOf

LEMMA ListIs ==
  \A s \in Lists : /\ s[1] \in Nets /\ s[2] \in {"bterm", "iterm"}
                   /\ \A t \in Terms : t[1] = s[2] => ListOf(s[1], t) = s
  BY DEF ListOf, Lists

-----------------------------------------------------------------------------
(* The lists. *)

(***************************************************************************)
(* No list runs in a circle, so that one without a head has no terminals.  *)
(***************************************************************************)
LinksInv(l) ==
  /\ LinksType(l)
  /\ HeadsSound(l) /\ NeighboursSound(l)
  /\ \E r \in [Terms -> Nat] : Ascends(l, r)

LEMMA Least ==
  ASSUME NEW S \in SUBSET Nat, S # {}
  PROVE  \E x \in S : \A y \in S : x <= y
<1> DEFINE R == OpToRel(<, Nat)
<1>1. \A x, y \in Nat : <<x, y>> \in R <=> x < y
  BY DEF OpToRel
<1>2. IsWellFoundedOn(R, Nat)
  BY NatLessThanWellFounded
<1> HIDE DEF R
<1>3. PICK x \in S : \A y \in S : ~ (<<y, x>> \in R)
  BY <1>2, WFMin
<1>4. ASSUME NEW y \in S PROVE x <= y
  <2>1. x \in Nat /\ y \in Nat /\ ~ (y < x)
    BY <1>1, <1>3
  <2> QED
    BY <2>1
<1> QED
  BY <1>4

(***************************************************************************)
(* A list without a head has no terminals.                                 *)
(***************************************************************************)
LEMMA HeadlessEmpty ==
  ASSUME NEW l, LinksInv(l), NEW s \in Lists, l.head[s] = Null,
         NEW t \in Terms, l.net[t] = s[1], t[1] = s[2]
  PROVE  FALSE
<1>1. PICK r \in [Terms -> Nat] : Ascends(l, r)
  BY DEF LinksInv
<1> DEFINE On == {u \in Terms : l.net[u] = s[1] /\ u[1] = s[2]}
           Ranks == {r[u] : u \in On}
<1>2. Ranks \in SUBSET Nat /\ Ranks # {}
  OBVIOUS
<1>3. PICK x \in Ranks : \A y \in Ranks : x <= y
  BY <1>2, Least
<1>4. PICK u \in On : r[u] = x
  OBVIOUS
<1>5. s[1] \in Nets /\ s[1] # Null /\ ListOf(s[1], u) = s /\ u # Null
  BY ListIs, NetFacts, TermFacts
<1>6. l.prev[u] # Null
  BY <1>5 DEF LinksInv, NeighboursSound
<1>7. l.prev[u] \in On
  BY <1>5, <1>6 DEF LinksInv, NeighboursSound, SameList
<1>8. r[l.prev[u]] < r[u]
  BY <1>1, <1>5, <1>6 DEF Ascends
<1> QED
  BY <1>3, <1>7, <1>8, <1>4

(***************************************************************************)
(* connect() of a terminal without a net keeps the lists sound.            *)
(***************************************************************************)
LEMMA LinkedInv ==
  ASSUME NEW l, NEW t \in Terms, NEW n \in Nets, LinksInv(l), l.net[t] = Null
  PROVE  LinksInv(Linked(l, t, n))
<1> DEFINE m == Linked(l, t, n)
           list == ListOf(n, t)
           old == l.head[list]
<1>1. /\ LinksType(l) /\ HeadsSound(l) /\ NeighboursSound(l)
      /\ list \in Lists /\ old \in Terms \cup {Null}
      /\ t # Null /\ n # Null /\ n = list[1] /\ t[1] = list[2]
  BY ListOfType, TermFacts, NetFacts DEF LinksInv, LinksType
<1>2. /\ m.net = [l.net EXCEPT ![t] = n]
      /\ m.head = [l.head EXCEPT ![list] = t]
      /\ m.next = [l.next EXCEPT ![t] = old]
      /\ m.prev = [u \in Terms |-> IF u = t THEN Null
                                   ELSE IF u = old THEN t ELSE l.prev[u]]
      /\ DOMAIN m = {"net", "head", "next", "prev"}
  BY DEF Linked
<1> SUFFICES LinksInv(m)
  OBVIOUS
<1> HIDE DEF m
<1>3. old # Null => l.net[old] = n /\ old[1] = t[1] /\ l.prev[old] = Null /\ old # t
  BY <1>1 DEF HeadsSound
<1> HIDE DEF list, old
<1>4. LinksType(m)
  <2>1. \A u \in Terms : m.prev[u] \in Terms \cup {Null}
    BY <1>1, <1>2 DEF LinksType
  <2> QED
    BY <1>1, <1>2, <2>1 DEF LinksType
<1>5. HeadsSound(m)
  <2> SUFFICES ASSUME NEW s \in Lists, m.head[s] # Null
               PROVE  /\ m.net[m.head[s]] = s[1] /\ m.head[s][1] = s[2]
                      /\ m.prev[m.head[s]] = Null
    BY DEF HeadsSound
  <2>1. CASE s = list
    BY <1>1, <1>2, <2>1 DEF LinksType
  <2>2. CASE s # list
    <3> DEFINE h == l.head[s]
    <3>1. m.head[s] = h /\ h \in Terms /\ l.net[h] = s[1] /\ h[1] = s[2] /\ l.prev[h] = Null
      BY <1>1, <1>2, <2>2 DEF LinksType, HeadsSound
    <3>2. h # t
      BY <1>1, <3>1, ListIs, NetFacts
    <3>3. h # old
      BY <1>1, <1>3, <3>1, <2>2, ListIs, TermFacts DEF Lists
    <3> QED
      BY <1>1, <1>2, <3>1, <3>2, <3>3 DEF LinksType
  <2> QED
    BY <2>1, <2>2
<1>6. NeighboursSound(m)
  <2> SUFFICES ASSUME NEW u \in Terms, m.net[u] # Null
               PROVE  /\ m.next[u] # Null =>
                           SameList(m, u, m.next[u]) /\ m.prev[m.next[u]] = u
                      /\ m.prev[u] # Null =>
                           SameList(m, u, m.prev[u]) /\ m.next[m.prev[u]] = u
                      /\ m.prev[u] = Null => m.head[ListOf(m.net[u], u)] = u
    BY DEF NeighboursSound
  <2>1. CASE u = t
    BY <1>1, <1>2, <1>3, <2>1 DEF LinksType, SameList, list
  <2>2. CASE u # t
    <3>1. /\ m.net[u] = l.net[u] /\ l.net[u] \in Nets /\ m.next[u] = l.next[u]
          /\ l.next[u] \in Terms \cup {Null} /\ l.prev[u] \in Terms \cup {Null}
      BY <1>1, <1>2, <2>2 DEF LinksType
    <3>2. l.next[u] # Null => SameList(l, u, l.next[u]) /\ l.prev[l.next[u]] = u
      BY <1>1, <3>1, NetFacts DEF NeighboursSound
    <3>3. l.prev[u] # Null => SameList(l, u, l.prev[u]) /\ l.next[l.prev[u]] = u
      BY <1>1, <3>1, NetFacts DEF NeighboursSound
    <3>4. l.prev[u] = Null => l.head[ListOf(l.net[u], u)] = u
      BY <1>1, <3>1, NetFacts DEF NeighboursSound
    <3>5. m.next[u] # Null => SameList(m, u, m.next[u]) /\ m.prev[m.next[u]] = u
      <4> HAVE m.next[u] # Null
      <4>1. l.next[u] \in Terms /\ l.next[u] # t /\ l.next[u] # old
        BY <1>1, <1>3, <3>1, <3>2, TermFacts, NetFacts DEF SameList
      <4> QED
        BY <1>1, <1>2, <3>1, <3>2, <4>1 DEF SameList, LinksType
    <3>6. CASE u = old
      <4>1. m.prev[u] = t /\ m.net[t] = n /\ m.next[t] = u
        BY <1>1, <1>2, <2>2, <3>6 DEF LinksType
      <4>2. l.net[u] = n /\ u[1] = t[1]
        BY <1>3, <3>6, TermFacts
      <4> QED
        BY <1>1, <3>1, <3>5, <4>1, <4>2 DEF SameList
    <3>7. CASE u # old
      <4>1. m.prev[u] = l.prev[u]
        BY <1>2, <2>2, <3>7
      <4>2. l.prev[u] # Null => SameList(m, u, l.prev[u]) /\ m.next[l.prev[u]] = u
        BY <1>1, <1>2, <2>2, <3>1, <3>3, NetFacts DEF SameList, LinksType
      <4>3. l.prev[u] = Null => ListOf(l.net[u], u) # list
        BY <3>4, <3>7 DEF old
      <4>4. ListOf(l.net[u], u) \in Lists
        BY <3>1, ListOfType
      <4> QED
        BY <1>1, <1>2, <3>1, <3>4, <3>5, <4>1, <4>2, <4>3, <4>4 DEF LinksType
    <3> QED
      BY <3>6, <3>7
  <2> QED
    BY <2>1, <2>2
<1>7. PICK r \in [Terms -> Nat] : Ascends(l, r)
  BY DEF LinksInv
<1>8. Ascends(m, [u \in Terms |-> IF u = t THEN 0 ELSE r[u] + 1])
  <2> DEFINE q == [u \in Terms |-> IF u = t THEN 0 ELSE r[u] + 1]
  <2> SUFFICES ASSUME NEW u \in Terms, m.net[u] # Null, m.prev[u] # Null
               PROVE  q[m.prev[u]] < q[u]
    BY DEF Ascends
  <2>1. u # t /\ l.net[u] = m.net[u] /\ l.net[u] \in Nets
    BY <1>1, <1>2 DEF LinksType
  <2>2. CASE u = old
    BY <1>2, <2>1, <2>2
  <2>3. CASE u # old
    <3>1. m.prev[u] = l.prev[u] /\ l.prev[u] # Null
      BY <1>2, <2>1, <2>3
    <3>2. l.prev[u] \in Terms /\ l.prev[u] # t /\ r[l.prev[u]] < r[u]
      BY <1>1, <1>7, <2>1, <3>1, NetFacts DEF Ascends, NeighboursSound, SameList
    <3> QED
      BY <2>1, <3>1, <3>2
  <2> QED
    BY <2>2, <2>3
<1> QED
  BY <1>4, <1>5, <1>6, <1>8 DEF LinksInv

(***************************************************************************)
(* disconnect() of a connected terminal keeps the lists sound.             *)
(***************************************************************************)
LEMMA UnlinkedInv ==
  ASSUME NEW l, NEW t \in Terms, LinksInv(l), l.net[t] # Null
  PROVE  LinksInv(Unlinked(l, t))
<1> DEFINE m == Unlinked(l, t)
           list == ListOf(l.net[t], t)
           n == l.next[t]
           p == l.prev[t]
           first == l.head[list] = t
<1>1. /\ LinksType(l) /\ HeadsSound(l) /\ NeighboursSound(l)
      /\ l.net[t] \in Nets /\ n \in Terms \cup {Null} /\ p \in Terms \cup {Null}
      /\ t # Null
  BY TermFacts DEF LinksInv, LinksType
<1>2. list \in Lists /\ list[1] = l.net[t] /\ list[2] = t[1]
  BY <1>1, ListOfType
<1>3. /\ m.net = [l.net EXCEPT ![t] = Null]
      /\ m.head = IF first THEN [l.head EXCEPT ![list] = n] ELSE l.head
      /\ m.next = [u \in Terms |-> IF ~ first /\ u = p THEN n ELSE l.next[u]]
      /\ m.prev = [u \in Terms |-> IF u # n THEN l.prev[u]
                                   ELSE IF first THEN Null ELSE p]
      /\ DOMAIN m = {"net", "head", "next", "prev"}
  BY DEF Unlinked
<1>4. /\ first <=> p = Null
      /\ n # Null => SameList(l, t, n) /\ l.prev[n] = t
      /\ p # Null => SameList(l, t, p) /\ l.next[p] = t
  BY <1>1, <1>2 DEF HeadsSound, NeighboursSound
<1> SUFFICES LinksInv(m)
  OBVIOUS
<1>5. l.head[list] = t <=> first
  OBVIOUS
<1> HIDE DEF m, n, p, first
<1>6. LinksType(m)
  BY <1>1, <1>2, <1>3 DEF LinksType
<1>7. HeadsSound(m)
  <2> SUFFICES ASSUME NEW s \in Lists, m.head[s] # Null
               PROVE  /\ m.net[m.head[s]] = s[1] /\ m.head[s][1] = s[2]
                      /\ m.prev[m.head[s]] = Null
    BY DEF HeadsSound
  <2>1. CASE first /\ s = list
    <3>1. m.head[s] = n /\ n \in Terms
      BY <1>1, <1>2, <1>3, <2>1 DEF LinksType
    <3>2. n # t
      BY <1>1, <1>4, <2>1, <3>1, TermFacts DEF p
    <3> QED
      BY <1>1, <1>2, <1>3, <1>4, <2>1, <3>1, <3>2 DEF LinksType, SameList
  <2>2. CASE ~ (first /\ s = list)
    <3> DEFINE h == l.head[s]
    <3>1. m.head[s] = h /\ h \in Terms /\ l.net[h] = s[1] /\ h[1] = s[2] /\ l.prev[h] = Null
      BY <1>1, <1>2, <1>3, <2>2 DEF LinksType, HeadsSound
    <3>2. h # t
      BY <1>1, <1>5, <3>1, <2>2, ListIs
    <3>3. h # n
      BY <1>1, <1>4, <3>1
    <3> QED
      BY <1>1, <1>3, <3>1, <3>2, <3>3 DEF LinksType
  <2> QED
    BY <2>1, <2>2
<1>8. NeighboursSound(m)
  <2> SUFFICES ASSUME NEW u \in Terms, m.net[u] # Null
               PROVE  /\ m.next[u] # Null =>
                           SameList(m, u, m.next[u]) /\ m.prev[m.next[u]] = u
                      /\ m.prev[u] # Null =>
                           SameList(m, u, m.prev[u]) /\ m.next[m.prev[u]] = u
                      /\ m.prev[u] = Null => m.head[ListOf(m.net[u], u)] = u
    BY DEF NeighboursSound
  <2>1. /\ u # t /\ m.net[u] = l.net[u] /\ l.net[u] \in Nets /\ l.net[u] # Null
        /\ l.next[u] \in Terms \cup {Null} /\ l.prev[u] \in Terms \cup {Null}
    BY <1>1, <1>3 DEF LinksType
  <2>2. /\ l.next[u] # Null => SameList(l, u, l.next[u]) /\ l.prev[l.next[u]] = u
        /\ l.prev[u] # Null => SameList(l, u, l.prev[u]) /\ l.next[l.prev[u]] = u
        /\ l.prev[u] = Null => l.head[ListOf(l.net[u], u)] = u
    BY <1>1, <2>1 DEF NeighboursSound
  <2>3. m.next[u] # Null => SameList(m, u, m.next[u]) /\ m.prev[m.next[u]] = u
    <3>1. CASE u = p
      BY <1>1, <1>3, <1>4, <2>1, <2>2, <3>1, TermFacts DEF SameList, LinksType
    <3>2. CASE u # p
      <4> HAVE m.next[u] # Null
      <4>1. m.next[u] = l.next[u] /\ l.next[u] \in Terms /\ l.next[u] # t
        BY <1>3, <2>1, <2>2, <3>2 DEF p
      <4>2. l.next[u] # n
        BY <1>4, <2>1, <2>2, <4>1
      <4> QED
        BY <1>1, <1>3, <2>1, <2>2, <4>1, <4>2 DEF SameList, LinksType
    <3> QED
      BY <3>1, <3>2
  <2>4. m.prev[u] # Null => SameList(m, u, m.prev[u]) /\ m.next[m.prev[u]] = u
    <3>1. CASE u = n
      BY <1>1, <1>3, <1>4, <2>1, <2>2, <3>1, TermFacts DEF SameList, LinksType
    <3>2. CASE u # n
      <4> HAVE m.prev[u] # Null
      <4>1. m.prev[u] = l.prev[u] /\ l.prev[u] \in Terms /\ l.prev[u] # t
        BY <1>3, <2>1, <2>2, <3>2 DEF n
      <4>2. ~ first => l.prev[u] # p
        BY <1>4, <2>1, <2>2, <4>1, <3>2
      <4> QED
        BY <1>1, <1>3, <2>1, <2>2, <4>1, <4>2 DEF SameList, LinksType
    <3> QED
      BY <3>1, <3>2
  <2>5. m.prev[u] = Null => m.head[ListOf(m.net[u], u)] = u
    <3>1. CASE u = n
      <4>1. ListOf(l.net[u], u) = list
        BY <1>4, <2>1, <3>1, TermFacts DEF SameList, ListOf
      <4> QED
        BY <1>1, <1>2, <1>3, <1>4, <2>1, <3>1, <4>1 DEF LinksType
    <3>2. CASE u # n
      <4> HAVE m.prev[u] = Null
      <4>1. l.head[ListOf(l.net[u], u)] = u
        BY <1>3, <2>2, <3>2
      <4>2. first => ListOf(l.net[u], u) # list
        BY <1>5, <2>1, <4>1
      <4>3. ListOf(l.net[u], u) \in Lists
        BY <2>1, ListOfType
      <4> QED
        BY <1>1, <1>3, <2>1, <4>1, <4>2, <4>3 DEF LinksType
    <3> QED
      BY <3>1, <3>2
  <2> QED
    BY <2>3, <2>4, <2>5
<1>9. PICK r \in [Terms -> Nat] : Ascends(l, r)
  BY DEF LinksInv
<1>10. Ascends(m, r)
  <2> SUFFICES ASSUME NEW u \in Terms, m.net[u] # Null, m.prev[u] # Null
               PROVE  r[m.prev[u]] < r[u]
    BY DEF Ascends
  <2>1. u # t /\ l.net[u] # Null
    BY <1>1, <1>3 DEF LinksType
  <2>2. CASE u # n
    BY <1>3, <1>9, <2>1, <2>2 DEF Ascends
  <2>3. CASE u = n
    <3>1. m.prev[u] = p /\ p \in Terms /\ l.prev[u] = t
      BY <1>1, <1>3, <1>4, <2>3, TermFacts
    <3>2. r[p] < r[t] /\ r[t] < r[u]
      BY <1>1, <1>9, <2>1, <3>1, TermFacts DEF Ascends, p
    <3> QED
      BY <3>1, <3>2
  <2> QED
    BY <2>2, <2>3
<1> QED
  BY <1>6, <1>7, <1>8, <1>9, <1>10 DEF LinksInv

(***************************************************************************)
(* The links of a terminal without a net do not matter: destroy() resets   *)
(* them, and no other terminal leads to it.                                *)
(***************************************************************************)
LEMMA ClearedInv ==
  ASSUME NEW l, NEW t \in Terms, LinksInv(l), l.net[t] = Null
  PROVE  LinksInv([l EXCEPT !.next[t] = Null, !.prev[t] = Null])
<1> DEFINE m == [l EXCEPT !.next[t] = Null, !.prev[t] = Null]
<1>1. /\ LinksType(l) /\ HeadsSound(l) /\ NeighboursSound(l)
      /\ DOMAIN l = {"net", "head", "next", "prev"}
  BY DEF LinksInv, LinksType
<1>2. /\ m.net = l.net /\ m.head = l.head
      /\ m.next = [l.next EXCEPT ![t] = Null]
      /\ m.prev = [l.prev EXCEPT ![t] = Null]
      /\ DOMAIN m = {"net", "head", "next", "prev"}
  BY <1>1
<1> SUFFICES LinksInv(m)
  OBVIOUS
<1> HIDE DEF m
<1>3. LinksType(m)
  BY <1>1, <1>2 DEF LinksType
<1>4. HeadsSound(m)
  BY <1>1, <1>2, ListIs, NetFacts DEF HeadsSound, LinksType
<1>5. \A u \in Terms : l.net[u] # Null =>
        /\ u # t /\ m.next[u] = l.next[u] /\ m.prev[u] = l.prev[u]
        /\ l.next[u] # Null => l.next[u] \in Terms /\ l.next[u] # t
        /\ l.prev[u] # Null => l.prev[u] \in Terms /\ l.prev[u] # t
  BY <1>1, <1>2 DEF LinksType, NeighboursSound, SameList
<1>6. NeighboursSound(m)
  BY <1>1, <1>2, <1>5 DEF NeighboursSound, SameList, LinksType
<1>7. \E r \in [Terms -> Nat] : Ascends(m, r)
  BY <1>2, <1>5 DEF LinksInv, Ascends
<1> QED
  BY <1>3, <1>4, <1>6, <1>7 DEF LinksInv

-----------------------------------------------------------------------------
(* Slots. *)

Shape(b) ==
  /\ DOMAIN b = Fields
  /\ DOMAIN b.free = Tables
  /\ \A tbl \in Tables : b.free[tbl] \in Seq(Objects(tbl))
  /\ LinksInv(b.links)
  /\ b.master \in [Insts -> Masters \cup {NoMaster}]
  /\ b.iterms \in [Insts -> Seq(ITerms)]
  /\ b.pin \in [ITerms -> Nat]

\* c has the instances of b.
SameInsts(b, c) == c.master = b.master /\ c.iterms = b.iterms /\ c.pin = b.pin

LEMMA ObjectTable ==
  \A tbl \in Tables : \A o \in Objects(tbl) : o[1] = tbl
  BY DEF Objects

LEMMA ObjectsDisjoint ==
  \A tbl, other \in Tables : \A o \in Objects(tbl) :
    o \in Objects(other) => other = tbl
  BY ObjectTable

(***************************************************************************)
(* dbTable::destroy() of a live object.                                    *)
(***************************************************************************)
LEMMA GiveInv ==
  ASSUME NEW b, Shape(b), Slots(b),
         NEW tbl \in Tables, NEW o \in Objects(tbl), o \in b.live
  PROVE  /\ Shape(Give(b, o)) /\ Slots(Give(b, o))
         /\ Give(b, o).live = b.live \ {o}
         /\ Give(b, o).links = b.links
         /\ SameInsts(b, Give(b, o))
<1> DEFINE c == Give(b, o)
           s == b.free[tbl]
<1>1. /\ DOMAIN b = Fields /\ DOMAIN b.free = Tables /\ s \in Seq(Objects(tbl))
      /\ o[1] = tbl
  BY ObjectTable DEF Shape
<1>2. /\ DOMAIN c = Fields
      /\ c.live = b.live \ {o} /\ c.links = b.links
      /\ c.free = [b.free EXCEPT ![tbl] = <<o>> \o s]
      /\ SameInsts(b, c)
  BY <1>1 DEF Give, Fields, SameInsts
<1> HIDE DEF c
<1>3. /\ <<o>> \o s \in Seq(Objects(tbl))
      /\ DOMAIN (<<o>> \o s) = 1 .. Len(s) + 1
      /\ (<<o>> \o s)[1] = o
      /\ \A j \in 1 .. Len(s) + 1 : j # 1 => (<<o>> \o s)[j] = s[j - 1]
  BY <1>1
<1>4. Shape(c)
  BY <1>1, <1>2, <1>3 DEF Shape, SameInsts
<1>5. ASSUME NEW table \in Tables
      PROVE  /\ \A j \in DOMAIN c.free[table] : c.free[table][j] \notin c.live
             /\ \A j, k \in DOMAIN c.free[table] :
                  c.free[table][j] = c.free[table][k] => j = k
  <2>1. CASE table # tbl
    BY <1>1, <1>2, <2>1 DEF Slots
  <2>2. CASE table = tbl
    <3>1. c.free[table] = <<o>> \o s
      BY <1>1, <1>2, <2>2
    <3>2. /\ \A j \in 1 .. Len(s) : s[j] \notin b.live /\ s[j] # o
          /\ \A j, k \in 1 .. Len(s) : s[j] = s[k] => j = k
      BY <1>1 DEF Slots
    <3> HIDE DEF s
    <3>3. \A j \in 1 .. Len(s) + 1 : j # 1 => j - 1 \in 1 .. Len(s)
      BY <1>1
    <3>4. ASSUME NEW j \in 1 .. Len(s) + 1
          PROVE  /\ c.free[table][j] \notin c.live
                 /\ j # 1 => c.free[table][j] # o
      BY <1>2, <1>3, <3>1, <3>2, <3>3
    <3>5. ASSUME NEW j \in 1 .. Len(s) + 1, NEW k \in 1 .. Len(s) + 1,
                 c.free[table][j] = c.free[table][k]
          PROVE  j = k
      <4>1. CASE j = 1 \/ k = 1
        BY <1>3, <3>1, <3>4, <3>5, <4>1
      <4>2. CASE j # 1 /\ k # 1
        <5>1. s[j - 1] = s[k - 1]
          BY <1>3, <3>1, <3>5, <4>2
        <5>2. j - 1 = k - 1
          BY <3>2, <3>3, <4>2, <5>1
        <5> QED
          BY <5>2
      <4> QED
        BY <4>1, <4>2
    <3> QED
      BY <1>3, <3>1, <3>4, <3>5
  <2> QED
    BY <2>1, <2>2
<1> QED
  BY <1>2, <1>4, <1>5 DEF Slots, c

(***************************************************************************)
(* dbTable::create(), k times: the objects come from the free list, and    *)
(* none of them was live.                                                  *)
(***************************************************************************)
LEMMA TakeInv ==
  ASSUME NEW b, Shape(b), Slots(b),
         NEW tbl \in Tables, NEW k \in Nat, Room(b, tbl, k)
  PROVE  LET c == Take(b, tbl, k)
             ts == Taken(b, tbl, k)
         IN /\ Shape(c) /\ Slots(c)
            /\ c.live = b.live \cup Elements(ts)
            /\ c.links = b.links
            /\ \A other \in Tables \ {tbl} : c.free[other] = b.free[other]
            /\ SameInsts(b, c)
            /\ ts \in Seq(Objects(tbl)) /\ Len(ts) = k /\ DOMAIN ts = 1 .. k
            /\ \A j \in 1 .. k : ts[j] = b.free[tbl][j] /\ ts[j] \notin b.live
            /\ \A i, j \in 1 .. k : ts[i] = ts[j] => i = j
<1> DEFINE c == Take(b, tbl, k)
           s == b.free[tbl]
           ts == SubSeq(s, 1, k)
           rest == SubSeq(s, k + 1, Len(s))
<1>1. /\ DOMAIN b = Fields /\ DOMAIN b.free = Tables /\ s \in Seq(Objects(tbl))
      /\ Len(s) \in Nat /\ k <= Len(s)
  BY DEF Shape, Room
<1>2. /\ DOMAIN c = Fields
      /\ c.live = b.live \cup Elements(ts) /\ c.links = b.links
      /\ c.free = [b.free EXCEPT ![tbl] = rest]
      /\ SameInsts(b, c)
  BY <1>1 DEF Take, Taken, Fields, SameInsts
<1>3. /\ ts \in Seq(Objects(tbl)) /\ Len(ts) = k
      /\ \A j \in 1 .. k : ts[j] = s[j]
  <2>1. \A j \in 1 .. k : s[j] \in Objects(tbl)
    BY <1>1
  <2> QED
    BY <1>1, <2>1, SubSeqProperties
<1>4. /\ rest \in Seq(Objects(tbl)) /\ Len(rest) = Len(s) - k
      /\ \A j \in 1 .. Len(s) - k : rest[j] = s[j + k]
  <2>1. \A j \in k + 1 .. Len(s) : s[j] \in Objects(tbl)
    BY <1>1
  <2>2. /\ rest \in Seq(Objects(tbl))
        /\ Len(rest) = IF k + 1 <= Len(s) THEN Len(s) - (k + 1) + 1 ELSE 0
        /\ \A j \in 1 .. Len(s) - (k + 1) + 1 : rest[j] = s[k + 1 + j - 1]
    <3> HIDE DEF s
    <3> QED
      BY <1>1, <2>1, SubSeqProperties
  <2> HIDE DEF rest, s
  <2>3. \A j \in 1 .. Len(s) - k : k + 1 + j - 1 = j + k
    BY <1>1
  <2> QED
    BY <1>1, <2>2, <2>3
<1>5. /\ \A j \in 1 .. Len(s) : s[j] \notin b.live
      /\ \A i, j \in 1 .. Len(s) : s[i] = s[j] => i = j
  BY <1>1 DEF Slots
<1> HIDE DEF c, rest, ts, s
<1>6. Elements(ts) = {ts[j] : j \in 1 .. k}
  BY <1>3 DEF Elements
<1>7. Shape(c)
  BY <1>1, <1>2, <1>4 DEF Shape, SameInsts
<1>8. Slots(c)
  <2> SUFFICES ASSUME NEW table \in Tables
               PROVE  /\ \A j \in DOMAIN c.free[table] : c.free[table][j] \notin c.live
                      /\ \A i, j \in DOMAIN c.free[table] :
                           c.free[table][i] = c.free[table][j] => i = j
    BY DEF Slots
  <2>1. CASE table # tbl
    <3>1. c.free[table] = b.free[table] /\ b.free[table] \in Seq(Objects(table))
      BY <1>1, <1>2, <2>1 DEF Shape
    <3>2. \A j \in DOMAIN b.free[table] : b.free[table][j] \notin Elements(ts)
      BY <1>3, <1>6, <2>1, <3>1, ObjectsDisjoint
    <3> QED
      BY <1>2, <3>1, <3>2 DEF Slots
  <2>2. CASE table = tbl
    <3>1. c.free[table] = rest /\ DOMAIN rest = 1 .. Len(s) - k
      BY <1>1, <1>2, <1>4, <2>2
    <3>2. \A j \in 1 .. Len(s) - k : j + k \in 1 .. Len(s) /\ j + k \notin 1 .. k
      BY <1>1
    <3>3. ASSUME NEW j \in 1 .. Len(s) - k PROVE rest[j] \notin c.live
      <4>1. rest[j] = s[j + k] /\ s[j + k] \notin b.live
        BY <1>4, <1>5, <3>2
      <4>2. \A h \in 1 .. k : ts[h] # s[j + k]
        BY <1>1, <1>3, <1>5, <3>2
      <4> QED
        BY <1>2, <1>6, <4>1, <4>2
    <3>4. ASSUME NEW i \in 1 .. Len(s) - k, NEW j \in 1 .. Len(s) - k,
                 rest[i] = rest[j]
          PROVE  i = j
      <4>1. i + k = j + k
        BY <1>4, <1>5, <3>2, <3>4
      <4> QED
        BY <1>1, <4>1
    <3> QED
      BY <3>1, <3>3, <3>4
  <2> QED
    BY <2>1, <2>2
<1>9. /\ DOMAIN ts = 1 .. k
      /\ \A j \in 1 .. k : ts[j] = s[j] /\ ts[j] \notin b.live
      /\ \A i, j \in 1 .. k : ts[i] = ts[j] => i = j
  BY <1>1, <1>3, <1>5
<1>10. \A other \in Tables \ {tbl} : c.free[other] = b.free[other]
  BY <1>1, <1>2
<1> QED
  BY <1>2, <1>3, <1>7, <1>8, <1>9, <1>10 DEF c, ts, s, Taken

-----------------------------------------------------------------------------
(* Terminals. *)

LEMMA TermTables ==
  \A t \in Terms : \E tbl \in Tables : tbl = t[1] /\ t \in Objects(tbl)
  BY ObjectTable DEF Terms, BTerms, ITerms, Tables

\* The heads of l after terminal t is taken off its list.
Beheaded(l, t) ==
  [s \in Lists |->
     IF l.net[t] # Null /\ s = ListOf(l.net[t], t) /\ l.head[s] = t
     THEN l.next[t] ELSE l.head[s]]

(***************************************************************************)
(* disconnect(), of a connected terminal or not.                           *)
(***************************************************************************)
LEMMA DisconnectInv ==
  ASSUME NEW b, Shape(b), Connected(b), NEW t \in Terms
  PROVE  LET c == disconnect(b, t)
         IN /\ Shape(c) /\ Connected(c) /\ SameInsts(b, c)
            /\ c.live = b.live /\ c.free = b.free
            /\ c.links.net = [b.links.net EXCEPT ![t] = Null]
            /\ c.links.head = Beheaded(b.links, t)
<1> DEFINE c == disconnect(b, t)
           l == b.links
<1>1. DOMAIN b = Fields /\ LinksInv(l) /\ LinksType(l)
  BY DEF Shape, LinksInv
<1>2. CASE l.net[t] = Null
  <2>1. c = b
    BY <1>2 DEF disconnect
  <2>2. l.net = [l.net EXCEPT ![t] = Null]
    BY <1>1, <1>2 DEF LinksType
  <2>3. l.head = Beheaded(l, t)
    BY <1>1, <1>2 DEF LinksType, Beheaded
  <2> QED
    BY <2>1, <2>2, <2>3 DEF SameInsts
<1>3. CASE l.net[t] # Null
  <2>1. /\ DOMAIN c = Fields /\ c.links = Unlinked(l, t)
        /\ c.live = b.live /\ c.free = b.free /\ SameInsts(b, c)
    BY <1>1, <1>3 DEF disconnect, Disconnected, Fields, SameInsts
  <2>2. LinksInv(Unlinked(l, t))
    BY <1>1, <1>3, UnlinkedInv
  <2>3. Unlinked(l, t).net = [l.net EXCEPT ![t] = Null]
    BY DEF Unlinked
  <2>4. Unlinked(l, t).head = Beheaded(l, t)
    <3>1. Unlinked(l, t).head = IF l.head[ListOf(l.net[t], t)] = t
                                THEN [l.head EXCEPT ![ListOf(l.net[t], t)] = l.next[t]]
                                ELSE l.head
      BY DEF Unlinked
    <3> QED
      BY <1>1, <1>3, <3>1 DEF LinksType, Beheaded
  <2> HIDE DEF c
  <2>5. Shape(c)
    BY <2>1, <2>2 DEF Shape, SameInsts
  <2>6. Connected(c)
    BY <1>1, <2>1, <2>3 DEF Connected, LinksType
  <2> QED
    BY <2>1, <2>3, <2>4, <2>5, <2>6 DEF c
<1> QED
  BY <1>2, <1>3

(***************************************************************************)
(* A terminal without a net is put on the list of a live net.              *)
(***************************************************************************)
LEMMA LinkInv ==
  ASSUME NEW b, Shape(b), Connected(b),
         NEW t \in Terms, t \in b.live, b.links.net[t] = Null,
         NEW n \in Nets, n \in b.live
  PROVE  LET c == [b EXCEPT !.links = Linked(@, t, n)]
         IN /\ Shape(c) /\ Connected(c) /\ SameInsts(b, c)
            /\ c.live = b.live /\ c.free = b.free
<1> DEFINE c == [b EXCEPT !.links = Linked(@, t, n)]
<1>1. DOMAIN b = Fields /\ LinksInv(b.links) /\ LinksType(b.links)
  BY DEF Shape, LinksInv
<1>2. /\ DOMAIN c = Fields /\ c.links = Linked(b.links, t, n)
      /\ c.live = b.live /\ c.free = b.free /\ SameInsts(b, c)
  BY <1>1 DEF Fields, SameInsts
<1>3. LinksInv(Linked(b.links, t, n))
  BY <1>1, LinkedInv
<1>4. Linked(b.links, t, n).net = [b.links.net EXCEPT ![t] = n]
  BY DEF Linked
<1> HIDE DEF c
<1>5. Shape(c)
  BY <1>2, <1>3 DEF Shape, SameInsts
<1>6. Connected(c)
  BY <1>1, <1>2, <1>4 DEF Connected, LinksType
<1> QED
  BY <1>2, <1>5, <1>6 DEF c

LEMMA ConnectInv ==
  ASSUME NEW b, Shape(b), Connected(b),
         NEW t \in Terms, t \in b.live, NEW n \in Nets, n \in b.live
  PROVE  LET c == connect(b, t, n)
         IN /\ Shape(c) /\ Connected(c) /\ SameInsts(b, c)
            /\ c.live = b.live /\ c.free = b.free
<1> DEFINE d == disconnect(b, t)
<1>1. /\ Shape(d) /\ Connected(d) /\ SameInsts(b, d)
      /\ d.live = b.live /\ d.free = b.free
      /\ d.links.net = [b.links.net EXCEPT ![t] = Null]
  BY DisconnectInv
<1>2. d.links.net[t] = Null
  BY <1>1 DEF Shape, LinksInv, LinksType
<1> HIDE DEF d
<1> DEFINE c == [d EXCEPT !.links = Linked(@, t, n)]
<1>3. /\ Shape(c) /\ Connected(c) /\ SameInsts(d, c)
      /\ c.live = d.live /\ c.free = d.free
  BY <1>1, <1>2, LinkInv
<1>4. connect(b, t, n) = b \/ connect(b, t, n) = c
  BY DEF connect, d
<1> QED
  BY <1>1, <1>3, <1>4 DEF SameInsts

(***************************************************************************)
(* A live terminal is taken off its list and destroyed.                    *)
(***************************************************************************)
LEMMA TermDestroyInv ==
  ASSUME NEW b, Shape(b), Slots(b), Connected(b), NEW t \in Terms, t \in b.live
  PROVE  LET c == Term_destroy(b, t)
         IN /\ Shape(c) /\ Slots(c) /\ Connected(c) /\ SameInsts(b, c)
            /\ c.live = b.live \ {t}
            /\ c.links.net = [b.links.net EXCEPT ![t] = Null]
            /\ c.links.head = Beheaded(b.links, t)
<1> DEFINE d == disconnect(b, t)
           g == Give(d, t)
           c == [g EXCEPT !.links.next[t] = Null, !.links.prev[t] = Null]
           l == [g.links EXCEPT !.next[t] = Null, !.prev[t] = Null]
<1>1. PICK tbl \in Tables : t \in Objects(tbl)
  BY TermTables
<1>2. /\ Shape(d) /\ Slots(d) /\ Connected(d) /\ SameInsts(b, d)
      /\ d.live = b.live
      /\ d.links.net = [b.links.net EXCEPT ![t] = Null]
      /\ d.links.head = Beheaded(b.links, t)
  BY DisconnectInv DEF Slots
<1>3. /\ Shape(g) /\ Slots(g) /\ SameInsts(d, g)
      /\ g.live = d.live \ {t} /\ g.links = d.links
  <2> HIDE DEF d
  <2> QED
    BY <1>1, <1>2, GiveInv
<1> HIDE DEF d, g
<1>4. /\ DOMAIN g = Fields /\ LinksInv(g.links) /\ LinksType(g.links)
      /\ g.links.net[t] = Null
  BY <1>2, <1>3 DEF Shape, LinksInv, LinksType
<1>5. LinksInv(l)
  BY <1>4, ClearedInv
<1>6. l.net = g.links.net /\ l.head = g.links.head
  BY <1>4 DEF LinksType
<1> HIDE DEF l
<1>7. /\ DOMAIN c = Fields /\ c.links = l
      /\ c.live = g.live /\ c.free = g.free /\ SameInsts(g, c)
  BY <1>4 DEF Fields, SameInsts, l, LinksType
<1>8. c = Term_destroy(b, t)
  BY DEF Term_destroy, d, g
<1> HIDE DEF c
<1>9. Shape(c) /\ Slots(c)
  BY <1>3, <1>5, <1>7 DEF Shape, SameInsts, Slots
<1>10. Connected(c)
  <2>1. d.links.net \in [Terms -> Nets \cup {Null}] /\ d.links.net[t] = Null
    BY <1>3, <1>4 DEF LinksType
  <2>2. \A u \in Terms : d.links.net[u] # Null => u # t /\ d.links.net[u] # t
    BY <2>1, NetFacts
  <2>3. c.links.net = d.links.net /\ c.live = d.live \ {t} /\ Connected(d)
    BY <1>2, <1>3, <1>6, <1>7
  <2> HIDE DEF c
  <2> QED
    BY <2>2, <2>3 DEF Connected
<1> QED
  BY <1>2, <1>3, <1>6, <1>7, <1>8, <1>9, <1>10 DEF SameInsts

-----------------------------------------------------------------------------
(* Nets, block terminals and instances. *)

\* dbInst::destroy() has destroyed terminal k of instance i.
Destroyed(i, k, cl) == cl.fn = "Inst_destroy" /\ cl.obj = i /\ k < cl.k

\* An instance has a terminal for every mterm of its master, in the order of
\* their indices; they are its own, and live until its destroy() reaches them.
PinsLeft(b, i, cl) ==
  /\ b.master[i] \in Masters
  /\ Len(b.iterms[i]) = Len(MTerms[b.master[i]])
  /\ \A k \in DOMAIN b.iterms[i] :
       /\ b.pin[b.iterms[i][k]] = k
       /\ b.iterms[i][k] \in b.live \/ Destroyed(i, k, cl)

Apart(b, i, j) ==
  \A k \in DOMAIN b.iterms[i], h \in DOMAIN b.iterms[j] :
    b.iterms[i][k] = b.iterms[j][h] => i = j

PinsInv(b, cl) ==
  \A i \in Insts \cap b.live :
    /\ PinsLeft(b, i, cl)
    /\ \A j \in Insts \cap b.live : Apart(b, i, j)

BlockInv(b) == Shape(b) /\ Slots(b) /\ Connected(b)

\* One free object: the head of the free list.
LEMMA TakeOne ==
  ASSUME NEW b, BlockInv(b), NEW tbl \in Tables, Room(b, tbl, 1)
  PROVE  LET c == Take(b, tbl, 1)
             o == Head(b.free[tbl])
         IN /\ BlockInv(c) /\ SameInsts(b, c) /\ c.links = b.links
            /\ c.live = b.live \cup {o}
            /\ o \in Objects(tbl) /\ o \notin b.live
            /\ \A other \in Tables \ {tbl} : c.free[other] = b.free[other]
<1> DEFINE k == 1
           c == Take(b, tbl, k)
           ts == Taken(b, tbl, k)
           o == Head(b.free[tbl])
<1>0. Shape(b) /\ Slots(b) /\ k \in Nat /\ Room(b, tbl, k)
  BY DEF BlockInv
<1> HIDE DEF k
<1>1. /\ Shape(c) /\ Slots(c) /\ SameInsts(b, c) /\ c.links = b.links
      /\ c.live = b.live \cup Elements(ts)
      /\ ts \in Seq(Objects(tbl)) /\ DOMAIN ts = 1 .. k
  BY <1>0, TakeInv
<1>5. \A other \in Tables \ {tbl} : c.free[other] = b.free[other]
  BY <1>0, TakeInv
<1>6. \A h \in 1 .. k : ts[h] = b.free[tbl][h] /\ ts[h] \notin b.live
  BY <1>0, TakeInv
<1>2. b.free[tbl][1] = o
  BY DEF Room, BlockInv, Shape
<1>3. Elements(ts) = {o} /\ o \in Objects(tbl) /\ o \notin b.live
  BY <1>1, <1>2, <1>6 DEF Elements, k
<1>4. Connected(c)
  BY <1>1 DEF Connected, BlockInv
<1> QED
  BY <1>1, <1>3, <1>4, <1>5 DEF BlockInv, k

LEMMA NetCreateInv ==
  ASSUME NEW b, BlockInv(b), PinsInv(b, Idle), Room(b, "net", 1), NEW name
  PROVE  BlockInv(Net_create(b, name)) /\ PinsInv(Net_create(b, name), Idle)
<1> DEFINE d == Take(b, "net", 1)
           n == Head(b.free["net"])
           c == [d EXCEPT !.name[n] = name]
<1>1. /\ BlockInv(d) /\ SameInsts(b, d) /\ d.live = b.live \cup {n} /\ n \in Nets
  BY TakeOne DEF Tables, Nets
<1>2. c = Net_create(b, name)
  BY DEF Net_create
<1> HIDE DEF d
<1>3. /\ DOMAIN c = Fields /\ c.live = d.live /\ c.free = d.free
      /\ c.links = d.links /\ SameInsts(d, c)
  BY <1>1 DEF BlockInv, Shape, Fields, SameInsts
<1> HIDE DEF c
<1>4. BlockInv(c)
  BY <1>1, <1>3 DEF BlockInv, Shape, Slots, Connected, SameInsts
<1>5. Insts \cap c.live = Insts \cap b.live
  BY <1>1, <1>3, InstFacts
<1>6. PinsInv(c, Idle)
  BY <1>1, <1>3, <1>5 DEF PinsInv, PinsLeft, Apart, SameInsts, Destroyed
<1> QED
  BY <1>2, <1>4, <1>6

LEMMA BTermCreateInv ==
  ASSUME NEW b, BlockInv(b), PinsInv(b, Idle), Room(b, "bterm", 1),
         NEW n \in Nets, n \in b.live, NEW name
  PROVE  BlockInv(BTerm_create(b, n, name)) /\ PinsInv(BTerm_create(b, n, name), Idle)
<1> DEFINE d == Take(b, "bterm", 1)
           t == Head(b.free["bterm"])
           g == [d EXCEPT !.name[t] = name]
           c == [g EXCEPT !.links = Linked(@, t, n)]
<1>1. /\ BlockInv(d) /\ SameInsts(b, d) /\ d.links = b.links
      /\ d.live = b.live \cup {t} /\ t \in BTerms /\ t \notin b.live
  BY TakeOne DEF Tables, BTerms
<1>2. c = BTerm_create(b, n, name)
  BY DEF BTerm_create
<1>3. d.links.net[t] = Null
  BY <1>1, BTermFacts DEF BlockInv, Connected
<1> HIDE DEF d
<1>4. /\ DOMAIN g = Fields /\ g.live = d.live /\ g.free = d.free
      /\ g.links = d.links /\ SameInsts(d, g)
  BY <1>1 DEF BlockInv, Shape, Fields, SameInsts
<1> HIDE DEF g
<1>5. BlockInv(g)
  BY <1>1, <1>4 DEF BlockInv, Shape, Slots, Connected, SameInsts
<1>6. /\ Shape(c) /\ Connected(c) /\ SameInsts(g, c)
      /\ c.live = g.live /\ c.free = g.free
  BY <1>1, <1>3, <1>4, <1>5, BTermFacts, LinkInv DEF BlockInv
<1> HIDE DEF c
<1>7. Insts \cap c.live = Insts \cap b.live
  BY <1>1, <1>4, <1>6, InstFacts, BTermFacts
<1>8. BlockInv(c)
  BY <1>5, <1>6 DEF BlockInv, Slots
<1>9. PinsInv(c, Idle)
  BY <1>1, <1>4, <1>6, <1>7 DEF PinsInv, PinsLeft, Apart, SameInsts, Destroyed
<1> QED
  BY <1>2, <1>8, <1>9

(***************************************************************************)
(* The end of dbNet::destroy(): no terminal is left on the net.            *)
(***************************************************************************)
LEMMA NetDeleteInv ==
  ASSUME NEW b, BlockInv(b), PinsInv(b, Idle), NEW n \in Nets, n \in b.live,
         \A t \in Terms : b.links.net[t] # n
  PROVE  BlockInv(Net_delete(b, n)) /\ PinsInv(Net_delete(b, n), Idle)
<1> DEFINE d == Give(b, n)
           c == [d EXCEPT !.name[n] = NoName, !.rule[n] = NoRule]
<1>1. /\ Shape(d) /\ Slots(d) /\ SameInsts(b, d)
      /\ d.live = b.live \ {n} /\ d.links = b.links
  BY GiveInv DEF BlockInv, Tables, Nets
<1>2. c = Net_delete(b, n)
  BY DEF Net_delete
<1> HIDE DEF d
<1>3. /\ DOMAIN c = Fields /\ c.live = d.live /\ c.free = d.free
      /\ c.links = d.links /\ SameInsts(d, c)
  BY <1>1 DEF Shape, Fields, SameInsts
<1> HIDE DEF c
<1>4. Shape(c) /\ Slots(c)
  BY <1>1, <1>3 DEF Shape, Slots, SameInsts
<1>5. Connected(c)
  BY <1>1, <1>3, NetFacts DEF BlockInv, Connected
<1>6. Insts \cap c.live = Insts \cap b.live
  BY <1>1, <1>3, InstFacts
<1>7. \A t \in ITerms : t \in b.live => t \in c.live
  BY <1>1, <1>3, ITermFacts, NetFacts
<1>8. b.iterms \in [Insts -> Seq(ITerms)]
  BY DEF BlockInv, Shape
<1>9. PinsInv(c, Idle)
  BY <1>1, <1>3, <1>6, <1>7, <1>8 DEF PinsInv, PinsLeft, Apart, SameInsts, Destroyed
<1> QED
  BY <1>2, <1>4, <1>5, <1>9 DEF BlockInv

(***************************************************************************)
(* The end of dbInst::destroy(), after the last terminal.                  *)
(***************************************************************************)
LEMMA InstDeleteInv ==
  ASSUME NEW b, NEW cl, BlockInv(b), PinsInv(b, cl), NEW i \in Insts, i \in b.live,
         cl.obj = i
  PROVE  BlockInv(Inst_delete(b, i)) /\ PinsInv(Inst_delete(b, i), Idle)
<1> DEFINE d == Give(b, i)
           c == Inst_delete(b, i)
<1>1. /\ Shape(d) /\ Slots(d) /\ SameInsts(b, d)
      /\ d.live = b.live \ {i} /\ d.links = b.links
  BY GiveInv DEF BlockInv, Tables, Insts
<1> HIDE DEF d
<1>2. /\ DOMAIN c = Fields /\ c.live = d.live /\ c.free = d.free
      /\ c.links = d.links /\ c.pin = d.pin
      /\ c.master = [d.master EXCEPT ![i] = NoMaster]
      /\ c.iterms = [d.iterms EXCEPT ![i] = << >>]
  BY <1>1 DEF Inst_delete, Shape, Fields, d
<1> HIDE DEF c
<1>3. Shape(c) /\ Slots(c)
  BY <1>1, <1>2 DEF Shape, Slots, SameInsts
<1>4. Connected(c)
  BY <1>1, <1>2, InstFacts DEF BlockInv, Connected, Shape, LinksInv, LinksType
<1>5. /\ Insts \cap c.live = (Insts \cap b.live) \ {i}
      /\ \A t \in ITerms : t \in b.live => t \in c.live
  BY <1>1, <1>2, ITermFacts, InstFacts
<1>6. \A j \in (Insts \cap b.live) \ {i} :
        /\ c.master[j] = b.master[j] /\ c.iterms[j] = b.iterms[j]
        /\ c.iterms[j] \in Seq(ITerms)
  BY <1>1, <1>2 DEF Shape, SameInsts
<1>7. ASSUME NEW j \in Insts \cap c.live
      PROVE  /\ PinsLeft(c, j, Idle)
             /\ \A h \in Insts \cap c.live : Apart(c, j, h)
  <2>1. c.pin = b.pin
    BY <1>1, <1>2 DEF SameInsts
  <2>2. j \in (Insts \cap b.live) \ {i}
    BY <1>5
  <2>3. PinsLeft(b, j, cl) /\ \A h \in Insts \cap b.live : Apart(b, j, h)
    BY <2>2 DEF PinsInv
  <2>4. \A k : ~ Destroyed(j, k, cl)
    BY <2>2 DEF Destroyed
  <2>5. PinsLeft(c, j, Idle)
    BY <1>5, <1>6, <2>1, <2>2, <2>3, <2>4 DEF PinsLeft
  <2> QED
    BY <1>5, <1>6, <2>2, <2>3, <2>5 DEF Apart
<1> QED
  BY <1>3, <1>4, <1>7 DEF c, BlockInv, PinsInv

(***************************************************************************)
(* dbInst::create(): the instance and its terminals come from the free     *)
(* lists, so that no other instance has them.                              *)
(***************************************************************************)
LEMMA InstCreateInv ==
  ASSUME NEW b, BlockInv(b), PinsInv(b, Idle), NEW m \in Masters, NEW name,
         Room(b, "inst", 1), Room(b, "iterm", Len(MTerms[m]))
  PROVE  BlockInv(Inst_create(b, m, name)) /\ PinsInv(Inst_create(b, m, name), Idle)
<1> DEFINE i == Head(b.free["inst"])
           k == Len(MTerms[m])
           ts == Taken(b, "iterm", k)
           pin(t) == CHOOSE j \in 1 .. k : ts[j] = t
           d == Take(b, "inst", 1)
           e == Take(d, "iterm", k)
           c == Inst_create(b, m, name)
<1>1. k \in Nat
  BY MTermsAssumption
<1>2. /\ BlockInv(d) /\ SameInsts(b, d) /\ d.links = b.links
      /\ d.live = b.live \cup {i} /\ i \in Insts /\ i \notin b.live
      /\ d.free["iterm"] = b.free["iterm"]
  BY TakeOne DEF Tables, Insts
<1> HIDE DEF k, d
<1>3. ts = Taken(d, "iterm", k) /\ Room(d, "iterm", k)
  BY <1>2 DEF Taken, Room, k
<1>4. Shape(d) /\ Slots(d) /\ "iterm" \in Tables /\ Objects("iterm") = ITerms
  BY <1>2 DEF BlockInv, Tables, ITerms
<1> HIDE DEF ts
<1>5. /\ Shape(e) /\ Slots(e) /\ SameInsts(d, e) /\ e.links = d.links
      /\ e.live = d.live \cup Elements(ts)
  BY <1>1, <1>3, <1>4, TakeInv
<1>6. ts \in Seq(ITerms) /\ Len(ts) = k /\ DOMAIN ts = 1 .. k
  BY <1>1, <1>3, <1>4, TakeInv
<1>7. /\ \A j \in 1 .. k : ts[j] \notin d.live
      /\ \A h, j \in 1 .. k : ts[h] = ts[j] => h = j
  BY <1>1, <1>3, <1>4, TakeInv
<1> HIDE DEF e
<1>8. /\ DOMAIN c = Fields /\ c.live = e.live /\ c.free = e.free /\ c.links = e.links
      /\ c.master = [e.master EXCEPT ![i] = m]
      /\ c.iterms = [e.iterms EXCEPT ![i] = ts]
      /\ c.pin = [t \in ITerms |-> IF t \in Elements(ts) THEN pin(t) ELSE e.pin[t]]
  BY <1>5 DEF Inst_create, WithBBox, Shape, Fields, d, e, ts, k
<1>9. \A j \in 1 .. k : ts[j] \in ITerms /\ pin(ts[j]) = j
  BY <1>6, <1>7
<1>10. \A t \in Elements(ts) : pin(t) \in 1 .. k
  BY <1>6, <1>9 DEF Elements
<1> HIDE DEF i, c, pin
<1>11. /\ b.iterms \in [Insts -> Seq(ITerms)] /\ b.pin \in [ITerms -> Nat]
       /\ b.master \in [Insts -> Masters \cup {NoMaster}]
       /\ e.iterms = b.iterms /\ e.pin = b.pin /\ e.master = b.master
  BY <1>2, <1>5 DEF BlockInv, Shape, SameInsts
<1>12. Shape(c) /\ Slots(c)
  <2>1. c.pin \in [ITerms -> Nat]
    BY <1>1, <1>8, <1>10, <1>11
  <2>2. c.iterms \in [Insts -> Seq(ITerms)]
    BY <1>2, <1>6, <1>8, <1>11
  <2>3. c.master \in [Insts -> Masters \cup {NoMaster}]
    BY <1>2, <1>8, <1>11
  <2> QED
    BY <1>5, <1>8, <2>1, <2>2, <2>3 DEF Shape, Slots
<1>13. Connected(c)
  BY <1>2, <1>5, <1>8 DEF BlockInv, Connected
<1>14. Insts \cap c.live = (Insts \cap b.live) \cup {i}
  BY <1>2, <1>5, <1>6, <1>8, InstFacts, ITermFacts DEF Elements
<1>15. \A j \in (Insts \cap b.live) :
         /\ j # i /\ c.master[j] = b.master[j] /\ c.iterms[j] = b.iterms[j]
         /\ c.iterms[j] \in Seq(ITerms)
  BY <1>2, <1>8, <1>11
<1>16. \A t \in ITerms : t \in b.live =>
         t \in c.live /\ t \notin Elements(ts) /\ c.pin[t] = b.pin[t]
  BY <1>2, <1>5, <1>6, <1>7, <1>8, <1>11 DEF Elements
<1>17. ASSUME NEW j \in Insts \cap b.live
       PROVE  PinsLeft(c, j, Idle) /\ Apart(c, j, i) /\ Apart(c, i, j)
  <2>1. PinsLeft(b, j, Idle) /\ \A h \in DOMAIN b.iterms[j] : b.iterms[j][h] \in ITerms
    BY <1>11 DEF PinsInv
  <2>2. \A h \in DOMAIN b.iterms[j] : b.iterms[j][h] \in b.live
    BY <2>1 DEF PinsLeft, Destroyed, Idle
  <2>3. PinsLeft(c, j, Idle)
    BY <1>15, <1>16, <2>1, <2>2 DEF PinsLeft
  <2>4. c.iterms[i] = ts /\ \A h \in DOMAIN ts : ts[h] \in Elements(ts)
    BY <1>2, <1>8, <1>11 DEF Elements
  <2> QED
    BY <1>15, <1>16, <2>1, <2>2, <2>3, <2>4 DEF Apart
<1>18. PinsLeft(c, i, Idle)
  <2>1. c.iterms[i] = ts /\ c.master[i] = m
    BY <1>2, <1>8, <1>11
  <2>2. \A j \in 1 .. k : ts[j] \in Elements(ts) /\ c.pin[ts[j]] = j
    BY <1>6, <1>8, <1>9 DEF Elements
  <2> QED
    BY <1>5, <1>6, <1>8, <2>1, <2>2 DEF PinsLeft, k
<1>19. ASSUME NEW j \in Insts \cap b.live, NEW h \in Insts \cap b.live
       PROVE  Apart(c, j, h)
  BY <1>15 DEF PinsInv, Apart
<1>20. Apart(c, i, i)
  BY DEF Apart
<1>21. PinsInv(c, Idle)
  BY <1>14, <1>17, <1>18, <1>19, <1>20 DEF PinsInv
<1> QED
  BY <1>12, <1>13, <1>21 DEF BlockInv, c

(***************************************************************************)
(* swapMaster(): idx_map is a bijection, because the two masters have the  *)
(* same names, each once; _iterms sorted by it is a permutation.           *)
(***************************************************************************)
LEMMA SwapMasterInv ==
  ASSUME NEW b, BlockInv(b), PinsInv(b, Idle), NEW i \in Insts, i \in b.live,
         NEW m \in Masters
  PROVE  BlockInv(swapMaster(b, i, m)) /\ PinsInv(swapMaster(b, i, m), Idle)
<1> DEFINE old == b.iterms[i]
           o == b.master[i]
           to(j) == CHOOSE k \in DOMAIN MTerms[m] : MTerms[m][k] = MTerms[o][j]
           new == [k \in DOMAIN old |->
                     CHOOSE t \in Elements(old) : to(b.pin[t]) = k]
           c == swapMaster(b, i, m)
<1>1. CASE ~ Equivalent(m, o)
  BY <1>1 DEF swapMaster
<1>2. CASE Equivalent(m, o)
  <2>1. /\ o \in Masters /\ old \in Seq(ITerms)
        /\ Len(old) = Len(MTerms[o])
        /\ \A k \in DOMAIN old : b.pin[old[k]] = k /\ old[k] \in b.live
    <3>1. old \in Seq(ITerms)
      BY DEF BlockInv, Shape
    <3> QED
      BY <3>1 DEF PinsInv, PinsLeft, Destroyed, Idle
  <2>2. /\ MTerms[m] \in Seq(STRING) /\ MTerms[o] \in Seq(STRING)
        /\ \A j, k \in DOMAIN MTerms[m] : MTerms[m][j] = MTerms[m][k] => j = k
        /\ \A j, k \in DOMAIN MTerms[o] : MTerms[o][j] = MTerms[o][k] => j = k
    BY <2>1, MTermsAssumption
  <2>3. /\ DOMAIN MTerms[m] = DOMAIN old /\ DOMAIN MTerms[o] = DOMAIN old
        /\ Len(MTerms[m]) = Len(old)
    BY <1>2, <2>1, <2>2 DEF Equivalent
  <2> DEFINE D == DOMAIN old
  <2>4. D = 1 .. Len(old) /\ Len(old) \in Nat
    BY <2>1
  <2>5. /\ DOMAIN c = Fields /\ c.live = b.live /\ c.free = b.free
        /\ c.links = b.links
        /\ c.master = [b.master EXCEPT ![i] = m]
        /\ c.iterms = [b.iterms EXCEPT ![i] = new]
        /\ c.pin = [t \in ITerms |->
                      IF t \in Elements(old) THEN to(b.pin[t]) ELSE b.pin[t]]
    BY <1>2 DEF swapMaster, WithBBox, BlockInv, Shape, Fields
  <2>6. \A j \in D : to(j) \in D /\ MTerms[m][to(j)] = MTerms[o][j]
    <3> SUFFICES ASSUME NEW j \in D
                 PROVE  \E k \in DOMAIN MTerms[m] : MTerms[m][k] = MTerms[o][j]
      BY <2>3
    <3>1. MTerms[o][j] \in Elements(MTerms[m])
      BY <1>2, <2>3 DEF Equivalent, Elements
    <3> QED
      BY <3>1 DEF Elements
  <2> HIDE DEF to
  <2>7. \A k \in D : \E j \in D : to(j) = k
    <3> SUFFICES ASSUME NEW k \in D PROVE \E j \in D : to(j) = k
      OBVIOUS
    <3>1. MTerms[m][k] \in Elements(MTerms[o])
      BY <1>2, <2>3 DEF Equivalent, Elements
    <3>2. PICK j \in D : MTerms[o][j] = MTerms[m][k]
      BY <2>3, <3>1 DEF Elements
    <3> QED
      BY <2>2, <2>3, <2>6, <3>2
  <2>8. \A t \in Elements(old) : t \in ITerms /\ t \in b.live /\ b.pin[t] \in D
    BY <2>1 DEF Elements
  <2>9. \A k \in D : new[k] \in Elements(old) /\ to(b.pin[new[k]]) = k
    <3> SUFFICES ASSUME NEW k \in D
                 PROVE  \E t \in Elements(old) : to(b.pin[t]) = k
      OBVIOUS
    <3>1. PICK j \in D : to(j) = k
      BY <2>7
    <3>2. old[j] \in Elements(old) /\ b.pin[old[j]] = j
      BY <2>1 DEF Elements
    <3> QED
      BY <3>1, <3>2
  <2>10. new \in Seq(ITerms) /\ DOMAIN new = D /\ Len(new) = Len(old)
    <3>1. new \in [1 .. Len(old) -> ITerms]
      BY <2>4, <2>8, <2>9
    <3> QED
      BY <2>4, <3>1
  <2> HIDE DEF new, c
  <2>11. /\ b.master \in [Insts -> Masters \cup {NoMaster}]
         /\ b.iterms \in [Insts -> Seq(ITerms)] /\ b.pin \in [ITerms -> Nat]
    BY DEF BlockInv, Shape
  <2>12. c.pin \in [ITerms -> Nat]
    BY <2>4, <2>5, <2>6, <2>8, <2>11
  <2>13. BlockInv(c)
    <3>1. Shape(c)
      BY <2>5, <2>10, <2>11, <2>12 DEF BlockInv, Shape
    <3> QED
      BY <2>5, <3>1 DEF BlockInv, Slots, Connected
  <2>14. PinsLeft(c, i, Idle)
    <3>1. c.master[i] = m /\ c.iterms[i] = new
      BY <2>5, <2>11
    <3>2. \A k \in D : c.pin[new[k]] = k /\ new[k] \in c.live
      BY <2>5, <2>8, <2>9
    <3> QED
      BY <2>3, <2>10, <3>1, <3>2 DEF PinsLeft
  <2>15. ASSUME NEW j \in Insts \cap b.live, j # i
         PROVE  PinsLeft(c, j, Idle) /\ Apart(c, i, j) /\ Apart(c, j, i)
    <3>1. c.master[j] = b.master[j] /\ c.iterms[j] = b.iterms[j]
          /\ c.iterms[i] = new
      BY <2>5, <2>11, <2>15
    <3>2. \A h \in DOMAIN b.iterms[j] :
            b.iterms[j][h] \in ITerms /\ b.iterms[j][h] \notin Elements(old)
      BY <2>1, <2>11, <2>15 DEF PinsInv, Apart, Elements
    <3>3. \A h \in DOMAIN b.iterms[j] : c.pin[b.iterms[j][h]] = b.pin[b.iterms[j][h]]
      BY <2>5, <3>2
    <3>4. PinsLeft(c, j, Idle)
      BY <2>5, <3>1, <3>3 DEF PinsInv, PinsLeft
    <3> QED
      BY <2>9, <2>10, <3>1, <3>2, <3>4 DEF Apart
  <2>16. ASSUME NEW j \in Insts \cap b.live, j # i, NEW h \in Insts \cap b.live, h # i
         PROVE  Apart(c, j, h)
    BY <2>5, <2>11, <2>16 DEF PinsInv, Apart
  <2>17. Apart(c, i, i)
    BY DEF Apart
  <2>18. PinsInv(c, Idle)
    BY <2>5, <2>14, <2>15, <2>16, <2>17 DEF PinsInv
  <2> QED
    BY <2>13, <2>18 DEF c
<1> QED
  BY <1>1, <1>2

-----------------------------------------------------------------------------
(* The inductive invariant. *)

NetCall == [fn : {"Net_destroy"}, obj : Nets, tbl : {"iterm", "bterm"},
            itr : Terms \cup {Null}]

InstCall == [fn : {"Inst_destroy"}, obj : Insts, k : Nat \ {0}]

NetCallInv(b, cl) ==
  /\ cl \in NetCall
  /\ cl.obj \in b.live
  /\ cl.itr = b.links.head[<<cl.obj, cl.tbl>>]
  /\ cl.tbl = "bterm" => b.links.head[<<cl.obj, "iterm">>] = Null

InstCallInv(b, cl) == cl \in InstCall /\ cl.obj \in b.live

CallInv(b, cl) == cl = Idle \/ NetCallInv(b, cl) \/ InstCallInv(b, cl)

IInv == BlockInv(block) /\ PinsInv(block, call) /\ CallInv(block, call)

\* Which destroy() runs, if any, from the name of the function.
LEMMA CallKinds ==
  ASSUME NEW b, NEW cl, CallInv(b, cl)
  PROVE  /\ cl.fn = "Net_destroy" => NetCallInv(b, cl)
         /\ cl.fn = "Inst_destroy" => InstCallInv(b, cl)
  BY DEF CallInv, NetCallInv, InstCallInv, NetCall, InstCall, Idle

\* Only dbInst::destroy() leaves an instance without some of its terminals.
LEMMA PinsOfCalls ==
  ASSUME NEW b, NEW cl, NEW dl, PinsInv(b, cl), cl.fn # "Inst_destroy"
  PROVE  PinsInv(b, dl)
  BY DEF PinsInv, PinsLeft, Destroyed

LEMMA PinsSame ==
  ASSUME NEW b, NEW c, NEW cl, PinsInv(b, cl), SameInsts(b, c), c.live = b.live
  PROVE  PinsInv(c, cl)
  BY DEF PinsInv, PinsLeft, Apart, SameInsts

\* Without a block terminal the instances are as they were.
LEMMA PinsLessBTerm ==
  ASSUME NEW b, NEW c, NEW cl, BlockInv(b), PinsInv(b, cl), SameInsts(b, c),
         NEW t \in BTerms, c.live = b.live \ {t}
  PROVE  PinsInv(c, cl)
<1>1. Insts \cap c.live = Insts \cap b.live
  BY InstFacts, BTermFacts
<1>2. \A u \in ITerms : u \in b.live => u \in c.live
  BY ITermFacts, BTermFacts
<1>3. b.iterms \in [Insts -> Seq(ITerms)]
  BY DEF BlockInv, Shape
<1> QED
  BY <1>1, <1>2, <1>3 DEF PinsInv, PinsLeft, Apart, SameInsts

(***************************************************************************)
(* The head of a list is a live terminal of that table on that net; when   *)
(* it is taken off, its successor becomes the head, and no other list      *)
(* changes.                                                                *)
(***************************************************************************)
LEMMA HeadFacts ==
  ASSUME NEW b, BlockInv(b), NEW s \in Lists, NEW t \in Terms, b.links.head[s] = t
  PROVE  /\ t \in b.live /\ b.links.net[t] = s[1] /\ t[1] = s[2]
         /\ Beheaded(b.links, t) = [b.links.head EXCEPT ![s] = b.links.next[t]]
         /\ b.links.next[t] \in Terms \cup {Null}
<1>1. LinksType(b.links) /\ HeadsSound(b.links) /\ t # Null
  BY TermFacts DEF BlockInv, Shape, LinksInv
<1>2. b.links.net[t] = s[1] /\ t[1] = s[2]
  BY <1>1 DEF HeadsSound
<1>3. ListOf(b.links.net[t], t) = s /\ b.links.net[t] # Null
  BY <1>2, ListIs, NetFacts
<1>4. t \in b.live
  BY <1>2, <1>3 DEF BlockInv, Connected
<1>5. Beheaded(b.links, t) = [b.links.head EXCEPT ![s] = b.links.next[t]]
  BY <1>1, <1>3 DEF Beheaded, LinksType
<1> QED
  BY <1>1, <1>2, <1>4, <1>5 DEF LinksType

LEMMA InitInv == Init => IInv
<1> SUFFICES ASSUME Init PROVE IInv
  OBVIOUS
<1> DEFINE b == Empty
           slots(tbl) == [i \in 1 .. Size[tbl] |-> <<tbl, i>>]
<1>1. /\ block = b /\ call = Idle /\ DOMAIN b = Fields /\ b.live = {}
      /\ b.free = [tbl \in Tables |-> slots(tbl)]
      /\ b.master = [i \in Insts |-> NoMaster]
      /\ b.iterms = [i \in Insts |-> << >>] /\ b.pin = [t \in ITerms |-> 0]
      /\ b.links = [net  |-> [t \in Terms |-> Null], head |-> [s \in Lists |-> Null],
                    next |-> [t \in Terms |-> Null], prev |-> [t \in Terms |-> Null]]
  BY DEF Init, Empty, Fields
<1> HIDE DEF b
<1>2. LinksInv(b.links)
  <2>1. \E r \in [Terms -> Nat] : Ascends(b.links, r)
    <3>1. [t \in Terms |-> 0] \in [Terms -> Nat]
      OBVIOUS
    <3>2. Ascends(b.links, [t \in Terms |-> 0])
      BY <1>1 DEF Ascends
    <3> QED
      BY <3>1, <3>2
  <2> QED
    BY <1>1, <2>1 DEF LinksInv, LinksType, HeadsSound, NeighboursSound
<1>3. ASSUME NEW tbl \in Tables
      PROVE  /\ slots(tbl) \in Seq(Objects(tbl))
             /\ \A j, k \in DOMAIN slots(tbl) : slots(tbl)[j] = slots(tbl)[k] => j = k
  <2>1. Size[tbl] \in Nat
    BY SizeAssumption
  <2>2. slots(tbl) \in [1 .. Size[tbl] -> Objects(tbl)]
    BY DEF Objects
  <2>3. \A j, k \in DOMAIN slots(tbl) : slots(tbl)[j] = slots(tbl)[k] => j = k
    OBVIOUS
  <2> HIDE DEF slots
  <2>4. slots(tbl) \in Seq(Objects(tbl))
    BY <2>1, <2>2
  <2> QED
    BY <2>3, <2>4
<1> HIDE DEF slots
<1>4. Shape(b)
  <2>1. \A tbl \in Tables : b.free[tbl] \in Seq(Objects(tbl))
    BY <1>1, <1>3
  <2>2. /\ b.master \in [Insts -> Masters \cup {NoMaster}]
        /\ b.iterms \in [Insts -> Seq(ITerms)]
        /\ b.pin \in [ITerms -> Nat]
    BY <1>1
  <2> QED
    BY <1>1, <1>2, <2>1, <2>2 DEF Shape
<1>5. Slots(b)
  <2> SUFFICES ASSUME NEW tbl \in Tables
               PROVE  /\ \A j \in DOMAIN b.free[tbl] : b.free[tbl][j] \notin b.live
                      /\ \A j, k \in DOMAIN b.free[tbl] :
                           b.free[tbl][j] = b.free[tbl][k] => j = k
    BY DEF Slots
  <2>1. b.free[tbl] = slots(tbl) /\ b.live = {}
    BY <1>1
  <2> QED
    BY <1>3, <2>1
<1>6. Connected(b) /\ PinsInv(b, Idle)
  BY <1>1 DEF Connected, PinsInv
<1> QED
  BY <1>1, <1>4, <1>5, <1>6 DEF IInv, BlockInv, CallInv

\* A turn of the loop of dbInst::destroy(): c is b without terminal k of i.
PinGone(b, c, i, k, cl) ==
  /\ b.iterms[i][k] \in ITerms /\ b.iterms[i][k] \in b.live
  /\ BlockInv(c) /\ PinsInv(c, cl) /\ SameInsts(b, c)
  /\ c.live = b.live \ {b.iterms[i][k]} /\ i \in c.live

LEMMA PinGoneInv ==
  ASSUME NEW b, BlockInv(b), NEW i \in Insts, i \in b.live,
         NEW k \in Nat \ {0}, k <= Len(b.iterms[i]),
         NEW cl, cl.fn = "Inst_destroy", cl.obj = i, cl.k = k, PinsInv(b, cl),
         NEW dl, dl.fn = "Inst_destroy", dl.obj = i, dl.k = k + 1
  PROVE  PinGone(b, Term_destroy(b, b.iterms[i][k]), i, k, dl)
<1> DEFINE s == b.iterms[i]
           t == s[k]
           c == Term_destroy(b, t)
<1>1. s \in Seq(ITerms) /\ k \in DOMAIN s /\ t \in ITerms /\ t \in Terms
  <2>1. s \in Seq(ITerms)
    BY DEF BlockInv, Shape
  <2> QED
    BY <2>1, ITermFacts
<1>2. t \in b.live
  BY <1>1 DEF PinsInv, PinsLeft, Destroyed
<1> HIDE DEF t
<1>3. BlockInv(c) /\ SameInsts(b, c) /\ c.live = b.live \ {t}
  BY <1>1, <1>2, TermDestroyInv DEF BlockInv
<1> HIDE DEF c
<1>4. ASSUME NEW j \in Insts \cap c.live
      PROVE  /\ PinsLeft(c, j, dl)
             /\ \A h \in Insts \cap c.live : Apart(c, j, h)
  <2>1. j \in Insts \cap b.live /\ PinsLeft(b, j, cl)
    BY <1>3 DEF PinsInv
  <2>2. \A h \in DOMAIN b.iterms[j] : b.iterms[j][h] = t => j = i /\ h = k
    <3> SUFFICES ASSUME NEW h \in DOMAIN b.iterms[j], b.iterms[j][h] = s[k]
                 PROVE  j = i /\ h = k
      BY DEF t
    <3>1. j = i
      BY <1>1, <2>1 DEF PinsInv, Apart
    <3>2. b.pin[s[h]] = h /\ b.pin[s[k]] = k
      BY <1>1, <3>1 DEF PinsInv, PinsLeft
    <3> QED
      BY <3>1, <3>2
  <2>3. ASSUME NEW h \in DOMAIN b.iterms[j]
        PROVE  b.iterms[j][h] \in c.live \/ Destroyed(j, h, dl)
    <3>1. CASE b.iterms[j][h] = t
      BY <2>2, <3>1 DEF Destroyed
    <3>2. CASE b.iterms[j][h] # t /\ b.iterms[j][h] \in b.live
      BY <1>3, <3>2
    <3>3. CASE Destroyed(j, h, cl)
      <4>1. j = i /\ h < k /\ h \in Nat
        <5>1. b.iterms[j] \in Seq(ITerms)
          BY <2>1 DEF BlockInv, Shape
        <5> QED
          BY <3>3, <5>1 DEF Destroyed
      <4>2. h < k + 1
        BY <4>1
      <4> QED
        BY <4>1, <4>2 DEF Destroyed
    <3> QED
      BY <2>1, <3>1, <3>2, <3>3 DEF PinsLeft
  <2> QED
    BY <1>3, <2>1, <2>3 DEF PinsInv, PinsLeft, Apart, SameInsts
<1>5. i \in c.live
  BY <1>1, <1>3, InstFacts
<1>6. PinGone(b, c, i, k, dl)
  BY <1>1, <1>2, <1>3, <1>4, <1>5 DEF PinGone, PinsInv, t
<1> QED
  BY <1>6 DEF c, t

LEMMA NextInv == IInv /\ [Next]_vars => IInv'
<1> SUFFICES ASSUME IInv, [Next]_vars PROVE IInv'
  OBVIOUS
<1>0. BlockInv(block) /\ PinsInv(block, call) /\ CallInv(block, call)
  BY DEF IInv
<1>1. ASSUME NEW name, NEW skip, CreateNet(name, skip) PROVE IInv'
  <2>1. /\ call = Idle /\ call' = Idle /\ Room(block, "net", 1)
        /\ block' = Net_create(block, name)
    BY <1>1 DEF CreateNet, Returns
  <2> QED
    BY <1>0, <2>1, NetCreateInv DEF IInv, CallInv
<1>2. ASSUME NEW n \in Live(Nets), NEW name, CreateBTerm(n, name) PROVE IInv'
  <2>1. /\ call = Idle /\ call' = Idle /\ Room(block, "bterm", 1)
        /\ block' = BTerm_create(block, n, name) /\ n \in Nets /\ n \in block.live
    BY <1>2 DEF CreateBTerm, Returns, Live
  <2> QED
    BY <1>0, <2>1, BTermCreateInv DEF IInv, CallInv
<1>3. ASSUME NEW n \in Live(Nets), NEW t \in Live(Terms), Connect(t, n) PROVE IInv'
  <2>1. /\ call = Idle /\ call' = Idle /\ block' = connect(block, t, n)
        /\ n \in Nets /\ n \in block.live /\ t \in Terms /\ t \in block.live
    BY <1>3 DEF Connect, Returns, Live
  <2>2. /\ Shape(block') /\ Connected(block') /\ SameInsts(block, block')
        /\ block'.live = block.live /\ block'.free = block.free
    BY <1>0, <2>1, ConnectInv DEF BlockInv
  <2>3. PinsInv(block', call')
    BY <1>0, <2>1, <2>2, PinsSame
  <2> QED
    BY <1>0, <2>1, <2>2, <2>3 DEF IInv, BlockInv, Slots, CallInv
<1>4. ASSUME NEW n \in Live(Nets), DestroyNet(n) PROVE IInv'
  <2>1. /\ call = Idle /\ block' = block
        /\ call' = [fn |-> "Net_destroy", obj |-> n, tbl |-> "iterm",
                    itr |-> block.links.head[<<n, "iterm">>]]
        /\ n \in Nets /\ n \in block.live
    BY <1>4 DEF DestroyNet, Live
  <2>2. block.links.head[<<n, "iterm">>] \in Terms \cup {Null}
    BY <1>0, <2>1 DEF BlockInv, Shape, LinksInv, LinksType, Lists
  <2>3. NetCallInv(block', call')
    BY <2>1, <2>2 DEF NetCallInv, NetCall
  <2>4. PinsInv(block', call')
    BY <1>0, <2>1, PinsOfCalls DEF Idle
  <2> QED
    BY <1>0, <2>1, <2>3, <2>4 DEF IInv, CallInv
<1>5. ASSUME NEW m \in Masters, NEW name, CreateInst(m, name) PROVE IInv'
  <2>1. /\ call = Idle /\ call' = Idle
        /\ Room(block, "inst", 1) /\ Room(block, "iterm", Len(MTerms[m]))
        /\ block' = Inst_create(block, m, name)
    BY <1>5 DEF CreateInst, Returns
  <2> QED
    BY <1>0, <2>1, InstCreateInv DEF IInv, CallInv
<1>6. ASSUME NEW m \in Masters, NEW i \in Live(Insts), SwapMaster(i, m) PROVE IInv'
  <2>1. /\ call = Idle /\ call' = Idle /\ block' = swapMaster(block, i, m)
        /\ i \in Insts /\ i \in block.live
    BY <1>6 DEF SwapMaster, Returns, Live
  <2> QED
    BY <1>0, <2>1, SwapMasterInv DEF IInv, CallInv
<1>7. ASSUME NEW t \in Live(Terms), Disconnect(t) PROVE IInv'
  <2>1. /\ call = Idle /\ call' = Idle /\ block' = disconnect(block, t) /\ t \in Terms
    BY <1>7 DEF Disconnect, Returns, Live
  <2>2. /\ Shape(block') /\ Connected(block') /\ SameInsts(block, block')
        /\ block'.live = block.live /\ block'.free = block.free
    BY <1>0, <2>1, DisconnectInv DEF BlockInv
  <2>3. PinsInv(block', call')
    BY <1>0, <2>1, <2>2, PinsSame
  <2> QED
    BY <1>0, <2>1, <2>2, <2>3 DEF IInv, BlockInv, Slots, CallInv
<1>8. ASSUME NEW t \in Live(BTerms), DestroyBTerm(t) PROVE IInv'
  <2>1. /\ call = Idle /\ call' = Idle /\ block' = Term_destroy(block, t)
        /\ t \in BTerms /\ t \in Terms /\ t \in block.live
    BY <1>8, BTermFacts DEF DestroyBTerm, Returns, Live
  <2>2. /\ BlockInv(block') /\ SameInsts(block, block')
        /\ block'.live = block.live \ {t}
    BY <1>0, <2>1, TermDestroyInv DEF BlockInv
  <2>3. PinsInv(block', call')
    BY <1>0, <2>1, <2>2, PinsLessBTerm
  <2> QED
    BY <2>1, <2>2, <2>3 DEF IInv, CallInv
<1>9. ASSUME NEW i \in Live(Insts), DestroyInst(i) PROVE IInv'
  <2>1. /\ call = Idle /\ block' = block
        /\ call' = [fn |-> "Inst_destroy", obj |-> i, k |-> 1]
        /\ i \in Insts /\ i \in block.live
    BY <1>9 DEF DestroyInst, Live
  <2>2. InstCallInv(block', call')
    BY <2>1 DEF InstCallInv, InstCall
  <2>3. PinsInv(block', call')
    BY <1>0, <2>1, PinsOfCalls DEF Idle
  <2> QED
    BY <1>0, <2>1, <2>2, <2>3 DEF IInv, CallInv
<1>10. CASE DestroyNet_iterm
  <2> DEFINE n == call.obj
             t == call.itr
  <2>1. NetCallInv(block, call) /\ call.tbl = "iterm" /\ t # Null
    BY <1>0, <1>10, CallKinds DEF DestroyNet_iterm
  <2>2. /\ call \in NetCall /\ n \in Nets /\ n \in block.live
        /\ t = block.links.head[<<n, "iterm">>] /\ t \in Terms
    BY <2>1 DEF NetCallInv, NetCall
  <2>3. /\ call' = [call EXCEPT !.itr = block.links.next[t]]
        /\ block' = disconnect(block, t)
    BY <1>10 DEF DestroyNet_iterm
  <2> HIDE DEF n, t
  <2>4. /\ t \in Terms /\ block.links.next[t] \in Terms \cup {Null}
        /\ Beheaded(block.links, t)
             = [block.links.head EXCEPT ![<<n, "iterm">>] = block.links.next[t]]
    <3> DEFINE list == <<n, "iterm">>
    <3>1. list \in Lists /\ list[2] = "iterm" /\ block.links.head[list] = t
      BY <2>2 DEF Lists
    <3>2. BlockInv(block) /\ t \in Terms
      BY <1>0, <2>2
    <3> HIDE DEF list
    <3>3. /\ t \in block.live /\ t[1] = list[2]
          /\ Beheaded(block.links, t) = [block.links.head EXCEPT ![list] = block.links.next[t]]
          /\ block.links.next[t] \in Terms \cup {Null}
      BY <3>1, <3>2, HeadFacts
    <3> QED
      BY <3>1, <3>2, <3>3 DEF list
  <2>5. /\ Shape(block') /\ Connected(block') /\ SameInsts(block, block')
        /\ block'.live = block.live /\ block'.free = block.free
        /\ block'.links.head = Beheaded(block.links, t)
    BY <1>0, <2>3, <2>4, DisconnectInv DEF BlockInv
  <2>6. BlockInv(block')
    BY <1>0, <2>5 DEF BlockInv, Slots
  <2>7. PinsInv(block', call')
    <3>1. PinsInv(block, call') /\ call.fn # "Inst_destroy"
      BY <1>0, <2>2, PinsOfCalls DEF NetCall
    <3> QED
      BY <2>5, <3>1, PinsSame
  <2>8. NetCallInv(block', call')
    <3>1. block'.links.head[<<n, "iterm">>] = block.links.next[t]
      BY <1>0, <2>2, <2>4, <2>5 DEF BlockInv, Shape, LinksInv, LinksType, Lists
    <3>2. /\ call' \in NetCall /\ call'.obj = n /\ call'.tbl = "iterm"
          /\ call'.itr = block.links.next[t]
      BY <2>1, <2>2, <2>3, <2>4 DEF NetCall, n
    <3> QED
      BY <2>2, <2>5, <3>1, <3>2 DEF NetCallInv
  <2> QED
    BY <2>6, <2>7, <2>8 DEF IInv, CallInv
<1>11. CASE DestroyNet_bterms
  <2> DEFINE n == call.obj
  <2>1. NetCallInv(block, call) /\ call.tbl = "iterm" /\ call.itr = Null
    BY <1>0, <1>11, CallKinds DEF DestroyNet_bterms
  <2>2. /\ call \in NetCall /\ n \in Nets /\ n \in block.live
        /\ block.links.head[<<n, "iterm">>] = Null
    BY <2>1 DEF NetCallInv, NetCall
  <2>3. /\ call' = [call EXCEPT !.tbl = "bterm", !.itr = block.links.head[<<n, "bterm">>]]
        /\ block' = block
    BY <1>11 DEF DestroyNet_bterms
  <2>4. block.links.head[<<n, "bterm">>] \in Terms \cup {Null}
    BY <1>0, <2>2 DEF BlockInv, Shape, LinksInv, LinksType, Lists
  <2>5. NetCallInv(block', call')
    BY <2>2, <2>3, <2>4 DEF NetCallInv, NetCall
  <2>6. PinsInv(block', call')
    BY <1>0, <2>2, <2>3, PinsOfCalls DEF NetCall
  <2> QED
    BY <1>0, <2>3, <2>5, <2>6 DEF IInv, CallInv
<1>12. CASE DestroyNet_bterm
  <2> DEFINE n == call.obj
             t == call.itr
  <2>1. NetCallInv(block, call) /\ call.tbl = "bterm" /\ t # Null
    BY <1>0, <1>12, CallKinds DEF DestroyNet_bterm
  <2>2. /\ call \in NetCall /\ n \in Nets /\ n \in block.live
        /\ t = block.links.head[<<n, "bterm">>] /\ t \in Terms
        /\ block.links.head[<<n, "iterm">>] = Null
    BY <2>1 DEF NetCallInv, NetCall
  <2>3. /\ call' = [call EXCEPT !.itr = block.links.next[t]]
        /\ block' = Term_destroy(block, t)
    BY <1>12 DEF DestroyNet_bterm
  <2> HIDE DEF n, t
  <2>4. /\ t \in Terms /\ t \in block.live /\ t[1] = "bterm"
        /\ block.links.next[t] \in Terms \cup {Null}
        /\ Beheaded(block.links, t)
             = [block.links.head EXCEPT ![<<n, "bterm">>] = block.links.next[t]]
    <3> DEFINE list == <<n, "bterm">>
    <3>1. list \in Lists /\ list[2] = "bterm" /\ block.links.head[list] = t
      BY <2>2 DEF Lists
    <3>2. BlockInv(block) /\ t \in Terms
      BY <1>0, <2>2
    <3> HIDE DEF list
    <3>3. /\ t \in block.live /\ t[1] = list[2]
          /\ Beheaded(block.links, t) = [block.links.head EXCEPT ![list] = block.links.next[t]]
          /\ block.links.next[t] \in Terms \cup {Null}
      BY <3>1, <3>2, HeadFacts
    <3> QED
      BY <3>1, <3>2, <3>3 DEF list
  <2>5. /\ BlockInv(block') /\ SameInsts(block, block')
        /\ block'.live = block.live \ {t}
        /\ block'.links.head = Beheaded(block.links, t)
    BY <1>0, <2>3, <2>4, TermDestroyInv DEF BlockInv
  <2>6. PinsInv(block', call')
    <3>1. PinsInv(block, call')
      BY <1>0, <2>2, PinsOfCalls DEF NetCall
    <3>2. t \in BTerms
      BY <2>4, TermFacts
    <3> QED
      BY <1>0, <2>5, <3>1, <3>2, PinsLessBTerm
  <2>7. NetCallInv(block', call')
    <3>1. /\ block'.links.head[<<n, "bterm">>] = block.links.next[t]
          /\ block'.links.head[<<n, "iterm">>] = Null
      BY <1>0, <2>2, <2>4, <2>5 DEF BlockInv, Shape, LinksInv, LinksType, Lists
    <3>2. /\ call' \in NetCall /\ call'.obj = n /\ call'.tbl = "bterm"
          /\ call'.itr = block.links.next[t]
      BY <2>1, <2>2, <2>3, <2>4 DEF NetCall, n
    <3>3. n \in block'.live
      BY <2>2, <2>4, <2>5, NetFacts
    <3> QED
      BY <3>1, <3>2, <3>3 DEF NetCallInv
  <2> QED
    BY <2>5, <2>6, <2>7 DEF IInv, CallInv
<1>13. CASE DestroyNet_end
  <2> DEFINE n == call.obj
  <2>1. NetCallInv(block, call) /\ call.tbl = "bterm" /\ call.itr = Null
    BY <1>0, <1>13, CallKinds DEF DestroyNet_end
  <2>2. /\ call \in NetCall /\ n \in Nets /\ n \in block.live
        /\ block.links.head[<<n, "bterm">>] = Null
        /\ block.links.head[<<n, "iterm">>] = Null
    BY <2>1 DEF NetCallInv, NetCall
  <2>3. call' = Idle /\ block' = Net_delete(block, n)
    BY <1>13 DEF DestroyNet_end
  <2>4. ASSUME NEW t \in Terms, block.links.net[t] = n PROVE FALSE
    <3>1. /\ <<n, t[1]>> \in Lists /\ block.links.head[<<n, t[1]>>] = Null
          /\ LinksInv(block.links)
      BY <1>0, <2>2, TermFacts DEF Lists, BlockInv, Shape
    <3>2. <<n, t[1]>>[1] = n /\ <<n, t[1]>>[2] = t[1]
      OBVIOUS
    <3> HIDE DEF n
    <3> QED
      BY <2>4, <3>1, <3>2, HeadlessEmpty
  <2>5. PinsInv(block, Idle)
    BY <1>0, <2>2, PinsOfCalls DEF NetCall
  <2> QED
    BY <1>0, <2>2, <2>3, <2>4, <2>5, NetDeleteInv DEF IInv, CallInv
<1>14. CASE DestroyInst_iterm
  <2> DEFINE i == call.obj
             k == call.k
  <2>1. call \in InstCall /\ i \in Insts /\ i \in block.live /\ k \in Nat \ {0}
    BY <1>0, <1>14, CallKinds DEF DestroyInst_iterm, InstCallInv, InstCall
  <2>2. /\ k <= Len(block.iterms[i]) /\ call' = [call EXCEPT !.k = k + 1]
        /\ block' = Term_destroy(block, block.iterms[i][k])
    BY <1>14 DEF DestroyInst_iterm
  <2>3. call.fn = "Inst_destroy" /\ call' \in InstCall
    BY <2>1, <2>2 DEF InstCall
  <2>4. call'.fn = "Inst_destroy" /\ call'.obj = i /\ call'.k = k + 1
    BY <2>1, <2>2 DEF InstCall
  <2>5. PinGone(block, block', i, k, call')
    BY <1>0, <2>1, <2>2, <2>3, <2>4, PinGoneInv
  <2> QED
    BY <2>3, <2>4, <2>5 DEF IInv, CallInv, InstCallInv, PinGone
<1>15. CASE DestroyInst_end
  <2>1. InstCallInv(block, call)
    BY <1>0, <1>15, CallKinds DEF DestroyInst_end
  <2>2. call.obj \in Insts /\ call.obj \in block.live
    BY <2>1 DEF InstCallInv, InstCall
  <2>3. call' = Idle /\ block' = Inst_delete(block, call.obj)
    BY <1>15 DEF DestroyInst_end
  <2> QED
    BY <1>0, <2>2, <2>3, InstDeleteInv DEF IInv, CallInv
<1>16. CASE UNCHANGED vars
  BY <1>0, <1>16 DEF vars, IInv
<1> QED
  BY <1>1, <1>2, <1>3, <1>4, <1>5, <1>6, <1>7, <1>8, <1>9, <1>10, <1>11, <1>12,
     <1>13, <1>14, <1>15, <1>16 DEF Next, Destroying

(***************************************************************************)
(* The inductive invariant holds in every state.                           *)
(***************************************************************************)
THEOREM Invariant == Spec => []IInv
  BY InitInv, NextInv, PTL DEF Spec

(***************************************************************************)
(* The doubly linked lists stay sound under connect(), disconnect() and    *)
(* the destroy() loops, for nets and terminals of any number.              *)
(***************************************************************************)
THEOREM NetlistListsSound == Spec => []ListsSound
<1>1. IInv => ListsSound
  BY DEF IInv, BlockInv, Shape, LinksInv, ListsSound
<1> QED
  BY <1>1, Invariant, PTL

(***************************************************************************)
(* No destroy() leaves a terminal on the list of a destroyed net or a      *)
(* destroyed terminal on a list, and no slot is free twice.                *)
(***************************************************************************)
THEOREM NetlistNoDangling == Spec => []NoDangling
<1>1. IInv => NoDangling
  BY DEF IInv, BlockInv, NoDangling
<1> QED
  BY <1>1, Invariant, PTL

(***************************************************************************)
(* The iterator of dbNet::destroy() is always the head of its list.        *)
(***************************************************************************)
THEOREM NetlistIteratorAtHead == Spec => []IteratorAtHead
<1>1. IInv => IteratorAtHead
  BY CallKinds DEF IInv, IteratorAtHead, NetCallInv
<1> QED
  BY <1>1, Invariant, PTL

(***************************************************************************)
(* The pins of an instance are in the order of its master, whatever        *)
(* swapMaster() and create() did.                                          *)
(***************************************************************************)
THEOREM NetlistPinsInOrder == Spec => []PinsInOrder
<1>1. IInv => PinsInOrder
  BY DEF IInv, PinsInOrder, PinsOf, PinsInv, PinsLeft, Destroyed, Live, Idle
<1> QED
  BY <1>1, Invariant, PTL
-----------------------------------------------------------------------------
(* Types. *)

\* The part of the type of a block that the invariant above does not need.
Typed(b) ==
  /\ b.live \subseteq Nets \cup Terms \cup Insts
  /\ b.rule \in [Nets -> Rules \cup {NoRule}]
  /\ \A t \in ITerms : b.pin[t] <= Size["iterm"]
  /\ DOMAIN b.x = Insts /\ DOMAIN b.orient = Insts

LEMMA ObjectsTyped ==
  \A tbl \in Tables : Objects(tbl) \subseteq Nets \cup Terms \cup Insts
  BY DEF Tables, Nets, Terms, BTerms, ITerms, Insts

\* At most the objects of S are new in c, and the instances are as in b, where
\* they are in b; so are the rules.
Extends(b, c, S) ==
  /\ c.live \subseteq b.live \cup S /\ b.live \ Terms \subseteq c.live
  /\ SameInsts(b, c) /\ c.x = b.x /\ c.orient = b.orient /\ c.rule = b.rule

LEMMA ExtendsTyped ==
  ASSUME NEW b, NEW c, NEW S \in SUBSET (Nets \cup Terms \cup Insts),
         Extends(b, c, S), Typed(b)
  PROVE  Typed(c)
  BY DEF Extends, SameInsts, Typed

(***************************************************************************)
(* The calls that make no instance have no other effect on the objects,    *)
(* the rules and the pins than to make or destroy one object.              *)
(***************************************************************************)
LEMMA TermCallsExtend ==
  ASSUME NEW b, DOMAIN b = Fields, DOMAIN b.free = Tables, NEW t \in Terms, NEW n
  PROVE  /\ Extends(b, disconnect(b, t), {}) /\ DOMAIN disconnect(b, t) = Fields
         /\ Extends(b, connect(b, t, n), {})
         /\ Extends(b, Give(b, t), {}) /\ DOMAIN Give(b, t) = Fields
         /\ Extends(b, Term_destroy(b, t), {})
<1>1. /\ Extends(b, disconnect(b, t), {}) /\ DOMAIN disconnect(b, t) = Fields
      /\ DOMAIN disconnect(b, t).free = Tables
  BY DEF disconnect, Disconnected, Extends, SameInsts, Fields
<1>2. ASSUME NEW d, DOMAIN d = Fields
      PROVE  Extends(d, Give(d, t), {}) /\ DOMAIN Give(d, t) = Fields
  BY <1>2 DEF Give, Extends, SameInsts, Fields
<1>3. Extends(b, connect(b, t, n), {})
  <2> DEFINE d == disconnect(b, t)
             c == [d EXCEPT !.links = Linked(@, t, n)]
  <2>1. connect(b, t, n) = b \/ connect(b, t, n) = c
    BY DEF connect
  <2> HIDE DEF d
  <2>2. Extends(d, c, {})
    BY <1>1 DEF Extends, SameInsts, Fields, d
  <2> QED
    BY <1>1, <2>1, <2>2 DEF Extends, SameInsts, d
<1>4. Extends(b, Term_destroy(b, t), {})
  <2> DEFINE g == Give(disconnect(b, t), t)
             c == [g EXCEPT !.links.next[t] = Null, !.links.prev[t] = Null]
  <2>1. Extends(disconnect(b, t), g, {}) /\ DOMAIN g = Fields
    BY <1>1, <1>2
  <2>2. c = Term_destroy(b, t)
    BY DEF Term_destroy
  <2> HIDE DEF g
  <2>3. Extends(g, c, {})
    BY <2>1 DEF Extends, SameInsts, Fields
  <2> QED
    BY <1>1, <2>1, <2>2, <2>3 DEF Extends, SameInsts
<1> QED
  BY <1>1, <1>2, <1>3, <1>4

LEMMA TakeExtends ==
  ASSUME NEW b, Shape(b), Slots(b), NEW tbl \in Tables, NEW k \in Nat, Room(b, tbl, k)
  PROVE  /\ Extends(b, Take(b, tbl, k), Objects(tbl))
         /\ DOMAIN Take(b, tbl, k) = Fields
<1> DEFINE c == Take(b, tbl, k)
           ts == Taken(b, tbl, k)
<1>1. c.live = b.live \cup Elements(ts) /\ ts \in Seq(Objects(tbl)) /\ Shape(c)
      /\ SameInsts(b, c)
  BY TakeInv
<1>2. c.rule = b.rule /\ c.x = b.x /\ c.orient = b.orient
  BY DEF Take, Shape, Fields
<1>3. Elements(ts) \subseteq Objects(tbl)
  BY <1>1 DEF Elements
<1> QED
  BY <1>1, <1>2, <1>3 DEF Extends, Shape

LEMMA CreateExtends ==
  ASSUME NEW b, BlockInv(b), NEW n, NEW name
  PROVE  /\ Room(b, "net", 1) =>
              Extends(b, Net_create(b, name), Objects("net"))
         /\ Room(b, "bterm", 1) =>
              Extends(b, BTerm_create(b, n, name), Objects("bterm"))
<1>1. ASSUME Room(b, "net", 1)
      PROVE  Extends(b, Net_create(b, name), Objects("net"))
  <2> DEFINE d == Take(b, "net", 1)
             c == [d EXCEPT !.name[Head(b.free["net"])] = name]
  <2>1. Extends(b, d, Objects("net")) /\ DOMAIN d = Fields
    BY <1>1, TakeExtends DEF BlockInv, Tables
  <2>2. c = Net_create(b, name)
    BY DEF Net_create
  <2> HIDE DEF d
  <2>3. Extends(b, c, Objects("net"))
    BY <2>1 DEF Extends, SameInsts, Fields
  <2> QED
    BY <2>2, <2>3
<1>2. ASSUME Room(b, "bterm", 1)
      PROVE  Extends(b, BTerm_create(b, n, name), Objects("bterm"))
  <2> DEFINE d == Take(b, "bterm", 1)
             t == Head(b.free["bterm"])
             g == [d EXCEPT !.name[t] = name]
             c == [g EXCEPT !.links = Linked(@, t, n)]
  <2>1. Extends(b, d, Objects("bterm")) /\ DOMAIN d = Fields
    BY <1>2, TakeExtends DEF BlockInv, Tables
  <2>2. c = BTerm_create(b, n, name)
    BY DEF BTerm_create
  <2> HIDE DEF d
  <2>3. Extends(b, g, Objects("bterm")) /\ DOMAIN g = Fields
    BY <2>1 DEF Extends, SameInsts, Fields
  <2> HIDE DEF g
  <2>4. Extends(b, c, Objects("bterm"))
    BY <2>3 DEF Extends, SameInsts, Fields
  <2> QED
    BY <2>2, <2>4
<1> QED
  BY <1>1, <1>2

(***************************************************************************)
(* The end of the two destroy(): a free net has no rule, and a free        *)
(* instance no terminals.                                                  *)
(***************************************************************************)
NetDeleted(b, c, n) ==
  /\ c.live = b.live \ {n} /\ SameInsts(b, c)
  /\ c.rule = [b.rule EXCEPT ![n] = NoRule]
  /\ c.x = b.x /\ c.orient = b.orient /\ c.links = b.links

InstDeleted(b, c, i) ==
  /\ c.live = b.live \ {i} /\ c.rule = b.rule
  /\ c.master = [b.master EXCEPT ![i] = NoMaster]
  /\ c.iterms = [b.iterms EXCEPT ![i] = << >>]
  /\ c.pin = b.pin /\ c.links = b.links
  /\ c.x = [b.x EXCEPT ![i] = 0] /\ c.orient = [b.orient EXCEPT ![i] = "R0"]

LEMMA DeleteFacts ==
  ASSUME NEW b, BlockInv(b), NEW o
  PROVE  NetDeleted(b, Net_delete(b, o), o) /\ InstDeleted(b, Inst_delete(b, o), o)
<1> DEFINE g == Give(b, o)
<1>1. /\ DOMAIN g = Fields /\ g.live = b.live \ {o} /\ SameInsts(b, g)
      /\ g.rule = b.rule /\ g.x = b.x /\ g.orient = b.orient /\ g.links = b.links
  BY DEF BlockInv, Shape, Give, SameInsts, Fields
<1> HIDE DEF g
<1> QED
  BY <1>1 DEF Net_delete, Inst_delete, NetDeleted, InstDeleted, SameInsts, Fields, g

LEMMA DeleteTyped ==
  ASSUME NEW b, BlockInv(b), Typed(b), NEW o
  PROVE  /\ o \in Nets => Typed(Net_delete(b, o))
         /\ o \in Insts => Typed(Inst_delete(b, o))
<1> DEFINE c == Net_delete(b, o)
           d == Inst_delete(b, o)
<1>1. NetDeleted(b, c, o) /\ InstDeleted(b, d, o)
  BY DeleteFacts
<1> HIDE DEF c, d
<1> QED
  BY <1>1 DEF Typed, SameInsts, NetDeleted, InstDeleted, c, d

(***************************************************************************)
(* Different objects of a table are not more than the table has room for.  *)
(***************************************************************************)
LEMMA Crowded ==
  ASSUME NEW tbl \in Tables, NEW k \in Nat, NEW f \in [1 .. k -> Objects(tbl)],
         \A i, j \in 1 .. k : f[i] = f[j] => i = j
  PROVE  k <= Size[tbl]
<1> DEFINE g == [j \in 1 .. k |-> f[j][2]]
           n == Size[tbl]
<1>1. n \in Nat
  BY SizeAssumption
<1>2. \A j \in 1 .. k : f[j] = <<tbl, g[j]>> /\ g[j] \in 1 .. n
  BY DEF Objects
<1>3. g \in [1 .. k -> 1 .. n]
  BY <1>2
<1> HIDE DEF g
<1>4. \A i, j \in 1 .. k : g[i] = g[j] => i = j
  <2>1. \A i, j \in 1 .. k : g[i] = g[j] => f[i] = f[j]
    BY <1>2
  <2> QED
    BY <2>1
<1> HIDE DEF n
<1>5. /\ IsFiniteSet(1 .. k) /\ Cardinality(1 .. k) = k
      /\ IsFiniteSet(1 .. n) /\ Cardinality(1 .. n) = n
  BY <1>1, FS_Interval
<1>6. ASSUME ~ k <= n PROVE FALSE
  <2>1. Cardinality(1 .. n) < Cardinality(1 .. k)
    BY <1>1, <1>5, <1>6
  <2>2. \E x, y \in 1 .. k : x # y /\ g[x] = g[y]
    BY <1>3, <1>5, <2>1, FS_PigeonHole
  <2> QED
    BY <1>4, <2>2
<1> QED
  BY <1>1, <1>6 DEF n

(***************************************************************************)
(* dbInst::create() numbers its terminals, of which there are not more     *)
(* than the table has room for.                                            *)
(***************************************************************************)
InstCreated(b, c, m, i, ts) ==
  /\ c.live = b.live \cup {i} \cup Elements(ts)
  /\ c.rule = b.rule /\ c.x = b.x /\ c.orient = b.orient /\ c.links = b.links
  /\ c.master = [b.master EXCEPT ![i] = m]
  /\ c.iterms = [b.iterms EXCEPT ![i] = ts]
  /\ \A t \in ITerms : c.pin[t] = b.pin[t] \/ c.pin[t] \in 1 .. Size["iterm"]

LEMMA InstCreateFacts ==
  ASSUME NEW b, BlockInv(b), NEW m \in Masters, NEW name,
         Room(b, "inst", 1), Room(b, "iterm", Len(MTerms[m]))
  PROVE  \E i \in Insts \ b.live, ts \in Seq(ITerms \ b.live) :
           InstCreated(b, Inst_create(b, m, name), m, i, ts)
<1> DEFINE i == Head(b.free["inst"])
           k == Len(MTerms[m])
           ts == Taken(b, "iterm", k)
           pin(t) == CHOOSE j \in 1 .. k : ts[j] = t
           d == Take(b, "inst", 1)
           e == Take(d, "iterm", k)
           c == Inst_create(b, m, name)
<1>1. k \in Nat
  BY MTermsAssumption
<1>2. /\ BlockInv(d) /\ d.free["iterm"] = b.free["iterm"]
      /\ Extends(b, d, Objects("inst")) /\ DOMAIN d = Fields
      /\ i \in Insts /\ i \notin b.live
      /\ d.live = b.live \cup {i} /\ d.links = b.links
  BY TakeOne, TakeExtends DEF Tables, BlockInv, Insts
<1> HIDE DEF k, d
<1>3. ts = Taken(d, "iterm", k) /\ Room(d, "iterm", k)
  BY <1>2 DEF Taken, Room, k
<1>4. Shape(d) /\ Slots(d) /\ "iterm" \in Tables
  BY <1>2 DEF BlockInv, Tables
<1>5. Extends(d, e, Objects("iterm")) /\ DOMAIN e = Fields
  BY <1>1, <1>3, <1>4, TakeExtends
<1> HIDE DEF ts
<1>6. /\ ts \in Seq(Objects("iterm")) /\ Len(ts) = k /\ DOMAIN ts = 1 .. k
      /\ \A h, j \in 1 .. k : ts[h] = ts[j] => h = j
      /\ \A j \in 1 .. k : ts[j] \notin d.live
      /\ e.live = d.live \cup Elements(ts) /\ e.links = d.links
  BY <1>1, <1>3, <1>4, TakeInv
<1>7. k <= Size["iterm"]
  <2>1. ts \in [1 .. k -> Objects("iterm")]
    BY <1>6, LenProperties
  <2> QED
    BY <1>1, <1>4, <1>6, <2>1, Crowded
<1> HIDE DEF e
<1>8. /\ c.live = e.live /\ c.rule = e.rule /\ c.x = e.x /\ c.orient = e.orient
      /\ c.links = e.links
      /\ c.master = [e.master EXCEPT ![i] = m]
      /\ c.iterms = [e.iterms EXCEPT ![i] = ts]
      /\ c.pin = [t \in ITerms |-> IF t \in Elements(ts) THEN pin(t) ELSE e.pin[t]]
  BY <1>5 DEF Inst_create, WithBBox, Fields, d, e, ts, k
<1>9. \A t \in Elements(ts) : pin(t) \in 1 .. k
  BY <1>6 DEF Elements
<1> HIDE DEF c, pin, i
<1>10. ASSUME NEW t \in ITerms
       PROVE  c.pin[t] = b.pin[t] \/ c.pin[t] \in 1 .. Size["iterm"]
  <2>1. Size["iterm"] \in Nat
    BY SizeAssumption DEF Tables
  <2>2. t \in Elements(ts) => c.pin[t] \in 1 .. k
    BY <1>8, <1>9
  <2>3. t \notin Elements(ts) => c.pin[t] = b.pin[t]
    BY <1>2, <1>5, <1>8 DEF Extends, SameInsts
  <2> QED
    BY <1>1, <1>7, <2>1, <2>2, <2>3
<1>11. /\ c.rule = b.rule /\ c.x = b.x /\ c.orient = b.orient /\ c.links = b.links
       /\ c.live = b.live \cup {i} \cup Elements(ts)
       /\ c.master = [b.master EXCEPT ![i] = m]
       /\ c.iterms = [b.iterms EXCEPT ![i] = ts]
  BY <1>2, <1>5, <1>6, <1>8 DEF Extends, SameInsts
<1>12. ts \in Seq(ITerms \ b.live)
  <2>1. ts \in [1 .. k -> ITerms \ b.live]
    BY <1>2, <1>6, LenProperties DEF ITerms
  <2> QED
    BY <1>1, <1>6, <2>1
<1>13. InstCreated(b, c, m, i, ts)
  BY <1>10, <1>11 DEF InstCreated
<1> QED
  BY <1>2, <1>12, <1>13 DEF c

(***************************************************************************)
(* What swapMaster() changes: a terminal of the instance gets the index of *)
(* the mterm with the name of its old one.                                 *)
(***************************************************************************)
Swapped(b, c, i, m) ==
  /\ c.live = b.live /\ c.rule = b.rule /\ c.links = b.links
  /\ c.x = b.x /\ c.orient = b.orient
  /\ c.master = [b.master EXCEPT ![i] = m]
  /\ \A j \in Insts : Elements(c.iterms[j]) = Elements(b.iterms[j])
  /\ \A j \in Insts \ {i} : c.iterms[j] = b.iterms[j]
  /\ \A t \in ITerms \ Elements(b.iterms[i]) : c.pin[t] = b.pin[t]
  /\ \A t \in Elements(b.iterms[i]) :
       /\ t \in ITerms /\ b.pin[t] \in DOMAIN b.iterms[i]
       /\ \E u \in ITerms : b.pin[u] = c.pin[t]
       /\ MTerms[m][c.pin[t]] = MTerms[b.master[i]][b.pin[t]]

LEMMA SwapMasterFacts ==
  ASSUME NEW b, BlockInv(b), PinsInv(b, Idle), NEW i \in Insts, i \in b.live,
         NEW m \in Masters, Equivalent(m, b.master[i])
  PROVE  Swapped(b, swapMaster(b, i, m), i, m)
<1> DEFINE old == b.iterms[i]
           o == b.master[i]
           to(j) == CHOOSE k \in DOMAIN MTerms[m] : MTerms[m][k] = MTerms[o][j]
           new == [k \in DOMAIN old |->
                     CHOOSE t \in Elements(old) : to(b.pin[t]) = k]
           c == swapMaster(b, i, m)
<1>1. /\ c.live = b.live /\ c.rule = b.rule /\ c.links = b.links
      /\ c.x = b.x /\ c.orient = b.orient
      /\ c.master = [b.master EXCEPT ![i] = m]
      /\ c.iterms = [b.iterms EXCEPT ![i] = new]
      /\ c.pin = [t \in ITerms |->
                    IF t \in Elements(old) THEN to(b.pin[t]) ELSE b.pin[t]]
  BY DEF swapMaster, WithBBox, BlockInv, Shape, Fields
<1>2. /\ o \in Masters /\ old \in Seq(ITerms) /\ Len(old) = Len(MTerms[o])
      /\ \A k \in DOMAIN old : b.pin[old[k]] = k /\ old[k] \in ITerms
  <2>1. old \in Seq(ITerms)
    BY DEF BlockInv, Shape
  <2> QED
    BY <2>1 DEF PinsInv, PinsLeft
<1>3. /\ MTerms[m] \in Seq(STRING) /\ MTerms[o] \in Seq(STRING)
      /\ Len(MTerms[m]) = Len(old)
  BY <1>2, MTermsAssumption DEF Equivalent
<1>4. ASSUME NEW j \in DOMAIN old
      PROVE  to(j) \in DOMAIN old /\ MTerms[m][to(j)] = MTerms[o][j]
  <2>1. DOMAIN MTerms[m] = DOMAIN old /\ DOMAIN MTerms[o] = DOMAIN old
    BY <1>2, <1>3
  <2>2. MTerms[o][j] \in Elements(MTerms[m])
    BY <2>1 DEF Equivalent, Elements
  <2>3. \E k \in DOMAIN MTerms[m] : MTerms[m][k] = MTerms[o][j]
    BY <2>2 DEF Elements
  <2> QED
    BY <2>1, <2>3
<1>5. \A t \in Elements(old) : /\ t \in ITerms /\ b.pin[t] \in DOMAIN old
                              /\ old[b.pin[t]] = t
  BY <1>2 DEF Elements
<1> HIDE DEF to, c
<1>6. \A j, k \in DOMAIN old : to(j) = to(k) => j = k
  <2>1. DOMAIN MTerms[o] = DOMAIN old
    BY <1>2, <1>3
  <2>2. \A j, k \in DOMAIN old : MTerms[o][j] = MTerms[o][k] => j = k
    BY <1>2, <2>1, MTermsAssumption
  <2> QED
    BY <1>4, <2>2
<1>7. \A k \in DOMAIN old : \E t \in Elements(old) : to(b.pin[t]) = k
  <2> SUFFICES ASSUME NEW k \in DOMAIN old
               PROVE  \E t \in Elements(old) : to(b.pin[t]) = k
    OBVIOUS
  <2>1. DOMAIN MTerms[m] = DOMAIN old /\ DOMAIN MTerms[o] = DOMAIN old
    BY <1>2, <1>3
  <2>2. MTerms[m][k] \in Elements(MTerms[o])
    BY <2>1 DEF Equivalent, Elements
  <2>3. PICK j \in DOMAIN old : MTerms[o][j] = MTerms[m][k]
    BY <2>1, <2>2 DEF Elements
  <2>4. \A h, l \in DOMAIN old : MTerms[m][h] = MTerms[m][l] => h = l
    BY <2>1, MTermsAssumption
  <2>5. to(j) = k
    BY <1>4, <2>3, <2>4
  <2> QED
    BY <1>2, <2>5 DEF Elements
<1>8. \A k \in DOMAIN old : new[k] \in Elements(old) /\ to(b.pin[new[k]]) = k
  BY <1>7
<1>9. Elements(new) = Elements(old)
  <2>1. DOMAIN new = DOMAIN old
    OBVIOUS
  <2> HIDE DEF new
  <2>2. \A k \in DOMAIN new : new[k] \in Elements(old)
    BY <1>8, <2>1
  <2>3. \A t \in Elements(old) : \E k \in DOMAIN new : new[k] = t
    <3> SUFFICES ASSUME NEW t \in Elements(old)
                 PROVE  \E k \in DOMAIN new : new[k] = t
      OBVIOUS
    <3> DEFINE k == to(b.pin[t])
    <3>1. k \in DOMAIN old
      BY <1>4, <1>5
    <3>2. new[k] \in Elements(old) /\ to(b.pin[new[k]]) = to(b.pin[t])
      BY <1>8, <3>1
    <3>3. b.pin[new[k]] = b.pin[t]
      BY <1>5, <1>6, <3>2
    <3> QED
      BY <1>5, <2>1, <3>1, <3>2, <3>3
  <2> QED
    BY <2>2, <2>3 DEF Elements
<1>10. /\ \A j \in Insts : Elements(c.iterms[j]) = Elements(b.iterms[j])
       /\ \A j \in Insts \ {i} : c.iterms[j] = b.iterms[j]
  <2>1. DOMAIN b.iterms = Insts
    BY DEF BlockInv, Shape
  <2> QED
    BY <1>1, <1>9, <2>1
<1>11. ASSUME NEW t \in Elements(old)
      PROVE  /\ \E u \in ITerms : b.pin[u] = c.pin[t]
             /\ MTerms[m][c.pin[t]] = MTerms[o][b.pin[t]]
  <2>1. c.pin[t] = to(b.pin[t])
    BY <1>1, <1>5
  <2> QED
    BY <1>2, <1>4, <1>5, <2>1
<1>12. \A t \in ITerms \ Elements(old) : c.pin[t] = b.pin[t]
  BY <1>1
<1> QED
  BY <1>1, <1>5, <1>10, <1>11, <1>12 DEF c, Swapped

LEMMA SwapMasterTyped ==
  ASSUME NEW b, BlockInv(b), PinsInv(b, Idle), Typed(b),
         NEW i \in Insts, i \in b.live, NEW m \in Masters
  PROVE  Typed(swapMaster(b, i, m))
<1>1. CASE ~ Equivalent(m, b.master[i])
  BY <1>1 DEF swapMaster
<1>2. CASE Equivalent(m, b.master[i])
  <2> DEFINE c == swapMaster(b, i, m)
  <2>1. Swapped(b, c, i, m)
    BY <1>2, SwapMasterFacts
  <2> HIDE DEF c
  <2>2. \A t \in ITerms : \E u \in ITerms : b.pin[u] = c.pin[t]
    BY <2>1 DEF Swapped
  <2>3. \A t \in ITerms : c.pin[t] <= Size["iterm"]
    BY <2>2 DEF Typed
  <2> QED
    BY <2>1, <2>3 DEF Swapped, Typed, c
<1> QED
  BY <1>1, <1>2

(***************************************************************************)
(* The loops of the two destroy() are at a live terminal.                  *)
(***************************************************************************)
LEMMA CallTerms ==
  ASSUME IInv
  PROVE  /\ DestroyNet_iterm \/ DestroyNet_bterm => call.itr \in Live(Terms)
         /\ DestroyInst_iterm => /\ call.obj \in Live(Insts)
                                /\ call.k \in DOMAIN block.iterms[call.obj]
                                /\ block.iterms[call.obj][call.k] \in Live(ITerms)
<1>0. BlockInv(block) /\ PinsInv(block, call) /\ CallInv(block, call)
  BY DEF IInv
<1>1. ASSUME DestroyNet_iterm \/ DestroyNet_bterm PROVE call.itr \in Live(Terms)
  <2> DEFINE s == <<call.obj, call.tbl>>
             t == call.itr
  <2>1. NetCallInv(block, call) /\ t # Null
    BY <1>0, <1>1, CallKinds DEF DestroyNet_iterm, DestroyNet_bterm
  <2>2. t \in Terms /\ s \in Lists /\ block.links.head[s] = t
    BY <2>1 DEF NetCallInv, NetCall, Lists
  <2> HIDE DEF s, t
  <2>3. /\ t \in block.live /\ block.links.net[t] = s[1] /\ t[1] = s[2]
        /\ Beheaded(block.links, t)
             = [block.links.head EXCEPT ![s] = block.links.next[t]]
        /\ block.links.next[t] \in Terms \cup {Null}
    BY <1>0, <2>2, HeadFacts
  <2> QED
    BY <2>2, <2>3 DEF Live, t
<1>2. ASSUME DestroyInst_iterm
      PROVE  /\ call.obj \in Live(Insts)
             /\ call.k \in DOMAIN block.iterms[call.obj]
             /\ block.iterms[call.obj][call.k] \in Live(ITerms)
  <2>1. /\ call.obj \in Insts /\ call.obj \in block.live /\ call.k \in Nat \ {0}
        /\ call.k <= Len(block.iterms[call.obj])
    BY <1>0, <1>2, CallKinds DEF DestroyInst_iterm, InstCallInv, InstCall
  <2>2. block.iterms[call.obj] \in Seq(ITerms)
    BY <1>0, <2>1 DEF BlockInv, Shape
  <2>3. call.k \in DOMAIN block.iterms[call.obj]
    BY <2>1, <2>2
  <2>4. block.iterms[call.obj][call.k] \in block.live
    BY <1>0, <2>1, <2>3 DEF PinsInv, PinsLeft, Destroyed
  <2> QED
    BY <2>1, <2>2, <2>3, <2>4 DEF Live
<1> QED
  BY <1>1, <1>2

LEMMA NextTyped == IInv /\ Typed(block) /\ [Next]_vars => Typed(block')
<1> SUFFICES ASSUME IInv, Typed(block), [Next]_vars PROVE Typed(block')
  OBVIOUS
<1>0. /\ BlockInv(block) /\ PinsInv(block, call) /\ CallInv(block, call)
      /\ DOMAIN block = Fields /\ DOMAIN block.free = Tables
  BY DEF IInv, BlockInv, Shape
<1>a. ASSUME NEW t \in Terms, NEW n, block' \in {connect(block, t, n),
                                                disconnect(block, t),
                                                Term_destroy(block, t)}
      PROVE  Typed(block')
  <2>1. Extends(block, block', {})
    BY <1>0, <1>a, TermCallsExtend
  <2> QED
    BY <2>1, ExtendsTyped
<1>1. ASSUME NEW name, NEW skip, CreateNet(name, skip) PROVE Typed(block')
  BY <1>0, <1>1, CreateExtends, ObjectsTyped, ExtendsTyped
  DEF CreateNet, Returns, Tables
<1>2. ASSUME NEW n, NEW name, CreateBTerm(n, name) PROVE Typed(block')
  BY <1>0, <1>2, CreateExtends, ObjectsTyped, ExtendsTyped
  DEF CreateBTerm, Returns, Tables
<1>3. ASSUME NEW n, NEW t \in Terms, Connect(t, n) PROVE Typed(block')
  BY <1>a, <1>3 DEF Connect, Returns
<1>4. ASSUME NEW m \in Masters, NEW name, CreateInst(m, name) PROVE Typed(block')
  <2>1. PICK i \in Insts \ block.live, ts \in Seq(ITerms \ block.live) :
          InstCreated(block, block', m, i, ts)
    BY <1>0, <1>4, InstCreateFacts DEF CreateInst, Returns
  <2>2. Size["iterm"] \in Nat
    BY SizeAssumption DEF Tables
  <2>3. Elements(ts) \subseteq ITerms
    BY <2>1 DEF Elements
  <2> QED
    BY <2>1, <2>2, <2>3 DEF InstCreated, Typed, Terms
<1>5. ASSUME NEW m \in Masters, NEW i \in Live(Insts), SwapMaster(i, m)
      PROVE  Typed(block')
  BY <1>0, <1>5, SwapMasterTyped DEF SwapMaster, Returns, Live
<1>6. ASSUME NEW t \in Terms, Disconnect(t) \/ DestroyBTerm(t) PROVE Typed(block')
  BY <1>a, <1>6 DEF Disconnect, DestroyBTerm, Returns
<1>7. CASE DestroyNet_iterm \/ DestroyNet_bterm
  BY <1>a, <1>7, CallTerms DEF DestroyNet_iterm, DestroyNet_bterm, Live
<1>8. CASE DestroyNet_end
  <2>1. call.obj \in Nets
    BY <1>0, <1>8, CallKinds DEF DestroyNet_end, NetCallInv, NetCall
  <2> QED
    BY <1>0, <1>8, <2>1, DeleteTyped DEF DestroyNet_end
<1>9. CASE DestroyInst_iterm
  BY <1>a, <1>9, CallTerms, ITermFacts DEF DestroyInst_iterm, Live
<1>10. CASE DestroyInst_end
  <2>1. call.obj \in Insts
    BY <1>0, <1>10, CallKinds DEF DestroyInst_end, InstCallInv, InstCall
  <2> QED
    BY <1>0, <1>10, <2>1, DeleteTyped DEF DestroyInst_end
<1>11. CASE \/ \E n \in Nets : DestroyNet(n)
            \/ \E i \in Insts : DestroyInst(i)
            \/ DestroyNet_bterms \/ UNCHANGED vars
  BY <1>11 DEF DestroyNet, DestroyInst, DestroyNet_bterms, vars
<1> QED
  BY <1>1, <1>2, <1>3, <1>4, <1>5, <1>6, <1>7, <1>8, <1>9, <1>10, <1>11
  DEF Next, Destroying, Live, Terms

(***************************************************************************)
(* What the invariants say about a block is its type.                      *)
(***************************************************************************)
LEMMA TypedBlock == ASSUME NEW b, BlockInv(b), Typed(b) PROVE BlockType(b)
<1>1. \A t \in ITerms : b.pin[t] \in Nat /\ b.pin[t] <= Size["iterm"]
  BY DEF BlockInv, Shape, Typed
<1>2. Size["iterm"] \in Nat
  BY SizeAssumption DEF Tables
<1>3. \A t \in ITerms : b.pin[t] \in 0 .. Size["iterm"]
  BY <1>1, <1>2
<1> QED
  BY <1>3 DEF BlockType, BlockInv, Shape, LinksInv, Typed

(***************************************************************************)
(* Every field of the block and the destroy() that runs keep their types,  *)
(* for tables of every size: no pin has an index beyond the terminals.     *)
(***************************************************************************)
THEOREM NetlistTypes == Spec => []TypeOK
<1>1. Init => IInv /\ Typed(block)
  <2>1. Init => Typed(Empty) /\ block = Empty
    <3>1. Size["iterm"] \in Nat
      BY SizeAssumption DEF Tables
    <3> QED
      BY <3>1 DEF Init, Empty, Typed
  <2> QED
    BY <2>1, InitInv
<1>2. (IInv /\ Typed(block)) /\ [Next]_vars => (IInv /\ Typed(block))'
  BY NextInv, NextTyped
<1>3. IInv /\ Typed(block) => TypeOK
  <2> SUFFICES ASSUME IInv, Typed(block) PROVE TypeOK
    OBVIOUS
  <2>1. BlockType(block)
    BY TypedBlock DEF IInv
  <2>2. CallType
    BY DEF IInv, CallInv, NetCallInv, InstCallInv, NetCall, InstCall, CallType
  <2> QED
    BY <2>1, <2>2 DEF TypeOK
<1> QED
  BY <1>1, <1>2, <1>3, PTL DEF Spec

(***************************************************************************)
(* swapMaster() keeps what is connected to the pins of an instance, by     *)
(* their names, and no other call changes the master of an instance.       *)
(***************************************************************************)
THEOREM NetlistSwapKeepsPins == Spec => SwapKeepsPins
<1>1. IInv /\ [Next]_vars => [SwapStep]_vars
  <2> SUFFICES ASSUME IInv, [Next]_vars PROVE SwapStep
    OBVIOUS
  <2>0. /\ BlockInv(block) /\ PinsInv(block, call) /\ CallInv(block, call)
        /\ DOMAIN block = Fields /\ DOMAIN block.free = Tables
        /\ block.master \in [Insts -> Masters \cup {NoMaster}]
    BY DEF IInv, BlockInv, Shape
  <2>a. ASSUME \A i \in Insts : i \in block.live /\ i \in block'.live =>
                 block'.master[i] = block.master[i]
        PROVE  SwapStep
    BY <2>a DEF SwapStep, Live
  <2>b. ASSUME NEW S, Extends(block, block', S) PROVE SwapStep
    BY <2>a, <2>b DEF Extends, SameInsts
  <2>1. ASSUME NEW t \in Terms, NEW n, block' \in {connect(block, t, n),
                                                  disconnect(block, t),
                                                  Term_destroy(block, t)}
        PROVE  SwapStep
    BY <2>0, <2>1, <2>b, TermCallsExtend
  <2>2. ASSUME NEW name, NEW skip, CreateNet(name, skip) PROVE SwapStep
    BY <2>0, <2>2, <2>b, CreateExtends DEF CreateNet, Returns
  <2>3. ASSUME NEW n, NEW name, CreateBTerm(n, name) PROVE SwapStep
    BY <2>0, <2>3, <2>b, CreateExtends DEF CreateBTerm, Returns
  <2>4. ASSUME NEW m \in Masters, NEW name, CreateInst(m, name) PROVE SwapStep
    <3>1. PICK i \in Insts \ block.live, ts \in Seq(ITerms \ block.live) :
            InstCreated(block, block', m, i, ts)
      BY <2>0, <2>4, InstCreateFacts DEF CreateInst, Returns
    <3> QED
      BY <2>0, <2>a, <3>1 DEF InstCreated
  <2>5. ASSUME NEW m \in Masters, NEW i \in Live(Insts), SwapMaster(i, m)
        PROVE  SwapStep
    <3>1. call = Idle /\ block' = swapMaster(block, i, m) /\ i \in Insts /\ i \in block.live
      BY <2>5 DEF SwapMaster, Returns, Live
    <3>2. CASE ~ Equivalent(m, block.master[i])
      BY <2>a, <3>1, <3>2 DEF swapMaster
    <3>3. CASE Equivalent(m, block.master[i])
      <4>1. Swapped(block, block', i, m)
        BY <2>0, <3>1, <3>3, SwapMasterFacts
      <4> QED
        BY <2>0, <4>1 DEF Swapped, SwapStep, Live, PinName
    <3> QED
      BY <3>2, <3>3
  <2>6. ASSUME NEW t \in Terms, Disconnect(t) \/ DestroyBTerm(t) PROVE SwapStep
    BY <2>1, <2>6 DEF Disconnect, DestroyBTerm, Returns
  <2>7. ASSUME NEW t \in Terms, NEW n, Connect(t, n) PROVE SwapStep
    BY <2>1, <2>7 DEF Connect, Returns
  <2>8. CASE DestroyNet_iterm \/ DestroyNet_bterm
    BY <2>1, <2>8, CallTerms DEF DestroyNet_iterm, DestroyNet_bterm, Live
  <2>9. CASE DestroyInst_iterm
    BY <2>1, <2>9, CallTerms, ITermFacts DEF DestroyInst_iterm, Live
  <2>10. CASE DestroyNet_end \/ DestroyInst_end
    <3> DEFINE o == call.obj
    <3>1. block' = Net_delete(block, o) \/ block' = Inst_delete(block, o)
      BY <2>10 DEF DestroyNet_end, DestroyInst_end
    <3> HIDE DEF o
    <3>2. NetDeleted(block, block', o) \/ InstDeleted(block, block', o)
      BY <2>0, <3>1, DeleteFacts
    <3> QED
      BY <2>0, <2>a, <3>2 DEF NetDeleted, InstDeleted, SameInsts
  <2>11. CASE \/ \E n \in Nets : DestroyNet(n)
              \/ \E i \in Insts : DestroyInst(i)
              \/ DestroyNet_bterms \/ UNCHANGED vars
    BY <2>11, <2>a DEF DestroyNet, DestroyInst, DestroyNet_bterms, vars
  <2> QED
    BY <2>2, <2>3, <2>4, <2>5, <2>6, <2>7, <2>8, <2>9, <2>10, <2>11
    DEF Next, Destroying, Live, Terms
<1> QED
  BY <1>1, Invariant, PTL DEF Spec, SwapKeepsPins
-----------------------------------------------------------------------------
(* Owners. *)

\* A free instance has no terminals, and every live one of an instance has an
\* instance that it belongs to; a destroy() has destroyed what it has passed.
Owned(b, cl) ==
  /\ \A i \in Insts \ b.live : b.iterms[i] = << >>
  /\ \A t \in ITerms \cap b.live : \E i \in Insts : t \in Elements(b.iterms[i])
  /\ cl.fn = "Inst_destroy" =>
       \A k \in DOMAIN b.iterms[cl.obj] : k < cl.k => b.iterms[cl.obj][k] \notin b.live

LEMMA OwnedOfCalls ==
  ASSUME NEW b, NEW cl, NEW dl, Owned(b, cl), dl.fn # "Inst_destroy"
  PROVE  Owned(b, dl)
  BY DEF Owned

LEMMA OwnedExtends ==
  ASSUME NEW b, NEW c, NEW cl, Owned(b, cl), cl.fn # "Inst_destroy",
         NEW S, Extends(b, c, S), S \cap (Insts \cup ITerms) = {}
  PROVE  Owned(c, cl)
<1>1. Insts \ c.live \subseteq Insts \ b.live /\ ITerms \cap c.live \subseteq b.live
  BY InstFacts DEF Extends
<1> QED
  BY <1>1 DEF Owned, Extends, SameInsts

LEMMA NextOwned == IInv /\ Owned(block, call) /\ [Next]_vars => Owned(block', call')
<1> SUFFICES ASSUME IInv, Owned(block, call), [Next]_vars PROVE Owned(block', call')
  OBVIOUS
<1>0. /\ BlockInv(block) /\ PinsInv(block, call) /\ CallInv(block, call)
      /\ DOMAIN block = Fields /\ DOMAIN block.free = Tables
      /\ block.iterms \in [Insts -> Seq(ITerms)]
  BY DEF IInv, BlockInv, Shape
<1>a. ASSUME NEW S, Extends(block, block', S), S \cap (Insts \cup ITerms) = {},
             call.fn # "Inst_destroy", call'.fn # "Inst_destroy"
      PROVE  Owned(block', call')
  BY <1>a, OwnedExtends, OwnedOfCalls
<1>b. ASSUME NEW t \in Terms, NEW n,
             block' \in {connect(block, t, n), disconnect(block, t),
                        Term_destroy(block, t)},
             call.fn # "Inst_destroy", call'.fn # "Inst_destroy"
      PROVE  Owned(block', call')
  <2>1. Extends(block, block', {})
    BY <1>0, <1>b, TermCallsExtend
  <2> QED
    BY <1>a, <1>b, <2>1
<1>1. ASSUME NEW name, NEW skip, CreateNet(name, skip) PROVE Owned(block', call')
  <2>1. Extends(block, block', Objects("net")) /\ call = Idle /\ call' = Idle
    BY <1>0, <1>1, CreateExtends DEF CreateNet, Returns
  <2>2. Objects("net") \cap (Insts \cup ITerms) = {}
    BY NetFacts, InstFacts, ITermFacts DEF Nets
  <2> QED
    BY <1>a, <2>1, <2>2 DEF Idle
<1>2. ASSUME NEW n, NEW name, CreateBTerm(n, name) PROVE Owned(block', call')
  <2>1. Extends(block, block', Objects("bterm")) /\ call = Idle /\ call' = Idle
    BY <1>0, <1>2, CreateExtends DEF CreateBTerm, Returns
  <2>2. Objects("bterm") \cap (Insts \cup ITerms) = {}
    BY BTermFacts, InstFacts, ITermFacts DEF BTerms
  <2> QED
    BY <1>a, <2>1, <2>2 DEF Idle
<1>3. ASSUME NEW n, NEW t \in Terms, Connect(t, n) \/ Disconnect(t) \/ DestroyBTerm(t)
      PROVE  Owned(block', call')
  BY <1>b, <1>3 DEF Connect, Disconnect, DestroyBTerm, Returns, Idle
<1>4. ASSUME NEW m \in Masters, NEW name, CreateInst(m, name)
      PROVE  Owned(block', call')
  <2>1. PICK i \in Insts \ block.live, ts \in Seq(ITerms \ block.live) :
          InstCreated(block, block', m, i, ts)
    BY <1>0, <1>4, InstCreateFacts DEF CreateInst, Returns
  <2>2. call'.fn # "Inst_destroy"
    BY <1>4 DEF CreateInst, Returns, Idle
  <2>3. block.iterms[i] = << >> /\ Elements(<< >>) = {}
    BY DEF Owned, Elements
  <2>4. ASSUME NEW t \in ITerms \cap block'.live
        PROVE  \E j \in Insts : t \in Elements(block'.iterms[j])
    <3>1. t # i
      BY ITermFacts, InstFacts
    <3>2. CASE t \in Elements(ts)
      BY <1>0, <2>1, <3>2 DEF InstCreated
    <3>3. CASE t \in block.live
      <4>1. PICK j \in Insts : t \in Elements(block.iterms[j])
        BY <3>3 DEF Owned
      <4> QED
        BY <1>0, <2>1, <2>3, <4>1 DEF InstCreated
    <3> QED
      BY <2>1, <3>1, <3>2, <3>3 DEF InstCreated
  <2>5. \A j \in Insts \ block'.live : block'.iterms[j] = << >>
    BY <1>0, <2>1 DEF InstCreated, Owned
  <2> QED
    BY <2>2, <2>4, <2>5 DEF Owned
<1>5. ASSUME NEW m \in Masters, NEW i \in Live(Insts), SwapMaster(i, m)
      PROVE  Owned(block', call')
  <2>1. /\ call = Idle /\ call' = Idle /\ block' = swapMaster(block, i, m)
        /\ i \in Insts /\ i \in block.live
    BY <1>5 DEF SwapMaster, Returns, Live
  <2>2. CASE ~ Equivalent(m, block.master[i])
    BY <2>1, <2>2 DEF swapMaster
  <2>3. CASE Equivalent(m, block.master[i])
    <3>1. Swapped(block, block', i, m)
      BY <1>0, <2>1, <2>3, SwapMasterFacts
    <3> QED
      BY <2>1, <3>1 DEF Swapped, Owned, Idle
  <2> QED
    BY <2>2, <2>3
<1>6. CASE DestroyNet_iterm \/ DestroyNet_bterm
  <2>1. call.itr \in Terms
    BY <1>6, CallTerms DEF Live
  <2>2. call.fn # "Inst_destroy" /\ call' = [call EXCEPT !.itr = block.links.next[@]]
    BY <1>6 DEF DestroyNet_iterm, DestroyNet_bterm
  <2>3. call'.fn # "Inst_destroy"
    BY <1>0, <1>6, <2>2, CallKinds
    DEF DestroyNet_iterm, DestroyNet_bterm, NetCallInv, NetCall
  <2> QED
    BY <1>b, <1>6, <2>1, <2>2, <2>3 DEF DestroyNet_iterm, DestroyNet_bterm
<1>7. CASE DestroyNet_end
  <2> DEFINE o == call.obj
  <2>1. o \in Nets /\ block' = Net_delete(block, o) /\ call' = Idle
    BY <1>0, <1>7, CallKinds DEF DestroyNet_end, NetCallInv, NetCall
  <2> HIDE DEF o
  <2>2. NetDeleted(block, block', o)
    BY <1>0, <2>1, DeleteFacts
  <2>3. o \notin Insts
    BY <2>1, InstFacts
  <2> QED
    BY <2>1, <2>2, <2>3 DEF NetDeleted, SameInsts, Owned, Idle
<1>8. CASE DestroyInst_iterm
  <2> DEFINE i == call.obj
             k == call.k
             t == block.iterms[i][k]
  <2>1. /\ i \in Insts /\ t \in ITerms /\ t \in block.live /\ t \in Terms
        /\ k \in DOMAIN block.iterms[i]
    BY <1>8, CallTerms, ITermFacts DEF Live
  <2>2. call' = [call EXCEPT !.k = k + 1] /\ block' = Term_destroy(block, t)
    BY <1>8 DEF DestroyInst_iterm
  <2>3. call'.fn = "Inst_destroy" /\ call'.obj = i /\ call'.k = k + 1 /\ k \in Nat
    BY <1>0, <1>8, <2>2, CallKinds DEF DestroyInst_iterm, InstCallInv, InstCall
  <2>4. \A h \in DOMAIN block.iterms[i] : h < k => block.iterms[i][h] \notin block.live
    BY <1>8 DEF DestroyInst_iterm, Owned
  <2>5. t = block.iterms[i][k] /\ block.iterms[i] \in Seq(ITerms)
    BY <1>0, <2>1
  <2> HIDE DEF i, k, t
  <2>6. /\ BlockInv(block') /\ SameInsts(block, block')
        /\ block'.live = block.live \ {t}
    BY <1>0, <2>1, <2>2, TermDestroyInv DEF BlockInv
  <2>7. ASSUME NEW h \in DOMAIN block.iterms[i], h < k + 1
        PROVE  block.iterms[i][h] \notin block'.live
    <3>1. h \in Nat
      BY <2>5
    <3>2. h < k \/ h = k
      BY <2>3, <2>7, <3>1
    <3> QED
      BY <2>4, <2>5, <2>6, <3>2
  <2>8. Insts \ block'.live = Insts \ block.live
    BY <2>1, <2>6, InstFacts
  <2> QED
    BY <2>3, <2>6, <2>7, <2>8 DEF Owned, SameInsts
<1>9. CASE DestroyInst_end
  <2> DEFINE o == call.obj
             s == block.iterms[o]
  <2>1. /\ o \in Insts /\ block' = Inst_delete(block, o) /\ call' = Idle
        /\ call.k \in Nat /\ call.k > Len(s)
        /\ \A k \in DOMAIN s : k < call.k => s[k] \notin block.live
    BY <1>0, <1>9, CallKinds DEF DestroyInst_end, InstCallInv, InstCall, Owned
  <2>2. s \in Seq(ITerms)
    BY <1>0, <2>1
  <2>3. \A k \in DOMAIN s : s[k] \notin block.live
    BY <2>1, <2>2
  <2>4. \A t \in Elements(s) : t \notin block.live
    BY <2>3 DEF Elements
  <2> HIDE DEF o
  <2>5. InstDeleted(block, block', o)
    BY <1>0, <2>1, DeleteFacts
  <2>6. \A j \in Insts \ block'.live : block'.iterms[j] = << >>
    BY <1>0, <2>1, <2>5 DEF InstDeleted, Owned
  <2>7. ASSUME NEW t \in ITerms \cap block'.live
        PROVE  \E i \in Insts : t \in Elements(block'.iterms[i])
    <3>1. PICK i \in Insts : t \in Elements(block.iterms[i])
      BY <2>5 DEF InstDeleted, Owned
    <3>2. i # o
      BY <2>4, <2>5, <3>1 DEF InstDeleted
    <3> QED
      BY <1>0, <2>5, <3>1, <3>2 DEF InstDeleted
  <2> QED
    BY <2>1, <2>6, <2>7 DEF Owned, Idle
<1>10. ASSUME NEW i \in Insts, DestroyInst(i) PROVE Owned(block', call')
  <2>1. /\ call'.obj = i /\ call'.k = 1 /\ block' = block
    BY <1>10 DEF DestroyInst
  <2>2. block.iterms[i] \in Seq(ITerms)
    BY <1>0
  <2>3. \A k \in DOMAIN block.iterms[i] : ~ k < 1
    BY <2>2
  <2> QED
    BY <2>1, <2>3 DEF Owned
<1>11. CASE (\E n \in Nets : DestroyNet(n)) \/ DestroyNet_bterms
  <2>1. call'.fn # "Inst_destroy" /\ block' = block
    <3>1. CASE \E n \in Nets : DestroyNet(n)
      BY <3>1 DEF DestroyNet
    <3>2. CASE DestroyNet_bterms
      BY <1>0, <3>2, CallKinds DEF DestroyNet_bterms, NetCallInv, NetCall
    <3> QED
      BY <1>11, <3>1, <3>2
  <2> QED
    BY <2>1, OwnedOfCalls
<1>12. CASE UNCHANGED vars
  BY <1>12 DEF vars
<1> QED
  BY <1>1, <1>2, <1>3, <1>4, <1>5, <1>6, <1>7, <1>8, <1>9, <1>10, <1>11, <1>12
  DEF Next, Destroying, Live, Terms

-----------------------------------------------------------------------------
(* The lists as sequences. *)

At(q, i) == IF i \in DOMAIN q THEN q[i] ELSE Null

On(l, s, t) == l.net[t] = s[1] /\ t[1] = s[2]

\* q is list s: its terminals, each once, from the head along the next ids.
Listed(l, s, q) ==
  /\ q \in Seq(Terms)
  /\ \A i, j \in DOMAIN q : q[i] = q[j] => i = j
  /\ \A i \in DOMAIN q : On(l, s, q[i]) /\ l.next[q[i]] = At(q, i + 1)
  /\ \A t \in Terms : On(l, s, t) => \E i \in DOMAIN q : q[i] = t
  /\ l.head[s] = At(q, 1)

(***************************************************************************)
(* A list has no more elements than there are terminals of its table.      *)
(***************************************************************************)
LEMMA ListFits ==
  ASSUME NEW l, NEW s \in Lists, NEW q, Listed(l, s, q)
  PROVE  /\ Size["bterm"] + Size["iterm"] \in Nat
         /\ Len(q) <= Size["bterm"] + Size["iterm"]
<1>1. q \in Seq(Terms) /\ Len(q) \in Nat /\ DOMAIN q = 1 .. Len(q)
  BY LenProperties DEF Listed
<1>2. s[2] \in {"bterm", "iterm"} /\ s[2] \in Tables
  BY ListIs DEF Tables
<1>3. \A i \in 1 .. Len(q) : q[i] \in Terms /\ q[i][1] = s[2]
  BY <1>1 DEF Listed, On
<1>4. \A i \in 1 .. Len(q) : q[i] \in Objects(s[2])
  BY <1>2, <1>3, TermFacts DEF BTerms, ITerms
<1>5. q \in [1 .. Len(q) -> Objects(s[2])]
  BY <1>1, <1>4
<1>6. \A i, j \in 1 .. Len(q) : q[i] = q[j] => i = j
  BY <1>1 DEF Listed
<1>7. Len(q) <= Size[s[2]]
  BY <1>1, <1>2, <1>5, <1>6, Crowded
<1>8. Size["bterm"] \in Nat /\ Size["iterm"] \in Nat
  BY SizeAssumption DEF Tables
<1> QED
  BY <1>1, <1>2, <1>7, <1>8

LEMMA UpTo ==
  ASSUME NEW T, NEW n \in Nat, 0 \in T, \A k \in 1 .. n : k - 1 \in T => k \in T
  PROVE  n \in T
<1> DEFINE U == {k \in 0 .. n : k \notin T}
<1> SUFFICES ASSUME U # {}
             PROVE  FALSE
  OBVIOUS
<1>0. U \in SUBSET Nat
  OBVIOUS
<1> HIDE DEF U
<1>1. PICK x \in U : \A y \in U : x <= y
  BY <1>0, Least
<1> USE DEF U
<1>2. x \in 1 .. n /\ x \notin T
  BY <1>1
<1>3. x - 1 \in 0 .. n /\ ~ x <= x - 1
  BY <1>2
<1> QED
  BY <1>1, <1>2, <1>3
(***************************************************************************)
(* The walk along a list finds it.                                         *)
(***************************************************************************)
Places == Terms \cup {Null}

\* The lists from every terminal on, k terminals long, if those that are
\* shorter by one are from[k - 1].
Longer(l, from, k) ==
  [t \in Places |-> IF t = Null \/ k = 0 THEN << >> ELSE <<t>> \o from[k - 1][l.next[t]]]

\* Those lists can be had for every length.
LEMMA WalkExists ==
  ASSUME NEW l, NEW n \in Nat
  PROVE  \E from : from = [k \in 0 .. n |-> Longer(l, from, k)]
<1> DEFINE Upto(g, m) == \A k \in 0 .. m : g[k] = Longer(l, g, k)
           T == {m \in 0 .. n : \E g : Upto(g, m)}
<1>1. \A g, h : Longer(l, g, 0) = Longer(l, h, 0)
  BY DEF Longer
<1>2. \A g, h : \A k \in Nat : g[k - 1] = h[k - 1] => Longer(l, g, k) = Longer(l, h, k)
  BY DEF Longer
<1>3. 0 \in T
  <2> DEFINE g == [k \in 0 .. 0 |-> Longer(l, << >>, 0)]
  <2>1. g[0] = Longer(l, << >>, 0) /\ \A k \in 0 .. 0 : k = 0
    OBVIOUS
  <2> HIDE DEF g
  <2>2. Upto(g, 0)
    BY <1>1, <2>1
  <2> HIDE DEF Upto
  <2> QED
    BY <2>2
<1>4. ASSUME NEW m \in 1 .. n, m - 1 \in T PROVE m \in T
  <2>1. PICK g : Upto(g, m - 1)
    BY <1>4
  <2> DEFINE h == [k \in 0 .. m |-> IF k = m THEN Longer(l, g, m) ELSE g[k]]
  <2>2. /\ h[m] = Longer(l, g, m) /\ \A k \in 0 .. m - 1 : h[k] = g[k]
        /\ m \in Nat /\ m - 1 \in 0 .. m - 1
    OBVIOUS
  <2> HIDE DEF h
  <2>3. ASSUME NEW k \in 0 .. m PROVE h[k] = Longer(l, h, k)
    <3>1. CASE k = m
      BY <1>2, <2>2, <3>1
    <3>2. CASE k # m /\ k = 0
      <4>1. 0 \in 0 .. m - 1
        BY <3>2
      <4>2. g[0] = Longer(l, g, 0) /\ h[0] = g[0]
        BY <2>1, <2>2, <4>1
      <4> QED
        BY <1>1, <3>2, <4>2
    <3>3. CASE k # m /\ k # 0
      <4>1. k \in 0 .. m - 1 /\ k - 1 \in 0 .. m - 1 /\ k \in Nat
        BY <3>3
      <4>2. g[k] = Longer(l, g, k) /\ h[k] = g[k] /\ h[k - 1] = g[k - 1]
        BY <2>1, <2>2, <4>1
      <4> QED
        BY <1>2, <4>1, <4>2
    <3> QED
      BY <3>1, <3>2, <3>3
  <2>4. Upto(h, m)
    BY <2>3
  <2> HIDE DEF Upto
  <2> QED
    BY <2>4
<1> HIDE DEF T
<1>5. n \in T
  BY <1>3, <1>4, UpTo
<1>6. PICK g : Upto(g, n)
  BY <1>5 DEF T
<1> DEFINE f == [k \in 0 .. n |-> g[k]]
<1>7. \A k \in 0 .. n : f[k] = g[k]
  OBVIOUS
<1>8. \A k \in 0 .. n : k # 0 => k - 1 \in 0 .. n /\ k \in Nat
  OBVIOUS
<1>9. f = [k \in 0 .. n |-> f[k]]
  OBVIOUS
<1> HIDE DEF f
<1>10. \A k \in 0 .. n : f[k] = Longer(l, f, k)
  BY <1>1, <1>2, <1>6, <1>7, <1>8
<1>11. f = [k \in 0 .. n |-> Longer(l, f, k)]
  BY <1>9, <1>10
<1> QED
  BY <1>11

LEMMA WalkIs ==
  ASSUME NEW l, NEW s \in Lists, NEW q, Listed(l, s, q)
  PROVE  Walk(l, s) = q
<1> DEFINE N == Size["bterm"] + Size["iterm"]
           n == Len(q)
           Is(g) == g = [k \in 0 .. N |-> Longer(l, g, k)]
           f == CHOOSE g : Is(g)
           Rest(i) == SubSeq(q, i, n)
           T == {k \in 0 .. N : \A i \in 1 .. n + 1 :
                                  n + 1 - i <= k => f[k][At(q, i)] = Rest(i)}
<1>1. N \in Nat /\ n <= N /\ q \in Seq(Terms) /\ n \in Nat /\ DOMAIN q = 1 .. n
  BY ListFits, LenProperties DEF Listed
<1>2. Walk(l, s) = f[N][At(q, 1)]
  BY DEF Walk, Longer, Listed, Places
<1> HIDE DEF N
<1>3. Is(f)
  <2>1. \E g : Is(g)
    BY <1>1, WalkExists
  <2> HIDE DEF Is
  <2> QED
    BY <2>1
<1> HIDE DEF f
<1>4. \A k \in 0 .. N : f[k] = Longer(l, f, k)
  BY <1>3
<1>5. Rest(n + 1) = << >> /\ Rest(1) = q
  BY <1>1, SubSeqEmpty, SubSeqFull
<1>6. \A i \in 1 .. n : Rest(i) = <<q[i]>> \o Rest(i + 1)
  BY <1>1, SubSeqRecursiveFirst
<1>7. At(q, n + 1) = Null /\ \A i \in 1 .. n : At(q, i) = q[i] /\ q[i] \in Terms /\ q[i] # Null
  BY <1>1, TermFacts DEF At
<1> HIDE DEF Rest, n
<1>8. \A k \in 0 .. N : f[k][At(q, n + 1)] = Rest(n + 1)
  BY <1>4, <1>5, <1>7 DEF Longer, Places
<1>9. 0 \in T
  <2>1. \A i \in 1 .. n + 1 : n + 1 - i <= 0 => i = n + 1
    BY <1>1
  <2> QED
    BY <1>1, <1>8, <2>1
<1>10. ASSUME NEW k \in 1 .. N, k - 1 \in T PROVE k \in T
  <2> SUFFICES ASSUME NEW i \in 1 .. n + 1, n + 1 - i <= k
               PROVE  f[k][At(q, i)] = Rest(i)
    BY <1>1
  <2>1. k \in 0 .. N /\ k # 0
    BY <1>1
  <2>2. CASE i = n + 1
    BY <1>8, <2>1, <2>2
  <2>3. CASE i # n + 1
    <3>1. i \in 1 .. n /\ i + 1 \in 1 .. n + 1 /\ n + 1 - (i + 1) <= k - 1
      BY <1>1, <2>3
    <3>2. f[k - 1][At(q, i + 1)] = Rest(i + 1)
      BY <1>10, <3>1
    <3>3. f[k][q[i]] = <<q[i]>> \o f[k - 1][l.next[q[i]]]
      <4>1. q[i] \in Places /\ q[i] # Null
        BY <1>7, <3>1 DEF Places
      <4>2. Longer(l, f, k)[q[i]] = <<q[i]>> \o f[k - 1][l.next[q[i]]]
        BY <2>1, <4>1 DEF Longer
      <4> QED
        BY <1>4, <2>1, <4>2
    <3>4. l.next[q[i]] = At(q, i + 1)
      BY <1>1, <3>1 DEF Listed
    <3> QED
      BY <1>6, <1>7, <3>1, <3>2, <3>3, <3>4
  <2> QED
    BY <2>2, <2>3
<1> HIDE DEF T
<1>11. N \in T
  BY <1>1, <1>9, <1>10, UpTo
<1>12. 1 \in 1 .. n + 1 /\ n + 1 - 1 <= N
  BY <1>1
<1>13. f[N][At(q, 1)] = Rest(1)
  BY <1>11, <1>12 DEF T
<1> QED
  BY <1>2, <1>5, <1>13

(***************************************************************************)
(* Every list is listed by its walk.                                       *)
(***************************************************************************)
Walked(l) == \A s \in Lists : Listed(l, s, Walk(l, s))

\* A terminal without a net is on no list.
LEMMA OffLists ==
  ASSUME NEW l, NEW s \in Lists, NEW q, Listed(l, s, q), NEW t \in Terms,
         ~ On(l, s, t)
  PROVE  \A i \in DOMAIN q : q[i] # t
  BY DEF Listed

\* A terminal that is connected is on one list.
LEMMA OnIts ==
  ASSUME NEW l, LinksType(l), NEW s \in Lists, NEW t \in Terms
  PROVE  /\ l.net[t] # Null => (On(l, s, t) <=> s = ListOf(l.net[t], t))
         /\ l.net[t] = Null => ~ On(l, s, t)
<1>1. s[1] \in Nets /\ s[1] # Null
  BY ListIs, NetFacts
<1>2. ASSUME l.net[t] # Null PROVE On(l, s, t) <=> s = ListOf(l.net[t], t)
  <2>1. l.net[t] \in Nets
    BY <1>2 DEF LinksType
  <2> QED
    BY <2>1, ListIs, ListOfType DEF On
<1> QED
  BY <1>1, <1>2 DEF On

\* A list that has the same terminals, ids and head in m is the same there.
LEMMA ListedSame ==
  ASSUME NEW l, NEW m, NEW s \in Lists, NEW q, Listed(l, s, q),
         \A u \in Terms : On(m, s, u) <=> On(l, s, u),
         \A u \in Terms : On(l, s, u) => m.next[u] = l.next[u],
         m.head[s] = l.head[s]
  PROVE  Listed(m, s, q)
<1>1. \A i \in DOMAIN q : q[i] \in Terms
  BY DEF Listed
<1> QED
  BY <1>1 DEF Listed

\* t put first.
LEMMA Prepended ==
  ASSUME NEW S, NEW q \in Seq(S), NEW t \in S
  PROVE  LET p == <<t>> \o q
         IN /\ p \in Seq(S) /\ Len(p) = Len(q) + 1 /\ p[1] = t
            /\ \A i \in 1 .. Len(q) : p[i + 1] = q[i]
            /\ \A i \in 1 .. Len(q) + 1 : i = 1 \/ (i - 1 \in 1 .. Len(q) /\ p[i] = q[i - 1])
<1> DEFINE p == <<t>> \o q
           n == Len(q)
<1>1. n \in Nat /\ <<t>> \in Seq(S) /\ Len(<<t>>) = 1 /\ <<t>>[1] = t
  BY LenProperties
<1>2. /\ p \in Seq(S) /\ Len(p) = 1 + n
      /\ \A i \in 1 .. 1 + n : p[i] = IF i <= 1 THEN <<t>>[i] ELSE q[i - 1]
  BY <1>1, ConcatProperties
<1> HIDE DEF p, n
<1>3. p[1] = t
  BY <1>1, <1>2
<1>4. ASSUME NEW i \in 1 .. n PROVE p[i + 1] = q[i]
  <2>1. i + 1 \in 1 .. 1 + n /\ ~ i + 1 <= 1 /\ i + 1 - 1 = i
    BY <1>1
  <2> QED
    BY <1>2, <2>1
<1>5. ASSUME NEW i \in 1 .. n + 1
      PROVE  i = 1 \/ (i - 1 \in 1 .. n /\ p[i] = q[i - 1])
  <2>1. i \in 1 .. 1 + n /\ (i # 1 => ~ i <= 1 /\ i - 1 \in 1 .. n)
    BY <1>1
  <2> QED
    BY <1>2, <2>1
<1>6. Len(p) = n + 1
  BY <1>1, <1>2
<1> QED
  BY <1>2, <1>3, <1>4, <1>5, <1>6 DEF p, n

(***************************************************************************)
(* connect() of a terminal without a net puts it first on its list.        *)
(***************************************************************************)
LEMMA LinkedLists ==
  ASSUME NEW l, LinksType(l), Walked(l),
         NEW t \in Terms, l.net[t] = Null, NEW n \in Nets, NEW s \in Lists
  PROVE  Listed(Linked(l, t, n), s,
                IF s = ListOf(n, t) THEN <<t>> \o Walk(l, s) ELSE Walk(l, s))
<1> DEFINE m == Linked(l, t, n)
           list == ListOf(n, t)
           q == Walk(l, s)
           p == <<t>> \o q
<1>1. Listed(l, s, q) /\ list \in Lists /\ n # Null
  BY ListOfType, NetFacts DEF Walked
<1>2. /\ m.net = [l.net EXCEPT ![t] = n]
      /\ m.head = [l.head EXCEPT ![list] = t]
      /\ m.next = [l.next EXCEPT ![t] = l.head[list]]
  BY DEF Linked
<1>3. /\ \A u \in Terms : m.net[u] = IF u = t THEN n ELSE l.net[u]
      /\ \A u \in Terms : m.next[u] = IF u = t THEN l.head[list] ELSE l.next[u]
      /\ \A r \in Lists : m.head[r] = IF r = list THEN t ELSE l.head[r]
  BY <1>2 DEF LinksType
<1>4. ~ On(l, s, t) /\ (On(m, s, t) <=> s = list)
  <2>1. ~ On(l, s, t)
    BY OnIts
  <2>2. m.net[t] = n
    BY <1>3
  <2>3. On(m, s, t) <=> s = list
    BY <2>2, ListIs, ListOfType DEF On
  <2> QED
    BY <2>1, <2>3
<1>5. \A u \in Terms : u # t => (On(m, s, u) <=> On(l, s, u))
  BY <1>3 DEF On
<1> HIDE DEF m, list, q
<1>6. CASE s # list
  <2>1. \A u \in Terms : On(m, s, u) <=> On(l, s, u)
    BY <1>4, <1>5, <1>6
  <2>2. \A u \in Terms : On(l, s, u) => m.next[u] = l.next[u]
    BY <1>3, <1>4
  <2>3. m.head[s] = l.head[s]
    BY <1>3, <1>6
  <2>4. Listed(m, s, q)
    BY <1>1, <2>1, <2>2, <2>3, ListedSame
  <2> QED
    BY <1>6, <2>4 DEF m, list, q
<1>7. CASE s = list
  <2> DEFINE k == Len(q)
  <2>1. q \in Seq(Terms) /\ k \in Nat /\ DOMAIN q = 1 .. k /\ \A i \in 1 .. k : q[i] \in Terms
    BY <1>1, LenProperties DEF Listed
  <2>2. /\ p \in Seq(Terms) /\ Len(p) = k + 1 /\ p[1] = t
        /\ \A i \in 1 .. k : p[i + 1] = q[i]
        /\ \A i \in 1 .. k + 1 : i = 1 \/ (i - 1 \in 1 .. k /\ p[i] = q[i - 1])
    BY <2>1, Prepended
  <2> HIDE DEF p, k
  <2>3. DOMAIN p = 1 .. k + 1
    BY <2>2, LenProperties
  <2>4. \A i \in 1 .. k : q[i] # t
    BY <1>1, <1>4, <2>1, OffLists
  <2>5. \A i, j \in DOMAIN p : p[i] = p[j] => i = j
    <3> SUFFICES ASSUME NEW i \in 1 .. k + 1, NEW j \in 1 .. k + 1, p[i] = p[j]
                 PROVE  i = j
      BY <2>3
    <3>1. i - 1 \in 1 .. k /\ j - 1 \in 1 .. k => (q[i - 1] = q[j - 1] => i - 1 = j - 1)
      BY <1>1, <2>1 DEF Listed
    <3>2. i = 1 \/ (i - 1 \in 1 .. k /\ p[i] = q[i - 1])
      BY <2>2
    <3>3. j = 1 \/ (j - 1 \in 1 .. k /\ p[j] = q[j - 1])
      BY <2>2
    <3>4. i - 1 = j - 1 => i = j
      OBVIOUS
    <3> QED
      BY <2>2, <2>4, <3>1, <3>2, <3>3, <3>4
  <2>6. \A i \in 0 .. k : At(p, i + 2) = At(q, i + 1)
    <3> SUFFICES ASSUME NEW i \in 0 .. k PROVE At(p, i + 2) = At(q, i + 1)
      OBVIOUS
    <3>1. i + 1 \in 1 .. k <=> i + 2 \in 1 .. k + 1
      BY <2>1
    <3>2. i + 1 \in 1 .. k => p[i + 1 + 1] = q[i + 1]
      BY <2>2
    <3>3. i + 1 + 1 = i + 2
      BY <2>1
    <3> QED
      BY <2>1, <2>3, <3>1, <3>2, <3>3 DEF At
  <2>7. ASSUME NEW i \in 1 .. k + 1
        PROVE  On(m, s, p[i]) /\ m.next[p[i]] = At(p, i + 1)
    <3>1. CASE i = 1
      <4>1. p[i] = t /\ At(p, i + 1) = At(q, 1)
        <5>1. At(p, 0 + 2) = At(q, 0 + 1) /\ 0 \in 0 .. k
          BY <2>1, <2>6
        <5> QED
          BY <2>2, <3>1, <5>1
      <4>2. m.next[t] = l.head[s] /\ l.head[s] = At(q, 1)
        BY <1>1, <1>3, <1>7 DEF Listed
      <4> QED
        BY <1>4, <1>7, <4>1, <4>2
    <3>2. CASE i # 1
      <4>1. i - 1 \in 1 .. k /\ p[i] = q[i - 1] /\ i - 1 \in 0 .. k
            /\ i - 1 + 2 = i + 1 /\ i - 1 + 1 = i
        BY <2>1, <2>2, <3>2
      <4>2. On(l, s, q[i - 1]) /\ l.next[q[i - 1]] = At(q, i - 1 + 1) /\ q[i - 1] \in Terms
        BY <1>1, <2>1, <4>1 DEF Listed
      <4>3. At(p, i - 1 + 2) = At(q, i - 1 + 1)
        BY <2>6, <4>1
      <4> QED
        BY <1>3, <1>5, <2>4, <4>1, <4>2, <4>3
    <3> QED
      BY <3>1, <3>2
  <2>8. ASSUME NEW u \in Terms, On(m, s, u) PROVE \E i \in DOMAIN p : p[i] = u
    <3>1. CASE u = t
      <4>1. 1 \in 1 .. k + 1
        BY <2>1
      <4> QED
        BY <2>2, <2>3, <3>1, <4>1
    <3>2. CASE u # t
      <4>1. PICK i \in 1 .. k : q[i] = u
        BY <1>1, <1>5, <2>1, <2>8, <3>2 DEF Listed
      <4>2. i + 1 \in 1 .. k + 1 /\ p[i + 1] = u
        BY <2>1, <2>2, <4>1
      <4> QED
        BY <2>3, <4>2
    <3> QED
      BY <3>1, <3>2
  <2>9. m.head[s] = At(p, 1)
    <3>1. 1 \in 1 .. k + 1
      BY <2>1
    <3> QED
      BY <1>1, <1>3, <1>7, <2>2, <2>3, <3>1 DEF At
  <2>10. Listed(m, s, p)
    BY <2>2, <2>3, <2>5, <2>7, <2>8, <2>9 DEF Listed
  <2> QED
    BY <1>7, <2>10 DEF m, list, p, q
<1> QED
  BY <1>6, <1>7
\* What Without() leaves of a list without repetition.
LEMMA WithoutNone ==
  ASSUME NEW q, NEW t, \A i \in DOMAIN q : q[i] # t
  PROVE  TL!Without(q, t) = q
  BY DEF TL!Without

Less(q, p, h) ==
  /\ Len(p) = Len(q) - 1
  /\ \A i \in 1 .. h - 1 : p[i] = q[i]
  /\ \A i \in h .. Len(q) - 1 : p[i] = q[i + 1]

LEMMA WithoutOne ==
  ASSUME NEW S, NEW q \in Seq(S), NEW h \in DOMAIN q,
         \A i, j \in DOMAIN q : q[i] = q[j] => i = j
  PROVE  TL!Without(q, q[h]) \in Seq(S) /\ Less(q, TL!Without(q, q[h]), h)
<1> DEFINE n == Len(q)
           a == SubSeq(q, 1, h - 1)
           c == SubSeq(q, h + 1, n)
<1>1. TL!Without(q, q[h]) = a \o c
  <2>1. (CHOOSE j \in DOMAIN q : q[j] = q[h]) = h
    OBVIOUS
  <2>2. ~ \A i \in DOMAIN q : q[i] # q[h]
    OBVIOUS
  <2> QED
    BY <2>1, <2>2 DEF TL!Without
<1>2. n \in Nat /\ h \in 1 .. n /\ \A i \in 1 .. n : q[i] \in S
  BY LenProperties
<1> HIDE DEF n
<1>3. /\ a \in Seq(S) /\ Len(a) = h - 1
      /\ \A i \in 1 .. h - 1 : a[i] = q[i]
  <2>1. /\ 1 \in Int /\ h - 1 \in Int /\ h - 1 - 1 + 1 = h - 1
        /\ \A i \in 1 .. h - 1 : i \in 1 .. n /\ 1 + i - 1 = i
        /\ (1 <= h - 1 \/ h - 1 = 0)
    BY <1>2
  <2>2. \A i \in 1 .. h - 1 : q[i] \in S
    BY <1>2, <2>1
  <2>3. /\ a \in Seq(S) /\ Len(a) = IF 1 <= h - 1 THEN h - 1 - 1 + 1 ELSE 0
        /\ \A i \in 1 .. h - 1 - 1 + 1 : a[i] = q[1 + i - 1]
    BY <2>1, <2>2, SubSeqProperties
  <2> QED
    BY <2>1, <2>3
<1>4. /\ c \in Seq(S) /\ Len(c) = n - h
      /\ \A i \in 1 .. n - h : c[i] = q[h + i]
  <2>1. /\ h + 1 \in Int /\ n \in Int /\ n - (h + 1) + 1 = n - h
        /\ \A i \in h + 1 .. n : i \in 1 .. n
        /\ \A i \in 1 .. n - h : h + 1 + i - 1 = h + i
        /\ (h + 1 <= n \/ n - h = 0)
    BY <1>2
  <2>2. \A i \in h + 1 .. n : q[i] \in S
    BY <1>2, <2>1
  <2>3. /\ c \in Seq(S) /\ Len(c) = IF h + 1 <= n THEN n - (h + 1) + 1 ELSE 0
        /\ \A i \in 1 .. n - (h + 1) + 1 : c[i] = q[h + 1 + i - 1]
    BY <2>1, <2>2, SubSeqProperties
  <2> QED
    BY <2>1, <2>3
<1> HIDE DEF a, c
<1> DEFINE p == a \o c
<1>5. /\ p \in Seq(S) /\ Len(p) = h - 1 + (n - h)
      /\ \A i \in 1 .. h - 1 + (n - h) : p[i] = IF i <= h - 1 THEN a[i] ELSE c[i - (h - 1)]
  BY <1>3, <1>4, ConcatProperties
<1> HIDE DEF p
<1>6. Len(p) = n - 1 /\ h - 1 + (n - h) = n - 1
  BY <1>2, <1>5
<1>7. ASSUME NEW i \in 1 .. h - 1 PROVE p[i] = q[i]
  <2>1. i \in 1 .. h - 1 + (n - h) /\ i <= h - 1
    BY <1>2
  <2> QED
    BY <1>3, <1>5, <2>1
<1>8. ASSUME NEW i \in h .. n - 1 PROVE p[i] = q[i + 1]
  <2>1. /\ i \in 1 .. h - 1 + (n - h) /\ ~ i <= h - 1
        /\ i - (h - 1) \in 1 .. n - h /\ h + (i - (h - 1)) = i + 1
    BY <1>2
  <2>2. c[i - (h - 1)] = q[h + (i - (h - 1))]
    BY <1>4, <2>1
  <2> QED
    BY <1>5, <2>1, <2>2
<1> QED
  BY <1>1, <1>5, <1>6, <1>7, <1>8 DEF Less, p, n

(***************************************************************************)
(* disconnect() of a connected terminal takes it off its list.             *)
(***************************************************************************)
LEMMA UnlinkedLists ==
  ASSUME NEW l, LinksInv(l), Walked(l),
         NEW t \in Terms, l.net[t] # Null, NEW s \in Lists
  PROVE  Listed(Unlinked(l, t), s, TL!Without(Walk(l, s), t))
<1> DEFINE m == Unlinked(l, t)
           list == ListOf(l.net[t], t)
           q == Walk(l, s)
           p == TL!Without(q, t)
           first == l.head[list] = t
<1>1. /\ Listed(l, s, q) /\ list \in Lists /\ LinksType(l)
      /\ NeighboursSound(l) /\ t # Null
  <2>1. l.net[t] \in Nets
    BY DEF LinksInv, LinksType
  <2> QED
    BY <2>1, ListOfType, TermFacts DEF Walked, LinksInv
<1>2. /\ m.net = [l.net EXCEPT ![t] = Null]
      /\ m.head = IF first THEN [l.head EXCEPT ![list] = l.next[t]] ELSE l.head
      /\ m.next = [u \in Terms |-> IF ~ first /\ u = l.prev[t] THEN l.next[t] ELSE l.next[u]]
  BY DEF Unlinked
<1> HIDE DEF m
<1>3. /\ \A u \in Terms : m.net[u] = IF u = t THEN Null ELSE l.net[u]
      /\ \A u \in Terms : m.next[u] = IF ~ first /\ u = l.prev[t] THEN l.next[t] ELSE l.next[u]
      /\ \A r \in Lists : m.head[r] = IF r = list /\ first THEN l.next[t] ELSE l.head[r]
  BY <1>1, <1>2 DEF LinksType
<1>4. (On(l, s, t) <=> s = list) /\ ~ On(m, s, t)
  <2>1. s[1] # Null
    BY ListIs, NetFacts
  <2> QED
    BY <1>1, <1>3, <2>1, OnIts DEF On
<1>5. \A u \in Terms : u # t => (On(m, s, u) <=> On(l, s, u))
  BY <1>3 DEF On
<1>6. ~ first => l.prev[t] \in Terms /\ On(l, list, l.prev[t])
  <2> SUFFICES ASSUME ~ first PROVE l.prev[t] \in Terms /\ On(l, list, l.prev[t])
    OBVIOUS
  <2>1. l.prev[t] # Null /\ SameList(l, t, l.prev[t])
    BY <1>1 DEF NeighboursSound
  <2>2. l.net[t] \in Nets
    BY <1>1 DEF LinksType
  <2> QED
    BY <2>1, <2>2, ListOfType DEF SameList, On
<1> HIDE DEF list, q
<1>7. CASE s # list
  <2>1. \A u \in Terms : On(m, s, u) <=> On(l, s, u)
    BY <1>4, <1>5, <1>7
  <2>2. \A u \in Terms : On(l, s, u) /\ On(l, list, u) => s = list
    BY ListIs, <1>1 DEF On
  <2>3. \A u \in Terms : On(l, s, u) => m.next[u] = l.next[u]
    BY <1>3, <1>6, <1>7, <2>2
  <2>4. m.head[s] = l.head[s]
    BY <1>3, <1>7
  <2>5. Listed(m, s, q)
    BY <1>1, <2>1, <2>3, <2>4, ListedSame
  <2>6. \A i \in DOMAIN q : q[i] # t
    BY <1>1, <1>4, <1>7, OffLists
  <2>7. p = q
    BY <2>6, WithoutNone
  <2> QED
    BY <2>5, <2>7 DEF m, q
<1>8. CASE s = list
  <2> DEFINE n == Len(q)
  <2>1. q \in Seq(Terms) /\ n \in Nat /\ DOMAIN q = 1 .. n /\ \A i \in 1 .. n : q[i] \in Terms
    BY <1>1, LenProperties DEF Listed
  <2>2. \A i, j \in 1 .. n : q[i] = q[j] => i = j
    BY <1>1, <2>1 DEF Listed
  <2>3. \A i \in 1 .. n : On(l, s, q[i]) /\ l.next[q[i]] = At(q, i + 1)
    BY <1>1, <2>1 DEF Listed
  <2>4. PICK h \in 1 .. n : q[h] = t
    BY <1>1, <1>4, <1>8, <2>1 DEF Listed
  <2>5. p \in Seq(Terms) /\ Less(q, p, h)
    BY <2>1, <2>2, <2>4, WithoutOne
  <2> HIDE DEF p, n
  <2>6. /\ Len(p) = n - 1 /\ \A i \in 1 .. h - 1 : p[i] = q[i]
        /\ \A i \in h .. n - 1 : p[i] = q[i + 1]
    BY <2>5 DEF Less, n
  <2>7. DOMAIN p = 1 .. n - 1
    BY <2>5, <2>6, LenProperties
  <2> DEFINE up(i) == IF i < h THEN i ELSE i + 1
  <2>8. ASSUME NEW i \in 1 .. n - 1
        PROVE  up(i) \in 1 .. n /\ up(i) # h /\ p[i] = q[up(i)]
    <3>1. CASE i < h
      <4>1. i \in 1 .. h - 1 /\ i \in 1 .. n /\ i # h
        BY <2>1, <2>4, <3>1
      <4> QED
        BY <2>6, <3>1, <4>1
    <3>2. CASE ~ i < h
      <4>1. i \in h .. n - 1 /\ i + 1 \in 1 .. n /\ i + 1 # h
        BY <2>1, <2>4, <3>2
      <4> QED
        BY <2>6, <3>2, <4>1
    <3> QED
      BY <3>1, <3>2
  <2>9. \A i, j \in 1 .. n - 1 : up(i) = up(j) => i = j
    BY <2>1, <2>4
  <2>10. \A k \in 1 .. n : k # h => \E i \in 1 .. n - 1 : up(i) = k
    <3> SUFFICES ASSUME NEW k \in 1 .. n, k # h PROVE \E i \in 1 .. n - 1 : up(i) = k
      OBVIOUS
    <3>1. CASE k < h
      <4>1. k \in 1 .. n - 1 /\ up(k) = k
        BY <2>1, <2>4, <3>1
      <4> QED
        BY <4>1
    <3>2. CASE ~ k < h
      <4>1. k - 1 \in 1 .. n - 1 /\ up(k - 1) = k
        BY <2>1, <2>4, <3>2
      <4> QED
        BY <4>1
    <3> QED
      BY <3>1, <3>2
  <2>11. \A i \in 1 .. n : up(i) = i \/ up(i) = i + 1
    OBVIOUS
  \* What comes after the places of p.
  <2>12. ASSUME NEW i \in 0 .. n - 1
         PROVE  At(p, i + 1) = IF i + 1 < h THEN At(q, i + 1) ELSE At(q, i + 2)
    <3>1. i + 1 \in 1 .. n - 1 => p[i + 1] = q[up(i + 1)] /\ up(i + 1) \in 1 .. n
      BY <2>8
    <3>2. i + 1 \in 1 .. n - 1 => up(i + 1) = IF i + 1 < h THEN i + 1 ELSE i + 2
      BY <2>1
    <3>3. i + 1 \notin 1 .. n - 1 => ~ i + 1 < h /\ i + 2 \notin 1 .. n
      BY <2>1, <2>4
    <3> QED
      BY <2>1, <2>7, <3>1, <3>2, <3>3 DEF At
  <2>13. first <=> h = 1
    <3>1. l.head[s] = At(q, 1) /\ 1 \in 1 .. n
      BY <1>1, <2>1, <2>4 DEF Listed
    <3>2. l.head[s] = q[1]
      BY <2>1, <3>1 DEF At
    <3> QED
      BY <1>8, <2>2, <2>4, <3>1, <3>2
  <2>14. h # 1 => h - 1 \in 1 .. n /\ l.prev[t] = q[h - 1]
    <3> SUFFICES ASSUME h # 1 PROVE h - 1 \in 1 .. n /\ l.prev[t] = q[h - 1]
      OBVIOUS
    <3>1. h - 1 \in 1 .. n /\ h - 1 + 1 = h
      BY <2>1, <2>4
    <3>2. l.next[q[h - 1]] = t /\ q[h - 1] \in Terms /\ On(l, s, q[h - 1])
      BY <2>1, <2>3, <2>4, <3>1 DEF At
    <3>3. l.net[q[h - 1]] # Null
      BY <3>2, ListIs, NetFacts DEF On
    <3> QED
      BY <1>1, <3>1, <3>2, <3>3 DEF NeighboursSound
  <2>15. l.next[t] = At(q, h + 1)
    BY <2>3, <2>4
  <2>16. \A i, j \in DOMAIN p : p[i] = p[j] => i = j
    <3> SUFFICES ASSUME NEW i \in 1 .. n - 1, NEW j \in 1 .. n - 1, p[i] = p[j] PROVE i = j
      BY <2>7
    <3>1. q[up(i)] = q[up(j)] /\ up(i) \in 1 .. n /\ up(j) \in 1 .. n
      BY <2>8
    <3>2. up(i) = up(j)
      <4> HIDE DEF up
      <4> QED
        BY <2>2, <3>1
    <3> HIDE DEF up
    <3> QED
      BY <2>9, <3>2
  <2>17. ASSUME NEW i \in 1 .. n - 1
         PROVE  On(m, s, p[i]) /\ m.next[p[i]] = At(p, i + 1)
    <3>1. up(i) \in 1 .. n /\ up(i) # h /\ p[i] = q[up(i)]
      BY <2>8
    <3>2. p[i] \in Terms /\ p[i] # t
      <4> HIDE DEF up
      <4> QED
        BY <2>1, <2>2, <2>4, <3>1
    <3>3. On(m, s, p[i])
      <4> HIDE DEF up
      <4> QED
        BY <1>5, <2>3, <3>1, <3>2
    <3>4. l.next[p[i]] = At(q, up(i) + 1)
      <4> HIDE DEF up
      <4> QED
        BY <2>3, <3>1
    <3>5. i \in 0 .. n - 1 /\ i \in Nat
      BY <2>1
    <3>6. At(p, i + 1) = IF i + 1 < h THEN At(q, i + 1) ELSE At(q, i + 2)
      BY <2>12, <3>5
    <3>7. CASE i + 1 = h
      <4>1. h # 1 /\ ~ first /\ up(i) = h - 1 /\ ~ i + 1 < h /\ i + 2 = h + 1
        BY <2>13, <2>4, <3>5, <3>7
      <4>2. l.prev[t] = p[i]
        BY <2>14, <3>1, <4>1
      <4> QED
        BY <1>3, <2>15, <3>2, <3>3, <3>6, <4>1, <4>2
    <3>8. CASE i + 1 # h
      <4>1. ~ (~ first /\ p[i] = l.prev[t])
        <5> SUFFICES ASSUME ~ first, p[i] = l.prev[t] PROVE FALSE
          OBVIOUS
        <5>1. h - 1 \in 1 .. n /\ q[up(i)] = q[h - 1]
          BY <2>13, <2>14, <3>1
        <5>2. up(i) = h - 1
          <6> HIDE DEF up
          <6> QED
            BY <2>2, <3>1, <5>1
        <5> QED
          BY <2>4, <3>5, <3>8, <5>2
      <4>2. m.next[p[i]] = l.next[p[i]]
        BY <1>3, <3>2, <4>1
      <4>3. At(q, up(i) + 1) = IF i + 1 < h THEN At(q, i + 1) ELSE At(q, i + 2)
        <5>1. up(i) + 1 = IF i + 1 < h THEN i + 1 ELSE i + 2
          BY <2>4, <3>5, <3>8
        <5> HIDE DEF up
        <5> QED
          BY <5>1
      <4> QED
        BY <3>3, <3>4, <3>6, <4>2, <4>3
    <3> QED
      BY <3>7, <3>8
  <2>18. ASSUME NEW u \in Terms, On(m, s, u) PROVE \E i \in DOMAIN p : p[i] = u
    <3>1. u # t /\ On(l, s, u)
      BY <1>4, <1>5, <2>18
    <3>2. PICK k \in 1 .. n : q[k] = u
      BY <1>1, <2>1, <3>1 DEF Listed
    <3>3. PICK i \in 1 .. n - 1 : up(i) = k
      BY <2>4, <2>10, <3>1, <3>2
    <3> QED
      BY <2>7, <2>8, <3>2, <3>3
  <2>19. m.head[s] = At(p, 1)
    <3>1. At(p, 0 + 1) = IF 0 + 1 < h THEN At(q, 0 + 1) ELSE At(q, 0 + 2)
      <4>1. 0 \in 0 .. n - 1
        BY <2>1, <2>4
      <4> QED
        BY <2>12, <4>1
    <3>2. l.head[s] = At(q, 1)
      BY <1>1 DEF Listed
    <3>3. CASE h = 1
      <4>1. At(p, 1) = At(q, 2) /\ l.next[t] = At(q, 2)
        BY <2>15, <3>1, <3>3
      <4> QED
        BY <1>3, <1>8, <2>13, <3>3, <4>1
    <3>4. CASE h # 1
      <4>1. 1 < h
        BY <2>4, <3>4
      <4> QED
        BY <1>3, <1>8, <2>13, <3>1, <3>2, <3>4, <4>1
    <3> QED
      BY <3>3, <3>4
  <2>20. Listed(m, s, p)
    BY <2>5, <2>7, <2>16, <2>17, <2>18, <2>19 DEF Listed
  <2> QED
    BY <2>20 DEF m, p, q
<1> QED
  BY <1>7, <1>8
-----------------------------------------------------------------------------
(* The calls as steps of TermLists. *)

\* The lists of b with t taken off, and with t put first on list r besides.
TakenOff(b, c, t) ==
  \A s \in Lists : Listed(c.links, s, TL!Without(Walk(b.links, s), t))

PutFirst(b, c, t, r) ==
  \A s \in Lists :
    Listed(c.links, s, IF s = r THEN <<t>> \o TL!Without(Walk(b.links, s), t)
                                ELSE TL!Without(Walk(b.links, s), t))

LEMMA TakenOffWalks ==
  ASSUME NEW b, NEW c, NEW t, TakenOff(b, c, t)
  PROVE  /\ Walked(c.links)
         /\ \A s \in Lists : Walk(c.links, s) = TL!Without(Walk(b.links, s), t)
<1>1. \A s \in Lists : Walk(c.links, s) = TL!Without(Walk(b.links, s), t)
  BY WalkIs DEF TakenOff
<1> QED
  BY <1>1 DEF TakenOff, Walked

LEMMA PutFirstWalks ==
  ASSUME NEW b, NEW c, NEW t, NEW r \in Lists, PutFirst(b, c, t, r)
  PROVE  /\ Walked(c.links)
         /\ Walk(c.links, r) = <<t>> \o TL!Without(Walk(b.links, r), t)
         /\ \A s \in Lists \ {r} : Walk(c.links, s) = TL!Without(Walk(b.links, s), t)
<1> DEFINE q(s) == IF s = r THEN <<t>> \o TL!Without(Walk(b.links, s), t)
                   ELSE TL!Without(Walk(b.links, s), t)
<1>1. \A s \in Lists : Listed(c.links, s, q(s))
  BY DEF PutFirst
<1> HIDE DEF q
<1>2. \A s \in Lists : Walk(c.links, s) = q(s)
  BY <1>1, WalkIs
<1>3. Walked(c.links)
  BY <1>1, <1>2 DEF Walked
<1> QED
  BY <1>2, <1>3 DEF q

LEMMA OffWithout ==
  ASSUME NEW l, LinksType(l), Walked(l), NEW t \in Terms, l.net[t] = Null,
         NEW s \in Lists
  PROVE  TL!Without(Walk(l, s), t) = Walk(l, s)
<1>1. Listed(l, s, Walk(l, s)) /\ ~ On(l, s, t)
  BY OnIts DEF Walked
<1>2. \A i \in DOMAIN Walk(l, s) : Walk(l, s)[i] # t
  BY <1>1, OffLists
<1> QED
  BY <1>2, WithoutNone

LEMMA DisconnectLists ==
  ASSUME NEW b, Shape(b), Walked(b.links), NEW t \in Terms
  PROVE  TakenOff(b, disconnect(b, t), t)
<1>1. LinksInv(b.links) /\ LinksType(b.links) /\ DOMAIN b = Fields
  BY DEF Shape, LinksInv
<1>2. CASE b.links.net[t] = Null
  <2>1. disconnect(b, t) = b
    BY <1>2 DEF disconnect
  <2>2. \A s \in Lists : TL!Without(Walk(b.links, s), t) = Walk(b.links, s)
    BY <1>1, <1>2, OffWithout
  <2> QED
    BY <2>1, <2>2 DEF TakenOff, Walked
<1>3. CASE b.links.net[t] # Null
  <2>1. disconnect(b, t).links = Unlinked(b.links, t)
    BY <1>1, <1>3 DEF disconnect, Disconnected, Fields
  <2>2. \A s \in Lists : Listed(Unlinked(b.links, t), s, TL!Without(Walk(b.links, s), t))
    BY <1>1, <1>3, UnlinkedLists
  <2> QED
    BY <2>1, <2>2 DEF TakenOff
<1> QED
  BY <1>2, <1>3

LEMMA ConnectLists ==
  ASSUME NEW b, Shape(b), Connected(b), Walked(b.links),
         NEW t \in Terms, NEW n \in Nets
  PROVE  connect(b, t, n) = b \/ PutFirst(b, connect(b, t, n), t, ListOf(n, t))
<1> DEFINE d == disconnect(b, t)
           c == [d EXCEPT !.links = Linked(@, t, n)]
           r == ListOf(n, t)
<1>1. TakenOff(b, d, t) /\ Shape(d) /\ d.links.net = [b.links.net EXCEPT ![t] = Null]
  BY DisconnectLists, DisconnectInv
<1>2. Shape(d) /\ LinksType(d.links) /\ d.links.net[t] = Null
  BY <1>1 DEF Shape, LinksInv, LinksType
<1>3. connect(b, t, n) = b \/ connect(b, t, n) = c
  BY DEF connect
<1> HIDE DEF d
<1>4. /\ Walked(d.links)
      /\ \A s \in Lists : Walk(d.links, s) = TL!Without(Walk(b.links, s), t)
  BY <1>1, TakenOffWalks
<1>5. \A s \in Lists :
        Listed(Linked(d.links, t, n), s,
               IF s = r THEN <<t>> \o Walk(d.links, s) ELSE Walk(d.links, s))
  BY <1>2, <1>4, LinkedLists
<1>6. c.links = Linked(d.links, t, n)
  BY <1>2 DEF Shape, Fields
<1>7. PutFirst(b, c, t, r)
  BY <1>4, <1>5, <1>6 DEF PutFirst
<1> QED
  BY <1>3, <1>7

LEMMA BTermCreateLists ==
  ASSUME NEW b, BlockInv(b), Walked(b.links), Room(b, "bterm", 1),
         NEW n \in Nets, NEW name
  PROVE  \E t \in Terms : PutFirst(b, BTerm_create(b, n, name), t, ListOf(n, t))
<1> DEFINE d == Take(b, "bterm", 1)
           t == Head(b.free["bterm"])
           g == [d EXCEPT !.name[t] = name]
           c == [g EXCEPT !.links = Linked(@, t, n)]
<1>1. /\ BlockInv(d) /\ d.links = b.links /\ t \in BTerms /\ t \notin b.live
  BY TakeOne DEF Tables, BTerms
<1>2. c = BTerm_create(b, n, name)
  BY DEF BTerm_create
<1>3. t \in Terms /\ b.links.net[t] = Null /\ LinksType(b.links)
  BY <1>1, BTermFacts DEF BlockInv, Connected, Shape, LinksInv
<1> HIDE DEF d, t
<1>4. DOMAIN g = Fields /\ g.links = b.links
  BY <1>1 DEF BlockInv, Shape, Fields
<1> HIDE DEF g
<1>5. c.links = Linked(b.links, t, n)
  BY <1>4 DEF Fields
<1>6. \A s \in Lists :
        /\ Listed(Linked(b.links, t, n), s,
                  IF s = ListOf(n, t) THEN <<t>> \o Walk(b.links, s) ELSE Walk(b.links, s))
        /\ TL!Without(Walk(b.links, s), t) = Walk(b.links, s)
  BY <1>3, LinkedLists, OffWithout
<1>7. PutFirst(b, c, t, ListOf(n, t))
  BY <1>5, <1>6 DEF PutFirst
<1> QED
  BY <1>2, <1>3, <1>7

LEMMA TermDestroyLists ==
  ASSUME NEW b, Shape(b), Connected(b), Walked(b.links), NEW t \in Terms
  PROVE  TakenOff(b, Term_destroy(b, t), t)
<1> DEFINE d == disconnect(b, t)
           g == Give(d, t)
           c == [g EXCEPT !.links.next[t] = Null, !.links.prev[t] = Null]
<1>1. TakenOff(b, d, t) /\ Shape(d) /\ d.links.net = [b.links.net EXCEPT ![t] = Null]
  BY DisconnectLists, DisconnectInv
<1>2. LinksType(d.links) /\ d.links.net[t] = Null /\ DOMAIN d = Fields
  BY <1>1 DEF Shape, LinksInv, LinksType
<1>3. c = Term_destroy(b, t)
  BY DEF Term_destroy
<1> HIDE DEF d
<1>4. DOMAIN g = Fields /\ g.links = d.links
  BY <1>2 DEF Give, Fields
<1> HIDE DEF g
<1>5. /\ c.links.net = d.links.net /\ c.links.head = d.links.head
      /\ c.links.next = [d.links.next EXCEPT ![t] = Null]
  BY <1>2, <1>4 DEF Fields, LinksType
<1>6. \A u \in Terms : u # t => c.links.next[u] = d.links.next[u]
  BY <1>2, <1>5 DEF LinksType
<1> HIDE DEF c
<1>7. ASSUME NEW s \in Lists
      PROVE  Listed(c.links, s, TL!Without(Walk(b.links, s), t))
  <2>1. \A u \in Terms : On(c.links, s, u) <=> On(d.links, s, u)
    BY <1>5 DEF On
  <2>2. \A u \in Terms : On(d.links, s, u) => c.links.next[u] = d.links.next[u]
    BY <1>2, <1>6, OnIts
  <2>3. Listed(d.links, s, TL!Without(Walk(b.links, s), t))
    BY <1>1 DEF TakenOff
  <2>4. c.links.head[s] = d.links.head[s]
    BY <1>5
  <2> QED
    BY <2>1, <2>2, <2>3, <2>4, ListedSame
<1> QED
  BY <1>3, <1>7 DEF TakenOff

\* A step that takes a terminal off, puts one first or leaves the links alone.
LEMMA ListSteps ==
  ASSUME Walked(block.links)
  PROVE  /\ \A t \in Terms : TakenOff(block, block', t) =>
              Walked(block'.links) /\ TL!Disconnect(t)
         /\ \A t \in Terms, s \in Lists : PutFirst(block, block', t, s) =>
              Walked(block'.links) /\ TL!Connect(t, s)
         /\ block'.links = block.links =>
              Walked(block'.links) /\ UNCHANGED Members
<1>1. /\ Members = [s \in Lists |-> Walk(block.links, s)]
      /\ Members' = [s \in Lists |-> Walk(block'.links, s)]
  BY DEF Members
<1>2. ASSUME NEW t \in Terms, TakenOff(block, block', t)
      PROVE  Walked(block'.links) /\ TL!Disconnect(t)
  <2>1. /\ Walked(block'.links)
        /\ \A s \in Lists : Walk(block'.links, s) = TL!Without(Walk(block.links, s), t)
    BY <1>2, TakenOffWalks
  <2> QED
    BY <1>1, <2>1 DEF TL!Disconnect
<1>3. ASSUME NEW t \in Terms, NEW s \in Lists, PutFirst(block, block', t, s)
      PROVE  Walked(block'.links) /\ TL!Connect(t, s)
  <2>1. /\ Walked(block'.links)
        /\ Walk(block'.links, s) = <<t>> \o TL!Without(Walk(block.links, s), t)
        /\ \A r \in Lists \ {s} :
             Walk(block'.links, r) = TL!Without(Walk(block.links, r), t)
    BY <1>3, PutFirstWalks
  <2> QED
    BY <1>1, <2>1 DEF TL!Connect
<1> QED
  BY <1>1, <1>2, <1>3

LEMMA NextLists ==
  IInv /\ Walked(block.links) /\ [Next]_vars => Walked(block'.links) /\ [TL!Next]_Members
<1> SUFFICES ASSUME IInv, Walked(block.links), [Next]_vars
             PROVE  Walked(block'.links) /\ [TL!Next]_Members
  OBVIOUS
<1> DEFINE Good == Walked(block'.links) /\ [TL!Next]_Members
<1>0. /\ BlockInv(block) /\ PinsInv(block, call) /\ CallInv(block, call)
      /\ Shape(block) /\ Connected(block) /\ DOMAIN block = Fields
  BY DEF IInv, BlockInv, Shape
<1>a. ASSUME NEW t \in Terms, TakenOff(block, block', t) PROVE Good
  BY <1>a, ListSteps DEF TL!Next
<1>b. ASSUME NEW t \in Terms, NEW s \in Lists, PutFirst(block, block', t, s) PROVE Good
  BY <1>b, ListSteps DEF TL!Next
<1>c. ASSUME block'.links = block.links PROVE Good
  BY <1>c, ListSteps
<1> HIDE DEF Good
<1>1. ASSUME NEW name, NEW skip, CreateNet(name, skip) PROVE Good
  <2> DEFINE d == Take(block, "net", 1)
             n == Head(block.free["net"])
  <2>1. /\ block' = Net_create(block, name) /\ Room(block, "net", 1)
    BY <1>1 DEF CreateNet, Returns
  <2>2. block' = [d EXCEPT !.name[n] = name]
    BY <2>1 DEF Net_create
  <2>3. d.links = block.links /\ DOMAIN d = Fields
    BY <1>0, <2>1, TakeOne DEF Tables, BlockInv, Shape
  <2> HIDE DEF d
  <2>4. block'.links = block.links
    BY <2>2, <2>3 DEF Fields
  <2> QED
    BY <1>c, <2>4
<1>2. ASSUME NEW n \in Nets, NEW name, CreateBTerm(n, name) PROVE Good
  <2>1. block' = BTerm_create(block, n, name) /\ Room(block, "bterm", 1)
    BY <1>2 DEF CreateBTerm, Returns
  <2>2. PICK t \in Terms : PutFirst(block, block', t, ListOf(n, t))
    BY <1>0, <2>1, BTermCreateLists
  <2> QED
    BY <1>b, <2>2, ListOfType
<1>3. ASSUME NEW n \in Nets, NEW t \in Terms, Connect(t, n) PROVE Good
  <2>1. block' = connect(block, t, n)
    BY <1>3 DEF Connect, Returns
  <2>2. block' = block \/ PutFirst(block, block', t, ListOf(n, t))
    BY <1>0, <2>1, ConnectLists
  <2> QED
    BY <1>b, <1>c, <2>2, ListOfType
<1>4. ASSUME NEW m \in Masters, NEW name, CreateInst(m, name) PROVE Good
  <2>1. PICK i \in Insts \ block.live, ts \in Seq(ITerms \ block.live) :
          InstCreated(block, block', m, i, ts)
    BY <1>0, <1>4, InstCreateFacts DEF CreateInst, Returns
  <2> QED
    BY <1>c, <2>1 DEF InstCreated
<1>5. ASSUME NEW m \in Masters, NEW i \in Live(Insts), SwapMaster(i, m) PROVE Good
  <2>1. call = Idle /\ block' = swapMaster(block, i, m) /\ i \in Insts /\ i \in block.live
    BY <1>5 DEF SwapMaster, Returns, Live
  <2>2. CASE ~ Equivalent(m, block.master[i])
    BY <1>c, <2>1, <2>2 DEF swapMaster
  <2>3. CASE Equivalent(m, block.master[i])
    <3>1. Swapped(block, block', i, m)
      BY <1>0, <2>1, <2>3, SwapMasterFacts
    <3> QED
      BY <1>c, <3>1 DEF Swapped
  <2> QED
    BY <2>2, <2>3
<1>6. ASSUME NEW t \in Terms, block' = disconnect(block, t) \/ block' = Term_destroy(block, t)
      PROVE  Good
  <2>1. TakenOff(block, block', t)
    BY <1>0, <1>6, DisconnectLists, TermDestroyLists
  <2> QED
    BY <1>a, <2>1
<1>7. ASSUME NEW t \in Terms, Disconnect(t) \/ DestroyBTerm(t) PROVE Good
  BY <1>6, <1>7 DEF Disconnect, DestroyBTerm, Returns
<1>8. ASSUME DestroyNet_iterm \/ DestroyNet_bterm PROVE Good
  BY <1>6, <1>8, CallTerms DEF DestroyNet_iterm, DestroyNet_bterm, Live
<1>9. ASSUME DestroyInst_iterm PROVE Good
  BY <1>6, <1>9, CallTerms, ITermFacts DEF DestroyInst_iterm, Live
<1>10. ASSUME DestroyNet_end \/ DestroyInst_end PROVE Good
  <2> DEFINE o == call.obj
  <2>1. block' = Net_delete(block, o) \/ block' = Inst_delete(block, o)
    BY <1>10 DEF DestroyNet_end, DestroyInst_end
  <2> HIDE DEF o
  <2>2. NetDeleted(block, block', o) \/ InstDeleted(block, block', o)
    BY <1>0, <2>1, DeleteFacts
  <2> QED
    BY <1>c, <2>2 DEF NetDeleted, InstDeleted
<1>11. ASSUME \/ \E n \in Nets : DestroyNet(n)
              \/ \E i \in Insts : DestroyInst(i)
              \/ DestroyNet_bterms \/ UNCHANGED vars
       PROVE  Good
  BY <1>11, <1>c DEF DestroyNet, DestroyInst, DestroyNet_bterms, vars
<1>12. Good
  BY <1>1, <1>2, <1>3, <1>4, <1>5, <1>7, <1>8, <1>9, <1>10, <1>11
  DEF Next, Destroying, Live, Terms
<1> QED
  BY <1>12 DEF Good

(***************************************************************************)
(* The doubly linked lists implement the lists of TermLists, for tables of *)
(* every size: each step of a call, also a turn of the loop of a           *)
(* destroy(), takes one terminal off its list, puts one first, or leaves   *)
(* every list alone.                                                       *)
(***************************************************************************)
THEOREM NetlistListsRefined == Spec => ListsRefined
<1>1. Init => IInv /\ Walked(block.links) /\ TL!Init
  <2> SUFFICES ASSUME Init PROVE Walked(block.links) /\ TL!Init
    BY InitInv
  <2> DEFINE l == block.links
  <2>1. /\ \A t \in Terms : l.net[t] = Null
        /\ \A s \in Lists : l.head[s] = Null
    BY DEF Init, Empty
  <2> HIDE DEF l
  <2>2. ASSUME NEW s \in Lists PROVE Listed(l, s, << >>)
    <3>1. << >> \in Seq(Terms) /\ DOMAIN << >> = {}
      BY EmptySeq
    <3>2. \A t \in Terms : ~ On(l, s, t)
      BY <2>1, ListIs, NetFacts DEF On
    <3> QED
      BY <2>1, <3>1, <3>2 DEF Listed, At
  <2>3. \A s \in Lists : Walk(l, s) = << >>
    BY <2>2, WalkIs
  <2>4. Walked(l)
    BY <2>2, <2>3 DEF Walked
  <2>5. Members = [s \in Lists |-> << >>]
    BY <2>3 DEF Members, l
  <2> QED
    BY <2>4, <2>5 DEF TL!Init, l
<1>2. IInv /\ Walked(block.links) /\ [Next]_vars
        => (IInv /\ Walked(block.links))' /\ [TL!Next]_Members
  BY NextInv, NextLists
<1> QED
  BY <1>1, <1>2, PTL DEF Spec, ListsRefined, TL!Spec
-----------------------------------------------------------------------------
(* The netlist under the edits. *)

\* What the proofs about dbNetlist say of the block and the running destroy().
NetlistInv(b, cl) ==
  /\ BlockInv(b) /\ PinsInv(b, cl) /\ CallInv(b, cl)
  /\ Typed(b) /\ Owned(b, cl)

LEMMA IInvIs == NetlistInv(block, call) <=> IInv /\ Typed(block) /\ Owned(block, call)
  BY DEF NetlistInv, IInv

(***************************************************************************)
(* A design that was read satisfies the invariant of the calls.            *)
(***************************************************************************)
LEMMA SoundInv ==
  ASSUME NEW b, Sound(b)
  PROVE  NetlistInv(b, Idle)
<1>1. /\ BlockType(b) /\ Slots(b) /\ Connected(b)
      /\ HeadsSound(b.links) /\ NeighboursSound(b.links)
  BY DEF Sound
<1>2. LinksInv(b.links)
  <2>1. PICK r \in [Terms -> 1 .. Size["bterm"] + Size["iterm"]] : Ascends(b.links, r)
    BY DEF Sound
  <2>2. r \in [Terms -> Nat]
    BY <2>1, SizeAssumption DEF Tables
  <2> QED
    BY <1>1, <2>1, <2>2 DEF LinksInv, BlockType
<1>3. BlockInv(b) /\ Typed(b)
  <2>1. Size["iterm"] \in Nat
    BY SizeAssumption DEF Tables
  <2>2. \A t \in ITerms : b.pin[t] \in 0 .. Size["iterm"]
    BY <1>1 DEF BlockType
  <2>3. b.pin \in [ITerms -> Nat] /\ \A t \in ITerms : b.pin[t] <= Size["iterm"]
    BY <1>1, <2>1, <2>2 DEF BlockType
  <2> QED
    BY <1>1, <1>2, <2>3 DEF BlockType, BlockInv, Shape, Typed
<1>4. \A i \in Insts : b.iterms[i] \in Seq(ITerms)
  BY <1>3 DEF BlockInv, Shape
<1>5. ASSUME NEW i \in Insts, i \in b.live, NEW j \in Insts, j \in b.live
      PROVE  Apart(b, i, j)
  <2> SUFFICES ASSUME NEW k \in DOMAIN b.iterms[i], NEW h \in DOMAIN b.iterms[j],
                      b.iterms[i][k] = b.iterms[j][h]
               PROVE  i = j
    BY DEF Apart
  <2> DEFINE t == b.iterms[i][k]
  <2>1. t \in ITerms /\ t \in b.live
    BY <1>4, <1>5 DEF Sound, PinsOf
  <2>2. t \in Elements(b.iterms[i]) /\ t \in Elements(b.iterms[j])
    BY DEF Elements
  <2> HIDE DEF t
  <2>3. Owner(b, t)
    BY <2>1 DEF Sound
  <2> QED
    BY <2>2, <2>3 DEF Owner
<1>6. PinsInv(b, Idle)
  BY <1>5 DEF PinsInv, PinsLeft, Sound, PinsOf
<1>7. Owned(b, Idle)
  BY DEF Owned, Sound, Owner, Idle
<1> QED
  BY <1>3, <1>6, <1>7 DEF NetlistInv, CallInv

(***************************************************************************)
(* setOrigin() moves an instance and nothing else.                         *)
(***************************************************************************)
LEMMA MoveFacts ==
  ASSUME NEW b, NEW cl, NetlistInv(b, cl), NEW i \in Insts, NEW x
  PROVE  LET c == setOrigin(b, i, x)
         IN /\ NetlistInv(c, cl) /\ SameInsts(b, c)
            /\ c.live = b.live /\ c.links = b.links
            /\ \A j \in Insts \ {i} : BBox(c, j) = BBox(b, j)
<1> DEFINE c == setOrigin(b, i, x)
<1>1. DOMAIN b = Fields /\ DOMAIN b.x = Insts
  BY DEF NetlistInv, BlockInv, Shape, Typed
<1>2. /\ DOMAIN c = Fields /\ SameInsts(b, c)
      /\ c.live = b.live /\ c.links = b.links /\ c.free = b.free /\ c.rule = b.rule
      /\ c.orient = b.orient /\ DOMAIN c.x = Insts
      /\ \A j \in Insts \ {i} : c.x[j] = b.x[j]
  BY <1>1 DEF setOrigin, WithBBox, SameInsts, Fields
<1> HIDE DEF c
<1>3. BlockInv(c)
  BY <1>2 DEF NetlistInv, BlockInv, Shape, Slots, Connected, SameInsts
<1>4. PinsInv(c, cl)
  BY <1>2, PinsSame DEF NetlistInv
<1>5. CallInv(c, cl)
  BY <1>2 DEF NetlistInv, CallInv, NetCallInv, InstCallInv
<1>6. Typed(c) /\ Owned(c, cl)
  BY <1>2 DEF NetlistInv, Typed, Owned, SameInsts
<1>7. \A j \in Insts \ {i} : BBox(c, j) = BBox(b, j)
  BY <1>2 DEF BBox, SameInsts
<1> QED
  BY <1>2, <1>3, <1>4, <1>5, <1>6, <1>7 DEF NetlistInv, c

\* The calls of the netlist are those of dbNetlist, and setOrigin().
LEMMA RNextSteps ==
  RNext => [Next]_vars \/ \E i \in Live(Insts), x \in Moves : rMove(i, x)
<1>1. Edit => Next \/ UNCHANGED vars \/ \E i \in Live(Insts), x \in Moves : rMove(i, x)
  BY DEF Edit, Next, rCreateNet, rCreateBTerm, rConnect, SetKind, rDestroyNet,
         rCreateInst, rSwapMaster, rDisconnect, rDestroyBTerm, rDestroyInst
<1>2. Destroy => Next
  BY DEF Destroy, Next, Destroying, rDestroyNet_iterm, rDestroyNet_bterms,
         rDestroyNet_bterm, rDestroyNet_end, rDestroyInst_iterm, rDestroyInst_end
<1>3. Route => UNCHANGED vars
  BY DEF Route, globalRoute, incrementalParasiticsBegin, incrementalParasiticsEnd,
         repairAntennas, updateRoutes, ensureWireParasitic, updateDirtyRoutes,
         updateDirtyRoutes_crash, updateDirtyRoutes_throws, globalRoute_throws,
         repairAntennas_throws, Read
<1> QED
  BY <1>1, <1>2, <1>3 DEF RNext

LEMMA NetlistKept ==
  ASSUME NetlistInv(block, call), RNext \/ UNCHANGED <<vars, grt, edits>>
  PROVE  NetlistInv(block', call')
<1>1. CASE [Next]_vars
  <2>1. IInv' /\ Typed(block') /\ Owned(block', call')
    BY <1>1, IInvIs, NextInv, NextTyped, NextOwned
  <2> QED
    BY <2>1 DEF NetlistInv, IInv
<1>2. CASE \E i \in Live(Insts), x \in Moves : rMove(i, x)
  BY <1>2, MoveFacts DEF rMove, Returns, Live
<1> QED
  BY <1>1, <1>2, RNextSteps DEF vars

-----------------------------------------------------------------------------
(* Pins. *)

\* An instance terminal is where the instance is that it belongs to.
LEMMA PlaceIs ==
  ASSUME NEW b, NEW cl, NetlistInv(b, cl),
         NEW t \in ITerms, NEW i \in Insts, t \in Elements(b.iterms[i])
  PROVE  Place(b, t) = BBox(b, i)
<1>1. t \notin BTerms
  BY BTermFacts, ITermFacts
<1>2. ASSUME NEW j \in Insts, t \in Elements(b.iterms[j]) PROVE j = i
  <2>1. i \in b.live /\ j \in b.live
    BY <1>2 DEF NetlistInv, Owned, Elements
  <2> QED
    BY <1>2, <2>1 DEF NetlistInv, PinsInv, Apart, Elements
<1>3. (CHOOSE j \in Insts : t \in Elements(b.iterms[j])) = i
  BY <1>2
<1> QED
  BY <1>1, <1>3 DEF Place

LEMMA PinsEqual ==
  ASSUME NEW b, NEW c, NEW n,
         \A u \in Terms : b.links.net[u] = n <=> c.links.net[u] = n,
         \A u \in Terms : b.links.net[u] = n => Place(b, u) = Place(c, u)
  PROVE  Pins(c, n) = Pins(b, n)
  BY DEF Pins

\* No net but those that a terminal leaves or comes to has other pins.
LEMMA PinsOfTerm ==
  ASSUME NEW b, NEW c, SameInsts(b, c), c.x = b.x, c.orient = b.orient,
         NEW t \in Terms,
         \A u \in Terms \ {t} : c.links.net[u] = b.links.net[u],
         NEW n, b.links.net[t] # n, c.links.net[t] # n
  PROVE  Pins(c, n) = Pins(b, n)
<1>1. \A u \in Terms : Place(b, u) = Place(c, u)
  BY DEF Place, BBox, SameInsts
<1> QED
  BY <1>1, PinsEqual

\* A net without a terminal on an instance that changes has the pins it had.
LEMMA PinsOfInst ==
  ASSUME NEW b, NEW cl, NetlistInv(b, cl), NEW c, NEW dl, NetlistInv(c, dl),
         c.links = b.links, NEW n \in Nets,
         NEW i \in Insts,
         \A t \in Elements(b.iterms[i]) : t \in b.live => b.links.net[t] # n,
         \A j \in Insts \ {i} : /\ Elements(b.iterms[j]) = Elements(c.iterms[j])
                                /\ BBox(b, j) = BBox(c, j)
  PROVE  Pins(c, n) = Pins(b, n)
<1>1. ASSUME NEW u \in Terms, b.links.net[u] = n
      PROVE  Place(b, u) = Place(c, u)
  <2>1. CASE u \in BTerms
    BY <2>1 DEF Place
  <2>2. CASE u \in ITerms
    <3>1. u \in b.live
      BY <1>1, NetFacts DEF NetlistInv, BlockInv, Connected
    <3>2. PICK j \in Insts : u \in Elements(b.iterms[j])
      BY <2>2, <3>1 DEF NetlistInv, Owned
    <3>3. j # i
      BY <1>1, <3>1, <3>2
    <3>4. Place(b, u) = BBox(b, j)
      BY <2>2, <3>2, PlaceIs
    <3>5. Place(c, u) = BBox(c, j)
      BY <2>2, <3>2, <3>3, PlaceIs
    <3> QED
      BY <3>3, <3>4, <3>5
  <2> QED
    BY <2>1, <2>2 DEF Terms
<1> QED
  BY <1>1, PinsEqual

-----------------------------------------------------------------------------
(* What the calls do to the nets of terminals. *)

LEMMA TermLinks ==
  ASSUME NEW b, BlockInv(b), NEW t \in Terms, t \in b.live
  PROVE  /\ disconnect(b, t).links.net = [b.links.net EXCEPT ![t] = Null]
         /\ Term_destroy(b, t).links.net = [b.links.net EXCEPT ![t] = Null]
<1> DEFINE d == disconnect(b, t)
           e == Term_destroy(b, t)
<1>0. Shape(b) /\ Slots(b) /\ Connected(b)
  BY DEF BlockInv
<1>1. /\ Shape(d) /\ Connected(d) /\ SameInsts(b, d)
      /\ d.live = b.live /\ d.free = b.free
      /\ d.links.net = [b.links.net EXCEPT ![t] = Null]
      /\ d.links.head = Beheaded(b.links, t)
  BY <1>0, DisconnectInv
<1>2. /\ Shape(e) /\ Slots(e) /\ Connected(e) /\ SameInsts(b, e)
      /\ e.live = b.live \ {t}
      /\ e.links.net = [b.links.net EXCEPT ![t] = Null]
      /\ e.links.head = Beheaded(b.links, t)
  BY <1>0, TermDestroyInv
<1> QED
  BY <1>1, <1>2

LEMMA ConnectLinks ==
  ASSUME NEW b, BlockInv(b), NEW t \in Terms, t \in b.live, NEW n
  PROVE  connect(b, t, n).links.net = [b.links.net EXCEPT ![t] = n]
<1> DEFINE d == disconnect(b, t)
           c == [d EXCEPT !.links = Linked(@, t, n)]
<1>0. Shape(b) /\ Connected(b) /\ b.links.net \in [Terms -> Nets \cup {Null}]
  BY DEF BlockInv, Shape, LinksInv, LinksType
<1>1. /\ Shape(d) /\ Connected(d) /\ SameInsts(b, d)
      /\ d.live = b.live /\ d.free = b.free
      /\ d.links.net = [b.links.net EXCEPT ![t] = Null]
      /\ d.links.head = Beheaded(b.links, t)
  BY <1>0, DisconnectInv
<1>2. CASE t \in ITerms /\ b.links.net[t] = n
  <2>1. connect(b, t, n) = b
    BY <1>2 DEF connect
  <2> QED
    BY <1>0, <1>2, <2>1
<1>3. CASE ~ (t \in ITerms /\ b.links.net[t] = n)
  <2>1. connect(b, t, n) = c
    BY <1>3 DEF connect
  <2> HIDE DEF d
  <2>2. c.links = Linked(d.links, t, n)
    BY <1>1 DEF Shape, Fields
  <2>3. Linked(d.links, t, n).net = [d.links.net EXCEPT ![t] = n]
    BY DEF Linked
  <2> HIDE DEF c
  <2> QED
    BY <1>0, <1>1, <2>1, <2>2, <2>3
<1> QED
  BY <1>2, <1>3

LEMMA NetCreateFacts ==
  ASSUME NEW b, BlockInv(b), NEW name, Room(b, "net", 1)
  PROVE  LET m == Head(b.free["net"])
             c == Net_create(b, name)
         IN /\ m \in Nets /\ m \notin b.live
            /\ c.live = b.live \cup {m} /\ c.links = b.links
<1> DEFINE m == Head(b.free["net"])
           d == Take(b, "net", 1)
           c == [d EXCEPT !.name[m] = name]
<1>1. /\ BlockInv(d) /\ SameInsts(b, d) /\ d.links = b.links
      /\ d.live = b.live \cup {m} /\ m \in Objects("net") /\ m \notin b.live
      /\ \A other \in Tables \ {"net"} : d.free[other] = b.free[other]
  BY TakeOne DEF Tables
<1>2. c = Net_create(b, name)
  BY DEF Net_create
<1> HIDE DEF d, m
<1>3. c.live = d.live /\ c.links = d.links
  BY <1>1 DEF BlockInv, Shape, Fields
<1> QED
  BY <1>1, <1>2, <1>3 DEF Nets, m

LEMMA BTermCreateFacts ==
  ASSUME NEW b, BlockInv(b), NEW name, NEW n, Room(b, "bterm", 1)
  PROVE  \E t \in BTerms :
           /\ t \notin b.live
           /\ BTerm_create(b, n, name).links.net = [b.links.net EXCEPT ![t] = n]
<1> DEFINE t == Head(b.free["bterm"])
           d == Take(b, "bterm", 1)
           g == [d EXCEPT !.name[t] = name]
           c == [g EXCEPT !.links = Linked(@, t, n)]
<1>1. /\ BlockInv(d) /\ SameInsts(b, d) /\ d.links = b.links
      /\ d.live = b.live \cup {t} /\ t \in Objects("bterm") /\ t \notin b.live
      /\ \A other \in Tables \ {"bterm"} : d.free[other] = b.free[other]
  BY TakeOne DEF Tables
<1>2. c = BTerm_create(b, n, name)
  BY DEF BTerm_create
<1> HIDE DEF d, t
<1>3. g.links = d.links /\ DOMAIN g = Fields
  BY <1>1 DEF BlockInv, Shape, Fields
<1> HIDE DEF g
<1>4. c.links = Linked(g.links, t, n)
  BY <1>3 DEF Fields
<1>5. Linked(g.links, t, n).net = [g.links.net EXCEPT ![t] = n]
  BY DEF Linked
<1> HIDE DEF c
<1> QED
  BY <1>1, <1>2, <1>3, <1>4, <1>5 DEF BTerms

-----------------------------------------------------------------------------
(* The invariant of the router. *)

\* A net that addNet() took has a Net.
NetsMade ==
  \A n \in (Nets \cap block.live) \ (missed \cup skipped) : db_net_map[n] # NoNet

RouterTypes ==
  /\ dirty_nets \subseteq Nets /\ missed \subseteq Nets /\ skipped \subseteq Nets
  /\ kind \in [Nets -> Kinds]
  /\ DOMAIN db_net_map = Nets /\ DOMAIN routes = Nets
  /\ \A n \in Nets : \A p \in db_net_map[n] \cup routes[n] :
       p = NoPin \/ p[1] \in Terms
  /\ {registered, failed, crashed} \subseteq BOOLEAN /\ edits \in 0 .. MaxEdits

\* The router's own data: their types, and what the properties say of them.
RouterInv == RouterTypes /\ RoutesCurrent /\ NoDeadNets /\ NetsMade /\ CrashHasCause

RInv == NetlistInv(block, call) /\ RouterInv

LEMMA PinsTyped ==
  ASSUME NEW b, NEW n, NEW p \in Pins(b, n)
  PROVE  p[1] \in Terms
  BY DEF Pins

\* The pins of a net, even if it has none, are not those of no Net.
LEMMA PinsMade ==
  ASSUME NEW b, NEW n
  PROVE  Pins(b, n) # NoNet
<1>1. NoPin[1] \notin Terms
  BY TermFacts DEF NoPin
<1> QED
  BY <1>1, PinsTyped DEF NoNet

LEMMA NoRoute == ~ Routable({}) /\ ~ Routable(NoNet)
<1>1. Cardinality({}) = 0
  BY FS_EmptySet
<1>2. Cardinality({NoPin}) = 1
  BY FS_Singleton
<1> QED
  BY <1>1, <1>2 DEF Routable, NoNet

(***************************************************************************)
(* A call that touches the nets S: the others keep their pins.             *)
(***************************************************************************)
LEMMA TouchedInv ==
  ASSUME RouterInv, ~ crashed, edits' \in 0 .. MaxEdits,
         NEW S \in SUBSET Live(Nets), NEW M \in SUBSET S, Marks(S, M),
         Nets \cap block'.live = Nets \cap block.live,
         \A n \in Nets \ S : Pins(block', n) = Pins(block, n)
  PROVE  RouterInv'
<1>1. /\ UNCHANGED <<db_net_map, routes, kind, registered, skipped, failed, crashed>>
      /\ dirty_nets \subseteq dirty_nets' /\ dirty_nets' \subseteq dirty_nets \cup S
      /\ missed \subseteq missed' /\ missed' \subseteq missed \cup S
      /\ S \subseteq dirty_nets' \cup missed'
  BY DEF Marks
<1>2. RouterTypes'
  BY <1>1 DEF RouterInv, RouterTypes, Live
<1>3. RoutesCurrent'
  <2> SUFFICES ASSUME NEW n \in Nets, n \notin dirty_nets', n \notin missed',
                      db_net_map[n] # NoNet
               PROVE  /\ db_net_map[n] = Pins(block', n)
                      /\ Routable(db_net_map[n]) =>
                           routes[n] = db_net_map[n] \/ (failed /\ routes[n] = {})
    BY <1>1 DEF RoutesCurrent
  <2>1. n \notin dirty_nets \cup missed /\ n \notin S
    BY <1>1
  <2> QED
    BY <2>1 DEF RouterInv, RoutesCurrent
<1>4. NoDeadNets'
  BY <1>1 DEF RouterInv, NoDeadNets, Live
<1>5. NetsMade'
  BY <1>1 DEF RouterInv, NetsMade
<1>6. CrashHasCause'
  BY <1>1 DEF CrashHasCause
<1> QED
  BY <1>2, <1>3, <1>4, <1>5, <1>6 DEF RouterInv

LEMMA NetOfLive ==
  ASSUME RInv, NEW t \in Terms
  PROVE  NetOf(t) \subseteq Live(Nets)
<1>1. block.links.net[t] \in Nets \cup {Null}
  BY DEF RInv, NetlistInv, BlockInv, Shape, LinksInv, LinksType
<1> QED
  BY <1>1 DEF RInv, NetlistInv, BlockInv, Connected, NetOf, Live

(***************************************************************************)
(* A terminal leaves its net, or comes to net m: both are told of.         *)
(***************************************************************************)
LEMMA TermStep ==
  ASSUME RInv, ~ crashed, edits' \in 0 .. MaxEdits,
         NEW S \in SUBSET Live(Nets), Touched(S),
         NEW R, Extends(block, block', R), R \cap Nets = {},
         NEW t \in Terms, NEW m,
         block'.links.net = [block.links.net EXCEPT ![t] = m],
         NetOf(t) \subseteq S, m \in S \cup {Null}
  PROVE  RouterInv'
<1>1. Nets \cap block'.live = Nets \cap block.live
  BY NetFacts DEF Extends
<1>2. block.links.net \in [Terms -> Nets \cup {Null}]
  BY DEF RInv, NetlistInv, BlockInv, Shape, LinksInv, LinksType
<1>3. ASSUME NEW n \in Nets \ S PROVE Pins(block', n) = Pins(block, n)
  <2>1. n # Null
    BY NetFacts
  <2>2. block.links.net[t] # n /\ block'.links.net[t] # n
    BY <1>2, <1>3, <2>1 DEF NetOf
  <2>3. SameInsts(block, block') /\ block'.x = block.x /\ block'.orient = block.orient
    BY DEF Extends
  <2>4. \A u \in Terms \ {t} : block'.links.net[u] = block.links.net[u]
    BY <1>2
  <2> QED
    BY ONLY <2>2, <2>3, <2>4, t \in Terms, PinsOfTerm
<1> QED
  BY <1>1, <1>3, TouchedInv DEF RInv, Touched

(***************************************************************************)
(* A call that leaves the nets of all terminals, and all instances but one *)
(* whose nets it touches.                                                  *)
(***************************************************************************)
LEMMA InstStep ==
  ASSUME RInv, NetlistInv(block', call'), ~ crashed, edits' \in 0 .. MaxEdits,
         NEW S \in SUBSET Live(Nets), NEW M \in SUBSET S, Marks(S, M),
         Nets \cap block'.live = Nets \cap block.live,
         block'.links = block.links,
         NEW i \in Insts,
         \A n \in Nets \ S :
           \A t \in Elements(block.iterms[i]) : t \in block.live => block.links.net[t] # n,
         \A j \in Insts \ {i} :
           /\ Elements(block.iterms[j]) = Elements(block'.iterms[j])
           /\ BBox(block, j) = BBox(block', j)
  PROVE  RouterInv'
<1>1. ASSUME NEW n \in Nets \ S
      PROVE  Pins(block', n) = Pins(block, n)
  BY <1>1, PinsOfInst DEF RInv
<1> QED
  BY <1>1, TouchedInv DEF RInv

\* A step in which the callbacks do nothing.
LEMMA NothingTouched == UNCHANGED grt => Marks({}, {})
  BY DEF grt, Marks

LEMMA EditsTyped ==
  ASSUME RInv, Counted \/ Uncounted
  PROVE  ~ crashed /\ edits' \in 0 .. MaxEdits
  BY MaxEditsAssumption DEF Counted, Uncounted, RInv, RouterInv, RouterTypes

LEMMA InstNetsLive ==
  ASSUME RInv, NEW i \in Insts
  PROVE  /\ InstNets(i) \subseteq Live(Nets)
         /\ \A n \in Nets \ InstNets(i) :
              \A t \in Elements(block.iterms[i]) : block.links.net[t] # n
<1>1. \A t \in Elements(block.iterms[i]) : t \in Terms
  <2>1. block.iterms[i] \in Seq(ITerms)
    BY DEF RInv, NetlistInv, BlockInv, Shape
  <2> QED
    BY <2>1, ITermFacts DEF Elements
<1>2. InstNets(i) \subseteq Live(Nets)
  BY <1>1, NetOfLive DEF InstNets
<1>3. ASSUME NEW n \in Nets \ InstNets(i),
             NEW t \in Elements(block.iterms[i]), block.links.net[t] = n
      PROVE  FALSE
  <2>1. n \in NetOf(t)
    BY <1>3, NetFacts DEF NetOf
  <2> QED
    BY <1>3, <2>1 DEF InstNets
<1> QED
  BY <1>2, <1>3

\* The flags and wires of nets matter to addNet() and to the callbacks only.
LEMMA KindStep ==
  ASSUME RouterInv, ~ crashed, edits' \in 0 .. MaxEdits, NEW S \in SUBSET Live(Nets),
         kind' \in [Nets -> Kinds],
         dirty_nets' = dirty_nets \cup S,
         UNCHANGED <<block, db_net_map, routes, registered, missed, skipped, failed, crashed>>
  PROVE  RouterInv'
<1>1. RouterTypes'
  BY DEF RouterInv, RouterTypes, Live
<1>2. RoutesCurrent' /\ NoDeadNets' /\ NetsMade' /\ CrashHasCause'
  BY DEF RouterInv, RoutesCurrent, NoDeadNets, NetsMade, CrashHasCause, Live
<1> QED
  BY <1>1, <1>2 DEF RouterInv

-----------------------------------------------------------------------------
(* The edits. *)

LEMMA EditKept ==
  ASSUME RInv, NetlistInv(block', call'), Edit \/ Destroy
  PROVE  RouterInv'
<1>0. /\ NetlistInv(block, call) /\ BlockInv(block) /\ IInv
      /\ DOMAIN block = Fields /\ DOMAIN block.free = Tables
      /\ block.iterms \in [Insts -> Seq(ITerms)]
      /\ block.links.net \in [Terms -> Nets \cup {Null}]
  BY IInvIs DEF RInv, NetlistInv, BlockInv, Shape, LinksInv, LinksType
<1>a. ASSUME Counted \/ Uncounted PROVE ~ crashed /\ edits' \in 0 .. MaxEdits
  BY <1>a, EditsTyped
<1>b. ASSUME Counted \/ Uncounted, UNCHANGED <<block, grt>> PROVE RouterInv'
  <2>1. Marks({}, {})
    BY <1>b, NothingTouched
  <2> QED
    BY <1>a, <1>b, <2>1, TouchedInv DEF RInv
<1>c. ASSUME Counted \/ Uncounted, NEW t \in Terms, t \in block.live, Touched(NetOf(t)),
             block' \in {disconnect(block, t), Term_destroy(block, t)}
      PROVE  RouterInv'
  <2>1. Extends(block, block', {})
    BY <1>0, <1>c, TermCallsExtend
  <2>2. block'.links.net = [block.links.net EXCEPT ![t] = Null]
    BY <1>0, <1>c, TermLinks
  <2>3. NetOf(t) \in SUBSET Live(Nets)
    BY NetOfLive
  <2> QED
    BY <1>a, <1>c, <2>1, <2>2, <2>3, TermStep
<1>1. ASSUME NEW n \in Live(Nets), NEW name, rCreateBTerm(n, name) PROVE RouterInv'
  <2>1. /\ Counted /\ Touched({n}) /\ Room(block, "bterm", 1)
        /\ block' = BTerm_create(block, n, name)
    BY <1>1 DEF rCreateBTerm, CreateBTerm, Returns
  <2>2. Extends(block, block', Objects("bterm"))
    BY <1>0, <2>1, CreateExtends
  <2>3. PICK t \in BTerms : /\ t \notin block.live
                            /\ block'.links.net = [block.links.net EXCEPT ![t] = n]
    BY <1>0, <2>1, BTermCreateFacts
  <2>4. t \in Terms /\ NetOf(t) = {}
    BY <1>0, <2>3, BTermFacts DEF BlockInv, Connected, NetOf
  <2>5. Objects("bterm") \cap Nets = {}
    BY BTermFacts, NetFacts DEF BTerms
  <2> QED
    BY <1>a, <2>1, <2>2, <2>3, <2>4, <2>5, TermStep DEF Live
<1>2. ASSUME NEW n \in Live(Nets), NEW t \in Live(Terms), rConnect(t, n)
      PROVE  RouterInv'
  <2>1. /\ Counted /\ block' = connect(block, t, n) /\ t \in Terms /\ t \in block.live
        /\ n \in Nets /\ n \in block.live
        /\ Touched(IF t \in ITerms /\ NetOf(t) = {n} THEN {} ELSE NetOf(t) \cup {n})
    BY <1>2 DEF rConnect, Connect, Returns, Live
  <2>2. CASE t \in ITerms /\ NetOf(t) = {n}
    <3>1. block.links.net[t] = n
      BY <2>2 DEF NetOf
    <3>2. block' = block
      BY <2>1, <2>2, <3>1 DEF connect
    <3>3. Touched({})
      BY <2>1, <2>2
    <3> QED
      BY <1>a, <2>1, <3>2, <3>3, TouchedInv DEF RInv, Touched
  <2>3. CASE ~ (t \in ITerms /\ NetOf(t) = {n})
    <3>1. Touched(NetOf(t) \cup {n})
      BY <2>1, <2>3
    <3>2. Extends(block, block', {})
      BY <1>0, <2>1, TermCallsExtend
    <3>3. block'.links.net = [block.links.net EXCEPT ![t] = n]
      BY <1>0, <2>1, ConnectLinks
    <3>4. NetOf(t) \cup {n} \in SUBSET Live(Nets)
      BY <2>1, NetOfLive
    <3> QED
      BY <1>a, <2>1, <3>1, <3>2, <3>3, <3>4, TermStep
  <2> QED
    BY <2>2, <2>3
<1>3. ASSUME NEW t \in Live(Terms), rDisconnect(t) \/ rDestroyBTerm(t) PROVE RouterInv'
  BY <1>c, <1>3 DEF rDisconnect, rDestroyBTerm, Disconnect, DestroyBTerm, Returns, Live
<1>4. CASE rDestroyNet_iterm \/ rDestroyNet_bterm
  BY <1>c, <1>0, <1>4, CallTerms
  DEF rDestroyNet_iterm, rDestroyNet_bterm, DestroyNet_iterm, DestroyNet_bterm, Live
<1>5. CASE rDestroyInst_iterm
  BY <1>c, <1>0, <1>5, CallTerms, ITermFacts
  DEF rDestroyInst_iterm, DestroyInst_iterm, Live
<1>6. CASE \/ \E n \in Live(Nets) : rDestroyNet(n)
           \/ \E i \in Live(Insts) : rDestroyInst(i)
           \/ rDestroyNet_bterms
  BY <1>b, <1>6
  DEF rDestroyNet, DestroyNet, rDestroyInst, DestroyInst, rDestroyNet_bterms,
      DestroyNet_bterms
<1>7. ASSUME NEW m \in Masters, NEW name, rCreateInst(m, name) PROVE RouterInv'
  <2>1. Counted /\ CreateInst(m, name) /\ Marks({}, {})
    BY <1>7, NothingTouched DEF rCreateInst
  <2>2. PICK i \in Insts \ block.live, ts \in Seq(ITerms \ block.live) :
          InstCreated(block, block', m, i, ts)
    BY <1>0, <2>1, InstCreateFacts DEF CreateInst, Returns
  <2>3. Nets \cap block'.live = Nets \cap block.live
    <3>1. Elements(ts) \subseteq ITerms
      BY <2>2 DEF Elements
    <3> QED
      BY <2>2, <3>1, ITermFacts, NetFacts, InstFacts DEF InstCreated
  <2>4. \A t \in Elements(block.iterms[i]) : FALSE
    BY <1>0, <2>2 DEF NetlistInv, Owned, Elements
  <2>5. \A j \in Insts \ {i} : /\ Elements(block.iterms[j]) = Elements(block'.iterms[j])
                               /\ BBox(block, j) = BBox(block', j)
    <3>1. block.master \in [Insts -> Masters \cup {NoMaster}]
      BY <1>0 DEF BlockInv, Shape
    <3> QED
      BY <1>0, <2>2, <3>1 DEF InstCreated, BBox
  <2>6. block'.links = block.links /\ i \in Insts /\ {} \in SUBSET Live(Nets)
    BY <2>2 DEF InstCreated
  <2> QED
    BY <1>a, <2>1, <2>3, <2>4, <2>5, <2>6, InstStep
<1>8. ASSUME NEW i \in Live(Insts), NEW x, rMove(i, x) PROVE RouterInv'
  <2>1. /\ Counted /\ block' = setOrigin(block, i, x) /\ i \in Insts
    BY <1>8 DEF rMove, Returns, Live
  <2>5. PICK M \in SUBSET InstNets(i) : Marks(InstNets(i), M)
    BY <1>8 DEF rMove, instItermsDirty
  <2>2. /\ SameInsts(block, block') /\ block'.live = block.live
        /\ block'.links = block.links
        /\ \A j \in Insts \ {i} : BBox(block', j) = BBox(block, j)
    BY <1>0, <2>1, MoveFacts
  <2>3. \A j \in Insts \ {i} : /\ Elements(block.iterms[j]) = Elements(block'.iterms[j])
                               /\ BBox(block, j) = BBox(block', j)
    BY <2>2 DEF SameInsts
  <2>4. /\ InstNets(i) \in SUBSET Live(Nets)
        /\ \A n \in Nets \ InstNets(i) :
             \A t \in Elements(block.iterms[i]) : block.links.net[t] # n
    BY <2>1, InstNetsLive
  <2> QED
    BY <1>a, <2>1, <2>2, <2>3, <2>4, <2>5, InstStep
<1>9. ASSUME NEW m \in Masters, NEW i \in Live(Insts), rSwapMaster(i, m) PROVE RouterInv'
  <2>1. /\ Counted /\ block' = swapMaster(block, i, m) /\ i \in Insts /\ i \in block.live
        /\ call = Idle
        /\ IF Equivalent(m, block.master[i]) THEN instItermsDirty(i) ELSE UNCHANGED grt
    BY <1>9 DEF rSwapMaster, SwapMaster, Returns, Live
  <2>2. CASE ~ Equivalent(m, block.master[i])
    <3>1. block' = block /\ Marks({}, {})
      BY <2>1, <2>2, NothingTouched DEF swapMaster
    <3> QED
      BY <1>a, <2>1, <3>1, TouchedInv DEF RInv
  <2>3. CASE Equivalent(m, block.master[i])
    <3>1. Swapped(block, block', i, m)
      BY <1>0, <2>1, <2>3, SwapMasterFacts DEF NetlistInv
    <3>2. \A j \in Insts \ {i} : /\ Elements(block.iterms[j]) = Elements(block'.iterms[j])
                                 /\ BBox(block, j) = BBox(block', j)
      <4>1. block.master \in [Insts -> Masters \cup {NoMaster}]
        BY <1>0 DEF BlockInv, Shape
      <4> QED
        BY <3>1, <4>1 DEF Swapped, BBox
    <3>3. /\ InstNets(i) \in SUBSET Live(Nets)
          /\ \A n \in Nets \ InstNets(i) :
               \A t \in Elements(block.iterms[i]) : block.links.net[t] # n
      BY <2>1, InstNetsLive
    <3>5. PICK M \in SUBSET InstNets(i) : Marks(InstNets(i), M)
      BY <2>1, <2>3 DEF instItermsDirty
    <3>4. block'.links = block.links /\ block'.live = block.live
      BY <3>1 DEF Swapped
    <3> QED
      BY <1>a, <2>1, <3>2, <3>3, <3>4, <3>5, InstStep
  <2> QED
    BY <2>2, <2>3
<1>10. CASE rDestroyInst_end
  <2> DEFINE i == call.obj
             s == block.iterms[i]
  <2>1. /\ Uncounted /\ Marks({}, {}) /\ i \in Insts /\ block' = Inst_delete(block, i)
        /\ call.k \in Nat /\ call.k > Len(s)
        /\ \A k \in DOMAIN s : k < call.k => s[k] \notin block.live
    BY <1>0, <1>10, CallKinds, NothingTouched
    DEF rDestroyInst_end, DestroyInst_end, NetlistInv, InstCallInv, InstCall, Owned
  <2>2. s \in Seq(ITerms)
    BY <1>0, <2>1
  <2>3. \A k \in DOMAIN s : s[k] \notin block.live
    BY <2>1, <2>2
  <2>4. \A t \in Elements(s) : t \notin block.live
    BY <2>3 DEF Elements
  <2> HIDE DEF i
  <2>5. InstDeleted(block, block', i)
    BY <1>0, <2>1, DeleteFacts
  <2>6. Nets \cap block'.live = Nets \cap block.live
    BY <2>1, <2>5, InstFacts DEF InstDeleted
  <2>7. \A j \in Insts \ {i} : /\ Elements(block.iterms[j]) = Elements(block'.iterms[j])
                               /\ BBox(block, j) = BBox(block', j)
    <3>1. /\ block.master \in [Insts -> Masters \cup {NoMaster}]
          /\ DOMAIN block.x = Insts /\ DOMAIN block.orient = Insts
      BY <1>0 DEF BlockInv, Shape, NetlistInv, Typed
    <3> QED
      BY <1>0, <2>5, <3>1 DEF InstDeleted, BBox
  <2>8. block'.links = block.links /\ {} \in SUBSET Live(Nets)
    BY <2>5 DEF InstDeleted
  <2> QED
    BY <1>a, <2>1, <2>4, <2>6, <2>7, <2>8, InstStep
<1>d. ASSUME SameInsts(block, block'), block'.x = block.x, block'.orient = block.orient,
             block'.links = block.links, NEW n
      PROVE  Pins(block', n) = Pins(block, n)
  <2>1. \A u \in Terms : Place(block, u) = Place(block', u)
    BY <1>d DEF Place, BBox, SameInsts
  <2> QED
    BY <1>d, <2>1, PinsEqual
<1>11. ASSUME NEW name, rCreateNet(name) PROVE RouterInv'
  <2> DEFINE m == Head(block.free["net"])
  <2>1. /\ Counted /\ Room(block, "net", 1) /\ block' = Net_create(block, name)
        /\ kind' = [kind EXCEPT ![m] = "signal"]
        /\ \/ /\ db_net_map' = [db_net_map EXCEPT ![m] = {}]
              /\ missed' = missed \ {m}
           \/ missed' = missed \cup {m} /\ UNCHANGED db_net_map
        /\ skipped' = skipped \ {m}
        /\ UNCHANGED <<dirty_nets, routes, registered, failed, crashed>>
    BY <1>11 DEF rCreateNet, CreateNet, Returns
  <2>2. /\ m \in Nets /\ m \notin block.live
        /\ block'.live = block.live \cup {m} /\ block'.links = block.links
    BY <1>0, <2>1, NetCreateFacts
  <2>3. Extends(block, block', Objects("net"))
    BY <1>0, <2>1, CreateExtends
  <2> HIDE DEF m
  <2>4. \A n \in Nets : Pins(block', n) = Pins(block, n)
    BY <1>d, <2>2, <2>3 DEF Extends
  <2>5. Pins(block', m) = {}
    <3>1. \A u \in Terms : block'.links.net[u] # m
      BY <1>0, <2>2, NetFacts DEF BlockInv, Connected
    <3> QED
      BY <3>1 DEF Pins
  <2>6. {} # NoNet /\ ~ Routable({})
    BY NoRoute DEF NoNet
  <2>7. /\ DOMAIN db_net_map = Nets /\ DOMAIN routes = Nets /\ kind \in [Nets -> Kinds]
        /\ dirty_nets \subseteq Nets /\ missed \subseteq Nets /\ skipped \subseteq Nets
    BY DEF RInv, RouterInv, RouterTypes
  <2>8. RoutesCurrent'
    <3> SUFFICES ASSUME NEW n \in Nets, n \notin dirty_nets', n \notin missed',
                        db_net_map'[n] # NoNet
                 PROVE  /\ db_net_map'[n] = Pins(block', n)
                        /\ Routable(db_net_map'[n]) =>
                             \/ routes'[n] = db_net_map'[n]
                             \/ failed' /\ routes'[n] = {}
      BY DEF RoutesCurrent
    <3>1. CASE n = m
      BY <2>1, <2>2, <2>5, <2>6, <2>7, <3>1
    <3>2. CASE n # m
      <4>1. /\ db_net_map'[n] = db_net_map[n] /\ n \notin dirty_nets \cup missed
        BY <2>1, <2>7, <3>2
      <4> QED
        BY <2>1, <2>4, <4>1 DEF RInv, RouterInv, RoutesCurrent
    <3> QED
      BY <3>1, <3>2
  <2>9. NoDeadNets'
    BY <2>1, <2>2, <2>7 DEF RInv, RouterInv, NoDeadNets
  <2>10. NetsMade'
    BY <2>1, <2>2, <2>6, <2>7 DEF RInv, RouterInv, NetsMade
  <2>11. CrashHasCause' /\ edits' \in 0 .. MaxEdits
    BY <1>a, <2>1 DEF CrashHasCause
  <2>12. RouterTypes'
    BY <2>1, <2>2, <2>7, <2>11 DEF RInv, RouterInv, RouterTypes, Kinds
  <2> QED
    BY <2>8, <2>9, <2>10, <2>11, <2>12 DEF RouterInv
<1>12. CASE rDestroyNet_end
  <2> DEFINE m == call.obj
  <2>1. /\ Uncounted /\ m \in Nets /\ block' = Net_delete(block, m)
        /\ \/ /\ db_net_map' = [db_net_map EXCEPT ![m] = NoNet]
              /\ routes' = [routes EXCEPT ![m] = {}]
              /\ dirty_nets' = dirty_nets \ {m}
              /\ missed' = missed \ {m} /\ skipped' = skipped \ {m}
           \/ /\ missed' = missed \cup {m}
              /\ UNCHANGED <<db_net_map, routes, dirty_nets, skipped>>
        /\ UNCHANGED <<kind, registered, failed, crashed>>
    BY <1>0, <1>12, CallKinds
    DEF rDestroyNet_end, removeNet, DestroyNet_end, NetlistInv, NetCallInv, NetCall
  <2> HIDE DEF m
  <2>2. NetDeleted(block, block', m)
    BY <1>0, <2>1, DeleteFacts
  <2>3. \A n \in Nets : Pins(block', n) = Pins(block, n)
    BY <1>d, <2>2 DEF NetDeleted
  <2>4. /\ DOMAIN db_net_map = Nets /\ DOMAIN routes = Nets /\ kind \in [Nets -> Kinds]
        /\ dirty_nets \subseteq Nets /\ missed \subseteq Nets /\ skipped \subseteq Nets
    BY DEF RInv, RouterInv, RouterTypes
  <2>5. RoutesCurrent'
    <3> SUFFICES ASSUME NEW n \in Nets, n \notin dirty_nets', n \notin missed',
                        db_net_map'[n] # NoNet
                 PROVE  /\ db_net_map'[n] = Pins(block', n)
                        /\ Routable(db_net_map'[n]) =>
                             \/ routes'[n] = db_net_map'[n]
                             \/ failed' /\ routes'[n] = {}
      BY DEF RoutesCurrent
    <3>1. n # m
      BY <2>1, <2>4
    <3>2. /\ db_net_map'[n] = db_net_map[n]
          /\ routes'[n] = routes[n] /\ failed' = failed
          /\ n \notin dirty_nets \cup missed
      BY <2>1, <2>4, <3>1
    <3> QED
      BY <2>3, <3>2 DEF RInv, RouterInv, RoutesCurrent
  <2>6. NoDeadNets'
    <3> SUFFICES ASSUME NEW n \in Nets,
                        n \in dirty_nets' \/ db_net_map'[n] # NoNet \/ routes'[n] # {}
                 PROVE  n \in block'.live \cup missed'
      BY DEF NoDeadNets
    <3>1. CASE n = m
      BY <2>1, <2>4, <3>1
    <3>2. CASE n # m
      <4>1. /\ n \in dirty_nets \/ db_net_map[n] # NoNet \/ routes[n] # {}
            /\ missed \ {m} \subseteq missed' /\ block'.live = block.live \ {m}
        BY <2>1, <2>2, <2>4, <3>2 DEF NetDeleted
      <4> QED
        BY <3>2, <4>1 DEF RInv, RouterInv, NoDeadNets
    <3> QED
      BY <3>1, <3>2
  <2>7. NetsMade'
    BY <2>1, <2>2, <2>4 DEF NetDeleted, RInv, RouterInv, NetsMade
  <2>8. CrashHasCause' /\ edits' \in 0 .. MaxEdits
    BY <1>a, <2>1 DEF CrashHasCause
  <2>9. RouterTypes'
    BY <2>1, <2>4, <2>8 DEF RInv, RouterInv, RouterTypes, NoNet
  <2> QED
    BY <2>5, <2>6, <2>7, <2>8, <2>9 DEF RouterInv
<1>13. ASSUME NEW n \in Live(Nets), NEW k \in Kinds, SetKind(n, k)
       PROVE  RouterInv'
  <2>1. /\ Counted /\ kind' = [kind EXCEPT ![n] = k]
        /\ UNCHANGED <<block, db_net_map, dirty_nets, routes, registered, missed,
                       skipped, failed, crashed>>
    BY <1>13 DEF SetKind, vars
  <2>2. kind' \in [Nets -> Kinds] /\ dirty_nets' = dirty_nets \cup {}
    BY <2>1 DEF RInv, RouterInv, RouterTypes
  <2> QED
    BY <1>a, <2>1, <2>2, KindStep DEF RInv
<1> QED
  BY <1>1, <1>2, <1>3, <1>4, <1>5, <1>6, <1>7, <1>8, <1>9, <1>10, <1>11, <1>12, <1>13
  DEF Edit, Destroy, Live, Terms

-----------------------------------------------------------------------------
(* The router. *)

\* initNetlist() and findRouting() take live nets only, and their pins.
LEMMA RouteAll ==
  ASSUME NEW k
  PROVE  LET map == initNetlist(block, k)
         IN /\ DOMAIN map = Nets /\ DOMAIN findRouting(map) = Nets
            /\ \A n \in Nets :
                 /\ map[n] = IF n \in Added(block, k) THEN Pins(block, n) ELSE NoNet
                 /\ findRouting(map)[n] = IF Routable(map[n]) THEN map[n] ELSE {}
                 /\ findRouting(map)[n] # {} => map[n] # NoNet
                 /\ \A p \in map[n] \cup findRouting(map)[n] : p = NoPin \/ p[1] \in Terms
  BY PinsTyped, NoRoute DEF initNetlist, findRouting, NoNet

\* What a globalRoute() that threw left is a part of what it should have read.
LEMMA InterruptedFacts ==
  ASSUME NEW map \in Interrupted
  PROVE  /\ DOMAIN map = Nets
         /\ \A n \in Nets :
              /\ map[n] # NoNet => n \in Added(block, kind)
              /\ \A p \in map[n] : p = NoPin \/ p[1] \in Terms
<1>1. ASSUME NEW g, g = [n \in Nets |-> NoNet] \/ g = initNetlist(block, kind)
      PROVE  /\ DOMAIN g = Nets
             /\ \A n \in Nets : /\ g[n] # NoNet => n \in Added(block, kind)
                                /\ \A p \in g[n] : p = NoPin \/ p[1] \in Terms
  BY <1>1, PinsTyped DEF initNetlist, NoNet
<1>2. ASSUME NEW bad \in Added(block, kind), NEW pins \in SUBSET Pins(block, bad),
             map = addNet_throws(bad, pins)
      PROVE  /\ DOMAIN map = Nets
             /\ \A n \in Nets : /\ map[n] # NoNet => n \in Added(block, kind)
                                /\ \A p \in map[n] : p = NoPin \/ p[1] \in Terms
  <2> DEFINE all == initNetlist(block, kind)
  <2>1. \A n \in Nets : /\ all[n] # NoNet => n \in Added(block, kind)
                        /\ \A p \in all[n] : p = NoPin \/ p[1] \in Terms
    BY <1>1
  <2>2. /\ DOMAIN map = Nets
        /\ \A n \in Nets : /\ map[n] \in {pins, all[n], NoNet}
                           /\ map[n] # NoNet => n = bad \/ map[n] = all[n]
    BY <1>2 DEF addNet_throws
  <2>3. \A p \in pins : p[1] \in Terms
    BY <1>2, PinsTyped
  <2> HIDE DEF all
  <2> QED
    BY <1>2, <2>1, <2>2, <2>3 DEF NoNet
<1>3. \/ map = [n \in Nets |-> NoNet] \/ map = initNetlist(block, kind)
      \/ \E bad \in Added(block, kind) : \E pins \in SUBSET Pins(block, bad) :
           map = addNet_throws(bad, pins)
  BY DEF Interrupted
<1> QED
  BY <1>1, <1>2, <1>3

(***************************************************************************)
(* globalRoute() read a part of the netlist and routed it, or threw.       *)
(***************************************************************************)
LEMMA ReadInv ==
  ASSUME RInv, ~ crashed, edits' \in 0 .. MaxEdits,
         NEW map, Read(map), DOMAIN map = Nets,
         \A n \in Nets : /\ map[n] # NoNet => n \in Added(block, kind)
                         /\ \A p \in map[n] : p = NoPin \/ p[1] \in Terms,
         \/ routes' = findRouting(map) /\ failed' = FALSE
         \/ routes' = [n \in Nets |-> {}] /\ failed' = TRUE
  PROVE  RouterInv'
<1>0. /\ kind \in [Nets -> Kinds] /\ dirty_nets \subseteq Nets /\ registered \in BOOLEAN
      /\ dirty_nets \subseteq block.live \cup missed /\ crashed \in BOOLEAN
  BY DEF RInv, RouterInv, RouterTypes, NoDeadNets
<1>1. /\ UNCHANGED <<block, dirty_nets, kind, registered, crashed>>
      /\ db_net_map' = map /\ skipped' = Skipped(block, kind)
      /\ \A n \in Nets :
           n \in missed' <=> IF n \in block.live
                             THEN n \in Added(block, kind) /\ map[n] # Pins(block, n)
                             ELSE n \in missed \cap dirty_nets
      /\ missed' \subseteq Nets
  BY DEF Read, vars
<1>2. /\ DOMAIN routes' = Nets
      /\ \A n \in Nets :
           /\ routes'[n] = {} \/ (routes'[n] = map[n] /\ Routable(map[n]))
           /\ Routable(map[n]) => routes'[n] = map[n] \/ (failed' /\ routes'[n] = {})
  BY DEF findRouting
<1>3. \A n \in Nets : n \in Added(block, kind) => n \in block.live
  BY DEF Added
<1>4. RoutesCurrent'
  BY <1>1, <1>2, <1>3 DEF RoutesCurrent
<1>5. NoDeadNets'
  BY <1>0, <1>1, <1>2, <1>3, NoRoute DEF NoDeadNets
<1>6. NetsMade'
  BY <1>1, PinsMade DEF NetsMade, Added
<1>7. CrashHasCause'
  BY <1>1 DEF CrashHasCause
<1>8. RouterTypes'
  <2>1. Skipped(block, kind) \subseteq Nets
    BY DEF Skipped
  <2> QED
    BY <1>0, <1>1, <1>2, <2>1 DEF RouterTypes
<1> QED
  BY <1>4, <1>5, <1>6, <1>7, <1>8 DEF RouterInv

LEMMA Rerouting ==
  ASSUME RInv, Counted \/ Uncounted, NEW D \in SUBSET Nets, dirty_nets \subseteq D,
         \/ updateDirtyRoutes(D) \/ updateDirtyRoutes_throws(D)
         \/ updateDirtyRoutes_crash(D),
         D \subseteq block.live \cup missed
  PROVE  RouterInv'
<1>0. RouterTypes /\ ~ crashed /\ edits' \in 0 .. MaxEdits
  BY EditsTyped DEF RInv, RouterInv
<1>1. CASE updateDirtyRoutes(D)
  <2>1. /\ UNCHANGED <<block, kind, registered, skipped, failed, crashed>>
        /\ \A n \in D : n \in block.live
        /\ dirty_nets' = {} /\ missed' = missed \ D
        /\ DOMAIN db_net_map' = Nets /\ DOMAIN routes' = Nets
        /\ \A n \in Nets :
             /\ db_net_map'[n] = IF n \in D THEN Pins(block, n) ELSE db_net_map[n]
             /\ routes'[n] = IF n \in D /\ Routable(db_net_map'[n])
                             THEN db_net_map'[n] ELSE routes[n]
    BY <1>1 DEF updateDirtyRoutes, Rerouted, Usable, vars
  <2>2. RoutesCurrent'
    BY <2>1 DEF RInv, RouterInv, RoutesCurrent
  <2>3. NoDeadNets'
    BY <2>1 DEF RInv, RouterInv, NoDeadNets
  <2>4. NetsMade'
    BY <2>1, PinsMade DEF RInv, RouterInv, NetsMade
  <2>5. CrashHasCause'
    BY <1>0, <2>1 DEF CrashHasCause
  <2>6. RouterTypes'
    BY <1>0, <2>1, PinsTyped DEF RouterTypes
  <2> QED
    BY <2>2, <2>3, <2>4, <2>5, <2>6 DEF RouterInv
<1>2. CASE updateDirtyRoutes_crash(D)
  <2>1. /\ UNCHANGED <<block, db_net_map, routes, kind, registered, missed, skipped, failed>>
        /\ dirty_nets' = D /\ crashed' = TRUE
    BY <1>2 DEF updateDirtyRoutes_crash, vars
  <2>2. RoutesCurrent' /\ NoDeadNets' /\ NetsMade'
    BY <2>1 DEF RInv, RouterInv, RoutesCurrent, NoDeadNets, NetsMade
  <2>3. CrashHasCause'
    <3>1. PICK n \in D : ~ Usable(n)
      BY <1>2 DEF updateDirtyRoutes_crash
    <3>2. n \in missed \cup skipped
      BY <3>1 DEF Usable, RInv, RouterInv, NetsMade
    <3> QED
      BY <2>1, <3>1, <3>2 DEF CrashHasCause, Usable
  <2>4. RouterTypes'
    BY <1>0, <2>1 DEF RouterTypes
  <2> QED
    BY <2>2, <2>3, <2>4 DEF RouterInv
<1>3. CASE updateDirtyRoutes_throws(D)
  <2>1. /\ UNCHANGED <<block, routes, kind, registered, missed, skipped, failed, crashed>>
        /\ dirty_nets' = D
    BY <1>3 DEF updateDirtyRoutes_throws, vars
  <2>a. PICK R \in SUBSET {n \in D : Usable(n)} :
          \E bad \in R : \E pins \in SUBSET Pins(block, bad) :
            db_net_map' = [n \in Nets |-> IF n = bad THEN pins
                                          ELSE IF n \in R THEN Pins(block, n)
                                          ELSE db_net_map[n]]
    BY <1>3 DEF updateDirtyRoutes_throws
  <2>b. PICK bad \in R : \E pins \in SUBSET Pins(block, bad) :
            db_net_map' = [n \in Nets |-> IF n = bad THEN pins
                                          ELSE IF n \in R THEN Pins(block, n)
                                          ELSE db_net_map[n]]
    BY <2>a
  <2>2. PICK pins \in SUBSET Pins(block, bad) :
            db_net_map' = [n \in Nets |-> IF n = bad THEN pins
                                          ELSE IF n \in R THEN Pins(block, n)
                                          ELSE db_net_map[n]]
    BY <2>b
  <2>3. \A n \in Nets :
          /\ n \notin R => db_net_map'[n] = db_net_map[n]
          /\ n \in R => /\ n \in D /\ n \in block.live /\ db_net_map'[n] # NoNet
                        /\ \A p \in db_net_map'[n] : p[1] \in Terms
    <3>1. \A p \in pins : p[1] \in Terms
      BY PinsTyped
    <3>2. NoPin[1] \notin Terms
      BY TermFacts DEF NoPin
    <3> QED
      BY <2>2, <3>1, <3>2, PinsTyped, PinsMade DEF Usable, NoNet
  <2>4. DOMAIN db_net_map' = Nets
    BY <2>2
  <2>5. RoutesCurrent' /\ NoDeadNets' /\ NetsMade'
    BY <2>1, <2>3 DEF RInv, RouterInv, RoutesCurrent, NoDeadNets, NetsMade
  <2>6. CrashHasCause'
    BY <1>0, <2>1 DEF CrashHasCause
  <2>7. RouterTypes'
    BY <1>0, <2>1, <2>3, <2>4 DEF RouterTypes
  <2> QED
    BY <2>5, <2>6, <2>7 DEF RouterInv
<1> QED
  BY <1>1, <1>2, <1>3

LEMMA RouteKept == ASSUME RInv, Route PROVE RouterInv'
<1>0. RouterTypes /\ RouterInv
  BY DEF RInv, RouterInv
<1>a. dirty_nets \subseteq Nets /\ dirty_nets \subseteq block.live \cup missed
  BY DEF RInv, RouterInv, RouterTypes, NoDeadNets
<1>b. ASSUME Counted \/ Uncounted PROVE ~ crashed /\ edits' \in 0 .. MaxEdits
  BY <1>b, EditsTyped
<1>1. CASE globalRoute
  <2>1. /\ Uncounted /\ Read(initNetlist(block, kind)) /\ failed' = FALSE
        /\ routes' = findRouting(initNetlist(block, kind))
    BY <1>1 DEF globalRoute, Read
  <2>2. initNetlist(block, kind) \in Interrupted
    BY DEF Interrupted
  <2> QED
    BY <1>b, <2>1, <2>2, InterruptedFacts, ReadInv
<1>2. ASSUME NEW map \in Interrupted, globalRoute_throws(map) PROVE RouterInv'
  <2>1. /\ Counted /\ Read(map) /\ failed' = TRUE
        /\ routes' = [n \in Nets |-> {}]
    BY <1>2 DEF globalRoute_throws
  <2> QED
    BY <1>b, <2>1, InterruptedFacts, ReadInv
<1>3. CASE incrementalParasiticsBegin \/ incrementalParasiticsEnd
  <2>1. /\ Uncounted /\ registered' \in BOOLEAN
        /\ UNCHANGED <<block, db_net_map, dirty_nets, routes, kind, missed, skipped,
                       failed, crashed>>
    BY <1>3 DEF incrementalParasiticsBegin, incrementalParasiticsEnd, vars
  <2>2. ~ crashed /\ edits' \in 0 .. MaxEdits
    BY <1>b, <2>1
  <2> QED
    BY <1>0, <2>1, <2>2
    DEF RouterInv, RouterTypes, RoutesCurrent, NoDeadNets, NetsMade, CrashHasCause
<1>4. ASSUME NEW S \in SUBSET Routed, repairAntennas(S)
      PROVE  RouterInv'
  <2>1. /\ Uncounted /\ registered' = TRUE /\ dirty_nets' = dirty_nets \cup S
        /\ UNCHANGED <<block, db_net_map, routes, kind, missed, skipped, failed, crashed>>
        /\ S \subseteq Nets /\ S \subseteq block.live
    BY <1>4 DEF repairAntennas, vars, Routed, Live
  <2>2. ~ crashed /\ edits' \in 0 .. MaxEdits
    BY <1>b, <2>1
  <2>3. RoutesCurrent' /\ NoDeadNets' /\ NetsMade' /\ CrashHasCause'
    BY <2>1, <2>2
    DEF RInv, RouterInv, RoutesCurrent, NoDeadNets, NetsMade, CrashHasCause
  <2>4. RouterTypes'
    BY <1>0, <2>1, <2>2 DEF RouterTypes
  <2> QED
    BY <2>3, <2>4 DEF RouterInv
<1>5. ASSUME NEW S \in SUBSET Routed, NEW n \in Routed, repairAntennas_throws(S, n)
      PROVE  RouterInv'
  <2>1. /\ Counted /\ dirty_nets' = dirty_nets \cup S
        /\ kind' = [kind EXCEPT ![n] = IF @ = "signal" THEN "wired" ELSE @]
        /\ UNCHANGED <<block, db_net_map, routes, registered, missed, skipped, failed, crashed>>
        /\ S \in SUBSET Live(Nets)
    BY <1>5 DEF repairAntennas_throws, vars, Routed
  <2>2. kind' \in [Nets -> Kinds]
    BY <1>0, <2>1 DEF RouterTypes, Kinds
  <2> QED
    BY <1>0, <1>b, <2>1, <2>2, KindStep
<1>6. CASE updateRoutes
  <2>1. /\ \/ updateDirtyRoutes(dirty_nets) \/ updateDirtyRoutes_throws(dirty_nets)
           \/ updateDirtyRoutes_crash(dirty_nets)
        /\ Counted \/ Uncounted
    BY <1>6 DEF updateRoutes, updateDirtyRoutes, updateDirtyRoutes_throws,
                updateDirtyRoutes_crash
  <2> QED
    BY <1>a, <2>1, Rerouting
<1>7. ASSUME NEW n \in Live(Nets), ensureWireParasitic(n) PROVE RouterInv'
  <2> DEFINE D == dirty_nets \cup {n}
  <2>1. /\ \/ updateDirtyRoutes(D) \/ updateDirtyRoutes_throws(D)
           \/ updateDirtyRoutes_crash(D)
        /\ Counted \/ Uncounted
    BY <1>7 DEF ensureWireParasitic, updateDirtyRoutes, updateDirtyRoutes_throws,
                updateDirtyRoutes_crash
  <2>2. D \in SUBSET Nets /\ dirty_nets \subseteq D /\ D \subseteq block.live \cup missed
    BY <1>a DEF Live
  <2> HIDE DEF D
  <2> QED
    BY <2>1, <2>2, Rerouting
<1> QED
  BY <1>1, <1>2, <1>3, <1>4, <1>5, <1>6, <1>7 DEF Route

-----------------------------------------------------------------------------
(* The theorems. *)

LEMMA RInitInv == RInit => RInv
<1> SUFFICES ASSUME RInit PROVE RInv
  OBVIOUS
<1>1. NetlistInv(block, call)
  BY SoundInv, DesignsAssumption DEF RInit
<1>2. /\ db_net_map = initNetlist(block, kind)
      /\ routes = findRouting(db_net_map)
      /\ dirty_nets = {} /\ missed = {} /\ skipped = Skipped(block, kind)
      /\ registered = FALSE /\ failed = FALSE /\ crashed = FALSE
      /\ edits = 0 /\ kind \in [Nets -> Kinds]
  BY DEF RInit
<1>3. /\ DOMAIN db_net_map = Nets /\ DOMAIN routes = Nets
      /\ \A n \in Nets :
           /\ db_net_map[n] = IF n \in Added(block, kind) THEN Pins(block, n) ELSE NoNet
           /\ routes[n] = IF Routable(db_net_map[n]) THEN db_net_map[n] ELSE {}
           /\ routes[n] # {} => db_net_map[n] # NoNet
           /\ \A p \in db_net_map[n] \cup routes[n] : p = NoPin \/ p[1] \in Terms
  BY <1>2, RouteAll
<1>4. RoutesCurrent /\ NoDeadNets
  BY <1>2, <1>3 DEF RoutesCurrent, NoDeadNets, Added
<1>5. NetsMade
  BY <1>2, <1>3, PinsMade DEF NetsMade, Added
<1>6. CrashHasCause
  BY <1>2 DEF CrashHasCause
<1>7. edits \in 0 .. MaxEdits /\ Skipped(block, kind) \subseteq Nets
  BY <1>2, MaxEditsAssumption DEF Skipped
<1>8. {registered, failed, crashed} \subseteq BOOLEAN
  BY <1>2
<1>9. RouterTypes
  BY <1>2, <1>3, <1>7, <1>8 DEF RouterTypes
<1> QED
  BY <1>1, <1>4, <1>5, <1>6, <1>9 DEF RInv, RouterInv

LEMMA RNextInv == RInv /\ [RNext]_<<vars, grt, edits>> => RInv'
<1> SUFFICES ASSUME RInv, [RNext]_<<vars, grt, edits>> PROVE RInv'
  OBVIOUS
<1>1. NetlistInv(block', call')
  BY NetlistKept DEF RInv
<1>2. RouterInv'
  <2>1. CASE UNCHANGED <<vars, grt, edits>>
    BY <2>1
    DEF vars, grt, RInv, RouterInv, RouterTypes, RoutesCurrent, NoDeadNets, NetsMade,
        CrashHasCause, Usable
  <2> QED
    BY <1>1, <2>1, EditKept, RouteKept DEF RNext
<1> QED
  BY <1>1, <1>2 DEF RInv

THEOREM RouterInvariant == RSpec => []RInv
  BY RInitInv, RNextInv, PTL DEF RSpec

(***************************************************************************)
(* A net that is neither dirty nor was changed unmarked or left unread has *)
(* the pins of the database in their places, and a route that connects     *)
(* them, unless the last globalRoute() threw: after any number of edits,   *)
(* updates, errors and crashes, for every design.                          *)
(***************************************************************************)
THEOREM RouterRoutesSound == RSpec => []RoutesSound
<1>1. RInv => RoutesSound
  <2> SUFFICES ASSUME RInv PROVE RoutesSound
    OBVIOUS
  <2>1. BlockType(block)
    BY TypedBlock DEF RInv, NetlistInv
  <2> QED
    BY <2>1 DEF RInv, RouterInv, RouterTypes, RoutesSound, RTypeOK
<1> QED
  BY <1>1, RouterInvariant, PTL

(***************************************************************************)
(* removeNet() forgets a net that is destroyed while it listens, and only  *)
(* an unseen dbNet::destroy() leaves the router with a dead net.           *)
(***************************************************************************)
THEOREM RouterNoDeadNets == RSpec => []NoDeadNets
<1>1. RInv => NoDeadNets
  BY DEF RInv, RouterInv
<1> QED
  BY <1>1, RouterInvariant, PTL

(***************************************************************************)
(* updateDirtyNets() finds no Net only for nets that were made or          *)
(* destroyed unseen, that a globalRoute() which threw did not reach, or    *)
(* that addNet() skipped in the last globalRoute().                        *)
(***************************************************************************)
THEOREM RouterCrashHasCause == RSpec => []CrashHasCause
<1>1. RInv => CrashHasCause
  BY DEF RInv, RouterInv
<1> QED
  BY <1>1, RouterInvariant, PTL
=============================================================================
