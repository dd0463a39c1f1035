--------------------------- MODULE dbJournalProofs ---------------------------
(***************************************************************************)
(* Proofs about dbJournal, for blocks of any size, any masters and any     *)
(* number of calls and exchanges.  The lemmas about the calls of a block   *)
(* are those of dbNetlistProofs; the variables of dbNetlist and of         *)
(* IncrementalRoute, which come with them, have no part here.              *)
(***************************************************************************)
EXTENDS dbJournal, dbNetlistProofs

-----------------------------------------------------------------------------
(* Sequences. *)

\* f[k] is what the first k sequences of ss make, one after the other.
Concats(f, ss) ==
  f[0] = << >> /\ \A k \in 1 .. Len(ss) : f[k] = f[k - 1] \o ss[k]

LEMMA UpToAll ==
  ASSUME NEW T, NEW n \in Nat, 0 \in T, \A k \in 1 .. n : k - 1 \in T => k \in T
  PROVE  \A k \in 0 .. n : k \in T
<1> SUFFICES ASSUME NEW m \in 0 .. n
             PROVE  m \in T
  OBVIOUS
<1>1. m \in Nat /\ \A k \in 1 .. m : k \in 1 .. n
  OBVIOUS
<1> QED
  BY <1>1, UpTo

LEMMA ConcatsTyped ==
  ASSUME NEW R, NEW ss \in Seq(Seq(R)), NEW f, Concats(f, ss)
  PROVE  \A k \in 0 .. Len(ss) : f[k] \in Seq(R)
<1> DEFINE T == {k \in Nat : f[k] \in Seq(R)}
<1>1. 0 \in T
  <2>1. f[0] \in Seq(R)
    BY DEF Concats
  <2> QED
    BY <2>1
<1>2. ASSUME NEW k \in 1 .. Len(ss), k - 1 \in T
      PROVE  k \in T
  <2>1. f[k - 1] \in Seq(R) /\ ss[k] \in Seq(R) /\ k \in Nat
    BY <1>2
  <2>2. f[k] = f[k - 1] \o ss[k]
    BY DEF Concats
  <2>3. f[k] \in Seq(R)
    BY <2>1, <2>2
  <2> QED
    BY <2>1, <2>3
<1>3. \A k \in 0 .. Len(ss) : k \in T
  <2>1. Len(ss) \in Nat
    OBVIOUS
  <2> HIDE DEF T
  <2> QED
    BY <2>1, <1>1, <1>2, UpToAll
<1> QED
  BY <1>3

(***************************************************************************)
(* FlattenSeq is the last of these.                                        *)
(***************************************************************************)
LEMMA Flattened ==
  ASSUME NEW R, NEW ss \in Seq(Seq(R)), NEW f, Concats(f, ss)
  PROVE  FlattenSeq(ss) = f[Len(ss)]
<1> DEFINE n == Len(ss)
           Is(g) == g = [i \in 1 .. n |-> IF i = 1 THEN ss[i] ELSE g[i - 1] \o ss[i]]
           F == CHOOSE g : Is(g)
           h == [i \in 1 .. n |-> f[i]]
<1>0. n \in Nat
  OBVIOUS
<1>1. CASE n = 0
  <2>1. ss = << >>
    BY <1>1
  <2> QED
    BY <1>1, <2>1 DEF FlattenSeq, Concats
<1>2. CASE n # 0
  <2>1. FlattenSeq(ss) = F[n]
    BY <1>2 DEF FlattenSeq
  <2>2. f[1] = ss[1]
    <3>1. 1 \in 1 .. n
      BY <1>0, <1>2
    <3>2. ss[1] \in Seq(R)
      BY <3>1
    <3>3. f[1] = f[1 - 1] \o ss[1]
      BY <3>1 DEF Concats
    <3>4. 1 - 1 = 0
      OBVIOUS
    <3>5. f[1] = << >> \o ss[1]
      BY <3>3, <3>4 DEF Concats
    <3> QED
      BY <3>2, <3>5
  <2>3. Is(h)
    <3>1. ASSUME NEW i \in 1 .. n
          PROVE  f[i] = IF i = 1 THEN ss[i] ELSE h[i - 1] \o ss[i]
      <4>1. i # 1 => h[i - 1] = f[i - 1]
        BY <1>0
      <4>2. f[i] = f[i - 1] \o ss[i]
        BY DEF Concats
      <4> QED
        BY <2>2, <4>1, <4>2
    <3> QED
      BY <3>1
  <2>4. Is(F)
    <3> HIDE DEF Is
    <3> QED
      BY <2>3
  <2> HIDE DEF F
  <2> DEFINE T == {k \in Nat : k = 0 \/ F[k] = f[k]}
  <2>5. 0 \in T
    OBVIOUS
  <2>6. ASSUME NEW k \in 1 .. n, k - 1 \in T
        PROVE  k \in T
    <3>1. F[k] = IF k = 1 THEN ss[k] ELSE F[k - 1] \o ss[k]
      BY <2>4
    <3>2. k # 1 => F[k - 1] = f[k - 1]
      BY <2>6
    <3>3. f[k] = f[k - 1] \o ss[k]
      BY DEF Concats
    <3>4. k = 1 => F[k] = f[k]
      BY <2>2, <3>1
    <3>5. k # 1 => F[k] = f[k]
      BY <3>1, <3>2, <3>3
    <3>6. F[k] = f[k] /\ k \in Nat
      BY <3>4, <3>5
    <3> QED
      BY <3>6
  <2>7. n \in T
    <3> HIDE DEF T, n
    <3> QED
      BY <1>0, <2>5, <2>6, UpTo
  <2> QED
    BY <1>2, <2>1, <2>7
<1> QED
  BY <1>1, <1>2

LEMMA ConcatsExist ==
  ASSUME NEW ss, NEW n \in Nat
  PROVE  \E f : f[0] = << >> /\ \A k \in 1 .. n : f[k] = f[k - 1] \o ss[k]
<1> DEFINE Ok(f, m) == f[0] = << >> /\ \A k \in 1 .. m : f[k] = f[k - 1] \o ss[k]
           T == {m \in Nat : \E f : Ok(f, m)}
<1>1. 0 \in T
  <2>1. Ok([k \in {0} |-> << >>], 0)
    OBVIOUS
  <2> QED
    BY <2>1
<1>2. ASSUME NEW m \in 1 .. n, m - 1 \in T
      PROVE  m \in T
  <2>1. PICK f : Ok(f, m - 1)
    BY <1>2
  <2> DEFINE g == [k \in 0 .. m |-> IF k = m THEN f[m - 1] \o ss[m] ELSE f[k]]
  <2>2. g[0] = << >>
    BY <2>1
  <2>3. ASSUME NEW k \in 1 .. m
        PROVE  g[k] = g[k - 1] \o ss[k]
    <3>1. g[k - 1] = f[k - 1]
      OBVIOUS
    <3>2. k # m => k \in 1 .. m - 1 /\ g[k] = f[k]
      OBVIOUS
    <3> QED
      BY <2>1, <3>1, <3>2
  <2>4. Ok(g, m) /\ m \in Nat
    BY <2>2, <2>3
  <2> HIDE DEF g, Ok
  <2> QED
    BY <2>4
<1>3. n \in T
  <2> HIDE DEF T
  <2> QED
    BY <1>1, <1>2, UpTo
<1> QED
  BY <1>3

LEMMA FlattenExists ==
  ASSUME NEW R, NEW ss \in Seq(Seq(R))
  PROVE  \E f : /\ Concats(f, ss) /\ FlattenSeq(ss) = f[Len(ss)]
                /\ \A k \in 0 .. Len(ss) : f[k] \in Seq(R)
<1>1. Len(ss) \in Nat
  OBVIOUS
<1>2. \E f : Concats(f, ss)
  BY <1>1, ConcatsExist DEF Concats
<1> QED
  BY <1>2, Flattened, ConcatsTyped

LEMMA FlattenTyped ==
  ASSUME NEW R, NEW ss \in Seq(Seq(R))
  PROVE  FlattenSeq(ss) \in Seq(R)
  BY FlattenExists
(***************************************************************************)
(* FoldLeft of disconnect() and of Term_destroy() over a sequence of       *)
(* terminals is the last of a sequence of blocks, each made of the one     *)
(* before it.                                                              *)
(***************************************************************************)
TermsOff(c, b, q) ==
  c[0] = b /\ \A k \in 1 .. Len(q) : c[k] = disconnect(c[k - 1], q[k])

TermsGone(c, b, q) ==
  c[0] = b /\ \A k \in 1 .. Len(q) : c[k] = Term_destroy(c[k - 1], q[k])

LEMMA MaxIs ==
  ASSUME NEW k \in Nat, NEW s \in SUBSET (1 .. k), k \in s
  PROVE  Max(s) = k
<1>1. \A y \in s : k >= y
  OBVIOUS
<1>2. \A x \in s : (\A y \in s : x >= y) => x = k
  <2> SUFFICES ASSUME NEW x \in s, x >= k
               PROVE  x = k
    OBVIOUS
  <2>1. x \in Nat /\ x <= k
    OBVIOUS
  <2> QED
    BY <2>1
<1> QED
  BY <1>1, <1>2 DEF Max

Step(how, b, t) == IF how = "off" THEN disconnect(b, t) ELSE Term_destroy(b, t)

Steps(how, c, b, q) ==
  c[0] = b /\ \A k \in 1 .. Len(q) : c[k] = Step(how, c[k - 1], q[k])

\* g[s] is the fold over the elements of q at the places in s.
FoldsOver(g, how, b, q, P) ==
  \A s \in P : g[s] = IF s = {} THEN b
                      ELSE Step(how, g[s \ {Max(s)}], q[Max(s)])

LEMMA FoldsExist ==
  ASSUME NEW how, NEW b, NEW q, NEW n \in Nat
  PROVE  \E g : FoldsOver(g, how, b, q, SUBSET (1 .. n))
<1> DEFINE T == {k \in Nat : \E g : FoldsOver(g, how, b, q, SUBSET (1 .. k))}
<1>1. 0 \in T
  <2> DEFINE g == [s \in {{}} |-> b]
  <2>1. \A s \in SUBSET (1 .. 0) : s = {} /\ g[s] = b
    OBVIOUS
  <2>2. FoldsOver(g, how, b, q, SUBSET (1 .. 0))
    BY <2>1 DEF FoldsOver
  <2> QED
    BY <2>2
<1>2. ASSUME NEW k \in 1 .. n, k - 1 \in T
      PROVE  k \in T
  <2>1. PICK g : FoldsOver(g, how, b, q, SUBSET (1 .. k - 1))
    BY <1>2
  <2> DEFINE h == [s \in SUBSET (1 .. k) |->
                     IF k \in s THEN Step(how, g[s \ {k}], q[k]) ELSE g[s]]
  <2>2. ASSUME NEW s \in SUBSET (1 .. k)
        PROVE  h[s] = IF s = {} THEN b ELSE Step(how, h[s \ {Max(s)}], q[Max(s)])
    <3>1. CASE k \in s
      <4>1. Max(s) = k /\ s # {}
        BY <3>1, MaxIs
      <4>2. h[s \ {k}] = g[s \ {k}]
        OBVIOUS
      <4>3. h[s] = Step(how, g[s \ {k}], q[k])
        BY <3>1
      <4> QED
        BY <4>1, <4>2, <4>3
    <3>2. CASE k \notin s
      <4>1. s \in SUBSET (1 .. k - 1)
        BY <3>2
      <4>2. h[s] = g[s] /\ h[s \ {Max(s)}] = g[s \ {Max(s)}]
        BY <3>2
      <4>3. g[s] = IF s = {} THEN b ELSE Step(how, g[s \ {Max(s)}], q[Max(s)])
        BY <2>1, <4>1 DEF FoldsOver
      <4> QED
        BY <4>2, <4>3
    <3> QED
      BY <3>1, <3>2
  <2> HIDE DEF h
  <2>3. FoldsOver(h, how, b, q, SUBSET (1 .. k))
    BY <2>2 DEF FoldsOver
  <2> QED
    BY <2>3
<1>3. n \in T
  <2> HIDE DEF T
  <2> QED
    BY <1>1, <1>2, UpTo
<1> QED
  BY <1>3

LEMMA FoldSteps ==
  ASSUME NEW how, NEW b, NEW q, Len(q) \in Nat,
         NEW g, FoldsOver(g, how, b, q, SUBSET (1 .. Len(q)))
  PROVE  \E c : Steps(how, c, b, q) /\ c[Len(q)] = g[1 .. Len(q)]
<1> DEFINE c == [k \in 0 .. Len(q) |-> g[1 .. k]]
<1>1. c[0] = b
  <2>1. c[0] = g[1 .. 0] /\ 1 .. 0 = {}
    OBVIOUS
  <2>2. g[{}] = b
    BY DEF FoldsOver
  <2> QED
    BY <2>1, <2>2
<1>2. ASSUME NEW k \in 1 .. Len(q)
      PROVE  c[k] = Step(how, c[k - 1], q[k])
  <2>1. k \in Nat /\ 1 .. k \in SUBSET (1 .. Len(q)) /\ k \in 1 .. k
    OBVIOUS
  <2>4. (1 .. k) \ {k} = 1 .. k - 1
    BY <2>1
  <2>5. 1 .. k # {}
    BY <2>1
  <2>2. Max(1 .. k) = k
    BY <2>1, MaxIs
  <2>3. g[1 .. k] = Step(how, g[(1 .. k) \ {k}], q[k])
    BY <2>1, <2>2, <2>5 DEF FoldsOver
  <2>6. c[k] = g[1 .. k] /\ c[k - 1] = g[1 .. k - 1]
    OBVIOUS
  <2> QED
    BY <2>3, <2>4, <2>6
<1>3. c[Len(q)] = g[1 .. Len(q)]
  OBVIOUS
<1> HIDE DEF c
<1> QED
  BY <1>1, <1>2, <1>3 DEF Steps

LEMMA FoldOff ==
  ASSUME NEW S, NEW q \in Seq(S), NEW b
  PROVE  \E c : TermsOff(c, b, q) /\ c[Len(q)] = FoldLeft(disconnect, b, q)
<1> DEFINE n == Len(q)
           Is(g) == g = [s \in SUBSET (DOMAIN q) |->
                           IF s = {} THEN b
                           ELSE disconnect(g[s \ {Max(s)}], q[Max(s)])]
           F == CHOOSE g : Is(g)
<1>1. n \in Nat /\ DOMAIN q = 1 .. n
  OBVIOUS
<1>2. FoldLeft(disconnect, b, q) = F[1 .. n]
  BY <1>1 DEF FoldLeft, MapThenFoldSet
<1>3. \E g : Is(g)
  <2>1. PICK g : FoldsOver(g, "off", b, q, SUBSET (1 .. n))
    BY <1>1, FoldsExist
  <2> DEFINE h == [s \in SUBSET (1 .. n) |-> g[s]]
  <2>2. ASSUME NEW s \in SUBSET (1 .. n)
        PROVE  g[s] = IF s = {} THEN b ELSE disconnect(h[s \ {Max(s)}], q[Max(s)])
    BY <2>1 DEF FoldsOver, Step
  <2>3. Is(h)
    BY <1>1, <2>2
  <2> QED
    BY <2>3
<1>4. Is(F)
  <2> HIDE DEF Is
  <2> QED
    BY <1>3
<1> HIDE DEF F
<1>5. FoldsOver(F, "off", b, q, SUBSET (1 .. n))
  BY <1>1, <1>4 DEF FoldsOver, Step
<1>6. PICK c : Steps("off", c, b, q) /\ c[Len(q)] = F[1 .. Len(q)]
  BY <1>1, <1>5, FoldSteps
<1>7. TermsOff(c, b, q)
  BY <1>6 DEF TermsOff, Steps, Step
<1> QED
  BY <1>2, <1>6, <1>7

LEMMA FoldGone ==
  ASSUME NEW S, NEW q \in Seq(S), NEW b
  PROVE  \E c : TermsGone(c, b, q) /\ c[Len(q)] = FoldLeft(Term_destroy, b, q)
<1> DEFINE n == Len(q)
           Is(g) == g = [s \in SUBSET (DOMAIN q) |->
                           IF s = {} THEN b
                           ELSE Term_destroy(g[s \ {Max(s)}], q[Max(s)])]
           F == CHOOSE g : Is(g)
<1>1. n \in Nat /\ DOMAIN q = 1 .. n
  OBVIOUS
<1>2. FoldLeft(Term_destroy, b, q) = F[1 .. n]
  BY <1>1 DEF FoldLeft, MapThenFoldSet
<1>3. \E g : Is(g)
  <2>1. PICK g : FoldsOver(g, "gone", b, q, SUBSET (1 .. n))
    BY <1>1, FoldsExist
  <2> DEFINE h == [s \in SUBSET (1 .. n) |-> g[s]]
  <2>2. ASSUME NEW s \in SUBSET (1 .. n)
        PROVE  g[s] = IF s = {} THEN b ELSE Term_destroy(h[s \ {Max(s)}], q[Max(s)])
    BY <2>1 DEF FoldsOver, Step
  <2>3. Is(h)
    BY <1>1, <2>2
  <2> QED
    BY <2>3
<1>4. Is(F)
  <2> HIDE DEF Is
  <2> QED
    BY <1>3
<1> HIDE DEF F
<1>5. FoldsOver(F, "gone", b, q, SUBSET (1 .. n))
  BY <1>1, <1>4 DEF FoldsOver, Step
<1>6. PICK c : Steps("gone", c, b, q) /\ c[Len(q)] = F[1 .. Len(q)]
  BY <1>1, <1>5, FoldSteps
<1>7. TermsGone(c, b, q)
  BY <1>6 DEF TermsGone, Steps, Step
<1> QED
  BY <1>2, <1>6, <1>7
-----------------------------------------------------------------------------
(* The lists of a sound block. *)

\* q is the first n terminals of list s, along which r grows.
FirstOf(l, s, r, n, q) ==
  /\ q \in [1 .. n -> Terms]
  /\ \A i \in 1 .. n : On(l, s, q[i])
  /\ \A i, j \in 1 .. n : i < j => r[q[i]] < r[q[j]]
  /\ n >= 1 => q[1] = l.head[s]
  /\ \A i \in 1 .. n - 1 : q[i + 1] = l.next[q[i]]

\* The terminal after these, or Null.
NextOf(l, s, n, q) == IF n = 0 THEN l.head[s] ELSE l.next[q[n]]

LEMMA FirstMore ==
  ASSUME NEW l, LinksInv(l), NEW s \in Lists, NEW r \in [Terms -> Nat], Ascends(l, r),
         NEW n \in Nat, NEW q, FirstOf(l, s, r, n, q), NextOf(l, s, n, q) # Null
  PROVE  \E p : FirstOf(l, s, r, n + 1, p)
<1> DEFINE t == NextOf(l, s, n, q)
           p == [i \in 1 .. n + 1 |-> IF i = n + 1 THEN t ELSE q[i]]
<1>1. s[1] \in Nets /\ s[1] # Null
  BY ListIs, NetFacts
<1>2. \A i \in 1 .. n : q[i] \in Terms /\ On(l, s, q[i]) /\ l.net[q[i]] # Null
  BY <1>1 DEF FirstOf, On
<1>3. t \in Terms /\ On(l, s, t) /\ (n # 0 => r[q[n]] < r[t])
  <2>1. CASE n = 0
    <3>1. t = l.head[s] /\ t # Null
      BY <2>1 DEF NextOf
    <3>2. t \in Terms
      BY <3>1 DEF LinksInv, LinksType
    <3> HIDE DEF t
    <3>3. l.net[t] = s[1] /\ t[1] = s[2]
      BY <3>1 DEF LinksInv, HeadsSound
    <3> QED
      BY <2>1, <3>2, <3>3 DEF On
  <2>2. CASE n # 0
    <3>1. n \in 1 .. n
      BY <2>2
    <3> DEFINE u == q[n]
    <3>2. u \in Terms /\ On(l, s, u) /\ l.net[u] # Null
      BY <1>2, <3>1
    <3>3. t = l.next[u] /\ t # Null
      BY <2>2 DEF NextOf
    <3> HIDE DEF t, u
    <3>4. SameList(l, u, t) /\ l.prev[t] = u
      BY <3>2, <3>3 DEF LinksInv, NeighboursSound
    <3>5. t \in Terms /\ On(l, s, t) /\ l.net[t] # Null
      BY <3>2, <3>4 DEF SameList, On
    <3>6. u # Null
      BY <3>2, TermFacts
    <3>7. r[u] < r[t]
      BY <3>4, <3>5, <3>6 DEF Ascends
    <3> QED
      BY <3>5, <3>7 DEF u
  <2> QED
    BY <2>1, <2>2
<1> HIDE DEF t
<1>4. \A i \in 1 .. n : p[i] = q[i] /\ i \in 1 .. n + 1
  OBVIOUS
<1>5. p[n + 1] = t
  OBVIOUS
<1>6. \A i \in 1 .. n + 1 : i \in 1 .. n \/ i = n + 1
  OBVIOUS
<1>7. p \in [1 .. n + 1 -> Terms]
  BY <1>2, <1>3
<1> HIDE DEF p
<1>8. \A i \in 1 .. n + 1 : On(l, s, p[i])
  BY <1>2, <1>3, <1>4, <1>5, <1>6
<1>9. \A i \in 1 .. n : r[q[i]] < r[t]
  <2> SUFFICES ASSUME NEW i \in 1 .. n
               PROVE  r[q[i]] < r[t]
    OBVIOUS
  <2>1. n # 0 /\ n \in 1 .. n
    OBVIOUS
  <2>2. r[q[i]] \in Nat /\ r[q[n]] \in Nat /\ r[t] \in Nat
    BY <1>2, <1>3, <2>1
  <2>3. i = n \/ r[q[i]] < r[q[n]]
    BY <2>1 DEF FirstOf
  <2>4. r[q[n]] < r[t]
    BY <1>3, <2>1
  <2> QED
    BY <2>2, <2>3, <2>4
<1>10. ASSUME NEW i \in 1 .. n + 1, NEW j \in 1 .. n + 1, i < j
       PROVE  r[p[i]] < r[p[j]]
  <2>1. i \in 1 .. n /\ p[i] = q[i]
    BY <1>4, <1>10
  <2>2. CASE j = n + 1
    BY <1>5, <1>9, <2>1, <2>2
  <2>3. CASE j \in 1 .. n
    <3>1. p[j] = q[j]
      BY <1>4, <2>3
    <3>2. r[q[i]] < r[q[j]]
      BY <1>10, <2>1, <2>3 DEF FirstOf
    <3> QED
      BY <2>1, <3>1, <3>2
  <2> QED
    BY <1>6, <2>2, <2>3
<1>11. p[1] = l.head[s]
  <2>1. CASE n = 0
    BY <1>5, <2>1 DEF t, NextOf
  <2>2. CASE n # 0
    BY <1>4, <2>2 DEF FirstOf
  <2> QED
    BY <2>1, <2>2
<1>12. ASSUME NEW i \in 1 .. n
       PROVE  p[i + 1] = l.next[p[i]]
  <2>1. p[i] = q[i]
    BY <1>4
  <2>2. CASE i = n
    <3>1. n # 0 /\ t = l.next[q[n]]
      BY <2>2 DEF t, NextOf
    <3> QED
      BY <1>5, <2>1, <2>2, <3>1
  <2>3. CASE i # n
    <3>1. i \in 1 .. n - 1 /\ i + 1 \in 1 .. n
      BY <2>3
    <3>2. p[i + 1] = q[i + 1] /\ q[i + 1] = l.next[q[i]]
      BY <1>4, <3>1 DEF FirstOf
    <3> QED
      BY <2>1, <3>2
  <2> QED
    BY <2>2, <2>3
<1>13. FirstOf(l, s, r, n + 1, p)
  <2>1. n + 1 - 1 = n
    OBVIOUS
  <2> QED
    BY <1>7, <1>8, <1>10, <1>11, <1>12, <2>1 DEF FirstOf
<1> QED
  BY <1>13

LEMMA FirstFits ==
  ASSUME NEW l, NEW s \in Lists, NEW r \in [Terms -> Nat],
         NEW n \in Nat, NEW q, FirstOf(l, s, r, n, q)
  PROVE  n <= Size[s[2]]
<1>1. s[2] \in {"bterm", "iterm"} /\ s[2] \in Tables
  BY ListIs DEF Tables
<1>2. \A i \in 1 .. n : q[i] \in Terms /\ q[i][1] = s[2]
  BY DEF FirstOf, On
<1>3. \A i \in 1 .. n : q[i] \in Objects(s[2])
  BY <1>1, <1>2, TermFacts DEF BTerms, ITerms
<1>4. q \in [1 .. n -> Objects(s[2])]
  BY <1>3 DEF FirstOf
<1>5. ASSUME NEW i \in 1 .. n, NEW j \in 1 .. n, q[i] = q[j]
      PROVE  i = j
  <2>1. r[q[i]] \in Nat /\ r[q[j]] \in Nat
    BY <1>2
  <2>2. (i < j => r[q[i]] < r[q[j]]) /\ (j < i => r[q[j]] < r[q[i]])
    BY DEF FirstOf
  <2> QED
    BY <1>5, <2>1, <2>2
<1> QED
  BY <1>1, <1>4, <1>5, Crowded

LEMMA LastExists ==
  ASSUME NEW l, LinksInv(l), NEW s \in Lists, NEW r \in [Terms -> Nat], Ascends(l, r)
  PROVE  \E n \in Nat : \E q : FirstOf(l, s, r, n, q) /\ NextOf(l, s, n, q) = Null
<1> SUFFICES ASSUME \A n \in Nat : \A q : FirstOf(l, s, r, n, q) => NextOf(l, s, n, q) # Null
             PROVE  FALSE
  OBVIOUS
<1> DEFINE T == {n \in Nat : \E q : FirstOf(l, s, r, n, q)}
           N == Size[s[2]] + 1
<1>1. N \in Nat /\ ~ N <= Size[s[2]]
  BY ListIs, SizeAssumption DEF Tables
<1>2. 0 \in T
  <2>1. FirstOf(l, s, r, 0, << >>)
    BY DEF FirstOf
  <2> QED
    BY <2>1
<1>3. ASSUME NEW k \in 1 .. N, k - 1 \in T
      PROVE  k \in T
  <2>1. k \in Nat /\ k - 1 \in Nat /\ k - 1 + 1 = k
    BY <1>1
  <2>2. PICK q : FirstOf(l, s, r, k - 1, q)
    BY <1>3
  <2>3. NextOf(l, s, k - 1, q) # Null
    BY <2>1, <2>2
  <2>4. \E p : FirstOf(l, s, r, k - 1 + 1, p)
    BY <2>1, <2>2, <2>3, FirstMore
  <2> QED
    BY <2>1, <2>4
<1>4. N \in T
  <2> HIDE DEF T, N
  <2> QED
    BY <1>1, <1>2, <1>3, UpTo
<1>5. PICK q : FirstOf(l, s, r, N, q)
  BY <1>4
<1> QED
  BY <1>1, <1>5, FirstFits

LEMMA FirstListed ==
  ASSUME NEW l, LinksInv(l), NEW s \in Lists, NEW r \in [Terms -> Nat], Ascends(l, r),
         NEW n \in Nat, NEW q, FirstOf(l, s, r, n, q), NextOf(l, s, n, q) = Null
  PROVE  Listed(l, s, q)
<1>1. q \in Seq(Terms) /\ DOMAIN q = 1 .. n
  BY DEF FirstOf
<1>2. ASSUME NEW i \in 1 .. n, NEW j \in 1 .. n, q[i] = q[j]
      PROVE  i = j
  <2>1. r[q[i]] \in Nat /\ r[q[j]] \in Nat
    BY DEF FirstOf
  <2>2. (i < j => r[q[i]] < r[q[j]]) /\ (j < i => r[q[j]] < r[q[i]])
    BY DEF FirstOf
  <2> QED
    BY <1>2, <2>1, <2>2
<1>3. ASSUME NEW i \in 1 .. n
      PROVE  On(l, s, q[i]) /\ l.next[q[i]] = At(q, i + 1)
  <2>1. On(l, s, q[i])
    BY DEF FirstOf
  <2>2. CASE i = n
    BY <1>1, <2>1, <2>2 DEF NextOf, At
  <2>3. CASE i # n
    <3>1. i \in 1 .. n - 1 /\ i + 1 \in 1 .. n
      BY <2>3
    <3> QED
      BY <1>1, <2>1, <3>1 DEF FirstOf, At
  <2> QED
    BY <2>2, <2>3
<1>4. l.head[s] = At(q, 1)
  <2>1. CASE n = 0
    BY <1>1, <2>1 DEF NextOf, At
  <2>2. CASE n # 0
    BY <1>1, <2>2 DEF FirstOf, At
  <2> QED
    BY <2>1, <2>2
<1> DEFINE U == {u \in Terms : On(l, s, u) /\ \A i \in 1 .. n : q[i] # u}
           Ranks == {r[u] : u \in U}
<1>5. U = {}
  <2> SUFFICES ASSUME U # {}
               PROVE  FALSE
    OBVIOUS
  <2>1. Ranks \in SUBSET Nat /\ Ranks # {}
    OBVIOUS
  <2>2. PICK x \in Ranks : \A y \in Ranks : x <= y
    BY <2>1, Least
  <2>3. PICK u \in U : r[u] = x
    OBVIOUS
  <2>4. s[1] \in Nets /\ s[1] # Null /\ ListOf(s[1], u) = s /\ u # Null
    BY ListIs, NetFacts, TermFacts DEF On
  <2>5. l.net[u] = s[1] /\ l.net[u] # Null /\ u[1] = s[2]
    BY <2>4 DEF On
  <2>6. CASE l.prev[u] = Null
    <3>1. l.head[s] = u
      BY <2>4, <2>5, <2>6 DEF LinksInv, NeighboursSound
    <3>2. n # 0
      BY <2>4, <3>1 DEF NextOf
    <3>3. q[1] = u /\ 1 \in 1 .. n
      BY <3>1, <3>2 DEF FirstOf
    <3> QED
      BY <3>3
  <2>7. CASE l.prev[u] # Null
    <3> DEFINE p == l.prev[u]
    <3>1. p \in Terms /\ On(l, s, p) /\ l.next[p] = u
      BY <2>5, <2>7 DEF LinksInv, NeighboursSound, SameList, On
    <3>2. r[p] < r[u]
      BY <2>5, <2>7 DEF Ascends
    <3>3. p \notin U
      <4> SUFFICES ASSUME p \in U
                   PROVE  FALSE
        OBVIOUS
      <4>1. r[p] \in Ranks
        OBVIOUS
      <4>2. x <= r[p]
        BY <2>2, <4>1
      <4>3. r[p] \in Nat /\ r[u] \in Nat
        BY <3>1
      <4> QED
        BY <2>3, <3>2, <4>2, <4>3
    <3>4. PICK i \in 1 .. n : q[i] = p
      BY <3>1, <3>3
    <3>5. At(q, i + 1) = u
      BY <1>3, <3>1, <3>4
    <3>6. i + 1 \in DOMAIN q /\ q[i + 1] = u
      BY <2>4, <3>5 DEF At
    <3> QED
      BY <1>1, <3>6
  <2> QED
    BY <2>6, <2>7
<1> QED
  BY <1>1, <1>2, <1>3, <1>4, <1>5 DEF Listed

(***************************************************************************)
(* The walks of a sound block find every list, from the head to the end.   *)
(***************************************************************************)
LEMMA InvWalked ==
  ASSUME NEW l, LinksInv(l)
  PROVE  Walked(l)
<1> SUFFICES ASSUME NEW s \in Lists
             PROVE  Listed(l, s, Walk(l, s))
  BY DEF Walked
<1>1. PICK r \in [Terms -> Nat] : Ascends(l, r)
  BY DEF LinksInv
<1>2. PICK n \in Nat : \E q : FirstOf(l, s, r, n, q) /\ NextOf(l, s, n, q) = Null
  BY <1>1, LastExists
<1>3. PICK q : FirstOf(l, s, r, n, q) /\ NextOf(l, s, n, q) = Null
  BY <1>2
<1>4. Listed(l, s, q)
  BY <1>1, <1>3, FirstListed
<1> QED
  BY <1>4, WalkIs

-----------------------------------------------------------------------------
(* The calls keep a block sound. *)

Boxed(b) == DOMAIN b.bbox = Insts

EcoBlock(b) == BlockInv(b) /\ PinsInv(b, Idle) /\ Typed(b) /\ Boxed(b)

LEMMA SoundEcoBlock == ASSUME NEW b, Sound(b) PROVE EcoBlock(b)
<1>1. NetlistInv(b, Idle)
  BY SoundInv
<1> QED
  BY <1>1 DEF NetlistInv, EcoBlock, Sound, Boxed

LEMMA EcoBlockType == ASSUME NEW b, EcoBlock(b) PROVE BlockType(b)
  BY TypedBlock DEF EcoBlock

LEMMA FieldsOf ==
  ASSUME NEW b, EcoBlock(b)
  PROVE  DOMAIN b = Fields /\ DOMAIN b.free = Tables /\ LinksInv(b.links)
  BY DEF EcoBlock, BlockInv, Shape

LEMMA BoxesKept ==
  ASSUME NEW b, DOMAIN b = Fields, Boxed(b), NEW i, NEW t, NEW n, NEW m, NEW a
  PROVE  /\ Boxed(disconnect(b, t)) /\ Boxed(connect(b, t, n)) /\ Boxed(Term_destroy(b, t))
         /\ Boxed(Net_create(b, a)) /\ Boxed(BTerm_create(b, n, a))
         /\ Boxed(Inst_create(b, m, a)) /\ Boxed(Net_delete(b, n)) /\ Boxed(Inst_delete(b, i))
         /\ Boxed(swapMaster(b, i, m)) /\ Boxed(setOrigin(b, i, a))
         /\ Boxed(setOrient(b, i, a)) /\ Boxed([b EXCEPT !.orient[i] = a])
         /\ Boxed(setNonDefaultRule(b, n, a)) /\ Boxed(rename(b, i, a))
<1>1. "bbox" \in Fields /\ "links" \in Fields
  BY DEF Fields
<1>2. Boxed(disconnect(b, t)) /\ DOMAIN disconnect(b, t) = Fields
  BY <1>1 DEF Boxed, disconnect, Disconnected
<1>3. Boxed(connect(b, t, n))
  BY <1>1, <1>2 DEF Boxed, connect
<1>4. Boxed(Term_destroy(b, t))
  BY <1>1, <1>2 DEF Boxed, Term_destroy, Give
<1>5. Boxed(Net_create(b, a)) /\ Boxed(BTerm_create(b, n, a))
  BY <1>1 DEF Boxed, Net_create, BTerm_create, Take
<1>6. Boxed(Inst_create(b, m, a))
  BY <1>1 DEF Boxed, Inst_create, Take, WithBBox
<1>7. Boxed(Net_delete(b, n)) /\ Boxed(Inst_delete(b, i))
  BY <1>1 DEF Boxed, Net_delete, Inst_delete, Give
<1>8. Boxed(swapMaster(b, i, m))
  BY <1>1 DEF Boxed, swapMaster, WithBBox
<1>9. /\ Boxed(setOrigin(b, i, a)) /\ Boxed(setOrient(b, i, a))
      /\ Boxed([b EXCEPT !.orient[i] = a])
      /\ Boxed(setNonDefaultRule(b, n, a)) /\ Boxed(rename(b, i, a))
  BY <1>1 DEF Boxed, setOrigin, setOrient, setNonDefaultRule, rename, WithBBox
<1> QED
  BY <1>2, <1>3, <1>4, <1>5, <1>6, <1>7, <1>8, <1>9

LEMMA SlotsSame ==
  ASSUME NEW b, NEW c, Slots(b), c.free = b.free, c.live = b.live
  PROVE  Slots(c)
  BY DEF Slots

LEMMA OffKept ==
  ASSUME NEW b, EcoBlock(b), NEW t \in Terms
  PROVE  EcoBlock(disconnect(b, t))
<1> DEFINE c == disconnect(b, t)
<1>1. BlockInv(b) /\ PinsInv(b, Idle) /\ Typed(b) /\ Boxed(b)
  BY DEF EcoBlock
<1>2. Shape(b) /\ Slots(b) /\ Connected(b)
  BY <1>1 DEF BlockInv
<1>3. /\ Shape(c) /\ Connected(c) /\ SameInsts(b, c)
      /\ c.live = b.live /\ c.free = b.free
  BY <1>2, DisconnectInv
<1>4. Extends(b, c, {})
  BY TermCallsExtend, FieldsOf
<1>5. Boxed(c)
  BY <1>1, BoxesKept, FieldsOf
<1> HIDE DEF c
<1>6. Slots(c)
  BY <1>2, <1>3, SlotsSame
<1>7. PinsInv(c, Idle)
  BY <1>1, <1>3, PinsSame
<1>8. Typed(c)
  BY <1>1, <1>4, ExtendsTyped
<1>9. EcoBlock(c)
  BY <1>3, <1>5, <1>6, <1>7, <1>8 DEF EcoBlock, BlockInv
<1> QED
  BY <1>9 DEF c

LEMMA ConnectKept ==
  ASSUME NEW b, EcoBlock(b), NEW t \in Terms, t \in b.live, NEW n \in Nets, n \in b.live
  PROVE  EcoBlock(connect(b, t, n))
<1> DEFINE c == connect(b, t, n)
<1>1. BlockInv(b) /\ PinsInv(b, Idle) /\ Typed(b) /\ Boxed(b)
  BY DEF EcoBlock
<1>2. Shape(b) /\ Slots(b) /\ Connected(b)
  BY <1>1 DEF BlockInv
<1>3. /\ Shape(c) /\ Connected(c) /\ SameInsts(b, c)
      /\ c.live = b.live /\ c.free = b.free
  BY <1>2, ConnectInv
<1>4. Extends(b, c, {})
  BY TermCallsExtend, FieldsOf
<1>5. Boxed(c)
  BY <1>1, BoxesKept, FieldsOf
<1> HIDE DEF c
<1>6. Slots(c)
  BY <1>2, <1>3, SlotsSame
<1>7. PinsInv(c, Idle)
  BY <1>1, <1>3, PinsSame
<1>8. Typed(c)
  BY <1>1, <1>4, ExtendsTyped
<1>9. EcoBlock(c)
  BY <1>3, <1>5, <1>6, <1>7, <1>8 DEF EcoBlock, BlockInv
<1> QED
  BY <1>9 DEF c

LEMMA GoneKept ==
  ASSUME NEW b, EcoBlock(b), NEW t \in BTerms, t \in b.live
  PROVE  EcoBlock(Term_destroy(b, t))
<1> DEFINE c == Term_destroy(b, t)
<1>1. BlockInv(b) /\ PinsInv(b, Idle) /\ Typed(b) /\ Boxed(b) /\ t \in Terms
  BY BTermFacts DEF EcoBlock
<1>2. Shape(b) /\ Slots(b) /\ Connected(b)
  BY <1>1 DEF BlockInv
<1>3. /\ Shape(c) /\ Slots(c) /\ Connected(c) /\ SameInsts(b, c)
      /\ c.live = b.live \ {t}
  BY <1>1, <1>2, TermDestroyInv
<1>4. Extends(b, c, {})
  BY <1>1, TermCallsExtend, FieldsOf
<1>5. Boxed(c)
  BY <1>1, BoxesKept, FieldsOf
<1> HIDE DEF c
<1>6. PinsInv(c, Idle)
  BY <1>1, <1>3, PinsLessBTerm
<1>7. Typed(c)
  BY <1>1, <1>4, ExtendsTyped
<1>8. EcoBlock(c)
  BY <1>3, <1>5, <1>6, <1>7 DEF EcoBlock, BlockInv
<1> QED
  BY <1>8 DEF c

\* Where an instance is, the rule of a net and names have no part in it.
LEMMA AsideKept ==
  ASSUME NEW b, EcoBlock(b), NEW c, DOMAIN c = Fields, SameInsts(b, c), Boxed(c),
         c.live = b.live, c.free = b.free, c.links = b.links,
         c.rule \in [Nets -> Rules \cup {NoRule}],
         DOMAIN c.x = Insts, DOMAIN c.orient = Insts
  PROVE  EcoBlock(c)
<1>1. BlockInv(b) /\ PinsInv(b, Idle) /\ Typed(b)
  BY DEF EcoBlock
<1>2. BlockInv(c)
  BY <1>1 DEF BlockInv, Shape, Slots, Connected, SameInsts
<1>3. PinsInv(c, Idle)
  BY <1>1, PinsSame
<1>4. Typed(c)
  BY <1>1 DEF Typed, SameInsts
<1> QED
  BY <1>2, <1>3, <1>4 DEF EcoBlock

LEMMA AsidesKept ==
  ASSUME NEW b, EcoBlock(b), NEW o, NEW a
  PROVE  /\ EcoBlock(setOrigin(b, o, a)) /\ EcoBlock(setOrient(b, o, a))
         /\ EcoBlock([b EXCEPT !.orient[o] = a]) /\ EcoBlock(rename(b, o, a))
         /\ a \in Rules => EcoBlock(setNonDefaultRule(b, o, a))
<1>1. /\ DOMAIN b = Fields /\ Boxed(b)
      /\ b.rule \in [Nets -> Rules \cup {NoRule}]
      /\ DOMAIN b.x = Insts /\ DOMAIN b.orient = Insts
  BY DEF EcoBlock, BlockInv, Shape, Typed
<1>2. /\ Boxed(setOrigin(b, o, a)) /\ Boxed(setOrient(b, o, a))
      /\ Boxed([b EXCEPT !.orient[o] = a])
      /\ Boxed(setNonDefaultRule(b, o, a)) /\ Boxed(rename(b, o, a))
  BY <1>1, BoxesKept
<1>3. EcoBlock(setOrigin(b, o, a))
  <2> DEFINE c == setOrigin(b, o, a)
  <2>1. /\ DOMAIN c = Fields /\ SameInsts(b, c)
        /\ c.live = b.live /\ c.free = b.free /\ c.links = b.links
        /\ c.rule = b.rule /\ DOMAIN c.x = Insts /\ DOMAIN c.orient = Insts
    BY <1>1 DEF setOrigin, WithBBox, SameInsts, Fields
  <2> HIDE DEF c
  <2>2. Boxed(c)
    BY <1>2 DEF c
  <2>3. EcoBlock(c)
    BY <1>1, <2>1, <2>2, AsideKept
  <2> QED
    BY <2>3 DEF c
<1>4. EcoBlock(setOrient(b, o, a))
  <2> DEFINE c == setOrient(b, o, a)
  <2>1. /\ DOMAIN c = Fields /\ SameInsts(b, c)
        /\ c.live = b.live /\ c.free = b.free /\ c.links = b.links
        /\ c.rule = b.rule /\ DOMAIN c.x = Insts /\ DOMAIN c.orient = Insts
    BY <1>1 DEF setOrient, WithBBox, SameInsts, Fields
  <2> HIDE DEF c
  <2>2. Boxed(c)
    BY <1>2 DEF c
  <2>3. EcoBlock(c)
    BY <1>1, <2>1, <2>2, AsideKept
  <2> QED
    BY <2>3 DEF c
<1>5. EcoBlock([b EXCEPT !.orient[o] = a])
  <2> DEFINE c == [b EXCEPT !.orient[o] = a]
  <2>1. /\ DOMAIN c = Fields /\ SameInsts(b, c)
        /\ c.live = b.live /\ c.free = b.free /\ c.links = b.links
        /\ c.rule = b.rule /\ DOMAIN c.x = Insts /\ DOMAIN c.orient = Insts
    BY <1>1 DEF SameInsts, Fields
  <2> HIDE DEF c
  <2>2. Boxed(c)
    BY <1>2 DEF c
  <2>3. EcoBlock(c)
    BY <1>1, <2>1, <2>2, AsideKept
  <2> QED
    BY <2>3 DEF c
<1>6. EcoBlock(rename(b, o, a))
  <2> DEFINE c == rename(b, o, a)
  <2>1. /\ DOMAIN c = Fields /\ SameInsts(b, c)
        /\ c.live = b.live /\ c.free = b.free /\ c.links = b.links
        /\ c.rule = b.rule /\ DOMAIN c.x = Insts /\ DOMAIN c.orient = Insts
    BY <1>1 DEF rename, SameInsts, Fields
  <2> HIDE DEF c
  <2>2. Boxed(c)
    BY <1>2 DEF c
  <2>3. EcoBlock(c)
    BY <1>1, <2>1, <2>2, AsideKept
  <2> QED
    BY <2>3 DEF c
<1>7. ASSUME a \in Rules
      PROVE  EcoBlock(setNonDefaultRule(b, o, a))
  <2> DEFINE c == setNonDefaultRule(b, o, a)
  <2>1. /\ DOMAIN c = Fields /\ SameInsts(b, c)
        /\ c.live = b.live /\ c.free = b.free /\ c.links = b.links
        /\ DOMAIN c.x = Insts /\ DOMAIN c.orient = Insts
    BY <1>1 DEF setNonDefaultRule, SameInsts, Fields
  <2>2. c.rule = [b.rule EXCEPT ![o] = a]
    BY <1>1 DEF setNonDefaultRule, Fields
  <2>3. c.rule \in [Nets -> Rules \cup {NoRule}]
    BY <1>1, <1>7, <2>2
  <2> HIDE DEF c
  <2>4. Boxed(c)
    BY <1>2 DEF c
  <2>5. EcoBlock(c)
    BY <2>1, <2>3, <2>4, AsideKept
  <2> QED
    BY <2>5 DEF c
<1> QED
  BY <1>3, <1>4, <1>5, <1>6, <1>7

LEMMA CreatesKept ==
  ASSUME NEW b, EcoBlock(b), NEW name
  PROVE  /\ Room(b, "net", 1) => EcoBlock(Net_create(b, name))
         /\ \A n \in Nets \cap b.live :
              Room(b, "bterm", 1) => EcoBlock(BTerm_create(b, n, name))
<1>1. BlockInv(b) /\ PinsInv(b, Idle) /\ Typed(b) /\ Boxed(b) /\ DOMAIN b = Fields
  BY FieldsOf DEF EcoBlock
<1>2. ASSUME Room(b, "net", 1)
      PROVE  EcoBlock(Net_create(b, name))
  <2>1. Typed(Net_create(b, name))
    BY <1>1, <1>2, CreateExtends, ObjectsTyped, ExtendsTyped DEF Tables
  <2>2. BlockInv(Net_create(b, name)) /\ PinsInv(Net_create(b, name), Idle)
    BY <1>1, <1>2, NetCreateInv
  <2>3. Boxed(Net_create(b, name))
    BY <1>1, BoxesKept
  <2> QED
    BY <2>1, <2>2, <2>3 DEF EcoBlock
<1>3. ASSUME NEW n \in Nets \cap b.live, Room(b, "bterm", 1)
      PROVE  EcoBlock(BTerm_create(b, n, name))
  <2>1. Typed(BTerm_create(b, n, name))
    BY <1>1, <1>3, CreateExtends, ObjectsTyped, ExtendsTyped DEF Tables
  <2>2. BlockInv(BTerm_create(b, n, name)) /\ PinsInv(BTerm_create(b, n, name), Idle)
    BY <1>1, <1>3, BTermCreateInv
  <2>3. Boxed(BTerm_create(b, n, name))
    BY <1>1, BoxesKept
  <2> QED
    BY <2>1, <2>2, <2>3 DEF EcoBlock
<1> QED
  BY <1>2, <1>3

LEMMA InstCreateKept ==
  ASSUME NEW b, EcoBlock(b), NEW name, NEW m \in Masters,
         Room(b, "inst", 1), Room(b, "iterm", Len(MTerms[m]))
  PROVE  EcoBlock(Inst_create(b, m, name))
<1> DEFINE c == Inst_create(b, m, name)
<1>1. BlockInv(b) /\ PinsInv(b, Idle) /\ Typed(b) /\ Boxed(b) /\ DOMAIN b = Fields
  BY FieldsOf DEF EcoBlock
<1>2. PICK i \in Insts \ b.live, ts \in Seq(ITerms \ b.live) :
        InstCreated(b, c, m, i, ts)
  BY <1>1, InstCreateFacts
<1>3. Boxed(c)
  BY <1>1, BoxesKept
<1>4. BlockInv(c) /\ PinsInv(c, Idle)
  BY <1>1, InstCreateInv
<1> HIDE DEF c
<1>5. Size["iterm"] \in Nat
  BY SizeAssumption DEF Tables
<1>6. Elements(ts) \subseteq ITerms
  BY <1>2 DEF Elements
<1>7. Typed(c)
  BY <1>1, <1>2, <1>5, <1>6 DEF InstCreated, Typed, Terms
<1>8. EcoBlock(c)
  BY <1>3, <1>4, <1>7 DEF EcoBlock
<1> QED
  BY <1>8 DEF c

LEMMA SwapKept ==
  ASSUME NEW b, EcoBlock(b), NEW i \in Insts, i \in b.live, NEW m \in Masters
  PROVE  EcoBlock(swapMaster(b, i, m))
<1>1. BlockInv(b) /\ PinsInv(b, Idle) /\ Typed(b) /\ Boxed(b) /\ DOMAIN b = Fields
  BY FieldsOf DEF EcoBlock
<1>2. BlockInv(swapMaster(b, i, m)) /\ PinsInv(swapMaster(b, i, m), Idle)
  BY <1>1, SwapMasterInv
<1>3. Typed(swapMaster(b, i, m))
  BY <1>1, SwapMasterTyped
<1>4. Boxed(swapMaster(b, i, m))
  BY <1>1, BoxesKept
<1> QED
  BY <1>2, <1>3, <1>4 DEF EcoBlock

-----------------------------------------------------------------------------
(* The loops of destroy(). *)

\* Besides the links, and besides the free slots and the live objects.
SameSides(b, c) ==
  /\ DOMAIN c = Fields
  /\ c.name = b.name /\ c.rule = b.rule /\ c.x = b.x /\ c.orient = b.orient
  /\ c.bbox = b.bbox /\ SameInsts(b, c)

SameButLinks(b, c) == SameSides(b, c) /\ c.live = b.live /\ c.free = b.free

\* The terminals among the first k of q have no net in c, the others keep theirs.
NetsOff(b, c, q, k) ==
  \A t \in Terms : c.links.net[t] = IF \E j \in 1 .. k : q[j] = t THEN Null
                                    ELSE b.links.net[t]

LEMMA OffStep ==
  ASSUME NEW b, EcoBlock(b), NEW t \in Terms
  PROVE  /\ SameButLinks(b, disconnect(b, t))
         /\ disconnect(b, t).links.net = [b.links.net EXCEPT ![t] = Null]
<1>1. DOMAIN b = Fields /\ BlockInv(b) /\ LinksInv(b.links)
  BY FieldsOf DEF EcoBlock
<1>2. SameButLinks(b, disconnect(b, t))
  BY <1>1 DEF SameButLinks, SameSides, SameInsts, disconnect, Disconnected, Fields
<1>3. disconnect(b, t).links.net = [b.links.net EXCEPT ![t] = Null]
  BY <1>1, DisconnectInv DEF BlockInv
<1> QED
  BY <1>2, <1>3

TermGone(b, c, t) ==
  /\ SameSides(b, c)
  /\ c.live = b.live \ {t}
  /\ c.free = [b.free EXCEPT ![t[1]] = <<t>> \o @]
  /\ c.links.net = [b.links.net EXCEPT ![t] = Null]

LEMMA GoneStep ==
  ASSUME NEW b, BlockInv(b), NEW t \in Terms, t \in b.live
  PROVE  TermGone(b, Term_destroy(b, t), t)
<1>1. DOMAIN b = Fields
  BY DEF BlockInv, Shape
<1> DEFINE d == disconnect(b, t)
           g == Give(d, t)
           c == Term_destroy(b, t)
<1>2. SameButLinks(b, d)
  BY <1>1 DEF SameButLinks, SameSides, SameInsts, disconnect, Disconnected, Fields
<1> HIDE DEF d
<1>3. SameSides(b, g) /\ g.live = b.live \ {t} /\ g.free = [b.free EXCEPT ![t[1]] = <<t>> \o @]
  BY <1>2 DEF SameButLinks, SameSides, SameInsts, Give, Fields
<1> HIDE DEF g
<1>4. c = [g EXCEPT !.links.next[t] = Null, !.links.prev[t] = Null]
  BY DEF Term_destroy, d, g
<1>5. SameSides(b, c) /\ c.live = g.live /\ c.free = g.free
  BY <1>3, <1>4 DEF SameSides, SameInsts, Fields
<1>6. c.links.net = [b.links.net EXCEPT ![t] = Null]
  BY TermLinks
<1> QED
  BY <1>3, <1>5, <1>6 DEF TermGone

LEMMA SidesSame ==
  ASSUME NEW b, NEW c, NEW d, SameSides(b, c), SameSides(c, d)
  PROVE  SameSides(b, d)
  BY DEF SameSides, SameInsts

LEMMA NetsOffMore ==
  ASSUME NEW b, NEW c, NEW d, NEW q, NEW k \in Nat, k # 0, NetsOff(b, c, q, k - 1),
         q[k] \in Terms, DOMAIN c.links.net = Terms,
         d.links.net = [c.links.net EXCEPT ![q[k]] = Null]
  PROVE  NetsOff(b, d, q, k)
<1> SUFFICES ASSUME NEW t \in Terms
             PROVE  d.links.net[t] = IF \E j \in 1 .. k : q[j] = t THEN Null
                                     ELSE b.links.net[t]
  BY DEF NetsOff
<1>1. CASE q[k] = t
  <2>1. k \in 1 .. k
    OBVIOUS
  <2> QED
    BY <1>1, <2>1
<1>2. CASE q[k] # t
  <2>1. d.links.net[t] = c.links.net[t]
    BY <1>2
  <2>2. (\E j \in 1 .. k : q[j] = t) <=> \E j \in 1 .. k - 1 : q[j] = t
    <3>1. \A j \in 1 .. k : j = k \/ j \in 1 .. k - 1
      OBVIOUS
    <3>2. \A j \in 1 .. k - 1 : j \in 1 .. k
      OBVIOUS
    <3> QED
      BY <1>2, <3>1, <3>2
  <2> QED
    BY <2>1, <2>2 DEF NetsOff
<1> QED
  BY <1>1, <1>2

LEMMA NoneOff == ASSUME NEW b, NEW q PROVE NetsOff(b, b, q, 0)
  BY DEF NetsOff

LEMMA OffNets ==
  ASSUME NEW b, EcoBlock(b)
  PROVE  DOMAIN b.links.net = Terms /\ \A t \in Terms : b.links.net[t] \in Nets \cup {Null}
  BY FieldsOf DEF LinksInv, LinksType

\* Block c is b with the first k of q off their nets.
OffBlock(b, c, q, k) == EcoBlock(c) /\ SameButLinks(b, c) /\ NetsOff(b, c, q, k)

LEMMA OffChain ==
  ASSUME NEW b, EcoBlock(b), NEW q \in Seq(Terms), NEW c, TermsOff(c, b, q)
  PROVE  \A k \in 0 .. Len(q) : OffBlock(b, c[k], q, k)
<1> DEFINE T == {k \in Nat : OffBlock(b, c[k], q, k)}
<1>1. Len(q) \in Nat
  OBVIOUS
<1>2. 0 \in T
  <2>1. c[0] = b
    BY DEF TermsOff
  <2>2. SameButLinks(b, b)
    BY FieldsOf DEF SameButLinks, SameSides, SameInsts
  <2>3. OffBlock(b, c[0], q, 0)
    BY <2>1, <2>2, NoneOff DEF OffBlock
  <2> QED
    BY <2>3
<1>3. ASSUME NEW k \in 1 .. Len(q), k - 1 \in T
      PROVE  k \in T
  <2>1. k \in Nat /\ k # 0 /\ q[k] \in Terms /\ OffBlock(b, c[k - 1], q, k - 1)
    BY <1>3
  <2>2. c[k] = disconnect(c[k - 1], q[k])
    BY DEF TermsOff
  <2>3. EcoBlock(c[k])
    BY <2>1, <2>2, OffKept DEF OffBlock
  <2>4. /\ SameButLinks(c[k - 1], c[k])
        /\ c[k].links.net = [c[k - 1].links.net EXCEPT ![q[k]] = Null]
    BY <2>1, <2>2, OffStep DEF OffBlock
  <2>5. SameButLinks(b, c[k])
    BY <2>1, <2>4, SidesSame DEF OffBlock, SameButLinks
  <2>6. NetsOff(b, c[k], q, k)
    BY <2>1, <2>4, OffNets, NetsOffMore DEF OffBlock
  <2>7. OffBlock(b, c[k], q, k)
    BY <2>3, <2>5, <2>6 DEF OffBlock
  <2> QED
    BY <2>1, <2>7
<1>4. \A k \in 0 .. Len(q) : k \in T
  <2> HIDE DEF T
  <2> QED
    BY <1>1, <1>2, <1>3, UpToAll
<1> QED
  BY <1>4

\* Block c is b without the first k of p.
LessLive(b, c, p, k) == c.live = b.live \ {p[j] : j \in 1 .. k}

GoneBlock(b, c, p, k) ==
  EcoBlock(c) /\ SameSides(b, c) /\ NetsOff(b, c, p, k) /\ LessLive(b, c, p, k)

Distinct(q) == \A i, j \in DOMAIN q : q[i] = q[j] => i = j

LEMMA LessMore ==
  ASSUME NEW b, NEW c, NEW d, NEW q, NEW k \in Nat, k # 0, LessLive(b, c, q, k - 1),
         d.live = c.live \ {q[k]}
  PROVE  LessLive(b, d, q, k)
<1>1. \A j \in 1 .. k : j = k \/ j \in 1 .. k - 1
  OBVIOUS
<1>2. k \in 1 .. k /\ \A j \in 1 .. k - 1 : j \in 1 .. k
  OBVIOUS
<1>3. {q[j] : j \in 1 .. k} = {q[j] : j \in 1 .. k - 1} \cup {q[k]}
  BY <1>1, <1>2
<1> QED
  BY <1>3 DEF LessLive

LEMMA GoneChain ==
  ASSUME NEW b, EcoBlock(b), NEW p \in Seq(BTerms), Distinct(p),
         \A j \in 1 .. Len(p) : p[j] \in b.live,
         NEW d, TermsGone(d, b, p)
  PROVE  /\ \A k \in 0 .. Len(p) : GoneBlock(b, d[k], p, k)
         /\ \A k \in 1 .. Len(p) : p[k] \in d[k - 1].live
<1> DEFINE T == {k \in Nat : GoneBlock(b, d[k], p, k)}
<1>1. Len(p) \in Nat /\ DOMAIN p = 1 .. Len(p)
  OBVIOUS
<1>2. 0 \in T
  <2>1. d[0] = b
    BY DEF TermsGone
  <2>2. SameSides(b, b)
    BY FieldsOf DEF SameSides, SameInsts
  <2>3. LessLive(b, b, p, 0)
    BY DEF LessLive
  <2>4. GoneBlock(b, d[0], p, 0)
    BY <2>1, <2>2, <2>3, NoneOff DEF GoneBlock
  <2> QED
    BY <2>4
<1>a. ASSUME NEW k \in 1 .. Len(p), k - 1 \in T
      PROVE  p[k] \in d[k - 1].live
  <2>1. LessLive(b, d[k - 1], p, k - 1)
    BY <1>a DEF GoneBlock
  <2>2. ASSUME NEW j \in 1 .. k - 1
        PROVE  p[j] # p[k]
    <3>1. j \in DOMAIN p /\ k \in DOMAIN p /\ j # k
      BY <1>1
    <3> QED
      BY <3>1 DEF Distinct
  <2> QED
    BY <2>1, <2>2 DEF LessLive
<1>3. ASSUME NEW k \in 1 .. Len(p), k - 1 \in T
      PROVE  k \in T
  <2>1. /\ k \in Nat /\ k # 0 /\ p[k] \in BTerms /\ p[k] \in Terms
        /\ GoneBlock(b, d[k - 1], p, k - 1)
    BY <1>3, BTermFacts
  <2>2. d[k] = Term_destroy(d[k - 1], p[k]) /\ p[k] \in d[k - 1].live
    BY <1>3, <1>a DEF TermsGone
  <2>3. EcoBlock(d[k - 1]) /\ BlockInv(d[k - 1])
    BY <2>1 DEF GoneBlock, EcoBlock
  <2>4. EcoBlock(d[k])
    BY <2>1, <2>2, <2>3, GoneKept
  <2>a. TermGone(d[k - 1], d[k], p[k])
    BY <2>1, <2>2, <2>3, GoneStep
  <2>5. /\ SameSides(d[k - 1], d[k])
        /\ d[k].live = d[k - 1].live \ {p[k]}
        /\ d[k].links.net = [d[k - 1].links.net EXCEPT ![p[k]] = Null]
    BY <2>a DEF TermGone
  <2>6. SameSides(b, d[k])
    BY <2>1, <2>5, SidesSame DEF GoneBlock
  <2>7. NetsOff(b, d[k], p, k)
    BY <2>1, <2>3, <2>5, OffNets, NetsOffMore DEF GoneBlock
  <2>8. LessLive(b, d[k], p, k)
    BY <2>1, <2>5, LessMore DEF GoneBlock
  <2>9. GoneBlock(b, d[k], p, k)
    BY <2>4, <2>6, <2>7, <2>8 DEF GoneBlock
  <2> QED
    BY <2>1, <2>9
<1>4. \A k \in 0 .. Len(p) : k \in T
  <2> HIDE DEF T
  <2> QED
    BY <1>1, <1>2, <1>3, UpToAll
<1>5. ASSUME NEW k \in 1 .. Len(p)
      PROVE  p[k] \in d[k - 1].live
  <2>1. k - 1 \in 0 .. Len(p)
    BY <1>1
  <2> QED
    BY <1>4, <1>a, <2>1
<1> QED
  BY <1>4, <1>5

-----------------------------------------------------------------------------
(* dbNet::destroy() *)

\* q is the list of net n in table tbl.
NetList(b, n, tbl, q) ==
  /\ q \in Seq(Terms) /\ q \in Seq(Objects(tbl)) /\ Distinct(q)
  /\ \A j \in 1 .. Len(q) : b.links.net[q[j]] = n
  /\ \A t \in Objects(tbl) : b.links.net[t] = n => \E j \in 1 .. Len(q) : q[j] = t

LEMMA WalkList ==
  ASSUME NEW b, EcoBlock(b), NEW n \in Nets, NEW tbl \in {"bterm", "iterm"}
  PROVE  NetList(b, n, tbl, Walk(b.links, <<n, tbl>>))
<1> DEFINE s == <<n, tbl>>
           q == Walk(b.links, s)
<1>1. s \in Lists /\ s[1] = n /\ s[2] = tbl
  BY DEF Lists
<1>2. Listed(b.links, s, q)
  BY <1>1, FieldsOf, InvWalked DEF Walked
<1> HIDE DEF q, s
<1>3. q \in Seq(Terms) /\ DOMAIN q = 1 .. Len(q) /\ Len(q) \in Nat
  BY <1>2 DEF Listed
<1>4. \A j \in 1 .. Len(q) : b.links.net[q[j]] = n /\ q[j][1] = tbl /\ q[j] \in Terms
  BY <1>1, <1>2, <1>3 DEF Listed, On
<1>5. \A j \in 1 .. Len(q) : q[j] \in Objects(tbl)
  BY <1>4, TermFacts DEF BTerms, ITerms
<1>6. q \in Seq(Objects(tbl))
  BY <1>3, <1>5
<1>7. \A t \in Objects(tbl) : t \in Terms /\ t[1] = tbl
  BY BTermFacts, ITermFacts DEF BTerms, ITerms
<1>8. \A t \in Objects(tbl) : b.links.net[t] = n => \E j \in 1 .. Len(q) : q[j] = t
  BY <1>1, <1>2, <1>3, <1>7 DEF Listed, On
<1>9. Distinct(q)
  BY <1>2 DEF Listed, Distinct
<1>10. NetList(b, n, tbl, q)
  BY <1>3, <1>4, <1>6, <1>8, <1>9 DEF NetList
<1> QED
  BY <1>10 DEF q, s

\* c are the blocks after the turns of the first loop, d after those of the
\* second one; the net has no terminal then.
NetLoops(b, n, c, d) ==
  LET q == iterms(b, n)
      p == bterms(b, n)
  IN /\ TermsOff(c, b, q) /\ TermsGone(d, c[Len(q)], p)
     /\ Net_destroy(b, n) = Net_delete(d[Len(p)], n)
     /\ \A k \in 0 .. Len(q) : OffBlock(b, c[k], q, k)
     /\ \A k \in 0 .. Len(p) : GoneBlock(c[Len(q)], d[k], p, k)
     /\ \A k \in 1 .. Len(p) : p[k] \in d[k - 1].live
     /\ n \in d[Len(p)].live
     /\ \A t \in Terms : d[Len(p)].links.net[t] # n

LEMMA NetLoopsExist ==
  ASSUME NEW b, EcoBlock(b), NEW n \in Nets, n \in b.live
  PROVE  \E c, d : NetLoops(b, n, c, d)
<1> DEFINE q == iterms(b, n)
           p == bterms(b, n)
<1>1. NetList(b, n, "iterm", q) /\ NetList(b, n, "bterm", p)
  BY WalkList DEF iterms, bterms
<1> HIDE DEF q, p
<1>2. /\ q \in Seq(Terms) /\ p \in Seq(Terms) /\ p \in Seq(BTerms) /\ Distinct(p)
      /\ Len(q) \in Nat /\ Len(p) \in Nat
  BY <1>1 DEF NetList, BTerms
<1>3. PICK c : TermsOff(c, b, q) /\ c[Len(q)] = FoldLeft(disconnect, b, q)
  BY <1>2, FoldOff
<1> DEFINE e == c[Len(q)]
<1>4. PICK d : TermsGone(d, e, p) /\ d[Len(p)] = FoldLeft(Term_destroy, e, p)
  BY <1>2, FoldGone
<1>5. Net_destroy(b, n) = Net_delete(d[Len(p)], n)
  BY <1>3, <1>4 DEF Net_destroy, q, p
<1>6. \A k \in 0 .. Len(q) : OffBlock(b, c[k], q, k)
  BY <1>2, <1>3, OffChain
<1>7. OffBlock(b, e, q, Len(q)) /\ EcoBlock(e) /\ e.live = b.live
  <2>1. Len(q) \in 0 .. Len(q)
    BY <1>2
  <2> QED
    BY <1>6, <2>1 DEF OffBlock, SameButLinks
<1>8. \A j \in 1 .. Len(p) : p[j] \in e.live
  <2> SUFFICES ASSUME NEW j \in 1 .. Len(p)
               PROVE  p[j] \in b.live
    BY <1>7
  <2>1. p[j] \in Terms /\ b.links.net[p[j]] = n /\ n # Null
    BY <1>1, <1>2, NetFacts DEF NetList
  <2> QED
    BY <2>1 DEF EcoBlock, BlockInv, Connected
<1>9. /\ \A k \in 0 .. Len(p) : GoneBlock(e, d[k], p, k)
      /\ \A k \in 1 .. Len(p) : p[k] \in d[k - 1].live
  <2> HIDE DEF e
  <2> QED
    BY <1>2, <1>4, <1>7, <1>8, GoneChain
<1>10. GoneBlock(e, d[Len(p)], p, Len(p))
  <2>1. Len(p) \in 0 .. Len(p)
    BY <1>2
  <2> QED
    BY <1>9, <2>1
<1> HIDE DEF e
<1>11. n \in d[Len(p)].live
  <2>1. \A j \in 1 .. Len(p) : p[j] # n
    BY <1>2, NetFacts
  <2> QED
    BY <1>7, <1>10, <2>1 DEF GoneBlock, LessLive
<1>12. ASSUME NEW t \in Terms
       PROVE  d[Len(p)].links.net[t] # n
  <2>1. n # Null
    BY NetFacts
  <2>2. CASE t \in ITerms
    <3>1. b.links.net[t] = n => \E j \in 1 .. Len(q) : q[j] = t
      BY <1>1, <2>2 DEF NetList, ITerms
    <3>2. e.links.net[t] # n
      BY <1>7, <2>1, <3>1 DEF OffBlock, NetsOff
    <3> QED
      BY <1>10, <2>1, <3>2 DEF GoneBlock, NetsOff
  <2>3. CASE t \in BTerms
    <3>1. b.links.net[t] = n => \E j \in 1 .. Len(p) : p[j] = t
      BY <1>1, <2>3 DEF NetList, BTerms
    <3>2. e.links.net[t] \in {Null, b.links.net[t]}
      BY <1>7 DEF OffBlock, NetsOff
    <3> QED
      BY <1>10, <2>1, <3>1, <3>2 DEF GoneBlock, NetsOff
  <2> QED
    BY <2>2, <2>3 DEF Terms
<1>13. NetLoops(b, n, c, d)
  BY <1>3, <1>4, <1>5, <1>6, <1>9, <1>11, <1>12 DEF NetLoops, e, q, p
<1> QED
  BY <1>13

LEMMA NetDeleteKept ==
  ASSUME NEW b, EcoBlock(b), NEW n \in Nets, n \in b.live,
         \A t \in Terms : b.links.net[t] # n
  PROVE  EcoBlock(Net_delete(b, n))
<1>1. BlockInv(b) /\ PinsInv(b, Idle) /\ Typed(b) /\ Boxed(b) /\ DOMAIN b = Fields
  BY FieldsOf DEF EcoBlock
<1>2. BlockInv(Net_delete(b, n)) /\ PinsInv(Net_delete(b, n), Idle)
  BY <1>1, NetDeleteInv
<1>3. Typed(Net_delete(b, n))
  BY <1>1, DeleteTyped
<1>4. Boxed(Net_delete(b, n))
  BY <1>1, BoxesKept
<1> QED
  BY <1>2, <1>3, <1>4 DEF EcoBlock

LEMMA NetDestroyKept ==
  ASSUME NEW b, EcoBlock(b), NEW n \in Nets, n \in b.live
  PROVE  EcoBlock(Net_destroy(b, n))
<1>1. PICK c, d : NetLoops(b, n, c, d)
  BY NetLoopsExist
<1> DEFINE e == d[Len(bterms(b, n))]
<1>2. Len(bterms(b, n)) \in Nat
  <2>1. NetList(b, n, "bterm", bterms(b, n))
    BY WalkList DEF bterms
  <2> QED
    BY <2>1 DEF NetList
<1>3. EcoBlock(e) /\ n \in e.live /\ \A t \in Terms : e.links.net[t] # n
  <2>1. Len(bterms(b, n)) \in 0 .. Len(bterms(b, n))
    BY <1>2
  <2> QED
    BY <1>1, <2>1 DEF NetLoops, GoneBlock
<1>4. Net_destroy(b, n) = Net_delete(e, n)
  BY <1>1 DEF NetLoops
<1> HIDE DEF e
<1> QED
  BY <1>3, <1>4, NetDeleteKept

-----------------------------------------------------------------------------
(* dbInst::destroy() *)

\* The call that has taken the first k terminals of instance i.
Taking(i, k) == [fn |-> "Inst_destroy", obj |-> i, k |-> k + 1]

InstBlock(b, c, i, k) ==
  /\ BlockInv(c) /\ PinsInv(c, Taking(i, k)) /\ Typed(c) /\ SameSides(b, c)
  /\ i \in c.live
  /\ NetsOff(b, c, b.iterms[i], k) /\ LessLive(b, c, b.iterms[i], k)

\* c are the blocks after the turns of the loop.
InstLoop(b, i, c) ==
  LET q == b.iterms[i]
  IN /\ TermsGone(c, b, q)
     /\ Inst_destroy(b, i) = Inst_delete(c[Len(q)], i)
     /\ \A k \in 0 .. Len(q) : InstBlock(b, c[k], i, k)
     /\ \A k \in 1 .. Len(q) : TermGone(c[k - 1], c[k], q[k])

LEMMA InstPins ==
  ASSUME NEW b, EcoBlock(b), NEW i \in Insts, i \in b.live
  PROVE  /\ b.iterms[i] \in Seq(ITerms) /\ b.iterms[i] \in Seq(Terms)
         /\ Len(b.iterms[i]) \in Nat /\ DOMAIN b.iterms[i] = 1 .. Len(b.iterms[i])
         /\ Distinct(b.iterms[i])
         /\ \A k \in 1 .. Len(b.iterms[i]) : b.iterms[i][k] \in b.live
<1> DEFINE q == b.iterms[i]
<1>1. q \in Seq(ITerms) /\ PinsLeft(b, i, Idle)
  BY DEF EcoBlock, BlockInv, Shape, PinsInv
<1>2. Len(q) \in Nat /\ DOMAIN q = 1 .. Len(q) /\ \A k \in 1 .. Len(q) : q[k] \in ITerms
  BY <1>1
<1>3. \A k \in 1 .. Len(q) : q[k] \in Terms
  BY <1>2, ITermFacts
<1>4. q \in Seq(Terms)
  BY <1>1, <1>2, <1>3
<1>5. \A k \in 1 .. Len(q) : b.pin[q[k]] = k /\ q[k] \in b.live
  BY <1>1, <1>2 DEF PinsLeft, Destroyed, Idle
<1>6. Distinct(q)
  BY <1>2, <1>5 DEF Distinct
<1> QED
  BY <1>1, <1>2, <1>4, <1>5, <1>6

LEMMA InstLoopExists ==
  ASSUME NEW b, EcoBlock(b), NEW i \in Insts, i \in b.live
  PROVE  \E c : InstLoop(b, i, c)
<1> DEFINE q == b.iterms[i]
<1>1. q \in Seq(ITerms) /\ q \in Seq(Terms) /\ Len(q) \in Nat
  BY InstPins
<1>2. PICK c : TermsGone(c, b, q) /\ c[Len(q)] = FoldLeft(Term_destroy, b, q)
  BY <1>1, FoldGone
<1>3. Inst_destroy(b, i) = Inst_delete(c[Len(q)], i)
  BY <1>2 DEF Inst_destroy
<1> DEFINE T == {k \in Nat : InstBlock(b, c[k], i, k)}
<1>4. 0 \in T
  <2>1. c[0] = b
    BY <1>2 DEF TermsGone
  <2>2. SameSides(b, b)
    BY FieldsOf DEF SameSides, SameInsts
  <2>3. LessLive(b, b, q, 0)
    BY DEF LessLive
  <2>4. PinsInv(b, Taking(i, 0))
    BY PinsOfCalls DEF EcoBlock, Idle
  <2>5. InstBlock(b, c[0], i, 0)
    BY <2>1, <2>2, <2>3, <2>4, NoneOff DEF InstBlock, EcoBlock
  <2> QED
    BY <2>5
<1>5. ASSUME NEW k \in 1 .. Len(q), k - 1 \in T
      PROVE  k \in T /\ TermGone(c[k - 1], c[k], q[k])
  <2> DEFINE e == c[k - 1]
             f == c[k]
  <2>1. k \in Nat \ {0} /\ k \in Nat /\ k # 0 /\ q[k] \in Terms /\ InstBlock(b, e, i, k - 1)
    BY <1>1, <1>5
  <2>2. f = Term_destroy(e, q[k])
    BY <1>2 DEF TermsGone
  <2> HIDE DEF e, f
  <2>3. e.iterms[i] = q /\ BlockInv(e) /\ i \in e.live /\ Typed(e)
    BY <2>1 DEF InstBlock, SameSides, SameInsts
  <2>4. PinsInv(e, Taking(i, k - 1))
    BY <2>1 DEF InstBlock
  <2>5. /\ Taking(i, k - 1).fn = "Inst_destroy" /\ Taking(i, k - 1).obj = i
        /\ Taking(i, k - 1).k = k
        /\ Taking(i, k).fn = "Inst_destroy" /\ Taking(i, k).obj = i
        /\ Taking(i, k).k = k + 1
    BY <2>1 DEF Taking
  <2>6. PinGone(e, f, i, k, Taking(i, k))
    BY <2>1, <2>2, <2>3, <2>4, <2>5, PinGoneInv
  <2>7. BlockInv(f) /\ PinsInv(f, Taking(i, k)) /\ i \in f.live /\ q[k] \in e.live
    BY <2>3, <2>6 DEF PinGone
  <2>8. TermGone(e, f, q[k])
    BY <2>1, <2>2, <2>3, <2>7, GoneStep
  <2>9. Typed(f)
    <3>1. DOMAIN e = Fields /\ DOMAIN e.free = Tables
      BY <2>3 DEF BlockInv, Shape
    <3>2. Extends(e, f, {})
      BY <2>1, <2>2, <3>1, TermCallsExtend
    <3> QED
      BY <2>3, <3>2, ExtendsTyped
  <2>10. SameSides(b, f)
    BY <2>1, <2>8, SidesSame DEF InstBlock, TermGone
  <2>11. DOMAIN e.links.net = Terms
    BY <2>3 DEF BlockInv, Shape, LinksInv, LinksType
  <2>12. NetsOff(b, f, q, k)
    BY <2>1, <2>8, <2>11, NetsOffMore DEF InstBlock, TermGone
  <2>13. LessLive(b, f, q, k)
    BY <2>1, <2>8, LessMore DEF InstBlock, TermGone
  <2>14. InstBlock(b, f, i, k)
    BY <2>7, <2>9, <2>10, <2>12, <2>13 DEF InstBlock
  <2> QED
    BY <2>1, <2>8, <2>14 DEF e, f
<1>6. \A k \in 0 .. Len(q) : k \in T
  <2>1. \A k \in 1 .. Len(q) : k - 1 \in T => k \in T
    BY <1>5
  <2> HIDE DEF T
  <2> QED
    BY <1>1, <1>4, <2>1, UpToAll
<1>7. ASSUME NEW k \in 1 .. Len(q)
      PROVE  TermGone(c[k - 1], c[k], q[k])
  <2>1. k - 1 \in 0 .. Len(q)
    BY <1>1
  <2> QED
    BY <1>5, <1>6, <2>1
<1>8. InstLoop(b, i, c)
  BY <1>2, <1>3, <1>6, <1>7 DEF InstLoop
<1> QED
  BY <1>8

LEMMA InstDestroyKept ==
  ASSUME NEW b, EcoBlock(b), NEW i \in Insts, i \in b.live
  PROVE  EcoBlock(Inst_destroy(b, i))
<1>1. PICK c : InstLoop(b, i, c)
  BY InstLoopExists
<1> DEFINE n == Len(b.iterms[i])
           e == c[n]
<1>2. n \in 0 .. n
  BY InstPins
<1>3. Inst_destroy(b, i) = Inst_delete(e, i) /\ InstBlock(b, e, i, n)
  BY <1>1, <1>2 DEF InstLoop
<1> HIDE DEF e
<1>4. /\ BlockInv(e) /\ PinsInv(e, Taking(i, n)) /\ Typed(e) /\ i \in e.live
      /\ DOMAIN e = Fields /\ Boxed(e)
  BY <1>3 DEF InstBlock, SameSides, EcoBlock, Boxed
<1>5. Taking(i, n).obj = i
  BY DEF Taking
<1>6. BlockInv(Inst_delete(e, i)) /\ PinsInv(Inst_delete(e, i), Idle)
  BY <1>4, <1>5, InstDeleteInv
<1>7. Typed(Inst_delete(e, i))
  BY <1>4, DeleteTyped
<1>8. Boxed(Inst_delete(e, i))
  BY <1>4, BoxesKept
<1> QED
  BY <1>3, <1>6, <1>7, <1>8 DEF EcoBlock

(***************************************************************************)
(* The journal has the turns of the loop of dbInst::destroy() in another   *)
(* order: first every terminal is taken off its net, then the instance is  *)
(* destroyed.  It comes to the same: no terminal on a list is next to one  *)
(* that is off.                                                            *)
(***************************************************************************)
\* l is m without the neighbours of the terminals in S.
Cleared(l, m, S) ==
  /\ DOMAIN l = {"net", "head", "next", "prev"}
  /\ l.net = m.net /\ l.head = m.head
  /\ l.next = [t \in Terms |-> IF t \in S THEN Null ELSE m.next[t]]
  /\ l.prev = [t \in Terms |-> IF t \in S THEN Null ELSE m.prev[t]]

\* What disconnect() and Term_destroy() do to the links.
LinksOff(l, t) == IF l.net[t] = Null THEN l ELSE Unlinked(l, t)

LinksGone(l, t) == [LinksOff(l, t) EXCEPT !.next[t] = Null, !.prev[t] = Null]

LEMMA LinksAre ==
  ASSUME NEW b, DOMAIN b = Fields, NEW t
  PROVE  /\ disconnect(b, t).links = LinksOff(b.links, t)
         /\ Term_destroy(b, t).links = LinksGone(b.links, t)
<1>1. disconnect(b, t).links = LinksOff(b.links, t) /\ DOMAIN disconnect(b, t) = Fields
  BY DEF disconnect, Disconnected, LinksOff, Fields
<1> DEFINE d == disconnect(b, t)
           g == Give(d, t)
<1>2. DOMAIN d = Fields
  BY <1>1
<1> HIDE DEF d
<1>3. g.links = d.links /\ DOMAIN g = Fields
  BY <1>2 DEF Give, Fields
<1> HIDE DEF g
<1>4. Term_destroy(b, t) = [g EXCEPT !.links.next[t] = Null, !.links.prev[t] = Null]
  BY DEF Term_destroy, d, g
<1>5. Term_destroy(b, t).links = [g.links EXCEPT !.next[t] = Null, !.prev[t] = Null]
  BY <1>3, <1>4 DEF Fields
<1> QED
  BY <1>1, <1>3, <1>5 DEF LinksGone, d

LEMMA ClearedOff ==
  ASSUME NEW m, LinksInv(m), NEW S \in SUBSET Terms, \A u \in S : m.net[u] = Null,
         NEW l, Cleared(l, m, S), NEW t \in Terms, t \notin S \/ m.net[t] = Null
  PROVE  Cleared(LinksOff(l, t), LinksOff(m, t), S)
<1>1. l.net[t] = m.net[t]
  BY DEF Cleared
<1>2. CASE m.net[t] = Null
  BY <1>1, <1>2 DEF LinksOff
<1>3. CASE m.net[t] # Null
  <2> DEFINE n == m.next[t]
             p == m.prev[t]
             list == ListOf(m.net[t], t)
             first == m.head[list] = t
  <2>1. t \notin S /\ l.next[t] = n /\ l.prev[t] = p
    BY <1>3 DEF Cleared
  <2>2. LinksOff(l, t) = Unlinked(l, t) /\ LinksOff(m, t) = Unlinked(m, t)
    BY <1>1, <1>3 DEF LinksOff
  <2>3. n # Null => m.net[n] # Null
    BY <1>3 DEF LinksInv, NeighboursSound, SameList
  <2>4. ~ first => p # Null /\ m.net[p] # Null
    BY <1>3 DEF LinksInv, NeighboursSound, SameList
  <2>5. \A u \in S : u # n /\ (~ first => u # p)
    BY <2>3, <2>4, TermFacts
  <2>6. l.net = m.net /\ l.head = m.head
    BY DEF Cleared
  <2>7. \A u \in Terms : /\ l.next[u] = IF u \in S THEN Null ELSE m.next[u]
                         /\ l.prev[u] = IF u \in S THEN Null ELSE m.prev[u]
    BY DEF Cleared
  <2>8. /\ Unlinked(m, t).net = [m.net EXCEPT ![t] = Null]
        /\ Unlinked(m, t).head = IF first THEN [m.head EXCEPT ![list] = n] ELSE m.head
        /\ Unlinked(m, t).next = [u \in Terms |-> IF ~ first /\ u = p THEN n ELSE m.next[u]]
        /\ Unlinked(m, t).prev = [u \in Terms |-> IF u # n THEN m.prev[u]
                                                  ELSE IF first THEN Null ELSE p]
    BY DEF Unlinked
  <2>9. /\ Unlinked(l, t).net = [m.net EXCEPT ![t] = Null]
        /\ Unlinked(l, t).head = IF first THEN [m.head EXCEPT ![list] = n] ELSE m.head
        /\ Unlinked(l, t).next = [u \in Terms |-> IF ~ first /\ u = p THEN n ELSE l.next[u]]
        /\ Unlinked(l, t).prev = [u \in Terms |-> IF u # n THEN l.prev[u]
                                                  ELSE IF first THEN Null ELSE p]
        /\ DOMAIN Unlinked(l, t) = {"net", "head", "next", "prev"}
    BY <2>1, <2>6 DEF Unlinked
  <2> HIDE DEF n, p, first, list
  <2> DEFINE a == Unlinked(l, t)
             e == Unlinked(m, t)
  <2>10. a.next = [u \in Terms |-> IF u \in S THEN Null ELSE e.next[u]]
    BY <2>5, <2>7, <2>8, <2>9
  <2>11. a.prev = [u \in Terms |-> IF u \in S THEN Null ELSE e.prev[u]]
    BY <2>5, <2>7, <2>8, <2>9
  <2>12. a.net = e.net /\ a.head = e.head
    BY <2>8, <2>9
  <2> QED
    BY <2>2, <2>9, <2>10, <2>11, <2>12 DEF Cleared
<1> QED
  BY <1>2, <1>3

LEMMA ClearedOne ==
  ASSUME NEW m, NEW S \in SUBSET Terms, NEW l, Cleared(l, m, S), NEW t \in Terms
  PROVE  Cleared([l EXCEPT !.next[t] = Null, !.prev[t] = Null], m, S \cup {t})
<1> DEFINE a == [l EXCEPT !.next[t] = Null, !.prev[t] = Null]
<1>1. /\ DOMAIN a = {"net", "head", "next", "prev"}
      /\ a.net = l.net /\ a.head = l.head
      /\ a.next = [l.next EXCEPT ![t] = Null] /\ a.prev = [l.prev EXCEPT ![t] = Null]
  BY DEF Cleared
<1> HIDE DEF a
<1>2. /\ a.next = [u \in Terms |-> IF u \in S \cup {t} THEN Null ELSE m.next[u]]
      /\ a.prev = [u \in Terms |-> IF u \in S \cup {t} THEN Null ELSE m.prev[u]]
  BY <1>1 DEF Cleared
<1>3. a.net = m.net /\ a.head = m.head
  BY <1>1 DEF Cleared
<1>4. Cleared(a, m, S \cup {t})
  BY <1>1, <1>2, <1>3 DEF Cleared
<1> QED
  BY <1>4 DEF a

LEMMA ClearedGone ==
  ASSUME NEW m, LinksInv(m), NEW S \in SUBSET Terms, \A u \in S : m.net[u] = Null,
         NEW l, Cleared(l, m, S), NEW t \in Terms, t \notin S \/ m.net[t] = Null
  PROVE  Cleared(LinksGone(l, t), LinksOff(m, t), S \cup {t})
<1>1. Cleared(LinksOff(l, t), LinksOff(m, t), S)
  BY ClearedOff
<1> QED
  BY <1>1, ClearedOne DEF LinksGone

LEMMA ClearedIs ==
  ASSUME NEW l, NEW m, NEW S, NEW t, Cleared(LinksGone(l, t), m, S)
  PROVE  LinksGone(l, t) =
           [net  |-> m.net, head |-> m.head,
            next |-> [u \in Terms |-> IF u \in S THEN Null ELSE m.next[u]],
            prev |-> [u \in Terms |-> IF u \in S THEN Null ELSE m.prev[u]]]
<1> DEFINE a == LinksGone(l, t)
           o == LinksOff(l, t)
<1>1. a = [o EXCEPT !.next[t] = Null, !.prev[t] = Null]
  BY DEF LinksGone
<1> HIDE DEF o
<1>2. a = [f \in DOMAIN a |-> a[f]]
  BY <1>1
<1> HIDE DEF a
<1>3. /\ DOMAIN a = {"net", "head", "next", "prev"}
      /\ a.net = m.net /\ a.head = m.head
      /\ a.next = [u \in Terms |-> IF u \in S THEN Null ELSE m.next[u]]
      /\ a.prev = [u \in Terms |-> IF u \in S THEN Null ELSE m.prev[u]]
  BY DEF Cleared, a
<1>4. a = [net  |-> m.net, head |-> m.head,
           next |-> [u \in Terms |-> IF u \in S THEN Null ELSE m.next[u]],
           prev |-> [u \in Terms |-> IF u \in S THEN Null ELSE m.prev[u]]]
  BY <1>2, <1>3
<1> QED
  BY <1>4 DEF a

LEMMA FirstsMore ==
  ASSUME NEW q, NEW k \in Nat, k # 0
  PROVE  {q[j] : j \in 1 .. k} = {q[j] : j \in 1 .. k - 1} \cup {q[k]}
<1>1. \A j \in 1 .. k : j = k \/ j \in 1 .. k - 1
  OBVIOUS
<1>2. k \in 1 .. k /\ \A j \in 1 .. k - 1 : j \in 1 .. k
  OBVIOUS
<1> QED
  BY <1>1, <1>2

\* The loop from b, and that from b with the terminals off, side by side.
LEMMA LoopsCleared ==
  ASSUME NEW b, EcoBlock(b), NEW i \in Insts, i \in b.live,
         NEW q \in Seq(Terms), q = b.iterms[i], Distinct(q),
         NEW d, TermsOff(d, b, q), \A k \in 0 .. Len(q) : OffBlock(b, d[k], q, k),
         NEW c, InstLoop(b, i, c)
  PROVE  \A k \in 0 .. Len(q) : Cleared(c[k].links, d[k].links, {q[j] : j \in 1 .. k})
<1> DEFINE T == {k \in Nat : Cleared(c[k].links, d[k].links, {q[j] : j \in 1 .. k})}
<1>1. Len(q) \in Nat /\ DOMAIN q = 1 .. Len(q)
  OBVIOUS
<1>2. 0 \in T
  <2>1. c[0] = b /\ d[0] = b
    BY DEF InstLoop, TermsGone, TermsOff
  <2>2. LinksType(b.links)
    BY FieldsOf DEF LinksInv
  <2>3. {q[j] : j \in 1 .. 0} = {}
    OBVIOUS
  <2>4. Cleared(b.links, b.links, {})
    BY <2>2 DEF Cleared, LinksType
  <2>5. Cleared(c[0].links, d[0].links, {q[j] : j \in 1 .. 0})
    BY <2>1, <2>3, <2>4
  <2> QED
    BY <2>5
<1>3. ASSUME NEW k \in 1 .. Len(q), k - 1 \in T
      PROVE  k \in T
  <2> DEFINE S == {q[j] : j \in 1 .. k - 1}
             t == q[k]
             e == c[k - 1]
             f == d[k - 1]
  <2>1. k \in Nat /\ k # 0 /\ t \in Terms /\ k - 1 \in 0 .. Len(q) /\ Cleared(e.links, f.links, S)
    BY <1>1, <1>3
  <2>2. c[k] = Term_destroy(e, t) /\ d[k] = disconnect(f, t)
    BY DEF InstLoop, TermsGone, TermsOff
  <2>3. OffBlock(b, f, q, k - 1) /\ InstBlock(b, e, i, k - 1)
    BY <2>1 DEF InstLoop
  <2>4. LinksInv(f.links) /\ DOMAIN f = Fields /\ DOMAIN e = Fields
    BY <2>3, FieldsOf DEF OffBlock, InstBlock, SameSides
  <2>5. S \in SUBSET Terms
    BY <1>1
  <2>6. \A u \in S : f.links.net[u] = Null
    BY <2>3, <2>5 DEF OffBlock, NetsOff
  <2>7. t \notin S
    <3> SUFFICES ASSUME NEW j \in 1 .. k - 1, q[j] = q[k]
                 PROVE  FALSE
      OBVIOUS
    <3>1. j \in DOMAIN q /\ k \in DOMAIN q /\ j # k
      BY <1>1
    <3> QED
      BY <3>1 DEF Distinct
  <2>8. c[k].links = LinksGone(e.links, t) /\ d[k].links = LinksOff(f.links, t)
    BY <2>2, <2>4, LinksAre
  <2> HIDE DEF e, f, t, S
  <2>9. Cleared(c[k].links, d[k].links, S \cup {t})
    BY <2>1, <2>4, <2>5, <2>6, <2>7, <2>8, ClearedGone
  <2>10. {q[j] : j \in 1 .. k} = S \cup {t}
    BY <2>1, FirstsMore DEF S, t
  <2>11. Cleared(c[k].links, d[k].links, {q[j] : j \in 1 .. k})
    BY <2>9, <2>10
  <2> QED
    BY <2>1, <2>11
<1>4. \A k \in 0 .. Len(q) : k \in T
  <2> HIDE DEF T
  <2> QED
    BY <1>1, <1>2, <1>3, UpToAll
<1> QED
  BY <1>4

LEMMA LoopCleared ==
  ASSUME NEW b, EcoBlock(b), NEW i \in Insts, i \in b.live,
         NEW q \in Seq(Terms), q = b.iterms[i],
         \A k \in 1 .. Len(q) : b.links.net[q[k]] = Null,
         NEW c, InstLoop(b, i, c)
  PROVE  \A k \in 0 .. Len(q) : Cleared(c[k].links, b.links, {q[j] : j \in 1 .. k})
<1> DEFINE T == {k \in Nat : Cleared(c[k].links, b.links, {q[j] : j \in 1 .. k})}
<1>1. Len(q) \in Nat /\ DOMAIN q = 1 .. Len(q)
  OBVIOUS
<1>a. LinksInv(b.links)
  BY FieldsOf
<1>2. 0 \in T
  <2>1. c[0] = b
    BY DEF InstLoop, TermsGone
  <2>2. LinksType(b.links)
    BY <1>a DEF LinksInv
  <2>3. {q[j] : j \in 1 .. 0} = {}
    OBVIOUS
  <2>4. Cleared(b.links, b.links, {})
    BY <2>2 DEF Cleared, LinksType
  <2>5. Cleared(c[0].links, b.links, {q[j] : j \in 1 .. 0})
    BY <2>1, <2>3, <2>4
  <2> QED
    BY <2>5
<1>3. ASSUME NEW k \in 1 .. Len(q), k - 1 \in T
      PROVE  k \in T
  <2> DEFINE S == {q[j] : j \in 1 .. k - 1}
             t == q[k]
             e == c[k - 1]
             m == b.links
  <2>1. k \in Nat /\ k # 0 /\ t \in Terms /\ k - 1 \in 0 .. Len(q) /\ Cleared(e.links, m, S)
    BY <1>1, <1>3
  <2>2. c[k] = Term_destroy(e, t)
    BY DEF InstLoop, TermsGone
  <2>3. InstBlock(b, e, i, k - 1)
    BY <2>1 DEF InstLoop
  <2>4. DOMAIN e = Fields
    BY <2>3 DEF InstBlock, SameSides
  <2>5. S \in SUBSET Terms
    BY <1>1
  <2>6. \A u \in S : m.net[u] = Null
    BY <1>1
  <2>7. m.net[t] = Null
    OBVIOUS
  <2>8. c[k].links = LinksGone(e.links, t)
    BY <2>2, <2>4, LinksAre
  <2>9. LinksOff(m, t) = m
    BY <2>7 DEF LinksOff
  <2> HIDE DEF e, t, S, m
  <2>b. LinksInv(m)
    BY <1>a DEF m
  <2>c. Cleared(LinksGone(e.links, t), LinksOff(m, t), S \cup {t})
    BY <2>1, <2>5, <2>6, <2>7, <2>b, ClearedGone
  <2>10. {q[j] : j \in 1 .. k} = S \cup {t}
    BY <2>1, FirstsMore DEF S, t
  <2>11. Cleared(c[k].links, m, {q[j] : j \in 1 .. k})
    BY <2>8, <2>9, <2>10, <2>c
  <2> QED
    BY <2>1, <2>11 DEF m
<1>4. \A k \in 0 .. Len(q) : k \in T
  <2> HIDE DEF T
  <2> QED
    BY <1>1, <1>2, <1>3, UpToAll
<1> QED
  BY <1>4

Goes(c, b, q) == c[0] = b /\ \A k \in 1 .. Len(q) : TermGone(c[k - 1], c[k], q[k])

FreeAt(c, e, k) == c[k].free = e[k].free

LEMMA FreeSame ==
  ASSUME NEW b, NEW f, b.free = f.free, NEW q, Len(q) \in Nat,
         NEW c, Goes(c, b, q), NEW e, Goes(e, f, q)
  PROVE  FreeAt(c, e, Len(q))
<1> DEFINE T == {k \in Nat : c[k].free = e[k].free}
<1>1. 0 \in T
  BY DEF Goes
<1>2. ASSUME NEW k \in 1 .. Len(q), k - 1 \in T
      PROVE  k \in T
  <2>1. c[k - 1].free = e[k - 1].free /\ k \in Nat
    BY <1>2
  <2>2. TermGone(c[k - 1], c[k], q[k]) /\ TermGone(e[k - 1], e[k], q[k])
    BY DEF Goes
  <2>3. c[k].free = e[k].free
    BY <2>1, <2>2 DEF TermGone
  <2> QED
    BY <2>1, <2>3
<1>3. Len(q) \in T
  <2> HIDE DEF T
  <2> QED
    BY <1>1, <1>2, UpTo
<1> QED
  BY <1>3 DEF FreeAt

LEMMA InstDeleteSame ==
  ASSUME NEW b, NEW c, DOMAIN b = Fields, SameSides(b, c),
         b.live = c.live, b.free = c.free, b.links = c.links, NEW i
  PROVE  Inst_delete(c, i) = Inst_delete(b, i)
<1> DEFINE G(x) == Give(x, i)
<1>1. /\ DOMAIN G(b) = Fields /\ DOMAIN G(c) = Fields
      /\ G(b) = [f \in Fields |-> G(b)[f]] /\ G(c) = [f \in Fields |-> G(c)[f]]
  BY DEF Give, SameSides, Fields
<1>2. /\ G(c).live = G(b).live /\ G(c).free = G(b).free /\ G(c).links = G(b).links
      /\ G(c).name = G(b).name /\ G(c).rule = G(b).rule /\ G(c).master = G(b).master
      /\ G(c).iterms = G(b).iterms /\ G(c).pin = G(b).pin /\ G(c).x = G(b).x
      /\ G(c).orient = G(b).orient /\ G(c).bbox = G(b).bbox
  BY DEF Give, SameSides, SameInsts, Fields
<1> HIDE DEF G
<1>3. \A f \in Fields : G(c)[f] = G(b)[f]
  BY <1>2 DEF Fields
<1>4. G(c) = G(b)
  BY <1>1, <1>3
<1> QED
  BY <1>4 DEF Inst_delete, G

LEMMA InstDestroySame ==
  ASSUME NEW b, EcoBlock(b), NEW i \in Insts, i \in b.live,
         NEW q, q = b.iterms[i],
         NEW d, TermsOff(d, b, q), \A k \in 0 .. Len(q) : OffBlock(b, d[k], q, k)
  PROVE  Inst_destroy(d[Len(q)], i) = Inst_destroy(b, i)
<1> DEFINE n == Len(q)
           f == d[n]
           Q == {q[j] : j \in 1 .. n}
<1>1. q \in Seq(Terms) /\ n \in Nat /\ Distinct(q) /\ n \in 0 .. n
  BY InstPins
<1>2. PICK c : InstLoop(b, i, c)
  BY InstLoopExists
<1>3. /\ EcoBlock(f) /\ SameButLinks(b, f) /\ i \in f.live /\ f.iterms[i] = q
      /\ \A k \in 1 .. n : f.links.net[q[k]] = Null
  <2>1. OffBlock(b, f, q, n)
    BY <1>1
  <2>2. EcoBlock(f) /\ SameButLinks(b, f) /\ NetsOff(b, f, q, n)
    BY <2>1 DEF OffBlock
  <2>3. \A k \in 1 .. n : q[k] \in Terms
    BY <1>1
  <2> QED
    BY <2>2, <2>3 DEF SameButLinks, SameSides, SameInsts, NetsOff
<1> HIDE DEF f
<1>4. PICK e : InstLoop(f, i, e)
  BY <1>3, InstLoopExists
<1>5. Inst_destroy(b, i) = Inst_delete(c[n], i) /\ Inst_destroy(f, i) = Inst_delete(e[n], i)
  BY <1>2, <1>3, <1>4 DEF InstLoop
<1>6. InstBlock(b, c[n], i, n) /\ InstBlock(f, e[n], i, n)
  BY <1>1, <1>2, <1>3, <1>4 DEF InstLoop
<1>7. SameSides(c[n], e[n]) /\ DOMAIN c[n] = Fields
  BY <1>3, <1>6 DEF InstBlock, SameButLinks, SameSides, SameInsts
<1>8. c[n].live = e[n].live
  BY <1>3, <1>6 DEF InstBlock, LessLive, SameButLinks
<1>9. c[n].free = e[n].free
  <2>1. Goes(c, b, q)
    BY <1>2 DEF InstLoop, TermsGone, Goes
  <2>2. Goes(e, f, q)
    BY <1>3, <1>4 DEF InstLoop, TermsGone, Goes
  <2>3. b.free = f.free
    BY <1>3 DEF SameButLinks
  <2>4. FreeAt(c, e, Len(q))
    BY <1>1, <2>1, <2>2, <2>3, FreeSame
  <2> QED
    BY <2>4 DEF FreeAt
<1>10. c[n].links = e[n].links
  <2>1. CASE n = 0
    <3>1. c[0] = b /\ e[0] = f /\ f = b
      BY <1>2, <1>4, <2>1 DEF InstLoop, TermsGone, TermsOff, f
    <3> QED
      BY <2>1, <3>1
  <2>2. CASE n # 0
    <3>1. Cleared(c[n].links, f.links, Q)
      <4>1. \A k \in 0 .. Len(q) : Cleared(c[k].links, d[k].links, {q[j] : j \in 1 .. k})
        BY <1>1, <1>2, LoopsCleared
      <4> QED
        BY <1>1, <4>1 DEF f
    <3>2. Cleared(e[n].links, f.links, Q)
      <4>1. \A k \in 0 .. Len(q) : Cleared(e[k].links, f.links, {q[j] : j \in 1 .. k})
        BY <1>1, <1>3, <1>4, LoopCleared
      <4> QED
        BY <1>1, <4>1
    <3> HIDE DEF Q
    <3>3. n \in 1 .. n /\ n - 1 \in 0 .. n
      BY <1>1, <2>2
    <3>4. DOMAIN c[n - 1] = Fields /\ DOMAIN e[n - 1] = Fields
      <4>1. InstBlock(b, c[n - 1], i, n - 1) /\ InstBlock(f, e[n - 1], i, n - 1)
        BY <1>2, <1>3, <1>4, <3>3 DEF InstLoop
      <4> QED
        BY <4>1 DEF InstBlock, SameSides
    <3>5. c[n] = Term_destroy(c[n - 1], q[n]) /\ e[n] = Term_destroy(e[n - 1], q[n])
      BY <1>2, <1>3, <1>4, <3>3 DEF InstLoop, TermsGone
    <3>6. /\ c[n].links = LinksGone(c[n - 1].links, q[n])
          /\ e[n].links = LinksGone(e[n - 1].links, q[n])
      BY <3>4, <3>5, LinksAre
    <3> QED
      BY <3>1, <3>2, <3>6, ClearedIs
  <2> QED
    BY <2>1, <2>2
<1>11. Inst_delete(e[n], i) = Inst_delete(c[n], i)
  BY <1>7, <1>8, <1>9, <1>10, InstDeleteSame
<1> QED
  BY <1>5, <1>11 DEF f

-----------------------------------------------------------------------------
(* Records and what they stand for. *)

Ops == {"create net", "create bterm", "create inst", "delete", "connect", "disconnect",
        "swap", "ORIGIN", "FLAGS", "rule"}

Owners == Nets \cup Terms \cup Insts \cup {Null}

Args == Owners \cup Masters \cup Origins \cup Orients \cup Rules
          \cup Names["net"] \cup Names["bterm"] \cup Names["inst"]

\* What a record of each kind has for its object and its argument.
WellFormed(r) ==
  CASE r.op = "create bterm" -> r.obj \in Nets
    [] r.op = "create inst"  -> r.obj \in Masters
    [] r.op = "delete"       -> r.obj \in Nets \cup BTerms \cup Insts /\ r.arg = Null
    [] r.op = "connect"      -> r.obj \in Terms /\ r.arg \in Nets
    [] r.op = "disconnect"   -> r.obj \in Terms /\ r.arg = Null
    [] r.op = "swap"         -> r.obj \in Insts /\ r.arg \in Masters
    [] r.op \in {"ORIGIN", "FLAGS"} -> r.obj \in Insts
    [] r.op \in {"create net", "rule"} -> r.obj = Null

Recs == {r \in [op : Ops, obj : Owners \cup Masters, arg : Args] : WellFormed(r)}

\* The call on block b that record r was made of, with the result c: it finds
\* its objects and it has no other record.
Redoes(b, r, c) ==
  \/ /\ r.op = "create net" /\ ~ HasMember(b, "net", r.arg) /\ Room(b, "net", 1)
     /\ c = Net_create(b, r.arg)
  \/ /\ r.op = "create bterm" /\ ~ HasMember(b, "bterm", r.arg) /\ Room(b, "bterm", 1)
     /\ r.obj \in b.live
     /\ c = BTerm_create(b, r.obj, r.arg)
  \/ /\ r.op = "create inst" /\ ~ HasMember(b, "inst", r.arg)
     /\ Room(b, "inst", 1) /\ Room(b, "iterm", Len(MTerms[r.obj]))
     /\ c = Inst_create(b, r.obj, r.arg)
  \/ /\ r.op = "delete" /\ r.obj \in Nets /\ r.obj \in b.live
     /\ \A t \in Terms : b.links.net[t] # r.obj
     /\ c = Net_delete(b, r.obj)
  \/ /\ r.op = "delete" /\ r.obj \in BTerms /\ r.obj \in b.live
     /\ c = Term_destroy(b, r.obj)
  \/ /\ r.op = "delete" /\ r.obj \in Insts /\ r.obj \in b.live
     /\ \A k \in 1 .. Len(b.iterms[r.obj]) : b.links.net[b.iterms[r.obj][k]] = Null
     /\ c = Inst_destroy(b, r.obj)
  \/ /\ r.op = "connect" /\ r.obj \in b.live /\ r.arg \in b.live
     /\ r.obj \in BTerms \/ b.links.net[r.obj] = Null
     /\ c = connect(b, r.obj, r.arg)
  \/ /\ r.op = "disconnect" /\ r.obj \in b.live /\ b.links.net[r.obj] # Null
     /\ c = disconnect(b, r.obj)
  \/ r.op = "swap" /\ r.obj \in b.live /\ c = swapMaster(b, r.obj, r.arg)
  \/ /\ r.op = "ORIGIN" /\ r.obj \in b.live /\ b.x[r.obj] # r.arg
     /\ c = setOrigin(b, r.obj, r.arg)
  \/ /\ r.op = "FLAGS" /\ r.obj \in b.live /\ b.orient[r.obj] # r.arg
     /\ c = setOrient(b, r.obj, r.arg)
  \/ r.op = "rule" /\ \E n \in Nets : c = setNonDefaultRule(b, n, r.arg)

\* The records of s, one after the other, make block b into c by way of bs.
Replays(bs, b, s, c) ==
  /\ bs[0] = b /\ bs[Len(s)] = c
  /\ \A k \in 1 .. Len(s) : Redoes(bs[k - 1], s[k], bs[k])

Path(b, s, c) == \E bs : Replays(bs, b, s, c)

LEMMA PathNone == ASSUME NEW b PROVE Path(b, << >>, b)
<1>1. Replays([k \in {0} |-> b], b, << >>, b)
  BY DEF Replays
<1> QED
  BY <1>1 DEF Path

LEMMA PathOne ==
  ASSUME NEW b, NEW r, NEW c, Redoes(b, r, c)
  PROVE  Path(b, <<r>>, c)
<1> DEFINE bs == [k \in {0, 1} |-> IF k = 0 THEN b ELSE c]
<1>1. bs[0] = b /\ bs[1] = c
  OBVIOUS
<1> HIDE DEF bs
<1>2. Len(<<r>>) = 1 /\ <<r>>[1] = r /\ \A k \in 1 .. 1 : k = 1 /\ k - 1 = 0
  OBVIOUS
<1>3. \A k \in 1 .. Len(<<r>>) : Redoes(bs[k - 1], <<r>>[k], bs[k])
  <2> SUFFICES ASSUME NEW k \in 1 .. Len(<<r>>)
               PROVE  Redoes(bs[k - 1], <<r>>[k], bs[k])
    OBVIOUS
  <2>1. k = 1 /\ k - 1 = 0
    BY <1>2
  <2>2. bs[k - 1] = b /\ bs[k] = c /\ <<r>>[k] = r
    BY <1>1, <1>2, <2>1
  <2> QED
    BY <2>2
<1>4. Replays(bs, b, <<r>>, c)
  BY <1>1, <1>2, <1>3 DEF Replays
<1> QED
  BY <1>4 DEF Path

LEMMA PathBoth ==
  ASSUME NEW R, NEW s \in Seq(R), NEW t \in Seq(R), NEW b, NEW c, NEW d,
         Path(b, s, c), Path(c, t, d)
  PROVE  Path(b, s \o t, d)
<1>1. PICK bs : Replays(bs, b, s, c)
  BY DEF Path
<1>2. PICK cs : Replays(cs, c, t, d)
  BY DEF Path
<1> DEFINE n == Len(s)
           m == Len(t)
           ds == [k \in 0 .. n + m |-> IF k <= n THEN bs[k] ELSE cs[k - n]]
<1>3. /\ n \in Nat /\ m \in Nat /\ Len(s \o t) = n + m
      /\ \A k \in 1 .. n : (s \o t)[k] = s[k]
      /\ \A k \in n + 1 .. n + m : (s \o t)[k] = t[k - n]
  OBVIOUS
<1>4. /\ \A k \in 0 .. n : ds[k] = bs[k]
      /\ \A k \in n .. n + m : ds[k] = cs[k - n]
  <2>1. bs[n] = c /\ cs[0] = c
    BY <1>1, <1>2 DEF Replays
  <2>2. \A k \in 0 .. n : k \in 0 .. n + m /\ k <= n
    BY <1>3
  <2>3. n - n = 0 /\ \A k \in n .. n + m : k \in 0 .. n + m /\ (k = n \/ ~ k <= n)
    BY <1>3
  <2> QED
    BY <2>1, <2>2, <2>3
<1> HIDE DEF ds
<1>5. ds[0] = b /\ ds[n + m] = d
  <2>1. 0 \in 0 .. n /\ n + m \in n .. n + m /\ n + m - n = m
    BY <1>3
  <2> QED
    BY <1>1, <1>2, <1>4, <2>1 DEF Replays
<1>6. ASSUME NEW k \in 1 .. n + m
      PROVE  Redoes(ds[k - 1], (s \o t)[k], ds[k])
  <2>1. CASE k <= n
    <3>1. k \in 1 .. n /\ k - 1 \in 0 .. n /\ k \in 0 .. n
      BY <1>3, <2>1
    <3>2. ds[k - 1] = bs[k - 1] /\ ds[k] = bs[k] /\ (s \o t)[k] = s[k]
      BY <1>3, <1>4, <3>1
    <3>3. Redoes(bs[k - 1], s[k], bs[k])
      BY <1>1, <3>1 DEF Replays
    <3> QED
      BY <3>2, <3>3
  <2>2. CASE ~ k <= n
    <3> DEFINE j == k - n
    <3>1. /\ j \in 1 .. m /\ k - 1 \in n .. n + m /\ k \in n .. n + m
          /\ k \in n + 1 .. n + m /\ k - 1 - n = j - 1
      BY <1>3, <2>2
    <3>2. ds[k - 1] = cs[j - 1] /\ ds[k] = cs[j] /\ (s \o t)[k] = t[j]
      BY <1>3, <1>4, <3>1
    <3> HIDE DEF j
    <3>3. Redoes(cs[j - 1], t[j], cs[j])
      BY <1>2, <3>1 DEF Replays
    <3> QED
      BY <3>2, <3>3
  <2> QED
    BY <2>1, <2>2
<1>7. Replays(ds, b, s \o t, d)
  BY <1>3, <1>5, <1>6 DEF Replays
<1> QED
  BY <1>7 DEF Path

\* Each of the sequences ss leads from one of the blocks c to the next.
Legs(c, ss) == \A k \in 1 .. Len(ss) : Path(c[k - 1], ss[k], c[k])

LEMMA PathLegs ==
  ASSUME NEW R, NEW ss \in Seq(Seq(R)), NEW c, Legs(c, ss)
  PROVE  Path(c[0], FlattenSeq(ss), c[Len(ss)]) /\ FlattenSeq(ss) \in Seq(R)
<1>1. PICK f : /\ Concats(f, ss) /\ FlattenSeq(ss) = f[Len(ss)]
               /\ \A k \in 0 .. Len(ss) : f[k] \in Seq(R)
  BY FlattenExists
<1> DEFINE T == {k \in Nat : Path(c[0], f[k], c[k])}
<1>2. Len(ss) \in Nat /\ Len(ss) \in 0 .. Len(ss)
  OBVIOUS
<1>3. 0 \in T
  <2>1. f[0] = << >>
    BY <1>1 DEF Concats
  <2>2. Path(c[0], f[0], c[0])
    BY <2>1, PathNone
  <2> QED
    BY <2>2
<1>4. ASSUME NEW k \in 1 .. Len(ss), k - 1 \in T
      PROVE  k \in T
  <2>1. k \in Nat /\ k - 1 \in 0 .. Len(ss) /\ ss[k] \in Seq(R) /\ Path(c[0], f[k - 1], c[k - 1])
    BY <1>4
  <2>2. f[k] = f[k - 1] \o ss[k] /\ f[k - 1] \in Seq(R)
    BY <1>1, <2>1 DEF Concats
  <2>3. Path(c[k - 1], ss[k], c[k])
    BY DEF Legs
  <2>4. Path(c[0], f[k], c[k])
    BY <2>1, <2>2, <2>3, PathBoth
  <2> QED
    BY <2>1, <2>4
<1>5. Len(ss) \in T
  <2> HIDE DEF T
  <2> QED
    BY <1>2, <1>3, <1>4, UpTo
<1> QED
  BY <1>1, <1>2, <1>5

-----------------------------------------------------------------------------
(* The journal of a call leads from the block to what the call makes of it. *)

Logged(b, s, c) == s \in Seq(Recs) /\ Path(b, s, c)

LEMMA RecordTyped ==
  ASSUME NEW op \in Ops, NEW o \in Owners \cup Masters, NEW a \in Args,
         WellFormed([op |-> op, obj |-> o, arg |-> a])
  PROVE  /\ Record(op, o, a) = <<[op |-> op, obj |-> o, arg |-> a]>>
         /\ Record(op, o, a) \in Seq(Recs)
<1> DEFINE r == [op |-> op, obj |-> o, arg |-> a]
<1>1. r \in Recs
  BY DEF Recs
<1> HIDE DEF r
<1>2. <<r>> \in Seq(Recs)
  BY <1>1
<1>3. Record(op, o, a) = <<r>>
  BY DEF Record, r
<1> QED
  BY <1>2, <1>3 DEF r

LEMMA LoggedNone == ASSUME NEW b PROVE Logged(b, << >>, b)
  BY PathNone DEF Logged

LEMMA LoggedOne ==
  ASSUME NEW op \in Ops, NEW o \in Owners \cup Masters, NEW a \in Args,
         WellFormed([op |-> op, obj |-> o, arg |-> a]), NEW b, NEW c,
         Redoes(b, [op |-> op, obj |-> o, arg |-> a], c)
  PROVE  Logged(b, Record(op, o, a), c)
  BY RecordTyped, PathOne DEF Logged

LEMMA LoggedBoth ==
  ASSUME NEW s, NEW t, NEW b, NEW c, NEW d, Logged(b, s, c), Logged(c, t, d)
  PROVE  Logged(b, s \o t, d)
<1>1. s \in Seq(Recs) /\ t \in Seq(Recs) /\ Path(b, s, c) /\ Path(c, t, d)
  BY DEF Logged
<1>2. s \o t \in Seq(Recs)
  BY <1>1
<1>3. Path(b, s \o t, d)
  BY <1>1, PathBoth
<1> QED
  BY <1>2, <1>3 DEF Logged

LEMMA DisconnectLogged ==
  ASSUME NEW b, EcoBlock(b), NEW t \in Terms
  PROVE  Logged(b, disconnect_log(b, t), disconnect(b, t))
<1>1. CASE b.links.net[t] = Null
  BY <1>1, LoggedNone DEF disconnect_log, disconnect
<1>2. CASE b.links.net[t] # Null
  <2> DEFINE r == [op |-> "disconnect", obj |-> t, arg |-> Null]
  <2>1. t \in b.live
    BY <1>2 DEF EcoBlock, BlockInv, Connected
  <2>2. Redoes(b, r, disconnect(b, t))
    BY <1>2, <2>1 DEF Redoes
  <2>3. WellFormed(r)
    BY DEF WellFormed
  <2>4. "disconnect" \in Ops /\ t \in Owners \cup Masters /\ Null \in Args
    BY DEF Ops, Owners, Args
  <2>5. Logged(b, Record("disconnect", t, Null), disconnect(b, t))
    BY <2>2, <2>3, <2>4, LoggedOne
  <2> QED
    BY <1>2, <2>5 DEF disconnect_log
<1> QED
  BY <1>1, <1>2

LEMMA ConnectLogged ==
  ASSUME NEW b, EcoBlock(b), NEW t \in Terms, t \in b.live, NEW n \in Nets, n \in b.live
  PROVE  Logged(b, connect_log(b, t, n), connect(b, t, n))
<1> DEFINE r == [op |-> "connect", obj |-> t, arg |-> n]
<1>1. WellFormed(r) /\ "connect" \in Ops /\ t \in Owners \cup Masters /\ n \in Args
  BY DEF WellFormed, Ops, Owners, Args
<1>2. CASE t \in BTerms
  <2>1. Redoes(b, r, connect(b, t, n))
    BY <1>2 DEF Redoes
  <2>2. Logged(b, Record("connect", t, n), connect(b, t, n))
    BY <1>1, <2>1, LoggedOne
  <2> QED
    BY <1>2, <2>2 DEF connect_log
<1>3. CASE t \notin BTerms /\ b.links.net[t] = n
  <2>1. t \in ITerms
    BY <1>3 DEF Terms
  <2> QED
    BY <1>3, <2>1, LoggedNone DEF connect_log, connect
<1>4. CASE t \notin BTerms /\ b.links.net[t] # n
  <2> DEFINE d == disconnect(b, t)
  <2>1. d.links.net[t] = Null /\ t \in d.live /\ n \in d.live
    <3>1. d.links.net = [b.links.net EXCEPT ![t] = Null] /\ d.live = b.live
      BY OffStep DEF SameButLinks
    <3> QED
      BY <3>1, OffNets
  <2>2. disconnect(d, t) = d
    BY <2>1 DEF disconnect
  <2>3. connect(d, t, n) = connect(b, t, n)
    <3>1. n # Null
      BY NetFacts
    <3> QED
      BY <1>4, <2>1, <2>2, <3>1 DEF connect
  <2>4. Logged(b, disconnect_log(b, t), d)
    BY DisconnectLogged
  <2> HIDE DEF d
  <2>5. Redoes(d, r, connect(b, t, n))
    BY <2>1, <2>3 DEF Redoes
  <2>6. Logged(d, Record("connect", t, n), connect(b, t, n))
    BY <1>1, <2>5, LoggedOne
  <2>7. Logged(b, disconnect_log(b, t) \o Record("connect", t, n), connect(b, t, n))
    BY <2>4, <2>6, LoggedBoth
  <2> QED
    BY <1>4, <2>7 DEF connect_log
<1> QED
  BY <1>2, <1>3, <1>4

LEMMA CreatesLogged ==
  ASSUME NEW b, EcoBlock(b)
  PROVE  /\ \A name \in Names["net"] :
              Room(b, "net", 1) /\ ~ HasMember(b, "net", name) =>
                Logged(b, Record("create net", Null, name), Net_create(b, name))
         /\ \A n \in Nets \cap b.live, name \in Names["bterm"] :
              Room(b, "bterm", 1) /\ ~ HasMember(b, "bterm", name) =>
                Logged(b, Record("create bterm", n, name), BTerm_create(b, n, name))
         /\ \A m \in Masters, name \in Names["inst"] :
              /\ Room(b, "inst", 1) /\ Room(b, "iterm", Len(MTerms[m]))
              /\ ~ HasMember(b, "inst", name)
              => Logged(b, Record("create inst", m, name), Inst_create(b, m, name))
<1>1. ASSUME NEW name \in Names["net"], Room(b, "net", 1), ~ HasMember(b, "net", name)
      PROVE  Logged(b, Record("create net", Null, name), Net_create(b, name))
  <2> DEFINE r == [op |-> "create net", obj |-> Null, arg |-> name]
  <2>1. WellFormed(r) /\ "create net" \in Ops /\ Null \in Owners \cup Masters /\ name \in Args
    BY DEF WellFormed, Ops, Owners, Args
  <2>2. Redoes(b, r, Net_create(b, name))
    BY <1>1 DEF Redoes
  <2> QED
    BY <2>1, <2>2, LoggedOne
<1>2. ASSUME NEW n \in Nets \cap b.live, NEW name \in Names["bterm"],
             Room(b, "bterm", 1), ~ HasMember(b, "bterm", name)
      PROVE  Logged(b, Record("create bterm", n, name), BTerm_create(b, n, name))
  <2> DEFINE r == [op |-> "create bterm", obj |-> n, arg |-> name]
  <2>1. WellFormed(r) /\ "create bterm" \in Ops /\ n \in Owners \cup Masters /\ name \in Args
    BY DEF WellFormed, Ops, Owners, Args
  <2>2. Redoes(b, r, BTerm_create(b, n, name))
    BY <1>2 DEF Redoes
  <2> QED
    BY <2>1, <2>2, LoggedOne
<1>3. ASSUME NEW m \in Masters, NEW name \in Names["inst"],
             Room(b, "inst", 1), Room(b, "iterm", Len(MTerms[m])),
             ~ HasMember(b, "inst", name)
      PROVE  Logged(b, Record("create inst", m, name), Inst_create(b, m, name))
  <2> DEFINE r == [op |-> "create inst", obj |-> m, arg |-> name]
  <2>1. WellFormed(r) /\ "create inst" \in Ops /\ m \in Owners \cup Masters /\ name \in Args
    BY DEF WellFormed, Ops, Owners, Args
  <2>2. Redoes(b, r, Inst_create(b, m, name))
    BY <1>3 DEF Redoes
  <2> QED
    BY <2>1, <2>2, LoggedOne
<1> QED
  BY <1>1, <1>2, <1>3

LEMMA BTermDestroyLogged ==
  ASSUME NEW b, NEW t \in BTerms, t \in b.live
  PROVE  Logged(b, BTerm_destroy_log(t), Term_destroy(b, t))
<1> DEFINE r == [op |-> "delete", obj |-> t, arg |-> Null]
<1>1. WellFormed(r) /\ "delete" \in Ops /\ t \in Owners \cup Masters /\ Null \in Args
  BY BTermFacts DEF WellFormed, Ops, Owners, Args
<1>2. Redoes(b, r, Term_destroy(b, t))
  BY DEF Redoes
<1> QED
  BY <1>1, <1>2, LoggedOne DEF BTerm_destroy_log

LEMMA AsidesLogged ==
  ASSUME NEW b, NEW i \in Insts, i \in b.live
  PROVE  /\ \A m \in Masters : Logged(b, Record("swap", i, m), swapMaster(b, i, m))
         /\ \A x \in Origins : b.x[i] # x =>
              Logged(b, Record("ORIGIN", i, x), setOrigin(b, i, x))
         /\ \A o \in Orients : b.orient[i] # o =>
              Logged(b, Record("FLAGS", i, o), setOrient(b, i, o))
<1>0. {"swap", "ORIGIN", "FLAGS"} \subseteq Ops /\ i \in Owners \cup Masters
  BY DEF Ops, Owners
<1>1. ASSUME NEW m \in Masters
      PROVE  Logged(b, Record("swap", i, m), swapMaster(b, i, m))
  <2> DEFINE r == [op |-> "swap", obj |-> i, arg |-> m]
  <2>1. WellFormed(r) /\ m \in Args
    BY DEF WellFormed, Args
  <2>2. Redoes(b, r, swapMaster(b, i, m))
    BY DEF Redoes
  <2> QED
    BY <1>0, <2>1, <2>2, LoggedOne
<1>2. ASSUME NEW x \in Origins, b.x[i] # x
      PROVE  Logged(b, Record("ORIGIN", i, x), setOrigin(b, i, x))
  <2> DEFINE r == [op |-> "ORIGIN", obj |-> i, arg |-> x]
  <2>1. WellFormed(r) /\ x \in Args
    BY DEF WellFormed, Args
  <2>2. Redoes(b, r, setOrigin(b, i, x))
    BY <1>2 DEF Redoes
  <2> QED
    BY <1>0, <2>1, <2>2, LoggedOne
<1>3. ASSUME NEW o \in Orients, b.orient[i] # o
      PROVE  Logged(b, Record("FLAGS", i, o), setOrient(b, i, o))
  <2> DEFINE r == [op |-> "FLAGS", obj |-> i, arg |-> o]
  <2>1. WellFormed(r) /\ o \in Args
    BY DEF WellFormed, Args
  <2>2. Redoes(b, r, setOrient(b, i, o))
    BY <1>3 DEF Redoes
  <2> QED
    BY <1>0, <2>1, <2>2, LoggedOne
<1> QED
  BY <1>1, <1>2, <1>3

LEMMA RuleLogged ==
  ASSUME NEW b, NEW n \in Nets, NEW r \in Rules
  PROVE  Logged(b, Record("rule", Null, r), setNonDefaultRule(b, n, r))
<1> DEFINE rc == [op |-> "rule", obj |-> Null, arg |-> r]
<1>1. WellFormed(rc) /\ "rule" \in Ops /\ Null \in Owners \cup Masters /\ r \in Args
  BY DEF WellFormed, Ops, Owners, Args
<1>2. Redoes(b, rc, setNonDefaultRule(b, n, r))
  BY DEF Redoes
<1> QED
  BY <1>1, <1>2, LoggedOne

OffLog(b, q) == FlattenSeq([k \in DOMAIN q |-> disconnect_log(b, q[k])])

GoneLog(p) == FlattenSeq([k \in DOMAIN p |-> BTerm_destroy_log(p[k])])

LEMMA DestroyLogs ==
  ASSUME NEW b, NEW o
  PROVE  /\ Net_destroy_log(b, o) = (OffLog(b, iterms(b, o)) \o GoneLog(bterms(b, o)))
                                     \o Record("delete", o, Null)
         /\ Inst_destroy_log(b, o) = OffLog(b, b.iterms[o]) \o Record("delete", o, Null)
  BY DEF Net_destroy_log, Inst_destroy_log, Each, OffLog, GoneLog

LEMMA OffLogged ==
  ASSUME NEW b, EcoBlock(b), NEW q \in Seq(Terms), Distinct(q),
         NEW c, TermsOff(c, b, q), \A k \in 0 .. Len(q) : OffBlock(b, c[k], q, k)
  PROVE  Logged(b, OffLog(b, q), c[Len(q)])
<1> DEFINE ss == [k \in DOMAIN q |-> disconnect_log(b, q[k])]
<1>1. DOMAIN q = 1 .. Len(q) /\ Len(q) \in Nat
  OBVIOUS
<1>2. ASSUME NEW k \in 1 .. Len(q)
      PROVE  Logged(c[k - 1], disconnect_log(b, q[k]), c[k])
  <2> DEFINE e == c[k - 1]
             t == q[k]
  <2>1. k - 1 \in 0 .. Len(q) /\ t \in Terms
    BY <1>1
  <2>2. OffBlock(b, e, q, k - 1)
    BY <2>1
  <2>3. \A j \in 1 .. k - 1 : q[j] # t
    <3> SUFFICES ASSUME NEW j \in 1 .. k - 1
                 PROVE  q[j] # t
      OBVIOUS
    <3>1. j \in DOMAIN q /\ k \in DOMAIN q /\ j # k
      BY <1>1
    <3> QED
      BY <3>1 DEF Distinct
  <2>4. c[k] = disconnect(e, t)
    BY DEF TermsOff
  <2> HIDE DEF e, t
  <2>5. e.links.net[t] = b.links.net[t]
    BY <2>1, <2>2, <2>3 DEF OffBlock, NetsOff
  <2>6. disconnect_log(e, t) = disconnect_log(b, t)
    BY <2>5 DEF disconnect_log
  <2>7. Logged(e, disconnect_log(e, t), disconnect(e, t))
    BY <2>1, <2>2, DisconnectLogged DEF OffBlock
  <2>8. Logged(e, disconnect_log(b, t), c[k])
    BY <2>4, <2>6, <2>7
  <2> QED
    BY <2>8 DEF e, t
<1>3. Len(ss) = Len(q) /\ ss \in Seq(Seq(Recs))
  <2>1. \A k \in 1 .. Len(q) : disconnect_log(b, q[k]) \in Seq(Recs)
    BY <1>2 DEF Logged
  <2> QED
    BY <1>1, <2>1
<1>4. Legs(c, ss)
  <2>1. \A k \in 1 .. Len(q) : ss[k] = disconnect_log(b, q[k])
    BY <1>1
  <2> HIDE DEF ss
  <2> QED
    BY <1>2, <1>3, <2>1 DEF Legs, Logged
<1>5. OffLog(b, q) = FlattenSeq(ss)
  BY DEF OffLog
<1>6. c[0] = b
  BY DEF TermsOff
<1> HIDE DEF ss
<1>7. Path(c[0], FlattenSeq(ss), c[Len(ss)]) /\ FlattenSeq(ss) \in Seq(Recs)
  BY <1>3, <1>4, PathLegs
<1> QED
  BY <1>3, <1>5, <1>6, <1>7 DEF Logged

LEMMA GoneLogged ==
  ASSUME NEW b, NEW p \in Seq(BTerms), NEW d, TermsGone(d, b, p),
         \A k \in 1 .. Len(p) : p[k] \in d[k - 1].live
  PROVE  Logged(b, GoneLog(p), d[Len(p)])
<1> DEFINE ss == [k \in DOMAIN p |-> BTerm_destroy_log(p[k])]
<1>1. DOMAIN p = 1 .. Len(p) /\ Len(p) \in Nat
  OBVIOUS
<1>2. ASSUME NEW k \in 1 .. Len(p)
      PROVE  Logged(d[k - 1], BTerm_destroy_log(p[k]), d[k])
  <2>1. p[k] \in BTerms /\ p[k] \in d[k - 1].live
    BY <1>1
  <2>2. d[k] = Term_destroy(d[k - 1], p[k])
    BY DEF TermsGone
  <2> QED
    BY <2>1, <2>2, BTermDestroyLogged
<1>3. Len(ss) = Len(p) /\ ss \in Seq(Seq(Recs))
  <2>1. \A k \in 1 .. Len(p) : BTerm_destroy_log(p[k]) \in Seq(Recs)
    BY <1>2 DEF Logged
  <2> QED
    BY <1>1, <2>1
<1>4. Legs(d, ss)
  <2>1. \A k \in 1 .. Len(p) : ss[k] = BTerm_destroy_log(p[k])
    BY <1>1
  <2> HIDE DEF ss
  <2> QED
    BY <1>2, <1>3, <2>1 DEF Legs, Logged
<1>5. GoneLog(p) = FlattenSeq(ss)
  BY DEF GoneLog
<1>6. d[0] = b
  BY DEF TermsGone
<1> HIDE DEF ss
<1>7. Path(d[0], FlattenSeq(ss), d[Len(ss)]) /\ FlattenSeq(ss) \in Seq(Recs)
  BY <1>3, <1>4, PathLegs
<1> QED
  BY <1>3, <1>5, <1>6, <1>7 DEF Logged

LEMMA NetDestroyLogged ==
  ASSUME NEW b, EcoBlock(b), NEW n \in Nets, n \in b.live
  PROVE  Logged(b, Net_destroy_log(b, n), Net_destroy(b, n))
<1> DEFINE q == iterms(b, n)
           p == bterms(b, n)
           r == [op |-> "delete", obj |-> n, arg |-> Null]
<1>1. PICK c, d : NetLoops(b, n, c, d)
  BY NetLoopsExist
<1>2. NetList(b, n, "iterm", q) /\ NetList(b, n, "bterm", p)
  BY WalkList DEF iterms, bterms
<1>3. Net_destroy_log(b, n) = (OffLog(b, q) \o GoneLog(p)) \o Record("delete", n, Null)
  BY DestroyLogs
<1>4. /\ TermsOff(c, b, q) /\ TermsGone(d, c[Len(q)], p)
      /\ Net_destroy(b, n) = Net_delete(d[Len(p)], n)
      /\ \A k \in 0 .. Len(q) : OffBlock(b, c[k], q, k)
      /\ \A k \in 1 .. Len(p) : p[k] \in d[k - 1].live
      /\ n \in d[Len(p)].live
      /\ \A t \in Terms : d[Len(p)].links.net[t] # n
  BY <1>1 DEF NetLoops
<1> HIDE DEF q, p
<1>5. q \in Seq(Terms) /\ Distinct(q) /\ p \in Seq(BTerms)
  BY <1>2 DEF NetList, BTerms
<1>6. Logged(b, OffLog(b, q), c[Len(q)])
  BY <1>4, <1>5, OffLogged
<1>7. Logged(c[Len(q)], GoneLog(p), d[Len(p)])
  BY <1>4, <1>5, GoneLogged
<1>8. WellFormed(r) /\ "delete" \in Ops /\ n \in Owners \cup Masters /\ Null \in Args
  BY DEF WellFormed, Ops, Owners, Args
<1>9. Redoes(d[Len(p)], r, Net_delete(d[Len(p)], n))
  BY <1>4 DEF Redoes
<1>10. Logged(d[Len(p)], Record("delete", n, Null), Net_destroy(b, n))
  BY <1>4, <1>8, <1>9, LoggedOne
<1>11. Logged(b, OffLog(b, q) \o GoneLog(p), d[Len(p)])
  BY <1>6, <1>7, LoggedBoth
<1> QED
  BY <1>3, <1>10, <1>11, LoggedBoth

LEMMA InstDestroyLogged ==
  ASSUME NEW b, EcoBlock(b), NEW i \in Insts, i \in b.live
  PROVE  Logged(b, Inst_destroy_log(b, i), Inst_destroy(b, i))
<1> DEFINE q == b.iterms[i]
           r == [op |-> "delete", obj |-> i, arg |-> Null]
<1>1. q \in Seq(Terms) /\ Distinct(q) /\ Len(q) \in Nat /\ Len(q) \in 0 .. Len(q)
  BY InstPins
<1>2. PICK c : TermsOff(c, b, q) /\ c[Len(q)] = FoldLeft(disconnect, b, q)
  BY <1>1, FoldOff
<1>3. \A k \in 0 .. Len(q) : OffBlock(b, c[k], q, k)
  BY <1>1, <1>2, OffChain
<1> DEFINE e == c[Len(q)]
<1>4. Logged(b, OffLog(b, q), e)
  BY <1>1, <1>2, <1>3, OffLogged
<1>5. Inst_destroy(e, i) = Inst_destroy(b, i)
  BY <1>2, <1>3, InstDestroySame
<1>6. i \in e.live /\ e.iterms[i] = q /\ \A k \in 1 .. Len(q) : e.links.net[q[k]] = Null
  <2>1. OffBlock(b, e, q, Len(q))
    BY <1>1, <1>3
  <2>2. \A k \in 1 .. Len(q) : q[k] \in Terms
    BY <1>1
  <2> QED
    BY <2>1, <2>2 DEF OffBlock, SameButLinks, SameSides, SameInsts, NetsOff
<1> HIDE DEF e
<1>7. WellFormed(r) /\ "delete" \in Ops /\ i \in Owners \cup Masters /\ Null \in Args
  BY DEF WellFormed, Ops, Owners, Args
<1>8. Redoes(e, r, Inst_destroy(e, i))
  BY <1>6 DEF Redoes
<1>9. Logged(e, Record("delete", i, Null), Inst_destroy(b, i))
  BY <1>5, <1>7, <1>8, LoggedOne
<1>10. Inst_destroy_log(b, i) = OffLog(b, q) \o Record("delete", i, Null)
  BY DestroyLogs
<1> QED
  BY <1>4, <1>9, <1>10, LoggedBoth

-----------------------------------------------------------------------------
(* The master is like the remote was, whatever the bounding boxes are.       *)

Alike(m, b) ==
  /\ DOMAIN m = Fields /\ DOMAIN b = Fields
  /\ m.live = b.live /\ m.free = b.free /\ m.links = b.links /\ m.name = b.name
  /\ m.rule = b.rule /\ m.master = b.master /\ m.iterms = b.iterms /\ m.pin = b.pin
  /\ m.x = b.x /\ m.orient = b.orient

\* The boxes are the same but for the instances in T.
SameBoxes(m, b, T) ==
  Boxed(m) /\ Boxed(b) /\ \A i \in Insts \ T : m.bbox[i] = b.bbox[i]

Sim(m, b, T) == Alike(m, b) /\ SameBoxes(m, b, T)

LEMMA OffSim ==
  ASSUME NEW m, NEW b, NEW T, Sim(m, b, T), NEW t
  PROVE  Sim(disconnect(m, t), disconnect(b, t), T)
  BY DEF Sim, Alike, SameBoxes, Boxed, disconnect, Disconnected, Fields

LEMMA LinksSim ==
  ASSUME NEW m, NEW b, NEW T, Sim(m, b, T), NEW l
  PROVE  Sim([m EXCEPT !.links = l], [b EXCEPT !.links = l], T)
  BY DEF Sim, Alike, SameBoxes, Boxed, Fields

LEMMA ConnectSim ==
  ASSUME NEW m, NEW b, NEW T, Sim(m, b, T), NEW t, NEW n
  PROVE  Sim(connect(m, t, n), connect(b, t, n), T)
<1>1. m.links = b.links
  BY DEF Sim, Alike
<1>2. CASE t \in ITerms /\ b.links.net[t] = n
  BY <1>1, <1>2 DEF connect
<1>3. CASE ~ (t \in ITerms /\ b.links.net[t] = n)
  <2> DEFINE d == disconnect(m, t)
             e == disconnect(b, t)
  <2>1. Sim(d, e, T)
    BY OffSim
  <2>2. /\ connect(m, t, n) = [d EXCEPT !.links = Linked(@, t, n)]
        /\ connect(b, t, n) = [e EXCEPT !.links = Linked(@, t, n)]
    BY <1>1, <1>3 DEF connect
  <2> HIDE DEF d, e
  <2>3. d.links = e.links
    BY <2>1 DEF Sim, Alike
  <2> QED
    BY <2>1, <2>2, <2>3, LinksSim
<1> QED
  BY <1>2, <1>3

LEMMA GiveSim ==
  ASSUME NEW m, NEW b, NEW T, Sim(m, b, T), NEW o
  PROVE  Sim(Give(m, o), Give(b, o), T)
  BY DEF Sim, Alike, SameBoxes, Boxed, Give, Fields

LEMMA TakeSim ==
  ASSUME NEW m, NEW b, NEW T, Sim(m, b, T), NEW tbl, NEW k
  PROVE  Sim(Take(m, tbl, k), Take(b, tbl, k), T) /\ Taken(m, tbl, k) = Taken(b, tbl, k)
  BY DEF Sim, Alike, SameBoxes, Boxed, Take, Taken, Fields

\* Two updates of a field are one.
LEMMA LinksReset ==
  ASSUME NEW d, "links" \in DOMAIN d, NEW t
  PROVE  [d EXCEPT !.links.next[t] = Null, !.links.prev[t] = Null]
         = [d EXCEPT !.links = [d.links EXCEPT !.next[t] = Null, !.prev[t] = Null]]
OBVIOUS

LEMMA GoneSim ==
  ASSUME NEW m, NEW b, NEW T, Sim(m, b, T), NEW t
  PROVE  Sim(Term_destroy(m, t), Term_destroy(b, t), T)
<1> DEFINE d == Give(disconnect(m, t), t)
           e == Give(disconnect(b, t), t)
<1>1. Sim(d, e, T)
  BY OffSim, GiveSim
<1>2. /\ Term_destroy(m, t) = [d EXCEPT !.links.next[t] = Null, !.links.prev[t] = Null]
      /\ Term_destroy(b, t) = [e EXCEPT !.links.next[t] = Null, !.links.prev[t] = Null]
  BY DEF Term_destroy
<1> HIDE DEF d, e
<1>3. d.links = e.links /\ "links" \in DOMAIN d /\ "links" \in DOMAIN e
  BY <1>1 DEF Sim, Alike, Fields
<1> DEFINE l == [d.links EXCEPT !.next[t] = Null, !.prev[t] = Null]
<1>4. Term_destroy(m, t) = [d EXCEPT !.links = l]
  BY <1>2, <1>3, LinksReset
<1>5. Term_destroy(b, t) = [e EXCEPT !.links = l]
  BY <1>2, <1>3, LinksReset
<1> HIDE DEF l
<1> QED
  BY <1>1, <1>4, <1>5, LinksSim

LEMMA NameSim ==
  ASSUME NEW m, NEW b, NEW T, Sim(m, b, T), NEW o, NEW a
  PROVE  Sim([m EXCEPT !.name[o] = a], [b EXCEPT !.name[o] = a], T)
  BY DEF Sim, Alike, SameBoxes, Boxed, Fields

LEMMA NetCreateSim ==
  ASSUME NEW m, NEW b, NEW T, Sim(m, b, T), NEW a
  PROVE  Sim(Net_create(m, a), Net_create(b, a), T)
<1>1. m.free = b.free
  BY DEF Sim, Alike
<1>2. Sim(Take(m, "net", 1), Take(b, "net", 1), T)
  BY TakeSim
<1> QED
  BY <1>1, <1>2, NameSim DEF Net_create

LEMMA BTermCreateSim ==
  ASSUME NEW m, NEW b, NEW T, Sim(m, b, T), NEW n, NEW a
  PROVE  Sim(BTerm_create(m, n, a), BTerm_create(b, n, a), T)
<1> DEFINE t == Head(b.free["bterm"])
           d == [Take(m, "bterm", 1) EXCEPT !.name[t] = a]
           e == [Take(b, "bterm", 1) EXCEPT !.name[t] = a]
<1>1. m.free = b.free
  BY DEF Sim, Alike
<1>2. Sim(Take(m, "bterm", 1), Take(b, "bterm", 1), T)
  BY TakeSim
<1>3. Sim(d, e, T)
  BY <1>2, NameSim
<1>4. /\ BTerm_create(m, n, a) = [d EXCEPT !.links = Linked(@, t, n)]
      /\ BTerm_create(b, n, a) = [e EXCEPT !.links = Linked(@, t, n)]
  BY <1>1 DEF BTerm_create
<1> HIDE DEF d, e
<1>5. d.links = e.links
  BY <1>3 DEF Sim, Alike
<1> QED
  BY <1>3, <1>4, <1>5, LinksSim

LEMMA NetDeleteSim ==
  ASSUME NEW m, NEW b, NEW T, Sim(m, b, T), NEW n
  PROVE  Sim(Net_delete(m, n), Net_delete(b, n), T)
<1> DEFINE d == Give(m, n)
           e == Give(b, n)
<1>1. Sim(d, e, T)
  BY GiveSim
<1>2. /\ Net_delete(m, n) = [d EXCEPT !.name[n] = NoName, !.rule[n] = NoRule]
      /\ Net_delete(b, n) = [e EXCEPT !.name[n] = NoName, !.rule[n] = NoRule]
  BY DEF Net_delete
<1> HIDE DEF d, e
<1> QED
  BY <1>1, <1>2 DEF Sim, Alike, SameBoxes, Boxed, Fields

LEMMA InstDeleteSim ==
  ASSUME NEW m, NEW b, NEW T, Sim(m, b, T), NEW i
  PROVE  Sim(Inst_delete(m, i), Inst_delete(b, i), T)
<1> DEFINE d == Give(m, i)
           e == Give(b, i)
           D(x) == [x EXCEPT
                      !.name[i] = NoName, !.master[i] = NoMaster, !.iterms[i] = << >>,
                      !.x[i] = 0, !.orient[i] = "R0", !.bbox[i] = << >>]
<1>1. Sim(d, e, T)
  BY GiveSim
<1>2. Inst_delete(m, i) = D(d) /\ Inst_delete(b, i) = D(e)
  BY DEF Inst_delete
<1> HIDE DEF d, e
<1>3. Alike(D(d), D(e))
  BY <1>1 DEF Sim, Alike, Fields
<1>4. D(d).bbox = [d.bbox EXCEPT ![i] = << >>] /\ D(e).bbox = [e.bbox EXCEPT ![i] = << >>]
  BY <1>1 DEF Sim, Alike, Fields
<1>5. SameBoxes(D(d), D(e), T)
  BY <1>1, <1>4 DEF Sim, SameBoxes, Boxed
<1> QED
  BY <1>2, <1>3, <1>5 DEF Sim

LEMMA BoxSim ==
  ASSUME NEW m, NEW b, NEW T, Sim(m, b, T), NEW i
  PROVE  Sim(WithBBox(m, i), WithBBox(b, i), T)
<1>1. BBox(m, i) = BBox(b, i)
  BY DEF Sim, Alike, BBox
<1> DEFINE v == BBox(b, i)
<1>2. WithBBox(m, i) = [m EXCEPT !.bbox[i] = v] /\ WithBBox(b, i) = [b EXCEPT !.bbox[i] = v]
  BY <1>1 DEF WithBBox
<1> HIDE DEF v
<1>3. Alike(WithBBox(m, i), WithBBox(b, i))
  BY <1>2 DEF Sim, Alike, Fields
<1>4. /\ WithBBox(m, i).bbox = [m.bbox EXCEPT ![i] = v]
      /\ WithBBox(b, i).bbox = [b.bbox EXCEPT ![i] = v]
  BY <1>2 DEF Sim, Alike, Fields
<1>5. SameBoxes(WithBBox(m, i), WithBBox(b, i), T)
  BY <1>4 DEF Sim, SameBoxes, Boxed
<1> QED
  BY <1>3, <1>5 DEF Sim

NewInst(x, i, ms, a, ts) ==
  [x EXCEPT !.name[i] = a, !.master[i] = ms, !.iterms[i] = ts,
            !.pin = [t \in ITerms |->
                       IF t \in Elements(ts)
                       THEN CHOOSE j \in 1 .. Len(MTerms[ms]) : ts[j] = t ELSE @[t]]]

LEMMA InstCreateIs ==
  ASSUME NEW b, NEW ms, NEW a
  PROVE  Inst_create(b, ms, a) =
           WithBBox(NewInst(Take(Take(b, "inst", 1), "iterm", Len(MTerms[ms])),
                            Head(b.free["inst"]), ms, a,
                            Taken(b, "iterm", Len(MTerms[ms]))),
                    Head(b.free["inst"]))
  BY Zenon DEF Inst_create, NewInst

LEMMA InstCreateSim ==
  ASSUME NEW m, NEW b, NEW T, Sim(m, b, T), NEW ms, NEW a
  PROVE  Sim(Inst_create(m, ms, a), Inst_create(b, ms, a), T)
<1> DEFINE i == Head(b.free["inst"])
           k == Len(MTerms[ms])
           ts == Taken(b, "iterm", k)
           d == Take(Take(m, "inst", 1), "iterm", k)
           e == Take(Take(b, "inst", 1), "iterm", k)
           N(x) == NewInst(x, i, ms, a, ts)
<1>1. m.free = b.free /\ Taken(m, "iterm", k) = ts
  BY DEF Sim, Alike, Taken
<1>2. Sim(d, e, T)
  BY TakeSim
<1>3. Inst_create(m, ms, a) = WithBBox(N(d), i) /\ Inst_create(b, ms, a) = WithBBox(N(e), i)
  BY <1>1, InstCreateIs
<1> HIDE DEF d, e, i, k, ts
<1>4. Alike(N(d), N(e))
  BY <1>2 DEF Sim, Alike, Fields, NewInst
<1>5. N(d).bbox = d.bbox /\ N(e).bbox = e.bbox
  BY <1>2 DEF Sim, Alike, Fields, NewInst
<1>6. Sim(N(d), N(e), T)
  BY <1>2, <1>4, <1>5 DEF Sim, SameBoxes, Boxed
<1> HIDE DEF N
<1> QED
  BY <1>3, <1>6, BoxSim

LEMMA SwapSim ==
  ASSUME NEW m, NEW b, NEW T, Sim(m, b, T), NEW i, NEW ms
  PROVE  Sim(swapMaster(m, i, ms), swapMaster(b, i, ms), T)
<1> DEFINE to(j) == CHOOSE k \in DOMAIN MTerms[ms] : MTerms[ms][k] = MTerms[b.master[i]][j]
           old == b.iterms[i]
           ts == [k \in DOMAIN old |-> CHOOSE t \in Elements(old) : to(b.pin[t]) = k]
           ps == [t \in ITerms |-> IF t \in Elements(old) THEN to(b.pin[t]) ELSE b.pin[t]]
           N(x) == [x EXCEPT !.master[i] = ms, !.pin = ps, !.iterms[i] = ts]
<1>1. m.master = b.master /\ m.iterms = b.iterms /\ m.pin = b.pin
  BY DEF Sim, Alike
<1>2. CASE ~ Equivalent(ms, b.master[i])
  BY <1>1, <1>2 DEF swapMaster
<1>3. CASE Equivalent(ms, b.master[i])
  <2>1. swapMaster(m, i, ms) = WithBBox(N(m), i)
    BY <1>1, <1>3 DEF swapMaster
  <2>2. swapMaster(b, i, ms) = WithBBox(N(b), i)
    BY <1>3 DEF swapMaster
  <2> HIDE DEF to, ts, ps, old
  <2>3. Alike(N(m), N(b))
    BY DEF Sim, Alike, Fields
  <2>4. N(m).bbox = m.bbox /\ N(b).bbox = b.bbox
    BY DEF Sim, Alike, Fields
  <2>5. Sim(N(m), N(b), T)
    BY <2>3, <2>4 DEF Sim, SameBoxes, Boxed
  <2> HIDE DEF N
  <2> QED
    BY <2>1, <2>2, <2>5, BoxSim
<1> QED
  BY <1>2, <1>3

LEMMA OriginSim ==
  ASSUME NEW m, NEW b, NEW T, Sim(m, b, T), NEW i, NEW x
  PROVE  Sim(setOrigin(m, i, x), setOrigin(b, i, x), T)
<1>1. m.x = b.x
  BY DEF Sim, Alike
<1>2. Sim([m EXCEPT !.x[i] = x], [b EXCEPT !.x[i] = x], T)
  BY DEF Sim, Alike, SameBoxes, Boxed, Fields
<1>3. Sim(WithBBox([m EXCEPT !.x[i] = x], i), WithBBox([b EXCEPT !.x[i] = x], i), T)
  BY <1>2, BoxSim
<1> QED
  BY <1>1, <1>3 DEF setOrigin

\* The flags are written past setOrient(), which computes the box.
LEMMA FlagsSim ==
  ASSUME NEW m, NEW b, NEW T, Sim(m, b, T), NEW i \in T, NEW o, b.orient[i] # o
  PROVE  Sim([m EXCEPT !.orient[i] = o], setOrient(b, i, o), T)
<1> DEFINE e == [b EXCEPT !.orient[i] = o]
           d == [m EXCEPT !.orient[i] = o]
           v == BBox(e, i)
<1>1. setOrient(b, i, o) = [e EXCEPT !.bbox[i] = v]
  BY DEF setOrient, WithBBox
<1>2. Sim(d, e, T)
  BY DEF Sim, Alike, SameBoxes, Boxed, Fields
<1> HIDE DEF d, e, v
<1>3. Alike(d, setOrient(b, i, o))
  BY <1>1, <1>2 DEF Sim, Alike, Fields
<1>4. setOrient(b, i, o).bbox = [e.bbox EXCEPT ![i] = v]
  BY <1>1, <1>2 DEF Sim, Alike, Fields
<1>5. SameBoxes(d, setOrient(b, i, o), T)
  BY <1>2, <1>4 DEF Sim, SameBoxes, Boxed
<1> QED
  BY <1>3, <1>5 DEF Sim, d

LEMMA InstDestroySim ==
  ASSUME NEW m, NEW b, NEW T, Sim(m, b, T), EcoBlock(m), NEW i \in Insts, i \in m.live
  PROVE  Sim(Inst_destroy(m, i), Inst_destroy(b, i), T)
<1> DEFINE q == m.iterms[i]
<1>1. b.iterms[i] = q /\ q \in Seq(Terms) /\ Len(q) \in Nat
  BY InstPins DEF Sim, Alike
<1> HIDE DEF q
<1>2. PICK c : TermsGone(c, m, q) /\ c[Len(q)] = FoldLeft(Term_destroy, m, q)
  BY <1>1, FoldGone
<1>3. PICK e : TermsGone(e, b, q) /\ e[Len(q)] = FoldLeft(Term_destroy, b, q)
  BY <1>1, FoldGone
<1> DEFINE K == {k \in Nat : Sim(c[k], e[k], T)}
<1>4. 0 \in K
  BY <1>2, <1>3 DEF TermsGone
<1>5. ASSUME NEW k \in 1 .. Len(q), k - 1 \in K
      PROVE  k \in K
  <2>1. Sim(c[k - 1], e[k - 1], T) /\ k \in Nat
    BY <1>5
  <2>2. c[k] = Term_destroy(c[k - 1], q[k]) /\ e[k] = Term_destroy(e[k - 1], q[k])
    BY <1>2, <1>3 DEF TermsGone
  <2>3. Sim(c[k], e[k], T)
    BY <2>1, <2>2, GoneSim
  <2> QED
    BY <2>1, <2>3
<1>6. Len(q) \in K
  <2> HIDE DEF K
  <2> QED
    BY <1>1, <1>4, <1>5, UpTo
<1>7. Inst_destroy(m, i) = Inst_delete(c[Len(q)], i) /\ Inst_destroy(b, i) = Inst_delete(e[Len(q)], i)
  BY <1>1, <1>2, <1>3 DEF Inst_destroy, q
<1> QED
  BY <1>6, <1>7, InstDeleteSim

-----------------------------------------------------------------------------
(* The calls that redo() makes. *)

LEMMA RecIs ==
  ASSUME NEW r \in Recs
  PROVE  /\ Record(r.op, r.obj, r.arg) = <<r>> /\ <<r>> \in Seq(Recs)
         /\ r.op \in Ops /\ WellFormed(r)
<1>1. r \in [op : Ops, obj : Owners \cup Masters, arg : Args] /\ WellFormed(r)
  BY DEF Recs
<1>2. r = [op |-> r.op, obj |-> r.obj, arg |-> r.arg] /\ r.op \in Ops
  BY <1>1
<1> QED
  BY <1>1, <1>2 DEF Record

LEMMA FlattenEmpty ==
  ASSUME NEW R, NEW ss \in Seq(Seq(R)), \A k \in 1 .. Len(ss) : ss[k] = << >>
  PROVE  FlattenSeq(ss) = << >>
<1>1. PICK f : /\ Concats(f, ss) /\ FlattenSeq(ss) = f[Len(ss)]
               /\ \A k \in 0 .. Len(ss) : f[k] \in Seq(R)
  BY FlattenExists
<1> DEFINE T == {k \in Nat : f[k] = << >>}
<1>2. Len(ss) \in Nat
  OBVIOUS
<1>3. 0 \in T
  BY <1>1 DEF Concats
<1>4. ASSUME NEW k \in 1 .. Len(ss), k - 1 \in T
      PROVE  k \in T
  <2>1. f[k - 1] = << >> /\ k \in Nat
    BY <1>4
  <2>3. ss[k] = << >>
    OBVIOUS
  <2>4. f[k] = f[k - 1] \o ss[k]
    BY <1>1 DEF Concats
  <2>2. f[k] = << >>
    BY <2>1, <2>3, <2>4
  <2> QED
    BY <2>1, <2>2
<1>5. Len(ss) \in T
  <2> HIDE DEF T
  <2> QED
    BY <1>2, <1>3, <1>4, UpTo
<1> QED
  BY <1>1, <1>5

LEMMA OffLogEmpty ==
  ASSUME NEW b, NEW q \in Seq(Terms), \A k \in 1 .. Len(q) : b.links.net[q[k]] = Null
  PROVE  OffLog(b, q) = << >>
<1> DEFINE ss == [k \in DOMAIN q |-> disconnect_log(b, q[k])]
<1>1. DOMAIN q = 1 .. Len(q) /\ Len(q) \in Nat
  OBVIOUS
<1>2. \A k \in 1 .. Len(q) : ss[k] = << >>
  BY <1>1 DEF disconnect_log
<1>3. ss \in Seq(Seq(Recs)) /\ Len(ss) = Len(q)
  <2>1. << >> \in Seq(Recs)
    OBVIOUS
  <2>2. \A k \in 1 .. Len(q) : disconnect_log(b, q[k]) \in Seq(Recs)
    BY <2>1 DEF disconnect_log
  <2> QED
    BY <1>1, <2>2
<1> HIDE DEF ss
<1>4. FlattenSeq(ss) = << >>
  BY <1>2, <1>3, FlattenEmpty
<1> QED
  BY <1>4 DEF OffLog, ss

\* When the record of a net is redone, its terminals are off already.
LEMMA NetDestroyBare ==
  ASSUME NEW b, EcoBlock(b), NEW n \in Nets, n \in b.live,
         \A t \in Terms : b.links.net[t] # n
  PROVE  /\ Net_destroy(b, n) = Net_delete(b, n)
         /\ Net_destroy_log(b, n) = Record("delete", n, Null)
<1>1. PICK c, d : NetLoops(b, n, c, d)
  BY NetLoopsExist
<1>2. ASSUME NEW tbl \in {"iterm", "bterm"}, NEW q, NetList(b, n, tbl, q)
      PROVE  q = << >>
  <2>1. q \in Seq(Terms) /\ Len(q) \in Nat
    BY <1>2 DEF NetList
  <2>2. \A j \in 1 .. Len(q) : q[j] \in Terms /\ b.links.net[q[j]] = n
    BY <1>2, <2>1 DEF NetList
  <2>3. ~ 1 \in 1 .. Len(q)
    BY <2>2
  <2> QED
    BY <2>1, <2>3
<1>3. iterms(b, n) = << >> /\ bterms(b, n) = << >>
  BY <1>2, WalkList DEF iterms, bterms
<1>4. c[0] = b /\ d[0] = c[0] /\ Net_destroy(b, n) = Net_delete(d[0], n)
  BY <1>1, <1>3 DEF NetLoops, TermsOff, TermsGone
<1>5. OffLog(b, << >>) = << >>
  BY DEF OffLog, FlattenSeq
<1>6. GoneLog(<< >>) = << >>
  BY DEF GoneLog, FlattenSeq
<1>7. Record("delete", n, Null) = << >> \o Record("delete", n, Null)
  BY DEF Record
<1>8. << >> \o << >> = << >>
  OBVIOUS
<1>9. Net_destroy_log(b, n) = (<< >> \o << >>) \o Record("delete", n, Null)
  BY <1>3, <1>5, <1>6, DestroyLogs
<1> QED
  BY <1>4, <1>7, <1>8, <1>9

LEMMA InstDestroyBare ==
  ASSUME NEW b, EcoBlock(b), NEW i \in Insts, i \in b.live,
         \A k \in 1 .. Len(b.iterms[i]) : b.links.net[b.iterms[i][k]] = Null
  PROVE  Inst_destroy_log(b, i) = Record("delete", i, Null)
<1>1. b.iterms[i] \in Seq(Terms)
  BY InstPins
<1>2. OffLog(b, b.iterms[i]) = << >>
  BY <1>1, OffLogEmpty
<1>3. Record("delete", i, Null) = << >> \o Record("delete", i, Null)
  BY DEF Record
<1> QED
  BY <1>2, <1>3, DestroyLogs

-----------------------------------------------------------------------------
(* The invariant. *)

Turned == {i \in Insts : Reoriented(i)}

\* What the master records of each record of s.
Rejournal(s) == [k \in DOMAIN s |-> Rejournaled(s[k])]

EcoTypes ==
  /\ EcoBlock(remote) /\ EcoBlock(master)
  /\ log \in Seq(Recs) /\ mlog \in Seq(Recs)
  /\ pos \in 0 .. Len(log) /\ calls \in 0 .. MaxCalls
  /\ phase \in {"record", "redo", "committed", "lost", "misaligned"}
  /\ unlogged \in BOOLEAN

EcoPhases ==
  /\ phase = "record" => pos = 0 /\ mlog = << >>
  /\ phase = "committed" => pos = Len(log)
  /\ phase = "lost" => unlogged

\* The records of log lead by way of bs to what the remote is, and the master
\* is like the block of bs that the records up to pos lead to.
Following(bs) ==
  /\ bs[Len(log)] = remote
  /\ \A k \in 1 .. Len(log) : Redoes(bs[k - 1], log[k], bs[k])
  /\ Sim(master, bs[pos], Turned)

\* The journal of the master is what it has recorded of the records up to pos.
Rejournaling == \A f : Concats(f, Rejournal(log)) => mlog = f[pos]

EcoFollows ==
  ~ unlogged /\ phase \in {"record", "redo", "committed"} =>
    (\E bs : Following(bs)) /\ Rejournaling

EcoInv == EcoTypes /\ EcoPhases /\ EcoFollows

LEMMA SimSelf ==
  ASSUME NEW b, EcoBlock(b), NEW T
  PROVE  Sim(b, b, T)
  BY FieldsOf DEF Sim, Alike, SameBoxes, EcoBlock

LEMMA SimMore ==
  ASSUME NEW m, NEW b, NEW S, NEW T, Sim(m, b, S), S \subseteq T
  PROVE  Sim(m, b, T)
  BY DEF Sim, SameBoxes

\* The start of an exchange.
LEMMA FreshFollows ==
  ASSUME EcoBlock(remote), master = remote, log = << >>, mlog = << >>, pos = 0
  PROVE  EcoFollows
<1> DEFINE bs == [k \in {0} |-> remote]
<1>1. bs[0] = remote
  OBVIOUS
<1> HIDE DEF bs
<1>2. Sim(master, bs[0], Turned)
  BY <1>1, SimSelf
<1>3. Following(bs)
  BY <1>1, <1>2 DEF Following
<1>4. Rejournaling
  BY DEF Rejournaling, Concats
<1> QED
  BY <1>3, <1>4 DEF EcoFollows

LEMMA EcoInitInv == EcoInit => EcoInv
<1> SUFFICES ASSUME EcoInit PROVE EcoInv
  OBVIOUS
<1>1. /\ master = remote /\ log = << >> /\ mlog = << >> /\ pos = 0
      /\ phase = "record" /\ calls = 0 /\ unlogged = FALSE /\ remote \in Images
  BY DEF EcoInit
<1>2. EcoBlock(remote)
  BY <1>1, ImagesAssumption, SoundEcoBlock
<1>3. EcoFollows
  BY <1>1, <1>2, FreshFollows
<1>4. << >> \in Seq(Recs) /\ 0 \in 0 .. Len(<< >>) /\ 0 \in 0 .. MaxCalls
  BY MaxCallsAssumption
<1>5. EcoTypes
  BY <1>1, <1>2, <1>4 DEF EcoTypes
<1>6. EcoPhases
  BY <1>1 DEF EcoPhases
<1> QED
  BY <1>3, <1>5, <1>6 DEF EcoInv

-----------------------------------------------------------------------------
(* Calls on the remote block keep the invariant. *)

LEMMA LongerLog ==
  ASSUME EcoInv, phase = "record", ~ unlogged, phase' = phase,
         NEW b, NEW recs, remote' = b, log' = log \o recs, Logged(remote, recs, b),
         master' = master, pos' = pos, mlog' = mlog
  PROVE  EcoFollows'
<1>1. /\ log \in Seq(Recs) /\ recs \in Seq(Recs) /\ log' \in Seq(Recs)
      /\ Path(remote, recs, b) /\ pos = 0 /\ mlog = << >>
  BY DEF EcoInv, EcoTypes, EcoPhases, Logged
<1>2. PICK bs : Following(bs)
  BY DEF EcoInv, EcoFollows
<1>3. Replays(bs, bs[0], log, remote)
  BY <1>2 DEF Following, Replays
<1>4. Path(bs[0], log, remote)
  BY <1>3 DEF Path
<1>5. Path(bs[0], log', remote')
  BY <1>1, <1>4, PathBoth
<1>6. PICK cs : Replays(cs, bs[0], log', remote')
  BY <1>5 DEF Path
<1>7. Turned \subseteq Turned'
  <2>1. \A k \in DOMAIN log : k \in DOMAIN log' /\ log'[k] = log[k]
    BY <1>1
  <2> QED
    BY <2>1 DEF Turned, Reoriented
<1>8. Sim(master', cs[pos'], Turned')
  <2>1. cs[0] = bs[0]
    BY <1>6 DEF Replays
  <2>2. Sim(master, bs[0], Turned)
    BY <1>1, <1>2 DEF Following
  <2> QED
    BY <1>1, <1>7, <2>1, <2>2, SimMore
<1>9. Following(cs)'
  BY <1>6, <1>8 DEF Following, Replays
<1>10. Rejournaling'
  BY <1>1 DEF Rejournaling, Concats
<1> QED
  BY <1>9, <1>10 DEF EcoFollows

LEMMA RemoteStep ==
  ASSUME EcoInv, NEW b, NEW recs, Remote(b, recs), EcoBlock(b), recs \in Seq(Recs),
         unlogged' \in BOOLEAN, unlogged => unlogged',
         ~ unlogged' => Logged(remote, recs, b)
  PROVE  EcoInv'
<1>1. /\ phase = "record" /\ calls < MaxCalls /\ remote' = b /\ log' = log \o recs
      /\ calls' = calls + 1
      /\ master' = master /\ mlog' = mlog /\ pos' = pos /\ phase' = phase
  BY DEF Remote
<1>2. EcoTypes /\ EcoPhases
  BY DEF EcoInv
<1>3. pos = 0 /\ mlog = << >>
  BY <1>1, <1>2 DEF EcoPhases
<1>4. log' \in Seq(Recs) /\ 0 \in 0 .. Len(log') /\ calls' \in 0 .. MaxCalls
  BY <1>1, <1>2, MaxCallsAssumption DEF EcoTypes
<1>5. EcoTypes'
  BY <1>1, <1>2, <1>3, <1>4 DEF EcoTypes
<1>6. EcoPhases'
  BY <1>1, <1>3 DEF EcoPhases
<1>7. EcoFollows'
  <2>1. CASE unlogged'
    BY <2>1 DEF EcoFollows
  <2>2. CASE ~ unlogged'
    BY <1>1, <2>2, LongerLog
  <2> QED
    BY <2>1, <2>2
<1> QED
  BY <1>5, <1>6, <1>7 DEF EcoInv

LEMMA EcoCreateNetInv ==
  ASSUME EcoInv, NEW name \in Names["net"], NEW skip \in BOOLEAN, EcoCreateNet(name, skip)
  PROVE  EcoInv'
<1> DEFINE b == Net_create(remote, name)
           s == Record("create net", Null, name)
<1>1. /\ EcoBlock(remote) /\ unlogged \in BOOLEAN /\ Room(remote, "net", 1)
      /\ Remote(b, s) /\ unlogged' = (unlogged \/ HasMember(remote, "net", name))
  BY DEF EcoInv, EcoTypes, EcoCreateNet
<1>2. EcoBlock(b)
  BY <1>1, CreatesKept
<1>3. s \in Seq(Recs)
  BY RecordTyped DEF Ops, Owners, Args, WellFormed
<1>4. unlogged' \in BOOLEAN /\ (unlogged => unlogged')
  BY <1>1 DEF HasMember
<1>5. ~ unlogged' => Logged(remote, s, b)
  BY <1>1, CreatesLogged
<1> HIDE DEF b, s
<1> QED
  BY <1>1, <1>2, <1>3, <1>4, <1>5, RemoteStep

\* A call whose records say what it did.
LEMMA LoggedStep ==
  ASSUME EcoInv, NEW b, NEW s, Remote(b, s), unlogged' = unlogged,
         EcoBlock(b), Logged(remote, s, b)
  PROVE  EcoInv'
<1>1. s \in Seq(Recs)
  BY DEF Logged
<1>2. unlogged' \in BOOLEAN
  BY DEF EcoInv, EcoTypes
<1> QED
  BY <1>1, <1>2, RemoteStep

LEMMA EcoCreatesInv ==
  ASSUME EcoInv
  PROVE  /\ \A n \in EcoLive(Nets), name \in Names["bterm"] :
              EcoCreateBTerm(n, name) => EcoInv'
         /\ \A m \in Masters, name \in Names["inst"] : EcoCreateInst(m, name) => EcoInv'
<1>1. EcoBlock(remote)
  BY DEF EcoInv, EcoTypes
<1>2. ASSUME NEW n \in EcoLive(Nets), NEW name \in Names["bterm"], EcoCreateBTerm(n, name)
      PROVE  EcoInv'
  <2>1. /\ n \in Nets /\ n \in remote.live
        /\ Room(remote, "bterm", 1) /\ ~ HasMember(remote, "bterm", name)
        /\ Remote(BTerm_create(remote, n, name), Record("create bterm", n, name))
        /\ unlogged' = unlogged
    BY <1>2 DEF EcoCreateBTerm, EcoLive
  <2>2. EcoBlock(BTerm_create(remote, n, name))
    BY <1>1, <2>1, CreatesKept
  <2>3. Logged(remote, Record("create bterm", n, name), BTerm_create(remote, n, name))
    BY <1>1, <2>1, CreatesLogged
  <2> QED
    BY <2>1, <2>2, <2>3, LoggedStep
<1>3. ASSUME NEW m \in Masters, NEW name \in Names["inst"], EcoCreateInst(m, name)
      PROVE  EcoInv'
  <2>1. /\ Room(remote, "inst", 1) /\ Room(remote, "iterm", Len(MTerms[m]))
        /\ ~ HasMember(remote, "inst", name)
        /\ Remote(Inst_create(remote, m, name), Record("create inst", m, name))
        /\ unlogged' = unlogged
    BY <1>3 DEF EcoCreateInst
  <2>2. EcoBlock(Inst_create(remote, m, name))
    BY <1>1, <2>1, InstCreateKept
  <2>3. Logged(remote, Record("create inst", m, name), Inst_create(remote, m, name))
    BY <1>1, <2>1, CreatesLogged
  <2> QED
    BY <2>1, <2>2, <2>3, LoggedStep
<1> QED
  BY <1>2, <1>3

LEMMA EcoDestroysInv ==
  ASSUME EcoInv
  PROVE  /\ \A n \in EcoLive(Nets) : EcoDestroyNet(n) => EcoInv'
         /\ \A t \in EcoLive(BTerms) : EcoDestroyBTerm(t) => EcoInv'
         /\ \A i \in EcoLive(Insts) : EcoDestroyInst(i) => EcoInv'
<1>1. EcoBlock(remote)
  BY DEF EcoInv, EcoTypes
<1>2. ASSUME NEW n \in EcoLive(Nets), EcoDestroyNet(n)
      PROVE  EcoInv'
  <2>1. /\ n \in Nets /\ n \in remote.live /\ unlogged' = unlogged
        /\ Remote(Net_destroy(remote, n), Net_destroy_log(remote, n))
    BY <1>2 DEF EcoDestroyNet, EcoLive
  <2>2. EcoBlock(Net_destroy(remote, n))
    BY <1>1, <2>1, NetDestroyKept
  <2>3. Logged(remote, Net_destroy_log(remote, n), Net_destroy(remote, n))
    BY <1>1, <2>1, NetDestroyLogged
  <2> QED
    BY <2>1, <2>2, <2>3, LoggedStep
<1>3. ASSUME NEW t \in EcoLive(BTerms), EcoDestroyBTerm(t)
      PROVE  EcoInv'
  <2>1. /\ t \in BTerms /\ t \in remote.live /\ unlogged' = unlogged
        /\ Remote(Term_destroy(remote, t), BTerm_destroy_log(t))
    BY <1>3 DEF EcoDestroyBTerm, EcoLive
  <2>2. EcoBlock(Term_destroy(remote, t))
    BY <1>1, <2>1, GoneKept
  <2>3. Logged(remote, BTerm_destroy_log(t), Term_destroy(remote, t))
    BY <2>1, BTermDestroyLogged
  <2> QED
    BY <2>1, <2>2, <2>3, LoggedStep
<1>4. ASSUME NEW i \in EcoLive(Insts), EcoDestroyInst(i)
      PROVE  EcoInv'
  <2>1. /\ i \in Insts /\ i \in remote.live /\ unlogged' = unlogged
        /\ Remote(Inst_destroy(remote, i), Inst_destroy_log(remote, i))
    BY <1>4 DEF EcoDestroyInst, EcoLive
  <2>2. EcoBlock(Inst_destroy(remote, i))
    BY <1>1, <2>1, InstDestroyKept
  <2>3. Logged(remote, Inst_destroy_log(remote, i), Inst_destroy(remote, i))
    BY <1>1, <2>1, InstDestroyLogged
  <2> QED
    BY <2>1, <2>2, <2>3, LoggedStep
<1> QED
  BY <1>2, <1>3, <1>4

LEMMA EcoConnectsInv ==
  ASSUME EcoInv
  PROVE  /\ \A n \in EcoLive(Nets), t \in EcoLive(Terms) : EcoConnect(t, n) => EcoInv'
         /\ \A t \in EcoLive(Terms) : EcoDisconnect(t) => EcoInv'
<1>1. EcoBlock(remote)
  BY DEF EcoInv, EcoTypes
<1>2. ASSUME NEW n \in EcoLive(Nets), NEW t \in EcoLive(Terms), EcoConnect(t, n)
      PROVE  EcoInv'
  <2>1. /\ n \in Nets /\ n \in remote.live /\ t \in Terms /\ t \in remote.live
        /\ Remote(connect(remote, t, n), connect_log(remote, t, n))
        /\ unlogged' = unlogged
    BY <1>2 DEF EcoConnect, EcoLive
  <2>2. EcoBlock(connect(remote, t, n))
    BY <1>1, <2>1, ConnectKept
  <2>3. Logged(remote, connect_log(remote, t, n), connect(remote, t, n))
    BY <1>1, <2>1, ConnectLogged
  <2> QED
    BY <2>1, <2>2, <2>3, LoggedStep
<1>3. ASSUME NEW t \in EcoLive(Terms), EcoDisconnect(t)
      PROVE  EcoInv'
  <2>1. /\ t \in Terms /\ unlogged' = unlogged
        /\ Remote(disconnect(remote, t), disconnect_log(remote, t))
    BY <1>3 DEF EcoDisconnect, EcoLive
  <2>2. EcoBlock(disconnect(remote, t))
    BY <1>1, <2>1, OffKept
  <2>3. Logged(remote, disconnect_log(remote, t), disconnect(remote, t))
    BY <1>1, <2>1, DisconnectLogged
  <2> QED
    BY <2>1, <2>2, <2>3, LoggedStep
<1> QED
  BY <1>2, <1>3

LEMMA EcoAsidesInv ==
  ASSUME EcoInv
  PROVE  /\ \A i \in EcoLive(Insts), m \in Masters : EcoSwapMaster(i, m) => EcoInv'
         /\ \A i \in EcoLive(Insts), x \in Origins : EcoSetOrigin(i, x) => EcoInv'
         /\ \A i \in EcoLive(Insts), o \in Orients : EcoSetOrient(i, o) => EcoInv'
         /\ \A n \in EcoLive(Nets), r \in Rules : EcoSetRule(n, r) => EcoInv'
<1>1. EcoBlock(remote)
  BY DEF EcoInv, EcoTypes
<1>2. \A i \in EcoLive(Insts) : i \in Insts /\ i \in remote.live
  BY DEF EcoLive
<1>3. ASSUME NEW i \in EcoLive(Insts), NEW m \in Masters, EcoSwapMaster(i, m)
      PROVE  EcoInv'
  <2>1. /\ Remote(swapMaster(remote, i, m), Record("swap", i, m))
        /\ unlogged' = unlogged
    BY <1>3 DEF EcoSwapMaster
  <2>2. EcoBlock(swapMaster(remote, i, m))
    BY <1>1, <1>2, SwapKept
  <2>3. Logged(remote, Record("swap", i, m), swapMaster(remote, i, m))
    BY <1>2, AsidesLogged
  <2> QED
    BY <2>1, <2>2, <2>3, LoggedStep
<1>4. ASSUME NEW i \in EcoLive(Insts), NEW x \in Origins, EcoSetOrigin(i, x)
      PROVE  EcoInv'
  <2>1. /\ Remote(setOrigin(remote, i, x), Record("ORIGIN", i, x))
        /\ remote.x[i] # x /\ unlogged' = unlogged
    BY <1>4 DEF EcoSetOrigin
  <2>2. EcoBlock(setOrigin(remote, i, x))
    BY <1>1, AsidesKept
  <2>3. Logged(remote, Record("ORIGIN", i, x), setOrigin(remote, i, x))
    BY <1>2, <2>1, AsidesLogged
  <2> QED
    BY <2>1, <2>2, <2>3, LoggedStep
<1>5. ASSUME NEW i \in EcoLive(Insts), NEW o \in Orients, EcoSetOrient(i, o)
      PROVE  EcoInv'
  <2>1. /\ Remote(setOrient(remote, i, o), Record("FLAGS", i, o))
        /\ remote.orient[i] # o /\ unlogged' = unlogged
    BY <1>5 DEF EcoSetOrient
  <2>2. EcoBlock(setOrient(remote, i, o))
    BY <1>1, AsidesKept
  <2>3. Logged(remote, Record("FLAGS", i, o), setOrient(remote, i, o))
    BY <1>2, <2>1, AsidesLogged
  <2> QED
    BY <2>1, <2>2, <2>3, LoggedStep
<1>6. ASSUME NEW n \in EcoLive(Nets), NEW r \in Rules, EcoSetRule(n, r)
      PROVE  EcoInv'
  <2>1. /\ n \in Nets /\ unlogged' = unlogged
        /\ Remote(setNonDefaultRule(remote, n, r), Record("rule", Null, r))
    BY <1>6 DEF EcoSetRule, EcoLive
  <2>2. EcoBlock(setNonDefaultRule(remote, n, r))
    BY <1>1, AsidesKept
  <2>3. Logged(remote, Record("rule", Null, r), setNonDefaultRule(remote, n, r))
    BY <2>1, RuleLogged
  <2> QED
    BY <2>1, <2>2, <2>3, LoggedStep
<1> QED
  BY <1>3, <1>4, <1>5, <1>6

LEMMA EcoRenameInv ==
  ASSUME EcoInv, NEW o, NEW name, EcoRename(o, name)
  PROVE  EcoInv'
<1>1. EcoBlock(rename(remote, o, name))
  BY AsidesKept DEF EcoInv, EcoTypes
<1>2. Remote(rename(remote, o, name), << >>) /\ unlogged' = TRUE /\ << >> \in Seq(Recs)
  BY DEF EcoRename
<1> QED
  BY <1>1, <1>2, RemoteStep

-----------------------------------------------------------------------------
(* The steps of redo() keep the invariant. *)

\* The call that redo() makes of the next record does to the master what the
\* recorded call did to a block that it is like.
Agrees(b, recs) ==
  \A c, e : Redoes(c, rec, e) /\ Sim(master, c, Turned) =>
    Sim(b, e, Turned) /\ recs = Rejournaled(rec)

LEMMA MasterFollows ==
  ASSUME EcoInv, ~ unlogged, phase = "redo", pos < Len(log),
         NEW b, NEW recs, Master(b, recs), Agrees(b, recs)
  PROVE  EcoFollows'
<1>1. /\ log \in Seq(Recs) /\ pos \in 0 .. Len(log) /\ Len(log) \in Nat
      /\ pos \in Nat /\ pos + 1 \in 1 .. Len(log) /\ (pos + 1) - 1 = pos
  BY DEF EcoInv, EcoTypes
<1>2. /\ remote' = remote /\ log' = log /\ master' = b /\ mlog' = mlog \o recs
      /\ pos' = pos + 1
  BY DEF Master
<1>3. (\E bs : Following(bs)) /\ Rejournaling
  BY DEF EcoInv, EcoFollows
<1>4. PICK bs : Following(bs)
  BY <1>3
<1>5. Redoes(bs[(pos + 1) - 1], log[pos + 1], bs[pos + 1])
  BY <1>1, <1>4 DEF Following
<1>6. Redoes(bs[pos], rec, bs[pos + 1]) /\ Sim(master, bs[pos], Turned)
  BY <1>1, <1>4, <1>5 DEF Following, rec
<1>7. Sim(b, bs[pos + 1], Turned) /\ recs = Rejournaled(rec)
  BY <1>6 DEF Agrees
<1>8. Turned' = Turned
  BY <1>2 DEF Turned, Reoriented
<1>9. Following(bs)'
  BY <1>2, <1>4, <1>7, <1>8 DEF Following
<1>10. Rejournaling'
  <2>1. ASSUME NEW f, Concats(f, Rejournal(log))
        PROVE  mlog \o recs = f[pos + 1]
    <3>1. Len(Rejournal(log)) = Len(log) /\ Rejournal(log)[pos + 1] = Rejournaled(rec)
      BY <1>1 DEF Rejournal, rec
    <3>2. f[pos + 1] = f[(pos + 1) - 1] \o Rejournal(log)[pos + 1]
      BY <1>1, <2>1, <3>1 DEF Concats
    <3>3. f[pos] = mlog
      BY <1>3, <2>1 DEF Rejournaling
    <3> QED
      BY <1>1, <1>7, <3>1, <3>2, <3>3
  <2>2. Rejournal(log)' = Rejournal(log)
    BY <1>2 DEF Rejournal, Rejournaled
  <2> QED
    BY <1>2, <2>1, <2>2 DEF Rejournaling
<1> QED
  BY <1>9, <1>10 DEF EcoFollows

LEMMA MasterStep ==
  ASSUME EcoInv, phase = "redo", pos < Len(log), NEW b, NEW recs, Master(b, recs),
         EcoBlock(b), recs \in Seq(Recs), Agrees(b, recs)
  PROVE  EcoInv'
<1>1. /\ remote' = remote /\ log' = log /\ master' = b /\ mlog' = mlog \o recs
      /\ pos' = pos + 1 /\ phase' = phase /\ calls' = calls /\ unlogged' = unlogged
  BY DEF Master
<1>2. EcoTypes /\ EcoPhases
  BY DEF EcoInv
<1>3. pos + 1 \in 0 .. Len(log) /\ mlog \o recs \in Seq(Recs)
  BY <1>2 DEF EcoTypes
<1>4. EcoTypes'
  BY <1>1, <1>2, <1>3 DEF EcoTypes
<1>5. EcoPhases'
  BY <1>1, <1>2 DEF EcoPhases
<1>6. EcoFollows'
  <2>1. CASE unlogged
    BY <1>1, <2>1 DEF EcoFollows
  <2>2. CASE ~ unlogged
    BY <2>2, MasterFollows
  <2> QED
    BY <2>1, <2>2
<1> QED
  BY <1>4, <1>5, <1>6 DEF EcoInv

\* A record that redo() pops.
LEMMA PoppedIs ==
  ASSUME EcoInv, NEW op, Popped(op)
  PROVE  /\ phase = "redo" /\ pos < Len(log) /\ rec \in Recs /\ rec.op = op
         /\ EcoBlock(master)
         /\ op = "FLAGS" => rec.obj \in Turned
<1>1. log \in Seq(Recs) /\ pos \in 0 .. Len(log) /\ EcoBlock(master)
  BY DEF EcoInv, EcoTypes
<1>2. phase = "redo" /\ pos < Len(log) /\ log[pos + 1].op = op
  BY DEF Popped
<1>3. pos + 1 \in 1 .. Len(log) /\ log[pos + 1] \in Recs /\ DOMAIN log = 1 .. Len(log)
  BY <1>1, <1>2
<1>4. WellFormed(log[pos + 1])
  BY <1>3, RecIs
<1>5. op = "FLAGS" => rec.obj \in Turned
  BY <1>2, <1>3, <1>4 DEF Turned, Reoriented, WellFormed, rec
<1> QED
  BY <1>1, <1>2, <1>3, <1>5 DEF rec

LEMMA MemberSim ==
  ASSUME NEW m, NEW b, NEW T, Sim(m, b, T), NEW tbl, NEW a
  PROVE  HasMember(m, tbl, a) <=> HasMember(b, tbl, a)
  BY DEF Sim, Alike, HasMember

LEMMA RejournaledIs ==
  ASSUME NEW r, r.op # "FLAGS"
  PROVE  Rejournaled(r) = <<r>>
  BY DEF Rejournaled

\* What redo() has of a record that is not of flags.
LEMMA PoppedRec ==
  ASSUME EcoInv, NEW op, op # "FLAGS", Popped(op)
  PROVE  /\ phase = "redo" /\ pos < Len(log) /\ rec \in Recs /\ rec.op = op
         /\ EcoBlock(master) /\ <<rec>> \in Seq(Recs) /\ WellFormed(rec)
         /\ Record(op, rec.obj, rec.arg) = <<rec>> /\ Rejournaled(rec) = <<rec>>
<1>1. phase = "redo" /\ pos < Len(log) /\ rec \in Recs /\ rec.op = op /\ EcoBlock(master)
  BY PoppedIs
<1>2. <<rec>> \in Seq(Recs) /\ WellFormed(rec) /\ Record(op, rec.obj, rec.arg) = <<rec>>
  BY <1>1, RecIs
<1>3. Rejournaled(rec) = <<rec>>
  BY <1>1, RejournaledIs
<1> QED
  BY <1>1, <1>2, <1>3

LEMMA RedoCreateInv ==
  ASSUME EcoInv, redo_createObject
  PROVE  EcoInv'
<1>1. << >> \in Seq(Recs)
  OBVIOUS
<1>2. CASE Popped("create net")
  <2>1. /\ phase = "redo" /\ pos < Len(log) /\ rec \in Recs /\ rec.op = "create net"
        /\ EcoBlock(master) /\ <<rec>> \in Seq(Recs) /\ Rejournaled(rec) = <<rec>>
    BY <1>2, PoppedRec
  <2>2. ASSUME NEW c, NEW e, Redoes(c, rec, e), Sim(master, c, Turned)
        PROVE  ~ HasMember(master, "net", rec.arg) /\ Sim(Net_create(master, rec.arg), e, Turned)
    <3>1. ~ HasMember(c, "net", rec.arg) /\ e = Net_create(c, rec.arg)
      BY <2>1, <2>2 DEF Redoes
    <3> QED
      BY <2>2, <3>1, MemberSim, NetCreateSim
  <2>3. CASE HasMember(master, "net", rec.arg) /\ Master(master, << >>)
    <3>1. Agrees(master, << >>)
      BY <2>2, <2>3 DEF Agrees
    <3> QED
      BY <1>1, <2>1, <2>3, <3>1, MasterStep
  <2>4. CASE Room(master, "net", 1) /\ Master(Net_create(master, rec.arg), <<rec>>)
    <3>1. Agrees(Net_create(master, rec.arg), <<rec>>)
      BY <2>1, <2>2 DEF Agrees
    <3>2. EcoBlock(Net_create(master, rec.arg))
      BY <2>1, <2>4, CreatesKept
    <3> QED
      BY <2>1, <2>4, <3>1, <3>2, MasterStep
  <2> QED
    BY <1>2, <2>1, <2>3, <2>4 DEF redo_createObject, Popped, rec
<1>3. CASE Popped("create bterm")
  <2>1. /\ phase = "redo" /\ pos < Len(log) /\ rec \in Recs /\ rec.op = "create bterm"
        /\ EcoBlock(master) /\ <<rec>> \in Seq(Recs) /\ Rejournaled(rec) = <<rec>>
    BY <1>3, PoppedRec
  <2>2. ASSUME NEW c, NEW e, Redoes(c, rec, e), Sim(master, c, Turned)
        PROVE  /\ ~ HasMember(master, "bterm", rec.arg)
               /\ Sim(BTerm_create(master, rec.obj, rec.arg), e, Turned)
    <3>1. ~ HasMember(c, "bterm", rec.arg) /\ e = BTerm_create(c, rec.obj, rec.arg)
      BY <2>1, <2>2 DEF Redoes
    <3> QED
      BY <2>2, <3>1, MemberSim, BTermCreateSim
  <2>3. CASE HasMember(master, "bterm", rec.arg) /\ Master(master, << >>)
    <3>1. Agrees(master, << >>)
      BY <2>2, <2>3 DEF Agrees
    <3> QED
      BY <1>1, <2>1, <2>3, <3>1, MasterStep
  <2>4. CASE /\ Room(master, "bterm", 1) /\ rec.obj \in master.live
             /\ Master(BTerm_create(master, rec.obj, rec.arg), <<rec>>)
    <3>1. Agrees(BTerm_create(master, rec.obj, rec.arg), <<rec>>)
      BY <2>1, <2>2 DEF Agrees
    <3>2. rec.obj \in Nets \cap master.live
      BY <2>1, <2>4, RecIs DEF WellFormed
    <3>3. EcoBlock(BTerm_create(master, rec.obj, rec.arg))
      BY <2>1, <2>4, <3>2, CreatesKept
    <3> QED
      BY <2>1, <2>4, <3>1, <3>3, MasterStep
  <2> QED
    BY <1>3, <2>1, <2>3, <2>4 DEF redo_createObject, Popped, rec
<1>4. CASE Popped("create inst")
  <2>1. /\ phase = "redo" /\ pos < Len(log) /\ rec \in Recs /\ rec.op = "create inst"
        /\ EcoBlock(master) /\ <<rec>> \in Seq(Recs) /\ Rejournaled(rec) = <<rec>>
    BY <1>4, PoppedRec
  <2>2. ASSUME NEW c, NEW e, Redoes(c, rec, e), Sim(master, c, Turned)
        PROVE  /\ ~ HasMember(master, "inst", rec.arg)
               /\ Sim(Inst_create(master, rec.obj, rec.arg), e, Turned)
    <3>1. ~ HasMember(c, "inst", rec.arg) /\ e = Inst_create(c, rec.obj, rec.arg)
      BY <2>1, <2>2 DEF Redoes
    <3> QED
      BY <2>2, <3>1, MemberSim, InstCreateSim
  <2>3. CASE HasMember(master, "inst", rec.arg) /\ Master(master, << >>)
    <3>1. Agrees(master, << >>)
      BY <2>2, <2>3 DEF Agrees
    <3> QED
      BY <1>1, <2>1, <2>3, <3>1, MasterStep
  <2>4. CASE /\ Room(master, "inst", 1) /\ Room(master, "iterm", Len(MTerms[rec.obj]))
             /\ Master(Inst_create(master, rec.obj, rec.arg), <<rec>>)
    <3>1. Agrees(Inst_create(master, rec.obj, rec.arg), <<rec>>)
      BY <2>1, <2>2 DEF Agrees
    <3>2. rec.obj \in Masters
      BY <2>1, RecIs DEF WellFormed
    <3>3. EcoBlock(Inst_create(master, rec.obj, rec.arg))
      BY <2>1, <2>4, <3>2, InstCreateKept
    <3> QED
      BY <2>1, <2>4, <3>1, <3>3, MasterStep
  <2> QED
    BY <1>4, <2>1, <2>3, <2>4 DEF redo_createObject, Popped, rec
<1> QED
  BY <1>2, <1>3, <1>4 DEF redo_createObject

LEMMA DifferentTables ==
  /\ Nets \cap BTerms = {} /\ Nets \cap Insts = {} /\ BTerms \cap Insts = {}
  /\ BTerms \subseteq Terms
  BY DEF Nets, BTerms, Insts, Objects, Terms

LEMMA RedoDeleteInv ==
  ASSUME EcoInv, redo_deleteObject
  PROVE  EcoInv'
<1>1. Popped("delete") /\ rec.obj \in master.live
  BY DEF redo_deleteObject
<1>2. /\ phase = "redo" /\ pos < Len(log) /\ rec \in Recs /\ rec.op = "delete"
      /\ EcoBlock(master) /\ Rejournaled(rec) = <<rec>>
      /\ rec.arg = Null /\ Record("delete", rec.obj, Null) = <<rec>>
  <2>1. /\ phase = "redo" /\ pos < Len(log) /\ rec \in Recs /\ rec.op = "delete"
        /\ EcoBlock(master) /\ Rejournaled(rec) = <<rec>> /\ WellFormed(rec)
        /\ Record("delete", rec.obj, rec.arg) = <<rec>>
    BY <1>1, PoppedRec
  <2>2. rec.arg = Null
    BY <2>1 DEF WellFormed
  <2> QED
    BY <2>1, <2>2
<1>3. CASE /\ rec.obj \in Nets
           /\ Master(Net_destroy(master, rec.obj), Net_destroy_log(master, rec.obj))
  <2>1. EcoBlock(Net_destroy(master, rec.obj))
    BY <1>1, <1>2, <1>3, NetDestroyKept
  <2>2. Net_destroy_log(master, rec.obj) \in Seq(Recs)
    BY <1>1, <1>2, <1>3, NetDestroyLogged DEF Logged
  <2>3. ASSUME NEW c, NEW e, Redoes(c, rec, e), Sim(master, c, Turned)
        PROVE  /\ Sim(Net_destroy(master, rec.obj), e, Turned)
               /\ Net_destroy_log(master, rec.obj) = <<rec>>
    <3>1. /\ \A t \in Terms : c.links.net[t] # rec.obj
          /\ e = Net_delete(c, rec.obj)
      BY <1>2, <1>3, <2>3, DifferentTables DEF Redoes
    <3>2. \A t \in Terms : master.links.net[t] # rec.obj
      BY <2>3, <3>1 DEF Sim, Alike
    <3>3. /\ Net_destroy(master, rec.obj) = Net_delete(master, rec.obj)
          /\ Net_destroy_log(master, rec.obj) = <<rec>>
      BY <1>1, <1>2, <1>3, <3>2, NetDestroyBare
    <3> QED
      BY <2>3, <3>1, <3>3, NetDeleteSim
  <2>4. Agrees(Net_destroy(master, rec.obj), Net_destroy_log(master, rec.obj))
    BY <1>2, <2>3 DEF Agrees
  <2> QED
    BY <1>2, <1>3, <2>1, <2>2, <2>4, MasterStep
<1>4. CASE /\ rec.obj \in BTerms
           /\ Master(Term_destroy(master, rec.obj), BTerm_destroy_log(rec.obj))
  <2>1. EcoBlock(Term_destroy(master, rec.obj))
    BY <1>1, <1>2, <1>4, GoneKept
  <2>2. BTerm_destroy_log(rec.obj) = <<rec>> /\ <<rec>> \in Seq(Recs)
    BY <1>2, RecIs DEF BTerm_destroy_log
  <2>3. ASSUME NEW c, NEW e, Redoes(c, rec, e), Sim(master, c, Turned)
        PROVE  Sim(Term_destroy(master, rec.obj), e, Turned)
    <3>1. e = Term_destroy(c, rec.obj)
      BY <1>2, <1>4, <2>3, DifferentTables DEF Redoes
    <3> QED
      BY <2>3, <3>1, GoneSim
  <2>4. Agrees(Term_destroy(master, rec.obj), BTerm_destroy_log(rec.obj))
    BY <1>2, <2>2, <2>3 DEF Agrees
  <2> QED
    BY <1>2, <1>4, <2>1, <2>2, <2>4, MasterStep
<1>5. CASE /\ rec.obj \in Insts
           /\ Master(Inst_destroy(master, rec.obj), Inst_destroy_log(master, rec.obj))
  <2>1. EcoBlock(Inst_destroy(master, rec.obj))
    BY <1>1, <1>2, <1>5, InstDestroyKept
  <2>2. Inst_destroy_log(master, rec.obj) \in Seq(Recs)
    BY <1>1, <1>2, <1>5, InstDestroyLogged DEF Logged
  <2>3. ASSUME NEW c, NEW e, Redoes(c, rec, e), Sim(master, c, Turned)
        PROVE  /\ Sim(Inst_destroy(master, rec.obj), e, Turned)
               /\ Inst_destroy_log(master, rec.obj) = <<rec>>
    <3>1. /\ \A k \in 1 .. Len(c.iterms[rec.obj]) :
               c.links.net[c.iterms[rec.obj][k]] = Null
          /\ e = Inst_destroy(c, rec.obj)
      BY <1>2, <1>5, <2>3, DifferentTables DEF Redoes
    <3>2. \A k \in 1 .. Len(master.iterms[rec.obj]) :
            master.links.net[master.iterms[rec.obj][k]] = Null
      BY <2>3, <3>1 DEF Sim, Alike
    <3>3. Inst_destroy_log(master, rec.obj) = <<rec>>
      BY <1>1, <1>2, <1>5, <3>2, InstDestroyBare
    <3> QED
      BY <1>1, <1>2, <1>5, <2>3, <3>1, <3>3, InstDestroySim
  <2>4. Agrees(Inst_destroy(master, rec.obj), Inst_destroy_log(master, rec.obj))
    BY <1>2, <2>3 DEF Agrees
  <2> QED
    BY <1>2, <1>5, <2>1, <2>2, <2>4, MasterStep
<1> QED
  BY <1>3, <1>4, <1>5 DEF redo_deleteObject

LEMMA RedoConnectInv ==
  ASSUME EcoInv, redo_connectObject
  PROVE  EcoInv'
<1> DEFINE b == connect(master, rec.obj, rec.arg)
           s == connect_log(master, rec.obj, rec.arg)
<1>1. Popped("connect") /\ rec.obj \in master.live /\ rec.arg \in master.live /\ Master(b, s)
  BY DEF redo_connectObject
<1>2. /\ phase = "redo" /\ pos < Len(log) /\ rec \in Recs /\ rec.op = "connect"
      /\ EcoBlock(master) /\ Rejournaled(rec) = <<rec>> /\ WellFormed(rec)
      /\ Record("connect", rec.obj, rec.arg) = <<rec>>
  BY <1>1, PoppedRec
<1>3. rec.obj \in Terms /\ rec.arg \in Nets
  BY <1>2 DEF WellFormed
<1>4. EcoBlock(b)
  BY <1>1, <1>2, <1>3, ConnectKept
<1>5. s \in Seq(Recs)
  BY <1>1, <1>2, <1>3, ConnectLogged DEF Logged
<1>6. ASSUME NEW c, NEW e, Redoes(c, rec, e), Sim(master, c, Turned)
      PROVE  Sim(b, e, Turned) /\ s = <<rec>>
  <2>1. (rec.obj \in BTerms \/ c.links.net[rec.obj] = Null) /\ e = connect(c, rec.obj, rec.arg)
    BY <1>2, <1>6 DEF Redoes
  <2>2. rec.obj \in BTerms \/ master.links.net[rec.obj] = Null
    BY <1>6, <2>1 DEF Sim, Alike
  <2>3. Null # rec.arg
    BY <1>3 DEF Null, Nets, Objects
  <2>4. s = <<rec>>
    <3>1. CASE rec.obj \in BTerms
      BY <1>2, <3>1 DEF connect_log
    <3>2. CASE rec.obj \notin BTerms
      <4>1. disconnect_log(master, rec.obj) = << >>
        BY <2>2, <3>2 DEF disconnect_log
      <4>2. s = << >> \o <<rec>>
        BY <1>2, <2>2, <2>3, <3>2, <4>1 DEF connect_log
      <4> QED
        BY <4>2
    <3> QED
      BY <3>1, <3>2
  <2> QED
    BY <1>6, <2>1, <2>4, ConnectSim
<1> HIDE DEF b, s
<1>7. Agrees(b, s)
  BY <1>2, <1>6 DEF Agrees
<1> QED
  BY <1>1, <1>2, <1>4, <1>5, <1>7, MasterStep

LEMMA RedoDisconnectInv ==
  ASSUME EcoInv, redo_disconnectObject
  PROVE  EcoInv'
<1> DEFINE b == disconnect(master, rec.obj)
           s == disconnect_log(master, rec.obj)
<1>1. Popped("disconnect") /\ Master(b, s)
  BY DEF redo_disconnectObject
<1>2. /\ phase = "redo" /\ pos < Len(log) /\ rec \in Recs /\ rec.op = "disconnect"
      /\ EcoBlock(master) /\ Rejournaled(rec) = <<rec>> /\ WellFormed(rec)
      /\ Record("disconnect", rec.obj, rec.arg) = <<rec>>
  BY <1>1, PoppedRec
<1>3. rec.obj \in Terms /\ rec.arg = Null
  BY <1>2 DEF WellFormed
<1>4. EcoBlock(b)
  BY <1>2, <1>3, OffKept
<1>5. s \in Seq(Recs)
  BY <1>2, <1>3, DisconnectLogged DEF Logged
<1>6. ASSUME NEW c, NEW e, Redoes(c, rec, e), Sim(master, c, Turned)
      PROVE  Sim(b, e, Turned) /\ s = <<rec>>
  <2>1. c.links.net[rec.obj] # Null /\ e = disconnect(c, rec.obj)
    BY <1>2, <1>6 DEF Redoes
  <2>2. master.links.net[rec.obj] # Null
    BY <1>6, <2>1 DEF Sim, Alike
  <2>3. s = <<rec>>
    BY <1>2, <1>3, <2>2 DEF disconnect_log
  <2> QED
    BY <1>6, <2>1, <2>3, OffSim
<1> HIDE DEF b, s
<1>7. Agrees(b, s)
  BY <1>2, <1>6 DEF Agrees
<1> QED
  BY <1>1, <1>2, <1>4, <1>5, <1>7, MasterStep

LEMMA RedoSwapInv ==
  ASSUME EcoInv, redo_swapObject
  PROVE  EcoInv'
<1> DEFINE b == swapMaster(master, rec.obj, rec.arg)
<1>1. Popped("swap") /\ rec.obj \in master.live /\ Master(b, <<rec>>)
  BY DEF redo_swapObject
<1>2. /\ phase = "redo" /\ pos < Len(log) /\ rec \in Recs /\ rec.op = "swap"
      /\ EcoBlock(master) /\ Rejournaled(rec) = <<rec>> /\ WellFormed(rec)
      /\ <<rec>> \in Seq(Recs)
  BY <1>1, PoppedRec
<1>3. rec.obj \in Insts /\ rec.arg \in Masters
  BY <1>2 DEF WellFormed
<1>4. EcoBlock(b)
  BY <1>1, <1>2, <1>3, SwapKept
<1>5. ASSUME NEW c, NEW e, Redoes(c, rec, e), Sim(master, c, Turned)
      PROVE  Sim(b, e, Turned)
  <2>1. e = swapMaster(c, rec.obj, rec.arg)
    BY <1>2, <1>5 DEF Redoes
  <2> QED
    BY <1>5, <2>1, SwapSim
<1> HIDE DEF b
<1>6. Agrees(b, <<rec>>)
  BY <1>2, <1>5 DEF Agrees
<1> QED
  BY <1>1, <1>2, <1>4, <1>6, MasterStep

LEMMA RedoFlagsInv ==
  ASSUME EcoInv, redo_updateFlags
  PROVE  EcoInv'
<1> DEFINE b == [master EXCEPT !.orient[rec.obj] = rec.arg]
<1>1. Popped("FLAGS") /\ Master(b, << >>) /\ << >> \in Seq(Recs)
  BY DEF redo_updateFlags
<1>2. /\ phase = "redo" /\ pos < Len(log) /\ rec.op = "FLAGS" /\ EcoBlock(master)
      /\ rec.obj \in Turned
  BY <1>1, PoppedIs
<1>3. EcoBlock(b)
  BY <1>2, AsidesKept
<1>4. Rejournaled(rec) = << >>
  BY <1>2 DEF Rejournaled
<1>5. ASSUME NEW c, NEW e, Redoes(c, rec, e), Sim(master, c, Turned)
      PROVE  Sim(b, e, Turned)
  <2>1. c.orient[rec.obj] # rec.arg /\ e = setOrient(c, rec.obj, rec.arg)
    BY <1>2, <1>5 DEF Redoes
  <2> QED
    BY <1>2, <1>5, <2>1, FlagsSim
<1> HIDE DEF b
<1>6. Agrees(b, << >>)
  BY <1>4, <1>5 DEF Agrees
<1> QED
  BY <1>1, <1>2, <1>3, <1>6, MasterStep

LEMMA RedoOriginInv ==
  ASSUME EcoInv, redo_updateOrigin
  PROVE  EcoInv'
<1> DEFINE b == setOrigin(master, rec.obj, rec.arg)
           s == IF master.x[rec.obj] = rec.arg THEN << >> ELSE <<rec>>
<1>1. Popped("ORIGIN") /\ Master(b, s)
  BY DEF redo_updateOrigin
<1>2. /\ phase = "redo" /\ pos < Len(log) /\ rec \in Recs /\ rec.op = "ORIGIN"
      /\ EcoBlock(master) /\ Rejournaled(rec) = <<rec>> /\ <<rec>> \in Seq(Recs)
  BY <1>1, PoppedRec
<1>3. EcoBlock(b)
  BY <1>2, AsidesKept
<1>4. s \in Seq(Recs)
  BY <1>2
<1>5. ASSUME NEW c, NEW e, Redoes(c, rec, e), Sim(master, c, Turned)
      PROVE  Sim(b, e, Turned) /\ s = <<rec>>
  <2>1. c.x[rec.obj] # rec.arg /\ e = setOrigin(c, rec.obj, rec.arg)
    BY <1>2, <1>5 DEF Redoes
  <2>2. master.x[rec.obj] # rec.arg
    BY <1>5, <2>1 DEF Sim, Alike
  <2> QED
    BY <1>5, <2>1, <2>2, OriginSim
<1> HIDE DEF b, s
<1>6. Agrees(b, s)
  BY <1>2, <1>5 DEF Agrees
<1> QED
  BY <1>1, <1>2, <1>3, <1>4, <1>6, MasterStep

\* What the next record was made of, and that the master is like it.
LEMMA NextRecord ==
  ASSUME EcoInv, ~ unlogged, phase = "redo", pos < Len(log)
  PROVE  \E c, e : Redoes(c, rec, e) /\ Sim(master, c, Turned)
<1>1. pos \in 0 .. Len(log) /\ log \in Seq(Recs)
  BY DEF EcoInv, EcoTypes
<1>2. pos + 1 \in 1 .. Len(log) /\ (pos + 1) - 1 = pos
  BY <1>1
<1>3. PICK bs : Following(bs)
  BY DEF EcoInv, EcoFollows
<1>4. Redoes(bs[(pos + 1) - 1], log[pos + 1], bs[pos + 1])
  BY <1>2, <1>3 DEF Following
<1> QED
  BY <1>2, <1>3, <1>4 DEF Following, rec

\* redo() only misses an object if a change had no record.
LEMMA RedoLostInv ==
  ASSUME EcoInv, redo_lost
  PROVE  EcoInv'
<1>1. /\ phase = "redo" /\ pos < Len(log) /\ phase' = "lost"
      /\ remote' = remote /\ log' = log /\ master' = master /\ mlog' = mlog
      /\ pos' = pos /\ calls' = calls /\ unlogged' = unlogged
  BY DEF redo_lost
<1>2. unlogged
  <2> SUFFICES ASSUME ~ unlogged PROVE FALSE
    OBVIOUS
  <2>1. PICK c, e : Redoes(c, rec, e) /\ Sim(master, c, Turned)
    BY <1>1, NextRecord
  <2>2. c.live = master.live
    BY <2>1 DEF Sim, Alike
  <2>3. /\ rec.op \in {"create bterm", "delete", "connect", "disconnect", "swap",
                       "FLAGS", "ORIGIN"}
        /\ rec.obj \notin master.live \/ (rec.op = "connect" /\ rec.arg \notin master.live)
    BY DEF redo_lost
  <2>4. rec.obj \in c.live
    BY <2>1, <2>3 DEF Redoes
  <2>5. rec.op = "connect" => rec.arg \in c.live
    BY <2>1 DEF Redoes
  <2> QED
    BY <2>2, <2>3, <2>4, <2>5
<1>3. EcoTypes'
  BY <1>1 DEF EcoInv, EcoTypes
<1>4. EcoPhases'
  BY <1>1, <1>2 DEF EcoPhases
<1>5. EcoFollows'
  BY <1>1 DEF EcoFollows
<1> QED
  BY <1>3, <1>4, <1>5 DEF EcoInv

\* The steps that change neither block nor journal.
LEMMA SameFollows ==
  ASSUME EcoFollows, remote' = remote, log' = log, master' = master, mlog' = mlog,
         pos' = pos, unlogged' = unlogged,
         phase \in {"record", "redo", "committed"}
  PROVE  EcoFollows'
<1>1. Turned' = Turned
  BY DEF Turned, Reoriented
<1>2. \A bs : Following(bs) => Following(bs)'
  BY <1>1 DEF Following
<1>3. Rejournaling => Rejournaling'
  <2>1. Rejournal(log)' = Rejournal(log)
    BY DEF Rejournal, Rejournaled
  <2> QED
    BY <2>1 DEF Rejournaling
<1> QED
  BY <1>2, <1>3 DEF EcoFollows

LEMMA PhasesInv ==
  ASSUME EcoInv
  PROVE  /\ endEco => EcoInv'
         /\ commitEco_end => EcoInv'
         /\ redo_misaligned => EcoInv'
<1>1. EcoTypes /\ EcoPhases /\ EcoFollows
  BY DEF EcoInv
<1>2. ASSUME endEco
      PROVE  EcoInv'
  <2>1. /\ phase = "record" /\ phase' = "redo" /\ pos' = 0
        /\ remote' = remote /\ log' = log /\ master' = master /\ mlog' = mlog
        /\ calls' = calls /\ unlogged' = unlogged
    BY <1>2 DEF endEco
  <2>2. pos' = pos
    BY <1>1, <2>1 DEF EcoPhases
  <2>3. EcoFollows'
    BY <1>1, <2>1, <2>2, SameFollows
  <2>4. EcoTypes'
    BY <1>1, <2>1, <2>2 DEF EcoTypes
  <2>5. EcoPhases'
    BY <2>1 DEF EcoPhases
  <2> QED
    BY <2>3, <2>4, <2>5 DEF EcoInv
<1>3. ASSUME commitEco_end
      PROVE  EcoInv'
  <2>1. /\ phase = "redo" /\ phase' = "committed" /\ pos = Len(log)
        /\ remote' = remote /\ log' = log /\ master' = master /\ mlog' = mlog
        /\ pos' = pos /\ calls' = calls /\ unlogged' = unlogged
    BY <1>3 DEF commitEco_end
  <2>2. EcoFollows'
    BY <1>1, <2>1, SameFollows
  <2>3. EcoTypes'
    BY <1>1, <2>1 DEF EcoTypes
  <2>4. EcoPhases'
    BY <2>1 DEF EcoPhases
  <2> QED
    BY <2>2, <2>3, <2>4 DEF EcoInv
<1>4. ASSUME redo_misaligned
      PROVE  EcoInv'
  <2>1. /\ phase' = "misaligned"
        /\ remote' = remote /\ log' = log /\ master' = master /\ mlog' = mlog
        /\ pos' = pos /\ calls' = calls /\ unlogged' = unlogged
    BY <1>4 DEF redo_misaligned
  <2>2. EcoFollows'
    BY <2>1 DEF EcoFollows
  <2>3. EcoTypes'
    BY <1>1, <2>1 DEF EcoTypes
  <2>4. EcoPhases'
    BY <2>1 DEF EcoPhases
  <2> QED
    BY <2>2, <2>3, <2>4 DEF EcoInv
<1> QED
  BY <1>2, <1>3, <1>4

LEMMA BeginInv ==
  ASSUME EcoInv, beginEco
  PROVE  EcoInv'
<1>1. /\ remote = master /\ phase' = "record" /\ log' = << >> /\ mlog' = << >> /\ pos' = 0
      /\ unlogged' = FALSE /\ remote' = remote /\ master' = master /\ calls' = calls
  BY DEF beginEco
<1>2. EcoTypes
  BY DEF EcoInv
<1>3. EcoBlock(remote)' /\ master' = remote'
  BY <1>1, <1>2 DEF EcoTypes
<1>4. EcoFollows'
  <2>0. [k \in {0} |-> remote'][0] = remote'
    OBVIOUS
  <2>1. PICK bs : bs[0] = remote'
    BY <2>0
  <2>2. EcoBlock(remote')
    BY <1>1, <1>2 DEF EcoTypes
  <2>3. Sim(master', bs[0], Turned')
    BY <1>3, <2>1, <2>2, SimSelf
  <2>4. Following(bs)'
    BY <1>1, <2>1, <2>3 DEF Following
  <2>5. Rejournaling'
    BY <1>1 DEF Rejournaling, Concats
  <2> QED
    BY <2>4, <2>5 DEF EcoFollows
<1>5. << >> \in Seq(Recs) /\ 0 \in 0 .. Len(<< >>)
  OBVIOUS
<1>6. EcoTypes'
  BY <1>1, <1>2, <1>5 DEF EcoTypes
<1>7. EcoPhases'
  BY <1>1 DEF EcoPhases
<1> QED
  BY <1>4, <1>6, <1>7 DEF EcoInv

LEMMA RedoInv ==
  ASSUME EcoInv, redo
  PROVE  EcoInv'
  BY RedoCreateInv, RedoDeleteInv, RedoConnectInv, RedoDisconnectInv, RedoSwapInv,
     RedoFlagsInv, RedoOriginInv, RedoLostInv, PhasesInv DEF redo

LEMMA EcoNextInv == EcoInv /\ [EcoNext]_ecoVars => EcoInv'
<1> SUFFICES ASSUME EcoInv, [EcoNext]_ecoVars
             PROVE  EcoInv'
  OBVIOUS
<1>1. CASE UNCHANGED ecoVars
  BY <1>1 DEF ecoVars, EcoInv, EcoTypes, EcoPhases, EcoFollows, Following, Rejournaling,
              Rejournal, Rejournaled, Turned, Reoriented
<1>2. CASE \E name \in Names["net"], skip \in BOOLEAN : EcoCreateNet(name, skip)
  BY <1>2, EcoCreateNetInv
<1>3. CASE \E n \in EcoLive(Nets) :
             \/ \E name \in Names["bterm"] : EcoCreateBTerm(n, name)
             \/ \E t \in EcoLive(Terms) : EcoConnect(t, n)
             \/ \E r \in Rules : EcoSetRule(n, r)
             \/ EcoDestroyNet(n)
  BY <1>3, EcoCreatesInv, EcoConnectsInv, EcoAsidesInv, EcoDestroysInv
<1>4. CASE \E m \in Masters :
             \/ \E name \in Names["inst"] : EcoCreateInst(m, name)
             \/ \E i \in EcoLive(Insts) : EcoSwapMaster(i, m)
  BY <1>4, EcoCreatesInv, EcoAsidesInv
<1>5. CASE \E t \in EcoLive(Terms) : EcoDisconnect(t)
  BY <1>5, EcoConnectsInv
<1>6. CASE \E t \in EcoLive(BTerms) : EcoDestroyBTerm(t)
  BY <1>6, EcoDestroysInv
<1>7. CASE \E i \in EcoLive(Insts) :
             \/ EcoDestroyInst(i)
             \/ \E x \in Origins : EcoSetOrigin(i, x)
             \/ \E o \in Orients : EcoSetOrient(i, o)
  BY <1>7, EcoDestroysInv, EcoAsidesInv
<1>8. CASE \E o \in EcoLive(Nets \cup BTerms \cup Insts) :
             \E name \in Names[o[1]] : EcoRename(o, name)
  BY <1>8, EcoRenameInv
<1>9. CASE endEco \/ redo \/ commitEco_end \/ beginEco
  BY <1>9, PhasesInv, RedoInv, BeginInv
<1> QED
  BY <1>1, <1>2, <1>3, <1>4, <1>5, <1>6, <1>7, <1>8, <1>9 DEF EcoNext

-----------------------------------------------------------------------------
(* What an exchange is for. *)

\* The calls on the remote and the steps of redo() keep EcoInv: both blocks
\* are well formed, and the journal leads, record by record, from the block
\* the exchange began with to what the remote is, with the master at the
\* record that redo() has come to.
THEOREM JournalInvariant == EcoSpec => []EcoInv
<1>1. EcoInit => EcoInv
  BY EcoInitInv
<1>2. EcoInv /\ [EcoNext]_ecoVars => EcoInv'
  BY EcoNextInv
<1> QED
  BY <1>1, <1>2, PTL DEF EcoSpec

LEMMA EcoInvType == EcoInv => EcoTypeOK
<1> SUFFICES ASSUME EcoInv PROVE EcoTypeOK
  OBVIOUS
<1>1. EcoTypes
  BY DEF EcoInv
<1>2. BlockType(remote) /\ BlockType(master)
  BY <1>1, EcoBlockType DEF EcoTypes
<1>3. ASSUME NEW r \in Recs
      PROVE  RecordType(r)
  <2>1. r.op \in Ops /\ WellFormed(r)
    BY RecIs
  <2>2. CASE r.op = "create inst"
    BY <2>1, <2>2 DEF WellFormed, RecordType
  <2>3. CASE r.op # "create inst"
    <3>1. r.obj \in Nets \cup Terms \cup Insts \cup {Null}
      BY <2>1, <2>3, DifferentTables DEF WellFormed, Ops
    <3> QED
      BY <2>1, <2>3, <3>1 DEF RecordType, Ops
  <2> QED
    BY <2>2, <2>3
<1>4. \A k \in DOMAIN log : RecordType(log[k])
  BY <1>1, <1>3 DEF EcoTypes
<1>5. \A k \in DOMAIN mlog : RecordType(mlog[k])
  BY <1>1, <1>3 DEF EcoTypes
<1> QED
  BY <1>1, <1>2, <1>4, <1>5 DEF EcoTypeOK, EcoTypes

\* redo() finds every object that a record of log names, as long as every
\* change was recorded: what the records before it did to the master put the
\* object in the slot that it had in the remote.
THEOREM JournalReplaySound == EcoSpec => []ReplaySound
<1>1. EcoInv => ReplaySound
  BY EcoInvType DEF EcoInv, EcoPhases, ReplaySound, RedoFindsObjects
<1> QED
  BY <1>1, JournalInvariant, PTL

LEMMA EcoCommits == EcoInv => CommitReproduces
<1> SUFFICES ASSUME EcoInv, phase = "committed", ~ unlogged
             PROVE  /\ \A f \in DOMAIN remote \ {"bbox"} : master[f] = remote[f]
                    /\ \A i \in Insts : ~ Reoriented(i) => master.bbox[i] = remote.bbox[i]
  BY DEF CommitReproduces
<1>1. PICK bs : Following(bs)
  BY DEF EcoInv, EcoFollows
<1>2. pos = Len(log)
  BY DEF EcoInv, EcoPhases
<1>3. Alike(master, remote) /\ SameBoxes(master, remote, Turned)
  BY <1>1, <1>2 DEF Following, Sim
<1>4. \A f \in DOMAIN remote \ {"bbox"} : master[f] = remote[f]
  BY <1>3 DEF Alike, Fields
<1>5. \A i \in Insts : ~ Reoriented(i) => master.bbox[i] = remote.bbox[i]
  BY <1>3 DEF SameBoxes, Turned
<1> QED
  BY <1>4, <1>5

\* commitEco() makes the master what the remote is, to the order of the lists
\* and of the free slots, but for the boxes of the instances that were turned.
THEOREM JournalCommitReproduces == EcoSpec => []CommitReproduces
  BY EcoCommits, JournalInvariant, PTL

LEMMA EcoRejournals == EcoInv => RejournalsSame
<1> SUFFICES ASSUME EcoInv, phase = "committed", ~ unlogged
             PROVE  mlog = Each(Rejournaled, log)
  BY DEF RejournalsSame
<1>1. log \in Seq(Recs) /\ pos = Len(log) /\ Rejournaling
  BY DEF EcoInv, EcoTypes, EcoPhases, EcoFollows
<1>2. Rejournal(log) \in Seq(Seq(Recs)) /\ Len(Rejournal(log)) = Len(log)
  <2>1. \A r \in Recs : Rejournaled(r) \in Seq(Recs)
    BY DEF Rejournaled
  <2>2. \A k \in 1 .. Len(log) : Rejournaled(log[k]) \in Seq(Recs)
    BY <1>1, <2>1
  <2> QED
    BY <1>1, <2>2 DEF Rejournal
<1>3. PICK f : Concats(f, Rejournal(log)) /\ FlattenSeq(Rejournal(log)) = f[Len(log)]
  BY <1>2, FlattenExists
<1>4. mlog = FlattenSeq(Rejournal(log))
  BY <1>1, <1>3 DEF Rejournaling
<1> QED
  BY <1>4 DEF Each, Rejournal

\* A replay records again what it replays, except for the flags.
THEOREM JournalRejournalsSame == EcoSpec => []RejournalsSame
  BY EcoRejournals, JournalInvariant, PTL
=============================================================================
