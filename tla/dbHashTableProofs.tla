------------------------- MODULE dbHashTableProofs -------------------------
(***************************************************************************)
(* Theorems about dbHashTable: chains that are taken apart and put back    *)
(* when the table grows or shrinks lose no net and keep the order of nets  *)
(* that share a name, for any hash function, any number of nets and any    *)
(* length at which the table grows.                                        *)
(***************************************************************************)
EXTENDS dbHashTable, SequenceTheorems, FiniteSetTheorems, WellFoundedInduction,
        TLAPS

-----------------------------------------------------------------------------
(* Entries of a chain: which are in it, and which comes first. *)

\* The entries of a chain are those its positions hold.
LEMMA ContainsAt ==
  ASSUME NEW S, NEW s \in Seq(S), NEW x
  PROVE  Contains(s, x) <=> \E i \in 1 .. Len(s) : s[i] = x
BY DEF Contains

\* The chain of one entry.
LEMMA SingleChain ==
  ASSUME NEW S, NEW e \in S
  PROVE  /\ <<e>> \in Seq(S)
         /\ \A x : Contains(<<e>>, x) <=> x = e
         /\ IsInjective(<<e>>)
         /\ \A x, y : ~ Ahead(<<e>>, x, y)
BY DEF Contains, IsInjective, Ahead

\* The empty chain.
LEMMA EmptyChain ==
  ASSUME NEW S
  PROVE  /\ << >> \in Seq(S)
         /\ \A x : ~ Contains(<< >>, x)
         /\ IsInjective(<< >>)
         /\ \A x, y : ~ Ahead(<< >>, x, y)
BY DEF Contains, IsInjective, Ahead

\* What is ahead in a chain is in it, and with distinct entries no entry is
\* ahead of itself or of one that is ahead of it.
LEMMA AheadIn ==
  ASSUME NEW S, NEW s \in Seq(S), NEW x, NEW y, Ahead(s, x, y)
  PROVE  /\ Contains(s, x) /\ Contains(s, y)
         /\ IsInjective(s) => x # y /\ ~ Ahead(s, y, x)
BY DEF Contains, IsInjective, Ahead

\* Of two entries of a chain one is ahead.
LEMMA AheadTotal ==
  ASSUME NEW S, NEW s \in Seq(S), NEW x, NEW y,
         Contains(s, x), Contains(s, y), x # y
  PROVE  Ahead(s, x, y) \/ Ahead(s, y, x)
BY DEF Contains, Ahead


\* The positions of a concatenation.
LEMMA ConcatAt ==
  ASSUME NEW S, NEW s \in Seq(S), NEW t \in Seq(S)
  PROVE  /\ s \o t \in Seq(S)
         /\ Len(s) \in Nat /\ Len(t) \in Nat /\ Len(s \o t) = Len(s) + Len(t)
         /\ DOMAIN s = 1 .. Len(s) /\ DOMAIN t = 1 .. Len(t)
         /\ DOMAIN (s \o t) = 1 .. Len(s) + Len(t)
         /\ \A i \in 1 .. Len(s) : (s \o t)[i] = s[i]
         /\ \A i \in 1 .. Len(t) : (s \o t)[Len(s) + i] = t[i]
BY ConcatProperties, LenProperties

\* A position of a concatenation is one of the first part or of the second.
LEMMA ConcatSplit ==
  ASSUME NEW m \in Nat, NEW n \in Nat, NEW i \in 1 .. m + n, i \notin 1 .. m
  PROVE  /\ i - m \in 1 .. n
         /\ i = m + (i - m)
OBVIOUS

\* What is in the concatenation of two chains.
LEMMA ConcatContains ==
  ASSUME NEW S, NEW s \in Seq(S), NEW t \in Seq(S)
  PROVE  \A x : Contains(s \o t, x) <=> Contains(s, x) \/ Contains(t, x)
<1>1. /\ Len(s) \in Nat /\ Len(t) \in Nat /\ Len(s \o t) = Len(s) + Len(t)
      /\ \A i \in 1 .. Len(s) : (s \o t)[i] = s[i]
      /\ \A i \in 1 .. Len(t) : (s \o t)[Len(s) + i] = t[i]
  BY ConcatAt
<1>2. ASSUME NEW x, Contains(s \o t, x) PROVE Contains(s, x) \/ Contains(t, x)
  <2>1. PICK i \in 1 .. Len(s) + Len(t) : (s \o t)[i] = x
    BY <1>1, <1>2 DEF Contains
  <2>2. CASE i \in 1 .. Len(s)
    BY <1>1, <2>1, <2>2 DEF Contains
  <2>3. CASE i \notin 1 .. Len(s)
    <3>1. i - Len(s) \in 1 .. Len(t) /\ i = Len(s) + (i - Len(s))
      BY <1>1, <2>3, ConcatSplit
    <3>2. t[i - Len(s)] = x
      BY <1>1, <2>1, <3>1
    <3> QED
      BY <3>1, <3>2 DEF Contains
  <2> QED
    BY <2>2, <2>3
<1>3. ASSUME NEW x, Contains(s, x) PROVE Contains(s \o t, x)
  BY <1>1, <1>3 DEF Contains
<1>4. ASSUME NEW x, Contains(t, x) PROVE Contains(s \o t, x)
  <2>1. PICK i \in 1 .. Len(t) : t[i] = x
    BY <1>4 DEF Contains
  <2>2. Len(s) + i \in 1 .. Len(s \o t) /\ (s \o t)[Len(s) + i] = x
    BY <1>1, <2>1
  <2> QED
    BY <2>2 DEF Contains
<1> QED
  BY <1>2, <1>3, <1>4

\* Chains without a common entry, each with distinct entries.
LEMMA ConcatInjective ==
  ASSUME NEW S, NEW s \in Seq(S), NEW t \in Seq(S),
         IsInjective(s), IsInjective(t),
         \A x : ~ (Contains(s, x) /\ Contains(t, x))
  PROVE  IsInjective(s \o t)
<1>1. /\ Len(s) \in Nat /\ Len(t) \in Nat
      /\ DOMAIN s = 1 .. Len(s) /\ DOMAIN t = 1 .. Len(t)
      /\ DOMAIN (s \o t) = 1 .. Len(s) + Len(t)
      /\ \A i \in 1 .. Len(s) : (s \o t)[i] = s[i]
      /\ \A i \in 1 .. Len(t) : (s \o t)[Len(s) + i] = t[i]
  BY ConcatAt
<1>2. \A i \in 1 .. Len(s), j \in 1 .. Len(t) : s[i] # t[j]
  BY DEF Contains
<1>3. ASSUME NEW i \in 1 .. Len(s) + Len(t), NEW j \in 1 .. Len(s) + Len(t),
             (s \o t)[i] = (s \o t)[j]
      PROVE  i = j
  <2>1. CASE i \in 1 .. Len(s) /\ j \in 1 .. Len(s)
    BY <1>1, <1>3, <2>1 DEF IsInjective
  <2>2. CASE i \in 1 .. Len(s) /\ j \notin 1 .. Len(s)
    <3>1. j - Len(s) \in 1 .. Len(t) /\ j = Len(s) + (j - Len(s))
      BY <1>1, <2>2, ConcatSplit
    <3> QED
      BY <1>1, <1>2, <1>3, <2>2, <3>1
  <2>3. CASE i \notin 1 .. Len(s) /\ j \in 1 .. Len(s)
    <3>1. i - Len(s) \in 1 .. Len(t) /\ i = Len(s) + (i - Len(s))
      BY <1>1, <2>3, ConcatSplit
    <3> QED
      BY <1>1, <1>2, <1>3, <2>3, <3>1
  <2>4. CASE i \notin 1 .. Len(s) /\ j \notin 1 .. Len(s)
    <3>1. /\ i - Len(s) \in 1 .. Len(t) /\ i = Len(s) + (i - Len(s))
          /\ j - Len(s) \in 1 .. Len(t) /\ j = Len(s) + (j - Len(s))
      BY <1>1, <2>4, ConcatSplit
    <3>2. t[i - Len(s)] = t[j - Len(s)]
      BY <1>1, <1>3, <3>1
    <3>3. i - Len(s) = j - Len(s)
      BY <1>1, <3>1, <3>2 DEF IsInjective
    <3> QED
      BY <3>1, <3>3
  <2> QED
    BY <2>1, <2>2, <2>3, <2>4
<1> QED
  BY <1>1, <1>3 DEF IsInjective

\* The order in the concatenation of two chains.
LEMMA ConcatAhead ==
  ASSUME NEW S, NEW s \in Seq(S), NEW t \in Seq(S)
  PROVE  \A x, y : Ahead(s \o t, x, y)
                     <=> \/ Ahead(s, x, y) \/ Ahead(t, x, y)
                         \/ Contains(s, x) /\ Contains(t, y)
<1>1. /\ Len(s) \in Nat /\ Len(t) \in Nat
      /\ DOMAIN s = 1 .. Len(s) /\ DOMAIN t = 1 .. Len(t)
      /\ DOMAIN (s \o t) = 1 .. Len(s) + Len(t)
      /\ \A i \in 1 .. Len(s) : (s \o t)[i] = s[i]
      /\ \A i \in 1 .. Len(t) : (s \o t)[Len(s) + i] = t[i]
  BY ConcatAt
<1>2. ASSUME NEW x, NEW y, Ahead(s \o t, x, y)
      PROVE  Ahead(s, x, y) \/ Ahead(t, x, y) \/ (Contains(s, x) /\ Contains(t, y))
  <2>1. PICK i \in 1 .. Len(s) + Len(t), j \in 1 .. Len(s) + Len(t) :
          i < j /\ (s \o t)[i] = x /\ (s \o t)[j] = y
    BY <1>1, <1>2 DEF Ahead
  <2>2. CASE j \in 1 .. Len(s)
    <3>1. i \in 1 .. Len(s)
      BY <1>1, <2>1, <2>2
    <3> QED
      BY <1>1, <2>1, <2>2, <3>1 DEF Ahead
  <2>3. CASE j \notin 1 .. Len(s)
    <3>1. j - Len(s) \in 1 .. Len(t) /\ j = Len(s) + (j - Len(s))
      BY <1>1, <2>3, ConcatSplit
    <3>2. t[j - Len(s)] = y
      BY <1>1, <2>1, <3>1
    <3>3. CASE i \in 1 .. Len(s)
      BY <1>1, <2>1, <3>1, <3>2, <3>3 DEF Contains
    <3>4. CASE i \notin 1 .. Len(s)
      <4>1. i - Len(s) \in 1 .. Len(t) /\ i = Len(s) + (i - Len(s))
        BY <1>1, <3>4, ConcatSplit
      <4>2. t[i - Len(s)] = x /\ i - Len(s) < j - Len(s)
        BY <1>1, <2>1, <4>1
      <4> QED
        BY <1>1, <3>1, <3>2, <4>1, <4>2 DEF Ahead
    <3> QED
      BY <3>3, <3>4
  <2> QED
    BY <2>2, <2>3
<1>3. ASSUME NEW x, NEW y, Ahead(s, x, y) PROVE Ahead(s \o t, x, y)
  <2>1. PICK i \in 1 .. Len(s), j \in 1 .. Len(s) : i < j /\ s[i] = x /\ s[j] = y
    BY <1>1, <1>3 DEF Ahead
  <2>2. i \in 1 .. Len(s) + Len(t) /\ j \in 1 .. Len(s) + Len(t)
    BY <1>1, <2>1
  <2> QED
    BY <1>1, <2>1, <2>2 DEF Ahead
<1>4. ASSUME NEW x, NEW y, Ahead(t, x, y) PROVE Ahead(s \o t, x, y)
  <2>1. PICK i \in 1 .. Len(t), j \in 1 .. Len(t) : i < j /\ t[i] = x /\ t[j] = y
    BY <1>1, <1>4 DEF Ahead
  <2>2. /\ Len(s) + i \in 1 .. Len(s) + Len(t) /\ Len(s) + j \in 1 .. Len(s) + Len(t)
        /\ Len(s) + i < Len(s) + j
    BY <1>1, <2>1
  <2> QED
    BY <1>1, <2>1, <2>2 DEF Ahead
<1>5. ASSUME NEW x, NEW y, Contains(s, x), Contains(t, y) PROVE Ahead(s \o t, x, y)
  <2>1. PICK i \in 1 .. Len(s), j \in 1 .. Len(t) : s[i] = x /\ t[j] = y
    BY <1>5 DEF Contains
  <2>2. /\ i \in 1 .. Len(s) + Len(t) /\ Len(s) + j \in 1 .. Len(s) + Len(t)
        /\ i < Len(s) + j
    BY <1>1, <2>1
  <2> QED
    BY <1>1, <2>1, <2>2 DEF Ahead
<1> QED
  BY <1>2, <1>3, <1>4, <1>5

\* A chain read from its end.
LEMMA ReverseChain ==
  ASSUME NEW S, NEW s \in Seq(S)
  PROVE  /\ Reverse(s) \in Seq(S)
         /\ \A x : Contains(Reverse(s), x) <=> Contains(s, x)
         /\ IsInjective(s) => IsInjective(Reverse(s))
         /\ \A x, y : Ahead(Reverse(s), x, y) <=> Ahead(s, y, x)
<1> DEFINE n == Len(s)
           r == Reverse(s)
<1>1. /\ n \in Nat /\ DOMAIN s = 1 .. n /\ \A i \in 1 .. n : s[i] \in S
      /\ \A i \in 1 .. n : (n - i) + 1 \in 1 .. n /\ (n - ((n - i) + 1)) + 1 = i
  <2>1. n \in Nat /\ DOMAIN s = 1 .. n /\ s \in [1 .. n -> S]
    BY LenProperties
  <2> QED
    BY <2>1
<1>2. r \in Seq(S)
  <2>1. r = [i \in 1 .. n |-> s[(n - i) + 1]]
    BY DEF Reverse
  <2>2. \A i \in 1 .. n : s[(n - i) + 1] \in S
    BY <1>1
  <2> QED
    BY <1>1, <2>1, <2>2
<1>3. /\ Len(r) = n /\ DOMAIN r = 1 .. n
      /\ \A i \in 1 .. n : r[i] = s[(n - i) + 1] /\ r[(n - i) + 1] = s[i]
  <2>1. r = [i \in 1 .. n |-> s[(n - i) + 1]]
    BY DEF Reverse
  <2>2. DOMAIN r = 1 .. n /\ \A i \in 1 .. n : r[i] = s[(n - i) + 1]
    BY <2>1
  <2>3. Len(r) = n
    BY <1>1, <1>2, <2>2, LenProperties
  <2> QED
    BY <1>1, <2>2, <2>3
<1> HIDE DEF n, r
<1>4. \A x : Contains(r, x) <=> Contains(s, x)
  BY <1>1, <1>3 DEF Contains, n
<1>5. ASSUME IsInjective(s) PROVE IsInjective(r)
  <2>1. ASSUME NEW i \in 1 .. n, NEW j \in 1 .. n, r[i] = r[j] PROVE i = j
    <3>1. (n - i) + 1 = (n - j) + 1
      BY <1>1, <1>3, <1>5, <2>1 DEF IsInjective
    <3> QED
      BY <1>1, <3>1
  <2> QED
    BY <1>3, <2>1 DEF IsInjective
<1>6. \A i, j \in 1 .. n : i < j => (n - j) + 1 < (n - i) + 1
  BY <1>1
<1>7. ASSUME NEW x, NEW y, Ahead(r, x, y) PROVE Ahead(s, y, x)
  <2>1. PICK i \in 1 .. n, j \in 1 .. n : i < j /\ r[i] = x /\ r[j] = y
    BY <1>3, <1>7 DEF Ahead
  <2>2. /\ (n - j) + 1 \in 1 .. n /\ (n - i) + 1 \in 1 .. n
        /\ (n - j) + 1 < (n - i) + 1
        /\ s[(n - j) + 1] = y /\ s[(n - i) + 1] = x
    BY <1>1, <1>3, <1>6, <2>1
  <2> QED
    BY <1>1, <2>2 DEF Ahead
<1>8. ASSUME NEW x, NEW y, Ahead(s, y, x) PROVE Ahead(r, x, y)
  <2>1. PICK i \in 1 .. n, j \in 1 .. n : i < j /\ s[i] = y /\ s[j] = x
    BY <1>1, <1>8 DEF Ahead
  <2>2. /\ (n - j) + 1 \in 1 .. n /\ (n - i) + 1 \in 1 .. n
        /\ (n - j) + 1 < (n - i) + 1
        /\ r[(n - j) + 1] = x /\ r[(n - i) + 1] = y
    BY <1>1, <1>3, <1>6, <2>1
  <2> QED
    BY <1>3, <2>2 DEF Ahead
<1> QED
  BY <1>2, <1>4, <1>5, <1>7, <1>8 DEF r

\* A chain of distinct entries that loses one.
LEMMA UnlinkChain ==
  ASSUME NEW S, NEW s \in Seq(S), NEW e, IsInjective(s), Contains(s, e)
  PROVE  /\ Unlink(s, e) \in Seq(S)
         /\ \A x : Contains(Unlink(s, e), x) <=> Contains(s, x) /\ x # e
         /\ IsInjective(Unlink(s, e))
         /\ \A x, y : Ahead(Unlink(s, e), x, y)
                        <=> Ahead(s, x, y) /\ x # e /\ y # e
<1> DEFINE n == Len(s)
           i == CHOOSE k \in DOMAIN s : s[k] = e
           pre == SubSeq(s, 1, i - 1)
           post == SubSeq(s, i + 1, n)
<1>1. /\ n \in Nat /\ DOMAIN s = 1 .. n /\ \A k \in 1 .. n : s[k] \in S
  BY LenProperties
<1>2. i \in 1 .. n /\ s[i] = e
  BY <1>1 DEF Contains
<1>3. Unlink(s, e) = pre \o post
  BY DEF Unlink, RemoveAt
<1> HIDE DEF n, i
<1>4. /\ pre \in Seq(S) /\ Len(pre) = i - 1
      /\ \A k \in 1 .. i - 1 : pre[k] = s[k]
  <2>1. 1 \in Int /\ i - 1 \in Int /\ \A k \in 1 .. i - 1 : s[k] \in S
    BY <1>1, <1>2
  <2>2. /\ SubSeq(s, 1, i - 1) \in Seq(S)
        /\ Len(SubSeq(s, 1, i - 1)) = IF 1 <= i - 1 THEN (i - 1) - 1 + 1 ELSE 0
        /\ \A k \in 1 .. (i - 1) - 1 + 1 : SubSeq(s, 1, i - 1)[k] = s[1 + k - 1]
    BY <2>1, SubSeqProperties
  <2>3. i \in Nat /\ i > 0 /\ \A k \in 1 .. i - 1 : k \in 1 .. (i - 1) - 1 + 1 /\ 1 + k - 1 = k
    BY <1>1, <1>2
  <2>4. (IF 1 <= i - 1 THEN (i - 1) - 1 + 1 ELSE 0) = i - 1
    BY <2>3
  <2> QED
    BY <2>2, <2>3, <2>4
<1>5. /\ post \in Seq(S) /\ Len(post) = n - i
      /\ \A k \in 1 .. n - i : post[k] = s[i + k]
  <2>1. i + 1 \in Int /\ n \in Int /\ \A k \in i + 1 .. n : s[k] \in S
    BY <1>1, <1>2
  <2>2. /\ SubSeq(s, i + 1, n) \in Seq(S)
        /\ Len(SubSeq(s, i + 1, n)) = IF i + 1 <= n THEN n - (i + 1) + 1 ELSE 0
        /\ \A k \in 1 .. n - (i + 1) + 1 : SubSeq(s, i + 1, n)[k] = s[(i + 1) + k - 1]
    BY <2>1, SubSeqProperties
  <2>3. i \in Nat /\ i <= n /\ \A k \in 1 .. n - i :
                        k \in 1 .. n - (i + 1) + 1 /\ (i + 1) + k - 1 = i + k
    BY <1>1, <1>2
  <2>4. (IF i + 1 <= n THEN n - (i + 1) + 1 ELSE 0) = n - i
    BY <1>1, <2>3
  <2> QED
    BY <2>2, <2>3, <2>4
<1> HIDE DEF pre, post
<1>6. DOMAIN pre = 1 .. i - 1 /\ DOMAIN post = 1 .. n - i
  BY <1>4, <1>5, LenProperties
<1>7. <<e>> \in Seq(S) /\ e \in S
  BY <1>1, <1>2
<1>8. s = pre \o (<<e>> \o post)
  <2> DEFINE t == <<e>> \o post
  <2>1. /\ t \in Seq(S) /\ Len(t) = 1 + (n - i) /\ t[1] = e
        /\ \A k \in 1 .. n - i : t[1 + k] = post[k]
    <3>1. Len(<<e>>) = 1 /\ <<e>>[1] = e
      OBVIOUS
    <3>2. /\ t \in Seq(S) /\ Len(t) = Len(<<e>>) + Len(post)
          /\ \A k \in 1 .. Len(<<e>>) : t[k] = <<e>>[k]
          /\ \A k \in 1 .. Len(post) : t[Len(<<e>>) + k] = post[k]
      BY <1>5, <1>7, ConcatAt
    <3> HIDE DEF t
    <3>3. 1 \in 1 .. Len(<<e>>)
      BY <3>1
    <3> QED
      BY <1>5, <3>1, <3>2, <3>3
  <2> HIDE DEF t
  <2>2. /\ pre \o t \in Seq(S) /\ Len(pre \o t) = (i - 1) + (1 + (n - i))
        /\ \A k \in 1 .. i - 1 : (pre \o t)[k] = pre[k]
        /\ \A k \in 1 .. 1 + (n - i) : (pre \o t)[(i - 1) + k] = t[k]
    <3>1. /\ pre \o t \in Seq(S) /\ Len(pre \o t) = Len(pre) + Len(t)
          /\ \A k \in 1 .. Len(pre) : (pre \o t)[k] = pre[k]
          /\ \A k \in 1 .. Len(t) : (pre \o t)[Len(pre) + k] = t[k]
      <4>1. pre \in Seq(S) /\ t \in Seq(S)
        BY <1>4, <2>1
      <4> QED
        BY <4>1, ConcatAt
    <3>2. Len(pre) = i - 1 /\ Len(t) = 1 + (n - i)
      BY <1>4, <2>1
    <3> QED
      BY <3>1, <3>2
  <2>3. ASSUME NEW k \in 1 .. n PROVE s[k] = (pre \o t)[k]
    <3>1. CASE k < i
      <4>1. k \in 1 .. i - 1
        BY <1>1, <1>2, <3>1
      <4> QED
        BY <1>4, <2>2, <4>1
    <3>2. CASE k = i
      <4>1. 1 \in 1 .. 1 + (n - i) /\ (i - 1) + 1 = k
        BY <1>1, <1>2, <3>2
      <4>2. (pre \o t)[(i - 1) + 1] = t[1]
        BY <2>2, <4>1
      <4> QED
        BY <1>2, <2>1, <3>2, <4>1, <4>2
    <3>3. CASE k > i
      <4> DEFINE j == k - i
      <4>1. j \in 1 .. n - i /\ 1 + j \in 1 .. 1 + (n - i) /\ (i - 1) + (1 + j) = k /\ i + j = k
        BY <1>1, <1>2, <3>3
      <4> HIDE DEF j
      <4>2. (pre \o t)[(i - 1) + (1 + j)] = t[1 + j]
        BY <2>2, <4>1
      <4>3. t[1 + j] = post[j]
        BY <2>1, <4>1
      <4>4. post[j] = s[i + j]
        BY <1>5, <4>1
      <4> QED
        BY <4>1, <4>2, <4>3, <4>4
    <3>4. k < i \/ k = i \/ k > i
      BY <1>1, <1>2
    <3> QED
      BY <3>1, <3>2, <3>3, <3>4
  <2>4. Len(pre \o t) = n
    BY <1>1, <1>2, <2>2
  <2> QED
    BY <2>2, <2>3, <2>4, SeqEqual DEF n, t
<1>9. /\ ~ Contains(pre, e) /\ ~ Contains(post, e)
      /\ \A x : ~ (Contains(pre, x) /\ Contains(post, x))
      /\ IsInjective(pre) /\ IsInjective(post)
  <2>1. ASSUME NEW k \in 1 .. i - 1 PROVE k \in 1 .. n /\ k # i /\ pre[k] = s[k]
    BY <1>1, <1>2, <1>4
  <2>2. ASSUME NEW k \in 1 .. n - i
        PROVE  i + k \in 1 .. n /\ i + k # i /\ post[k] = s[i + k]
    BY <1>1, <1>2, <1>5
  <2>3. \A k, l \in 1 .. n : s[k] = s[l] => k = l
    BY <1>1 DEF IsInjective
  <2>4. ~ Contains(pre, e)
    BY <1>2, <1>4, <2>1, <2>3 DEF Contains
  <2>5. ~ Contains(post, e)
    BY <1>2, <1>5, <2>2, <2>3 DEF Contains
  <2>6. ASSUME NEW k \in 1 .. i - 1, NEW l \in 1 .. n - i PROVE pre[k] # post[l]
    <3>1. k # i + l
      BY <1>1, <1>2
    <3> QED
      BY <2>1, <2>2, <2>3, <3>1
  <2>7. \A x : ~ (Contains(pre, x) /\ Contains(post, x))
    BY <1>4, <1>5, <2>6 DEF Contains
  <2>8. IsInjective(pre)
    BY <1>6, <2>1, <2>3 DEF IsInjective
  <2>9. ASSUME NEW k \in 1 .. n - i, NEW l \in 1 .. n - i, post[k] = post[l]
        PROVE  k = l
    <3>1. i + k = i + l
      BY <2>2, <2>3, <2>9
    <3> QED
      BY <1>1, <1>2, <3>1
  <2>10. IsInjective(post)
    BY <1>6, <2>9 DEF IsInjective
  <2> QED
    BY <2>4, <2>5, <2>7, <2>8, <2>10
<1>10. /\ \A x : Contains(<<e>>, x) <=> x = e
       /\ \A x, y : ~ Ahead(<<e>>, x, y)
  BY <1>7, SingleChain
<1>11. /\ pre \o post \in Seq(S) /\ <<e>> \o post \in Seq(S)
  BY <1>4, <1>5, <1>7, ConcatProperties
<1>12. /\ \A x : Contains(pre \o post, x) <=> Contains(pre, x) \/ Contains(post, x)
       /\ \A x : Contains(<<e>> \o post, x) <=> Contains(<<e>>, x) \/ Contains(post, x)
       /\ \A x : Contains(s, x) <=> Contains(pre, x) \/ Contains(<<e>> \o post, x)
  BY <1>4, <1>5, <1>7, <1>8, <1>11, ConcatContains
<1>13. IsInjective(pre \o post)
  BY <1>4, <1>5, <1>9, ConcatInjective
<1>14. /\ \A x, y : Ahead(pre \o post, x, y)
                      <=> \/ Ahead(pre, x, y) \/ Ahead(post, x, y)
                          \/ Contains(pre, x) /\ Contains(post, y)
       /\ \A x, y : Ahead(<<e>> \o post, x, y)
                      <=> \/ Ahead(<<e>>, x, y) \/ Ahead(post, x, y)
                          \/ Contains(<<e>>, x) /\ Contains(post, y)
       /\ \A x, y : Ahead(s, x, y)
                      <=> \/ Ahead(pre, x, y) \/ Ahead(<<e>> \o post, x, y)
                          \/ Contains(pre, x) /\ Contains(<<e>> \o post, y)
  BY <1>4, <1>5, <1>7, <1>8, <1>11, ConcatAhead
<1>15. \A x, y : /\ Ahead(pre, x, y) => Contains(pre, x) /\ Contains(pre, y)
                 /\ Ahead(post, x, y) => Contains(post, x) /\ Contains(post, y)
  BY <1>4, <1>5, AheadIn
<1>16. \A x : Contains(pre \o post, x) <=> Contains(s, x) /\ x # e
  BY <1>9, <1>10, <1>12
<1>17. \A x, y : Ahead(pre \o post, x, y) <=> Ahead(s, x, y) /\ x # e /\ y # e
  BY <1>9, <1>10, <1>12, <1>14, <1>15
<1> QED
  BY <1>3, <1>11, <1>13, <1>16, <1>17

-----------------------------------------------------------------------------
(* Growing and shrinking. *)

\* Induction up to a number, for a set of numbers.
LEMMA UpTo ==
  ASSUME NEW T, NEW n \in Nat, 0 \in T, \A k \in 1 .. n : k - 1 \in T => k \in T
  PROVE  \A k \in 0 .. n : k \in T
<1> SUFFICES ASSUME NEW m \in 0 .. n, m \notin T
             PROVE  FALSE
  OBVIOUS
<1> DEFINE R == OpToRel(<, Nat)
           U == {k \in 0 .. n : k \notin T}
<1>1. \A x, y \in Nat : <<x, y>> \in R <=> x < y
  BY DEF OpToRel
<1>2. IsWellFoundedOn(R, Nat)
  BY NatLessThanWellFounded
<1>3. U \subseteq Nat /\ U # {}
  OBVIOUS
<1> HIDE DEF R, U
<1>4. PICK x \in U : \A y \in U : ~ (<<y, x>> \in R)
  BY <1>2, <1>3, WFMin
<1>5. x \in 0 .. n /\ x \notin T /\ x # 0
  BY <1>4 DEF U
<1>6. x \in 1 .. n /\ x - 1 \in 0 .. n /\ x - 1 \in Nat /\ x \in Nat /\ x - 1 < x
  BY <1>5
<1>7. x - 1 \in T
  BY <1>1, <1>4, <1>6 DEF U
<1> QED
  BY <1>5, <1>6, <1>7

\* The stack is built chain by chain.
LEMMA StackSteps ==
  ASSUME NEW tbl, Len(tbl) \in Nat
  PROVE  \E p : /\ p[0] = << >>
                /\ \A k \in 1 .. Len(tbl) : p[k] = Reverse(tbl[k]) \o p[k - 1]
                /\ Stack(tbl) = p[Len(tbl)]
<1> DEFINE n == Len(tbl)
           Steps(p, m) == /\ p[0] = << >>
                          /\ \A k \in 1 .. m : p[k] = Reverse(tbl[k]) \o p[k - 1]
           Is(p) == p = [k \in 0 .. n |->
                           IF k = 0 THEN << >> ELSE Reverse(tbl[k]) \o p[k - 1]]
           T == {m \in 0 .. n : \E p : Steps(p, m)}
<1>1. 0 \in T
  <2>1. Steps([k \in 0 .. 0 |-> << >>], 0)
    OBVIOUS
  <2> HIDE DEF Steps
  <2> QED
    BY <2>1
<1>2. ASSUME NEW m \in 1 .. n, m - 1 \in T PROVE m \in T
  <2>1. PICK p : Steps(p, m - 1)
    BY <1>2
  <2> DEFINE e == Reverse(tbl[m]) \o p[m - 1]
             q == [k \in 0 .. m |-> IF k < m THEN p[k] ELSE e]
  <2>2. m \in Nat /\ m > 0
    BY <1>2
  <2>3. q[0] = << >>
    BY <2>1, <2>2
  <2>4. ASSUME NEW k \in 1 .. m PROVE q[k] = Reverse(tbl[k]) \o q[k - 1]
    <3>1. q[k - 1] = p[k - 1]
      BY <2>2
    <3>2. CASE k = m
      <4>1. q[k] = e
        <5>1. k \in 0 .. m /\ ~ (k < m)
          BY <2>2, <3>2
        <5> HIDE DEF e
        <5> QED
          BY <5>1
      <4> QED
        BY <3>1, <3>2, <4>1
    <3>3. CASE k < m
      <4>1. k \in 1 .. m - 1 /\ q[k] = p[k]
        BY <2>2, <3>3
      <4> HIDE DEF q
      <4> QED
        BY <2>1, <3>1, <4>1
    <3> QED
      BY <2>2, <3>2, <3>3
  <2> HIDE DEF q
  <2>5. Steps(q, m)
    BY <2>3, <2>4
  <2> HIDE DEF Steps
  <2> QED
    BY <2>5
<1>3. PICK p : Steps(p, n)
  <2>1. \A k \in 0 .. n : k \in T
    <3> HIDE DEF T
    <3> QED
      BY <1>1, <1>2, UpTo
  <2> HIDE DEF Steps
  <2> QED
    BY <2>1
<1>4. \E q : Is(q)
  <2> DEFINE q == [k \in 0 .. n |-> p[k]]
  <2>1. ASSUME NEW k \in 0 .. n
        PROVE  p[k] = IF k = 0 THEN << >> ELSE Reverse(tbl[k]) \o q[k - 1]
    <3>1. CASE k = 0
      BY <1>3, <3>1
    <3>2. CASE k # 0
      <4>1. k \in 1 .. n /\ k - 1 \in 0 .. n
        BY <3>2
      <4>2. q[k - 1] = p[k - 1]
        BY <4>1
      <4>3. p[k] = Reverse(tbl[k]) \o p[k - 1]
        BY <1>3, <4>1
      <4> HIDE DEF q
      <4> QED
        BY <3>2, <4>2, <4>3
    <3> QED
      BY <3>1, <3>2
  <2>2. q = [k \in 0 .. n |-> IF k = 0 THEN << >> ELSE Reverse(tbl[k]) \o q[k - 1]]
    <3> DEFINE r == q
    <3>1. \A k \in 0 .. n : p[k] = IF k = 0 THEN << >> ELSE Reverse(tbl[k]) \o r[k - 1]
      BY <2>1
    <3>2. r = [k \in 0 .. n |-> p[k]]
      OBVIOUS
    <3> HIDE DEF q, r
    <3>3. r = [k \in 0 .. n |-> IF k = 0 THEN << >> ELSE Reverse(tbl[k]) \o r[k - 1]]
      BY <3>1, <3>2, Zenon
    <3> QED
      BY <3>3 DEF r
  <2> HIDE DEF q
  <2> QED
    BY <2>2
<1> DEFINE pushed == CHOOSE q : Is(q)
<1>5. Stack(tbl) = pushed[n]
  BY DEF Stack
<1>6. Is(pushed)
  <2> HIDE DEF Is
  <2> QED
    BY <1>4
<1> HIDE DEF pushed
<1>7. /\ pushed[0] = << >>
      /\ \A k \in 1 .. n : pushed[k] = Reverse(tbl[k]) \o pushed[k - 1]
  <2>1. \A k \in 0 .. n :
          pushed[k] = IF k = 0 THEN << >> ELSE Reverse(tbl[k]) \o pushed[k - 1]
    BY <1>6, Zenon
  <2>2. 0 \in 0 .. n /\ \A k \in 1 .. n : k \in 0 .. n /\ k # 0
    OBVIOUS
  <2> QED
    BY <2>1, <2>2, Zenon
<1> QED
  BY <1>5, <1>7


\* The stack has every entry of the chains once, those of a chain in the
\* opposite order.
LEMMA StackSound ==
  ASSUME NEW tbl \in Seq(Seq(Objects)),
         \A hid \in 1 .. Len(tbl) : IsInjective(tbl[hid]),
         \A g, h \in 1 .. Len(tbl) : \A o :
           Contains(tbl[g], o) /\ Contains(tbl[h], o) => g = h
  PROVE  /\ Stack(tbl) \in Seq(Objects) /\ IsInjective(Stack(tbl))
         /\ \A o : Contains(Stack(tbl), o)
                     <=> \E hid \in 1 .. Len(tbl) : Contains(tbl[hid], o)
         /\ \A hid \in 1 .. Len(tbl) : \A x, y :
              Ahead(tbl[hid], x, y) => Ahead(Stack(tbl), y, x)
<1> DEFINE n == Len(tbl)
           Built(s, m) ==
             /\ s \in Seq(Objects) /\ IsInjective(s)
             /\ \A o : Contains(s, o) <=> \E hid \in 1 .. m : Contains(tbl[hid], o)
             /\ \A hid \in 1 .. m : \A x, y : Ahead(tbl[hid], x, y) => Ahead(s, y, x)
<1>1. n \in Nat /\ \A hid \in 1 .. n : tbl[hid] \in Seq(Objects)
  BY LenProperties, ElementOfSeq
<1>2. PICK p : /\ p[0] = << >>
               /\ \A k \in 1 .. n : p[k] = Reverse(tbl[k]) \o p[k - 1]
               /\ Stack(tbl) = p[n]
  BY <1>1, StackSteps
<1> DEFINE T == {m \in 0 .. n : Built(p[m], m)}
<1>3. 0 \in T
  <2>1. /\ << >> \in Seq(Objects) /\ IsInjective(<< >>)
        /\ \A x : ~ Contains(<< >>, x)
    BY EmptyChain
  <2>2. Built(<< >>, 0)
    BY <2>1
  <2> HIDE DEF Built
  <2> QED
    BY <1>1, <1>2, <2>2
<1>4. ASSUME NEW m \in 1 .. n, m - 1 \in T PROVE m \in T
  <2> DEFINE s == p[m - 1]
             r == Reverse(tbl[m])
  <2>1. Built(s, m - 1) /\ m \in Nat /\ m > 0
    BY <1>1, <1>4
  <2>2. /\ r \in Seq(Objects) /\ IsInjective(r)
        /\ \A x : Contains(r, x) <=> Contains(tbl[m], x)
        /\ \A x, y : Ahead(r, x, y) <=> Ahead(tbl[m], y, x)
    BY <1>1, ReverseChain
  <2> HIDE DEF s, r
  <2>3. \A hid \in 1 .. m : hid \in 1 .. n /\ (hid = m \/ hid \in 1 .. m - 1)
    BY <1>1, <2>1
  <2>4. \A x : ~ (Contains(r, x) /\ Contains(s, x))
    <3>1. \A hid \in 1 .. m - 1 : hid \in 1 .. n /\ hid # m
      BY <1>1, <2>1
    <3> QED
      BY <1>4, <2>1, <2>2, <3>1
  <2>5. r \o s \in Seq(Objects)
    BY <2>1, <2>2, ConcatProperties
  <2>6. IsInjective(r \o s)
    BY <2>1, <2>2, <2>4, ConcatInjective
  <2>7. \A x : Contains(r \o s, x) <=> Contains(r, x) \/ Contains(s, x)
    <3>1. r \in Seq(Objects) /\ s \in Seq(Objects)
      BY <2>1, <2>2
    <3> QED
      BY <3>1, ConcatContains
  <2>8. \A x, y : /\ Ahead(r, x, y) => Ahead(r \o s, x, y)
                  /\ Ahead(s, x, y) => Ahead(r \o s, x, y)
    <3>1. r \in Seq(Objects) /\ s \in Seq(Objects)
      BY <2>1, <2>2
    <3> QED
      BY <3>1, ConcatAhead
  <2>9. \A o : Contains(r \o s, o) <=> \E hid \in 1 .. m : Contains(tbl[hid], o)
    <3>1. m \in 1 .. m /\ \A hid \in 1 .. m - 1 : hid \in 1 .. m
      BY <2>1
    <3> QED
      BY <2>1, <2>2, <2>3, <2>7, <3>1
  <2>10. \A hid \in 1 .. m : \A x, y : Ahead(tbl[hid], x, y) => Ahead(r \o s, y, x)
    BY <2>1, <2>2, <2>3, <2>8
  <2>11. Built(r \o s, m)
    BY <2>5, <2>6, <2>9, <2>10
  <2>12. p[m] = r \o s /\ m \in 0 .. n
    <3>1. p[m] = Reverse(tbl[m]) \o p[m - 1]
      BY <1>2, <1>4, Zenon
    <3>2. m \in 0 .. n
      BY <1>1
    <3> QED
      BY <3>1, <3>2 DEF r, s
  <2> HIDE DEF Built
  <2> QED
    BY <2>11, <2>12
<1>5. n \in T
  <2>1. \A k \in 0 .. n : k \in T
    <3> HIDE DEF T, n
    <3> QED
      BY <1>1, <1>3, <1>4, UpTo
  <2>2. n \in 0 .. n
    BY <1>1
  <2> HIDE DEF T
  <2> QED
    BY <2>1, <2>2
<1> QED
  BY <1>2, <1>5

\* The tables in between when a table is refilled.
Filling(p, stack, names, sz) ==
  /\ p[0] = [hid \in 1 .. sz |-> << >>]
  /\ \A k \in 1 .. Len(stack) : p[k] = Link(p[k - 1], names, stack[k])
  /\ Refill(stack, names, sz) = p[Len(stack)]

\* The table is refilled entry by entry.
LEMMA RefillSteps ==
  ASSUME NEW stack, NEW names, NEW sz, Len(stack) \in Nat
  PROVE  \E p : Filling(p, stack, names, sz)
<1> DEFINE n == Len(stack)
           none == [hid \in 1 .. sz |-> << >>]
           Steps(p, m) == /\ p[0] = none
                          /\ \A k \in 1 .. m : p[k] = Link(p[k - 1], names, stack[k])
           Is(p) == p = [k \in 0 .. n |->
                           IF k = 0 THEN none ELSE Link(p[k - 1], names, stack[k])]
           T == {m \in 0 .. n : \E p : Steps(p, m)}
<1> HIDE DEF none
<1>1. 0 \in T
  <2>1. Steps([k \in 0 .. 0 |-> none], 0)
    OBVIOUS
  <2> HIDE DEF Steps
  <2> QED
    BY <2>1
<1>2. ASSUME NEW m \in 1 .. n, m - 1 \in T PROVE m \in T
  <2>1. PICK p : Steps(p, m - 1)
    BY <1>2
  <2> DEFINE e == Link(p[m - 1], names, stack[m])
             q == [k \in 0 .. m |-> IF k < m THEN p[k] ELSE e]
  <2>2. m \in Nat /\ m > 0
    BY <1>2
  <2>3. q[0] = none
    BY <2>1, <2>2
  <2>4. ASSUME NEW k \in 1 .. m PROVE q[k] = Link(q[k - 1], names, stack[k])
    <3>1. q[k - 1] = p[k - 1]
      BY <2>2
    <3>2. CASE k = m
      <4>1. q[k] = e
        <5>1. k \in 0 .. m /\ ~ (k < m)
          BY <2>2, <3>2
        <5> HIDE DEF e
        <5> QED
          BY <5>1
      <4> QED
        BY <3>1, <3>2, <4>1
    <3>3. CASE k < m
      <4>1. k \in 1 .. m - 1 /\ q[k] = p[k]
        BY <2>2, <3>3
      <4> HIDE DEF q
      <4> QED
        BY <2>1, <3>1, <4>1
    <3> QED
      BY <2>2, <3>2, <3>3
  <2> HIDE DEF q
  <2>5. Steps(q, m)
    BY <2>3, <2>4
  <2> HIDE DEF Steps
  <2> QED
    BY <2>5
<1>3. PICK p : Steps(p, n)
  <2>1. \A k \in 0 .. n : k \in T
    <3> HIDE DEF T
    <3> QED
      BY <1>1, <1>2, UpTo
  <2> HIDE DEF Steps
  <2> QED
    BY <2>1
<1>4. \E q : Is(q)
  <2> DEFINE q == [k \in 0 .. n |-> p[k]]
  <2>1. ASSUME NEW k \in 0 .. n
        PROVE  p[k] = IF k = 0 THEN none ELSE Link(q[k - 1], names, stack[k])
    <3>1. CASE k = 0
      BY <1>3, <3>1
    <3>2. CASE k # 0
      <4>1. k \in 1 .. n /\ k - 1 \in 0 .. n
        BY <3>2
      <4>2. q[k - 1] = p[k - 1]
        BY <4>1
      <4>3. p[k] = Link(p[k - 1], names, stack[k])
        BY <1>3, <4>1
      <4> HIDE DEF q
      <4> QED
        BY <3>2, <4>2, <4>3
    <3> QED
      BY <3>1, <3>2
  <2>2. q = [k \in 0 .. n |-> IF k = 0 THEN none ELSE Link(q[k - 1], names, stack[k])]
    <3> DEFINE r == q
    <3>1. \A k \in 0 .. n : p[k] = IF k = 0 THEN none ELSE Link(r[k - 1], names, stack[k])
      BY <2>1
    <3>2. r = [k \in 0 .. n |-> p[k]]
      OBVIOUS
    <3> HIDE DEF q, r
    <3>3. r = [k \in 0 .. n |-> IF k = 0 THEN none ELSE Link(r[k - 1], names, stack[k])]
      BY <3>1, <3>2, Zenon
    <3> QED
      BY <3>3 DEF r
  <2> HIDE DEF q
  <2> QED
    BY <2>2
<1> DEFINE filled == CHOOSE q : Is(q)
<1>5. Refill(stack, names, sz) = filled[n]
  BY DEF Refill, none
<1>6. Is(filled)
  <2> HIDE DEF Is
  <2> QED
    BY <1>4
<1> HIDE DEF filled
<1>7. /\ filled[0] = none
      /\ \A k \in 1 .. n : filled[k] = Link(filled[k - 1], names, stack[k])
  <2>1. \A k \in 0 .. n :
          filled[k] = IF k = 0 THEN none ELSE Link(filled[k - 1], names, stack[k])
    BY <1>6, Zenon
  <2>2. 0 \in 0 .. n /\ \A k \in 1 .. n : k \in 0 .. n /\ k # 0
    OBVIOUS
  <2> QED
    BY <2>1, <2>2, Zenon
<1> QED
  BY <1>5, <1>7 DEF none, Filling

\* Every name has a chain.
LEMMA HidRange ==
  ASSUME NEW name \in Names, NEW sz \in Nat, sz > 0
  PROVE  Hid(name, sz) \in 1 .. sz
<1>1. Hash[name] \in Nat
  BY HashAssumption
<1>2. Hash[name] % sz \in 0 .. sz - 1
  BY <1>1
<1> QED
  BY <1>2 DEF Hid

\* u is t with o at the head of the chain h.
Headed(t, u, o, h) ==
  /\ u \in Seq(Seq(Objects)) /\ Len(u) = Len(t) /\ h \in 1 .. Len(t)
  /\ \A hid \in 1 .. Len(t) :
       /\ \A x : Contains(u[hid], x) <=> Contains(t[hid], x) \/ (hid = h /\ x = o)
       /\ IsInjective(t[hid]) /\ ~ (hid = h /\ Contains(t[hid], o))
            => IsInjective(u[hid])
       /\ \A x, y : Ahead(u[hid], x, y)
                      <=> \/ Ahead(t[hid], x, y)
                          \/ hid = h /\ x = o /\ Contains(t[hid], y)

\* An entry that becomes the head of its chain.
LEMMA LinkSound ==
  ASSUME NEW tbl \in Seq(Seq(Objects)), NEW names, NEW o \in Objects,
         names[o] \in Names, Len(tbl) > 0
  PROVE  Headed(tbl, Link(tbl, names, o), o, Hid(names[o], Len(tbl)))
<1> DEFINE h == Hid(names[o], Len(tbl))
<1>1. /\ Len(tbl) \in Nat /\ DOMAIN tbl = 1 .. Len(tbl)
      /\ \A hid \in 1 .. Len(tbl) : tbl[hid] \in Seq(Objects)
  BY LenProperties, ElementOfSeq
<1>2. h \in 1 .. Len(tbl)
  BY <1>1, HidRange
<1> HIDE DEF h
<1> DEFINE c == tbl[h]
           d == <<o>> \o c
           t == [tbl EXCEPT ![h] = d]
<1>3. Link(tbl, names, o) = t
  BY DEF Link, h
<1>4. c \in Seq(Objects) /\ <<o>> \in Seq(Objects) /\ d \in Seq(Objects)
  BY <1>1, <1>2, ConcatProperties
<1>5. \A x : Contains(d, x) <=> Contains(c, x) \/ x = o
  <2>1. \A x : Contains(d, x) <=> Contains(<<o>>, x) \/ Contains(c, x)
    <3>1. c \in Seq(Objects) /\ <<o>> \in Seq(Objects)
      BY <1>4
    <3> HIDE DEF c
    <3> QED
      BY <3>1, ConcatContains
  <2>2. \A x : Contains(<<o>>, x) <=> x = o
    BY SingleChain
  <2> QED
    BY <2>1, <2>2
<1>6. IsInjective(c) /\ ~ Contains(c, o) => IsInjective(d)
  <2>1. c \in Seq(Objects) /\ <<o>> \in Seq(Objects)
    BY <1>4
  <2>2. IsInjective(<<o>>) /\ \A x : Contains(<<o>>, x) <=> x = o
    BY SingleChain
  <2> HIDE DEF c
  <2> QED
    BY <2>1, <2>2, ConcatInjective
<1>7. \A x, y : Ahead(d, x, y) <=> Ahead(c, x, y) \/ (x = o /\ Contains(c, y))
  <2>1. c \in Seq(Objects) /\ <<o>> \in Seq(Objects)
    BY <1>4
  <2>2. /\ \A x : Contains(<<o>>, x) <=> x = o
        /\ \A x, y : ~ Ahead(<<o>>, x, y)
    BY SingleChain
  <2> HIDE DEF c
  <2>3. \A x, y : Ahead(<<o>> \o c, x, y)
                    <=> \/ Ahead(<<o>>, x, y) \/ Ahead(c, x, y)
                        \/ Contains(<<o>>, x) /\ Contains(c, y)
    BY <2>1, ConcatAhead
  <2> QED
    BY <2>2, <2>3
<1> HIDE DEF d
<1>8. t \in Seq(Seq(Objects)) /\ Len(t) = Len(tbl)
  BY <1>2, <1>4, ExceptSeq
<1>9. \A hid \in 1 .. Len(tbl) : t[hid] = IF hid = h THEN d ELSE tbl[hid]
  BY <1>1, <1>2
<1> HIDE DEF t
<1>10. ASSUME NEW hid \in 1 .. Len(tbl)
       PROVE  /\ \A x : Contains(t[hid], x)
                          <=> Contains(tbl[hid], x) \/ (hid = h /\ x = o)
              /\ IsInjective(tbl[hid]) /\ ~ (hid = h /\ Contains(tbl[hid], o))
                   => IsInjective(t[hid])
              /\ \A x, y : Ahead(t[hid], x, y)
                             <=> \/ Ahead(tbl[hid], x, y)
                                 \/ hid = h /\ x = o /\ Contains(tbl[hid], y)
  <2>1. CASE hid = h
    <3>1. t[hid] = d /\ tbl[hid] = c
      BY <1>9, <2>1
    <3> HIDE DEF c
    <3> QED
      BY <1>5, <1>6, <1>7, <2>1, <3>1
  <2>2. CASE hid # h
    <3>1. t[hid] = tbl[hid]
      BY <1>9, <2>2
    <3> QED
      BY <2>2, <3>1
  <2> QED
    BY <2>1, <2>2
<1> QED
  BY <1>2, <1>3, <1>8, <1>10 DEF Headed, h

\* The entries of a table: every object of S, and no other, is in the chain of
\* its name, once.
Spread(tbl, names, S) ==
  /\ tbl \in Seq(Seq(Objects))
  /\ \A hid \in 1 .. Len(tbl) :
       /\ IsInjective(tbl[hid])
       /\ \A o : Contains(tbl[hid], o) <=> o \in S /\ Hid(names[o], Len(tbl)) = hid

\* A table of sz chains that is refilled has the entries of the stack, the
\* last first.
LEMMA RefillSound ==
  ASSUME NEW stack \in Seq(Objects), IsInjective(stack), NEW names,
         NEW S, \A o : Contains(stack, o) <=> o \in S,
         \A o \in S : o \in Objects /\ names[o] \in Names,
         NEW sz \in Nat, sz > 0
  PROVE  /\ Spread(Refill(stack, names, sz), names, S)
         /\ Len(Refill(stack, names, sz)) = sz
         /\ \A x, y : Ahead(stack, x, y) /\ names[x] = names[y]
              => Ahead(Refill(stack, names, sz)[Hid(names[x], sz)], y, x)
<1> DEFINE n == Len(stack)
           In(k, o) == \E i \in 1 .. k : stack[i] = o
           Filled(t, k) ==
             /\ t \in Seq(Seq(Objects)) /\ Len(t) = sz
             /\ \A hid \in 1 .. sz :
                  /\ IsInjective(t[hid])
                  /\ \A o : Contains(t[hid], o) <=> In(k, o) /\ Hid(names[o], sz) = hid
             /\ \A i, j \in 1 .. k :
                  i < j /\ names[stack[i]] = names[stack[j]]
                    => Ahead(t[Hid(names[stack[i]], sz)], stack[j], stack[i])
<1>1. /\ n \in Nat /\ DOMAIN stack = 1 .. n
      /\ \A i \in 1 .. n : stack[i] \in Objects /\ stack[i] \in S
      /\ \A i \in 1 .. n : names[stack[i]] \in Names
      /\ \A i, j \in 1 .. n : stack[i] = stack[j] => i = j
  <2>1. n \in Nat /\ DOMAIN stack = 1 .. n /\ stack \in [1 .. n -> Objects]
    BY LenProperties
  <2>2. \A i \in 1 .. n : stack[i] \in S
    BY DEF Contains
  <2> QED
    BY <2>1, <2>2 DEF IsInjective
<1>2. PICK p : /\ p[0] = [hid \in 1 .. sz |-> << >>]
               /\ \A k \in 1 .. n : p[k] = Link(p[k - 1], names, stack[k])
               /\ Refill(stack, names, sz) = p[n]
  <2>1. \E p : Filling(p, stack, names, sz)
    BY <1>1, RefillSteps
  <2> QED
    BY <2>1 DEF Filling
<1> DEFINE T == {m \in 0 .. n : Filled(p[m], m)}
<1>3. 0 \in T
  <2> DEFINE t == [hid \in 1 .. sz |-> << >>]
  <2>1. /\ << >> \in Seq(Objects) /\ IsInjective(<< >>)
        /\ \A x : ~ Contains(<< >>, x)
    BY EmptyChain
  <2>2. t \in Seq(Seq(Objects)) /\ Len(t) = sz /\ \A hid \in 1 .. sz : t[hid] = << >>
    BY <2>1
  <2> HIDE DEF t
  <2>3. \A o : ~ In(0, o)
    OBVIOUS
  <2> HIDE DEF In
  <2>4. Filled(t, 0)
    BY <2>1, <2>2, <2>3
  <2> HIDE DEF Filled
  <2> QED
    BY <1>1, <1>2, <2>4 DEF t
<1>4. ASSUME NEW m \in 1 .. n, m - 1 \in T PROVE m \in T
  <2> DEFINE t == p[m - 1]
             o == stack[m]
             h == Hid(names[o], sz)
             u == Link(t, names, o)
  <2>1. Filled(t, m - 1) /\ m \in Nat /\ m > 0
    <3>1. m \in Nat /\ m > 0
      BY <1>1
    <3> HIDE DEF Filled
    <3> QED
      BY <1>4, <3>1
  <2>2. o \in Objects /\ names[o] \in Names
    BY <1>1
  <2>3. \A x : In(m, x) <=> In(m - 1, x) \/ x = o
    <3>1. \A i \in 1 .. m : i \in 1 .. m - 1 \/ i = m
      BY <2>1
    <3>2. m \in 1 .. m /\ \A i \in 1 .. m - 1 : i \in 1 .. m
      BY <2>1
    <3> QED
      BY <3>1, <3>2
  <2>4. ~ In(m - 1, o)
    <3>1. \A i \in 1 .. m - 1 : i \in 1 .. n /\ i # m
      BY <1>1, <2>1
    <3> QED
      BY <1>1, <1>4, <3>1
  <2>5. \A i \in 1 .. m - 1 : In(m - 1, stack[i])
    OBVIOUS
  <2>6. p[m] = u /\ m \in 0 .. n
    <3>1. p[m] = Link(p[m - 1], names, stack[m])
      BY <1>2, <1>4, Zenon
    <3>2. m \in 0 .. n
      BY <1>1
    <3> QED
      BY <3>1, <3>2
  <2> HIDE DEF t, o, In
  <2>7. /\ u \in Seq(Seq(Objects)) /\ Len(u) = sz /\ h \in 1 .. sz
        /\ \A hid \in 1 .. sz :
             /\ \A x : Contains(u[hid], x) <=> Contains(t[hid], x) \/ (hid = h /\ x = o)
             /\ IsInjective(t[hid]) /\ ~ (hid = h /\ Contains(t[hid], o))
                  => IsInjective(u[hid])
             /\ \A x, y : Ahead(u[hid], x, y)
                            <=> \/ Ahead(t[hid], x, y)
                                \/ hid = h /\ x = o /\ Contains(t[hid], y)
    <3>1. t \in Seq(Seq(Objects)) /\ Len(t) = sz /\ Len(t) > 0 /\ h = Hid(names[o], Len(t))
      BY <2>1
    <3> HIDE DEF h
    <3>2. Headed(t, Link(t, names, o), o, Hid(names[o], Len(t)))
      <4> HIDE DEF Filled, u
      <4> QED
        BY <2>2, <3>1, LinkSound
    <3> QED
      BY <3>1, <3>2 DEF Headed
  <2> HIDE DEF u
  <2>8. ASSUME NEW hid \in 1 .. sz
        PROVE  /\ IsInjective(u[hid])
               /\ \A x : Contains(u[hid], x) <=> In(m, x) /\ Hid(names[x], sz) = hid
    <3>1. /\ IsInjective(t[hid])
          /\ \A x : Contains(t[hid], x) <=> In(m - 1, x) /\ Hid(names[x], sz) = hid
      BY <2>1
    <3>2. ~ Contains(t[hid], o)
      BY <2>4, <3>1
    <3> QED
      BY <2>3, <2>7, <3>1, <3>2
  <2>9. ASSUME NEW i \in 1 .. m, NEW j \in 1 .. m,
               i < j, names[stack[i]] = names[stack[j]]
        PROVE  Ahead(u[Hid(names[stack[i]], sz)], stack[j], stack[i])
    <3>1. i \in 1 .. m - 1 /\ i \in 1 .. n
      BY <1>1, <2>1, <2>9
    <3>2. Hid(names[stack[i]], sz) \in 1 .. sz
      BY <1>1, <3>1, HidRange
    <3>3. CASE j = m
      <4>1. stack[j] = o /\ Hid(names[stack[i]], sz) = h
        BY <2>9, <3>3 DEF o
      <4>2. Contains(t[h], stack[i])
        BY <2>1, <2>5, <2>7, <3>1, <4>1
      <4> QED
        BY <2>7, <4>1, <4>2
    <3>4. CASE j # m
      <4>1. j \in 1 .. m - 1
        BY <2>1, <3>4
      <4>2. Ahead(t[Hid(names[stack[i]], sz)], stack[j], stack[i])
        BY <2>1, <2>9, <3>1, <4>1
      <4> QED
        BY <2>7, <3>2, <4>2
    <3> QED
      BY <3>3, <3>4
  <2>10. Filled(u, m)
    BY <2>7, <2>8, <2>9
  <2> HIDE DEF Filled
  <2> QED
    BY <2>6, <2>10
<1>5. Filled(p[n], n)
  <2>1. \A k \in 0 .. n : k \in T
    <3> HIDE DEF T, n
    <3> QED
      BY <1>1, <1>3, <1>4, UpTo
  <2>2. n \in 0 .. n
    BY <1>1
  <2> HIDE DEF Filled
  <2> QED
    BY <2>1, <2>2
<1> DEFINE t == p[n]
<1>6. t = Refill(stack, names, sz)
  BY <1>2
<1>7. \A o : In(n, o) <=> o \in S
  BY DEF Contains
<1>8. Spread(t, names, S) /\ Len(t) = sz
  <2> HIDE DEF In, t
  <2> QED
    BY <1>5, <1>7 DEF Spread, t
<1>9. ASSUME NEW x, NEW y, Ahead(stack, x, y), names[x] = names[y]
      PROVE  Ahead(t[Hid(names[x], sz)], y, x)
  <2>1. PICK i \in 1 .. n, j \in 1 .. n : i < j /\ stack[i] = x /\ stack[j] = y
    BY <1>1, <1>9 DEF Ahead
  <2> HIDE DEF In
  <2> QED
    BY <1>5, <1>9, <2>1
<1> HIDE DEF t
<1> QED
  BY <1>6, <1>8, <1>9

-----------------------------------------------------------------------------
(* Sizes and loads. *)

\* A quotient is below a number when the dividend is below the product.
LEMMA DivBelow ==
  ASSUME NEW a \in Nat, NEW b \in Nat, b > 0, NEW c \in Nat
  PROVE  a \div b < c <=> a < c * b
<1> DEFINE q == a \div b
           r == a % b
<1>1. q \in Nat /\ r \in Nat /\ r < b /\ a = q * b + r
  OBVIOUS
<1> HIDE DEF q, r
<1>2. ASSUME q < c PROVE a < c * b
  <2>1. PICK d \in Nat : c = q + 1 + d
    BY <1>1, <1>2
  <2>2. c * b = q * b + b + d * b /\ d * b \in Nat /\ q * b \in Nat
    BY <1>1, <2>1
  <2> HIDE DEF q
  <2> QED
    BY <1>1, <2>2
<1>3. ASSUME a < c * b, ~ (q < c) PROVE FALSE
  <2>1. PICK d \in Nat : q = c + d
    BY <1>1, <1>3
  <2>2. q * b = c * b + d * b /\ d * b \in Nat /\ c * b \in Nat
    BY <1>1, <2>1
  <2> QED
    BY <1>1, <1>3, <2>2
<1> QED
  BY <1>2, <1>3 DEF q

\* The table may be doubled, and a table of more than one chain halved.
LEMMA PowerOfTwoDouble ==
  ASSUME NEW n \in Nat, n > 0, PowerOfTwo(n)
  PROVE  PowerOfTwo(2 * n)
<1> SUFFICES ASSUME NEW d \in 1 .. 2 * n, NEW k \in 1 .. 2 * n, d * k = 2 * n, d % 2 = 1
             PROVE  d = 1
  BY DEF PowerOfTwo
<1>1. PICK a \in Nat : d = 2 * a + 1
  <2>1. d = 2 * (d \div 2) + 1 /\ d \div 2 \in Nat
    OBVIOUS
  <2> QED
    BY <2>1
<1>2. d * k = 2 * (a * k) + k /\ a * k \in Nat
  BY <1>1
<1> DEFINE h == n - a * k
<1>3. k = 2 * h /\ h \in Nat /\ h > 0
  BY <1>2
<1> HIDE DEF h
<1>4. d * k = 2 * (d * h) /\ d * h \in Nat
  BY <1>3
<1>5. d * h = n
  BY <1>4
<1>6. PICK g \in Nat : h = g + 1
  <2>1. h - 1 \in Nat /\ h = (h - 1) + 1
    BY <1>3
  <2> QED
    BY <2>1
<1>7. d * h = d * g + d /\ d * h = 2 * (a * h) + h /\ d * g \in Nat /\ a * h \in Nat
  BY <1>1, <1>3, <1>6
<1>8. d \in 1 .. n /\ h \in 1 .. n
  BY <1>3, <1>5, <1>7
<1> QED
  BY <1>5, <1>8 DEF PowerOfTwo

LEMMA PowerOfTwoHalf ==
  ASSUME NEW n \in Nat, n > 1, PowerOfTwo(n)
  PROVE  /\ n \div 2 \in Nat /\ n \div 2 > 0 /\ n = 2 * (n \div 2)
         /\ PowerOfTwo(n \div 2)
<1>1. n % 2 # 1
  <2>1. n \in 1 .. n /\ 1 \in 1 .. n /\ n * 1 = n /\ n # 1
    OBVIOUS
  <2> QED
    BY <2>1 DEF PowerOfTwo
<1> DEFINE m == n \div 2
<1>2. m \in Nat /\ m > 0 /\ n = 2 * m
  BY <1>1
<1> HIDE DEF m
<1>3. ASSUME NEW d \in 1 .. m, NEW k \in 1 .. m, d * k = m, d % 2 = 1
      PROVE  d = 1
  <2>1. d * (2 * k) = n
    <3>1. d * (2 * k) = 2 * (d * k)
      OBVIOUS
    <3> QED
      BY <1>2, <1>3, <3>1
  <2>2. d \in 1 .. n /\ 2 * k \in 1 .. n
    BY <1>2
  <2> QED
    BY <1>3, <2>1, <2>2 DEF PowerOfTwo
<1> QED
  BY <1>2, <1>3 DEF PowerOfTwo, m

\* Growing halves the load at least; one entry more does not overfill.
LEMMA GrowBound ==
  ASSUME NEW n \in Nat, NEW sz \in Nat, sz > 0, n \div sz <= CHAIN_LENGTH
  PROVE  (n + 1) \div (2 * sz) <= CHAIN_LENGTH
<1>1. CHAIN_LENGTH \in Nat
  BY HashAssumption
<1> DEFINE c == CHAIN_LENGTH + 1
<1>2. c \in Nat /\ n \div sz < c
  BY <1>1
<1>3. n < c * sz
  BY <1>2, DivBelow
<1>4. c * (2 * sz) = 2 * (c * sz) /\ c * sz \in Nat
  BY <1>2
<1>5. n + 1 < c * (2 * sz) /\ 2 * sz \in Nat /\ 2 * sz > 0
  BY <1>3, <1>4
<1>6. (n + 1) \div (2 * sz) < c
  BY <1>2, <1>5, DivBelow
<1>7. (n + 1) \div (2 * sz) \in Nat
  BY <1>5
<1> QED
  BY <1>1, <1>6, <1>7

\* A load that is within bounds is so with fewer entries.
LEMMA LoadFalls ==
  ASSUME NEW n \in Nat, NEW k \in Nat, k <= n, NEW sz \in Nat, sz > 0,
         n \div sz <= CHAIN_LENGTH
  PROVE  k \div sz <= CHAIN_LENGTH
<1> DEFINE c == CHAIN_LENGTH + 1
<1>1. CHAIN_LENGTH \in Nat /\ c \in Nat /\ n \div sz < c
  BY HashAssumption
<1>2. n < c * sz /\ c * sz \in Nat
  BY <1>1, DivBelow
<1>3. k < c * sz
  BY <1>2
<1>4. k \div sz < c /\ k \div sz \in Nat
  BY <1>1, <1>3, DivBelow
<1> QED
  BY <1>1, <1>4

\* A table that must grow is not one that must shrink when it is twice as
\* large and the entry is gone again.
LEMMA GrowKeeps ==
  ASSUME NEW n \in Nat, NEW sz \in Nat, sz > 0, mustGrow(n + 1, sz)
  PROVE  ~ mustShrink(n, 2 * sz)
<1> DEFINE c == CHAIN_LENGTH
           b == CHAIN_LENGTH \div 2
           a == n + n \div 10
<1>1. c \in Nat /\ b \in Nat /\ 2 * b <= c
  BY HashAssumption
<1>2. a \in Nat /\ a >= n
  OBVIOUS
<1>3. (n + 1) \div sz > c
  BY DEF mustGrow
<1> HIDE DEF a, b, c
<1>4. ~ (n + 1 < (c + 1) * sz)
  <2>1. ~ ((n + 1) \div sz < c + 1) /\ c + 1 \in Nat /\ n + 1 \in Nat
    BY <1>1, <1>3
  <2> QED
    BY <2>1, DivBelow
<1>5. n >= c * sz
  <2>1. (c + 1) * sz = c * sz + sz /\ c * sz \in Nat
    BY <1>1
  <2> QED
    BY <1>4, <2>1
<1>6. b * (2 * sz) <= c * sz
  <2>1. PICK d \in Nat : c = 2 * b + d
    <3>1. c - 2 * b \in Nat /\ c = 2 * b + (c - 2 * b)
      BY <1>1
    <3> QED
      BY <3>1
  <2>2. c * sz = b * (2 * sz) + d * sz /\ d * sz \in Nat /\ b * (2 * sz) \in Nat
    BY <1>1, <2>1
  <2> QED
    BY <2>2
<1>7. ~ (a < b * (2 * sz)) /\ 2 * sz \in Nat /\ 2 * sz > 0
  <2>1. b * (2 * sz) \in Nat /\ c * sz \in Nat
    BY <1>1
  <2> QED
    BY <1>2, <1>5, <1>6, <2>1
<1>8. ~ (a \div (2 * sz) < b)
  BY <1>1, <1>2, <1>7, DivBelow
<1> QED
  BY <1>8 DEF mustShrink, a, b

\* A table that must shrink does not have to grow when it is half as large and
\* the entry is back.
LEMMA ShrinkKeeps ==
  ASSUME NEW n \in Nat, NEW m \in Nat, m > 0, mustShrink(n, 2 * m)
  PROVE  n \div m <= CHAIN_LENGTH /\ ~ mustGrow(n + 1, m)
<1> DEFINE c == CHAIN_LENGTH
           b == CHAIN_LENGTH \div 2
           a == n + n \div 10
<1>1. c \in Nat /\ b \in Nat /\ 2 * b <= c
  BY HashAssumption
<1>2. a \in Nat /\ a >= n
  OBVIOUS
<1>3. a \div (2 * m) < b
  BY DEF mustShrink
<1> HIDE DEF a, b, c
<1>4. a < b * (2 * m)
  <2>1. 2 * m \in Nat /\ 2 * m > 0
    OBVIOUS
  <2> QED
    BY <1>1, <1>2, <1>3, <2>1, DivBelow
<1>5. b * (2 * m) <= c * m
  <2>1. PICK d \in Nat : c = 2 * b + d
    <3>1. c - 2 * b \in Nat /\ c = 2 * b + (c - 2 * b)
      BY <1>1
    <3> QED
      BY <3>1
  <2>2. c * m = b * (2 * m) + d * m /\ d * m \in Nat /\ b * (2 * m) \in Nat
    BY <1>1, <2>1
  <2> QED
    BY <2>2
<1>6. (c + 1) * m = c * m + m /\ c * m \in Nat /\ b * (2 * m) \in Nat
  BY <1>1
<1>7. n + 1 < (c + 1) * m /\ n < (c + 1) * m /\ c + 1 \in Nat /\ n + 1 \in Nat
  BY <1>1, <1>2, <1>4, <1>5, <1>6
<1>8. (n + 1) \div m < c + 1 /\ n \div m < c + 1
  BY <1>7, DivBelow
<1>9. (n + 1) \div m \in Nat /\ n \div m \in Nat
  OBVIOUS
<1> QED
  BY <1>1, <1>8, <1>9 DEF mustGrow, c

-----------------------------------------------------------------------------
(* What the operations do to a table. *)

\* x is found before y in the chain of the name of x.
Precedes(tbl, names, x, y) == Ahead(tbl[Hid(names[x], Len(tbl))], x, y)

\* Entries of one name have the same order in both tables.
SameOrder(tbl, u, names, S) ==
  \A x, y \in S : names[x] = names[y]
    => (Precedes(tbl, names, x, y) <=> Precedes(u, names, x, y))

\* The entries that a table may have.
Named(names, S) == \A o \in S : o \in Objects /\ names[o] \in Names

\* growTable() and shrinkTable() keep the entries and their order.
LEMMA RehashSound ==
  ASSUME NEW tbl, NEW names, NEW S, Spread(tbl, names, S), Named(names, S),
         Len(tbl) > 0, NEW sz \in Nat, sz > 0
  PROVE  /\ Spread(Rehash(tbl, names, sz), names, S)
         /\ Len(Rehash(tbl, names, sz)) = sz
         /\ SameOrder(tbl, Rehash(tbl, names, sz), names, S)
<1> DEFINE n == Len(tbl)
           s == Stack(tbl)
           u == Refill(s, names, sz)
<1>1. /\ tbl \in Seq(Seq(Objects)) /\ n \in Nat
      /\ \A hid \in 1 .. n : tbl[hid] \in Seq(Objects) /\ IsInjective(tbl[hid])
      /\ \A hid \in 1 .. n : \A o :
           Contains(tbl[hid], o) <=> o \in S /\ Hid(names[o], n) = hid
  BY LenProperties, ElementOfSeq DEF Spread
<1>2. \A o \in S : Hid(names[o], n) \in 1 .. n /\ Hid(names[o], sz) \in 1 .. sz
  BY <1>1, HidRange DEF Named
<1>3. /\ s \in Seq(Objects) /\ IsInjective(s)
      /\ \A o : Contains(s, o) <=> \E hid \in 1 .. n : Contains(tbl[hid], o)
      /\ \A hid \in 1 .. n : \A x, y : Ahead(tbl[hid], x, y) => Ahead(s, y, x)
  <2>1. \A hid \in 1 .. Len(tbl) : IsInjective(tbl[hid])
    BY <1>1
  <2>2. \A g, h \in 1 .. Len(tbl) : \A o :
          Contains(tbl[g], o) /\ Contains(tbl[h], o) => g = h
    BY <1>1
  <2> QED
    BY <1>1, <2>1, <2>2, StackSound
<1>4. \A o : Contains(s, o) <=> o \in S
  BY <1>1, <1>2, <1>3
<1> HIDE DEF s
<1>5. /\ Spread(u, names, S) /\ Len(u) = sz
      /\ \A x, y : Ahead(s, x, y) /\ names[x] = names[y]
           => Ahead(u[Hid(names[x], sz)], y, x)
  BY <1>3, <1>4, RefillSound DEF Named
<1>6. Rehash(tbl, names, sz) = u
  BY DEF Rehash, s
<1> HIDE DEF u
<1>7. ASSUME NEW x \in S, NEW y \in S, names[x] = names[y], Precedes(tbl, names, x, y)
      PROVE  Precedes(u, names, x, y)
  <2>1. Ahead(s, y, x)
    BY <1>2, <1>3, <1>7 DEF Precedes
  <2> QED
    BY <1>5, <1>7, <2>1 DEF Precedes
<1>8. ASSUME NEW x \in S, NEW y \in S, names[x] = names[y], Precedes(u, names, x, y)
      PROVE  Precedes(tbl, names, x, y)
  <2> DEFINE g == Hid(names[x], n)
             h == Hid(names[x], sz)
  <2>1. /\ u[h] \in Seq(Objects) /\ IsInjective(u[h])
        /\ tbl[g] \in Seq(Objects) /\ Contains(tbl[g], x) /\ Contains(tbl[g], y)
    <3>1. u \in Seq(Seq(Objects)) /\ h \in 1 .. Len(u) /\ IsInjective(u[h])
      BY <1>2, <1>5 DEF Spread
    <3>2. u[h] \in Seq(Objects)
      BY <3>1, ElementOfSeq
    <3> QED
      BY <1>1, <1>2, <1>8, <3>1, <3>2
  <2>2. Ahead(u[h], x, y)
    BY <1>5, <1>8 DEF Precedes
  <2>3. x # y /\ ~ Ahead(u[h], y, x)
    BY <2>1, <2>2, AheadIn
  <2>4. ~ Precedes(tbl, names, y, x)
    BY <1>5, <1>7, <1>8, <2>3 DEF Precedes
  <2>5. Ahead(tbl[g], x, y) \/ Ahead(tbl[g], y, x)
    BY <2>1, <2>3, AheadTotal
  <2> QED
    BY <1>8, <2>4, <2>5 DEF Precedes
<1>9. SameOrder(tbl, u, names, S)
  BY <1>7, <1>8 DEF SameOrder
<1> QED
  BY <1>5, <1>6, <1>9

\* A table with its count that has the entries of S.
Sound(h, names, S) ==
  /\ Spread(h.tbl, names, S) /\ Named(names, S)
  /\ IsFiniteSet(S) /\ h.num = Cardinality(S)
  /\ Len(h.tbl) = 0 => S = {}
  /\ Len(h.tbl) > 0 => PowerOfTwo(Len(h.tbl)) /\ h.num \div Len(h.tbl) <= CHAIN_LENGTH

\* The length and the count of a table are numbers.
LEMMA SoundNumbers ==
  ASSUME NEW h, NEW names, NEW S, Sound(h, names, S)
  PROVE  /\ h.tbl \in Seq(Seq(Objects)) /\ Len(h.tbl) \in Nat /\ h.num \in Nat
         /\ DOMAIN h.tbl = 1 .. Len(h.tbl)
         /\ \A hid \in 1 .. Len(h.tbl) : h.tbl[hid] \in Seq(Objects)
         /\ \A o \in S : Hid(names[o], Len(h.tbl)) \in 1 .. Len(h.tbl)
<1>1. h.tbl \in Seq(Seq(Objects)) /\ Named(names, S)
  BY DEF Sound, Spread
<1>2. /\ Len(h.tbl) \in Nat /\ DOMAIN h.tbl = 1 .. Len(h.tbl)
      /\ \A hid \in 1 .. Len(h.tbl) : h.tbl[hid] \in Seq(Objects)
  BY <1>1, LenProperties, ElementOfSeq
<1>3. h.num \in Nat
  BY FS_CardinalityType DEF Sound
<1>4. \A o \in S : Hid(names[o], Len(h.tbl)) \in 1 .. Len(h.tbl)
  <2>1. ASSUME NEW o \in S PROVE Hid(names[o], Len(h.tbl)) \in 1 .. Len(h.tbl)
    <3>1. Len(h.tbl) > 0
      BY <1>2 DEF Sound
    <3> QED
      BY <1>1, <1>2, <3>1, HidRange DEF Named
  <2> QED
    BY <2>1
<1> QED
  BY <1>1, <1>2, <1>3, <1>4

\* The table into which insert() links the new entry.
Room(h, names) ==
  IF Len(h.tbl) = 0 THEN << << >> >>
  ELSE IF mustGrow(h.num + 1, Len(h.tbl)) THEN growTable(h.tbl, names)
  ELSE h.tbl

\* It has the entries, and is large enough for one more.
LEMMA RoomSound ==
  ASSUME NEW h, NEW names, NEW S, Sound(h, names, S)
  PROVE  /\ Spread(Room(h, names), names, S)
         /\ Len(Room(h, names)) = IF Len(h.tbl) = 0 THEN 1
                                  ELSE IF mustGrow(h.num + 1, Len(h.tbl))
                                  THEN 2 * Len(h.tbl) ELSE Len(h.tbl)
         /\ Len(Room(h, names)) > 0 /\ PowerOfTwo(Len(Room(h, names)))
         /\ (h.num + 1) \div Len(Room(h, names)) <= CHAIN_LENGTH
         /\ SameOrder(h.tbl, Room(h, names), names, S)
<1> DEFINE sz == Len(h.tbl)
           t == Room(h, names)
<1>1. /\ h.tbl \in Seq(Seq(Objects)) /\ sz \in Nat /\ h.num \in Nat
      /\ Named(names, S) /\ Spread(h.tbl, names, S)
  BY SoundNumbers DEF Sound
<1>2. CASE sz = 0
  <2>1. t = << << >> >>
    BY <1>2 DEF Room
  <2>2. S = {} /\ h.num = 0
    BY <1>2, FS_EmptySet DEF Sound
  <2>3. /\ << >> \in Seq(Objects) /\ IsInjective(<< >>) /\ \A x : ~ Contains(<< >>, x)
    BY EmptyChain
  <2>4. << << >> >> \in Seq(Seq(Objects)) /\ Len(<< << >> >>) = 1 /\ << << >> >>[1] = << >>
    BY <2>3
  <2> DEFINE f == << << >> >>
  <2>5. f \in Seq(Seq(Objects)) /\ Len(f) = 1 /\ \A hid \in 1 .. Len(f) : f[hid] = << >>
    BY <2>4
  <2> HIDE DEF f
  <2>6. Spread(f, names, S)
    BY <2>2, <2>3, <2>5 DEF Spread
  <2>7. SameOrder(h.tbl, f, names, S)
    BY <2>2 DEF SameOrder
  <2>8. PowerOfTwo(1)
    BY DEF PowerOfTwo
  <2>9. (h.num + 1) \div 1 <= CHAIN_LENGTH
    BY <2>2, HashAssumption
  <2> QED
    BY <1>2, <2>1, <2>5, <2>6, <2>7, <2>8, <2>9 DEF f
<1>3. CASE sz # 0 /\ mustGrow(h.num + 1, sz)
  <2>1. t = Rehash(h.tbl, names, 2 * sz)
    BY <1>3 DEF Room, growTable
  <2>2. sz > 0 /\ 2 * sz \in Nat /\ 2 * sz > 0
    BY <1>1, <1>3
  <2>3. PowerOfTwo(sz) /\ h.num \div sz <= CHAIN_LENGTH
    BY <2>2 DEF Sound
  <2>4. PowerOfTwo(2 * sz) /\ (h.num + 1) \div (2 * sz) <= CHAIN_LENGTH
    <3> HIDE DEF sz
    <3> QED
      BY <1>1, <2>2, <2>3, PowerOfTwoDouble, GrowBound
  <2>5. /\ Spread(t, names, S) /\ Len(t) = 2 * sz /\ SameOrder(h.tbl, t, names, S)
    BY <1>1, <2>1, <2>2, RehashSound
  <2> QED
    BY <1>3, <2>2, <2>4, <2>5
<1>4. CASE sz # 0 /\ ~ mustGrow(h.num + 1, sz)
  <2>1. t = h.tbl
    BY <1>4 DEF Room
  <2>2. sz > 0
    BY <1>1, <1>4
  <2>3. (h.num + 1) \div sz <= CHAIN_LENGTH
    <3>1. (h.num + 1) \div sz \in Nat /\ CHAIN_LENGTH \in Nat
      <4>1. h.num + 1 \in Nat /\ sz \in Nat /\ sz > 0
        BY <1>1, <2>2
      <4>2. CHAIN_LENGTH \in Nat
        BY HashAssumption
      <4> HIDE DEF sz
      <4> QED
        BY <4>1, <4>2
    <3> QED
      BY <1>4, <3>1 DEF mustGrow
  <2>4. PowerOfTwo(sz)
    BY <2>2 DEF Sound
  <2> QED
    BY <1>1, <1>4, <2>1, <2>2, <2>3, <2>4 DEF SameOrder
<1> QED
  BY <1>2, <1>3, <1>4

\* insert(): the object is an entry, before all others of its name, whose order
\* stays.
LEMMA InsertSound ==
  ASSUME NEW h, NEW names, NEW S, Sound(h, names, S),
         NEW o \in Objects, o \notin S, names[o] \in Names
  PROVE  /\ Sound(insert(h, names, o), names, S \cup {o})
         /\ Len(insert(h, names, o).tbl) = Len(Room(h, names))
         /\ insert(h, names, o).num = h.num + 1
         /\ SameOrder(h.tbl, insert(h, names, o).tbl, names, S)
         /\ \A y \in S : names[y] = names[o]
              => Precedes(insert(h, names, o).tbl, names, o, y)
<1> DEFINE t == Room(h, names)
           n == Len(t)
           g == Hid(names[o], n)
           u == Link(t, names, o)
           R == S \cup {o}
<1>1. insert(h, names, o) = [tbl |-> u, num |-> h.num + 1]
  BY DEF insert, Room
<1>2. /\ Spread(t, names, S) /\ n > 0 /\ PowerOfTwo(n)
      /\ (h.num + 1) \div n <= CHAIN_LENGTH /\ SameOrder(h.tbl, t, names, S)
  BY RoomSound
<1>3. /\ h.num \in Nat /\ Named(names, S) /\ IsFiniteSet(S) /\ h.num = Cardinality(S)
  BY SoundNumbers DEF Sound
<1> HIDE DEF t
<1>4. Headed(t, u, o, g) /\ n \in Nat /\ t \in Seq(Seq(Objects))
  <2>1. t \in Seq(Seq(Objects))
    BY <1>2 DEF Spread
  <2>2. n \in Nat
    BY <2>1, LenProperties
  <2> QED
    BY <1>2, <2>1, <2>2, LinkSound
<1> HIDE DEF u
<1>5. /\ u \in Seq(Seq(Objects)) /\ Len(u) = n /\ g \in 1 .. n
      /\ \A hid \in 1 .. n :
           /\ \A x : Contains(u[hid], x) <=> Contains(t[hid], x) \/ (hid = g /\ x = o)
           /\ IsInjective(t[hid]) /\ ~ (hid = g /\ Contains(t[hid], o))
                => IsInjective(u[hid])
           /\ \A x, y : Ahead(u[hid], x, y)
                          <=> \/ Ahead(t[hid], x, y)
                              \/ hid = g /\ x = o /\ Contains(t[hid], y)
  BY <1>4 DEF Headed
<1>6. \A hid \in 1 .. n :
        /\ IsInjective(t[hid])
        /\ \A x : Contains(t[hid], x) <=> x \in S /\ Hid(names[x], n) = hid
  BY <1>2 DEF Spread
<1> HIDE DEF n
<1>7. Spread(u, names, R)
  <2>1. ASSUME NEW hid \in 1 .. n
        PROVE  /\ IsInjective(u[hid])
               /\ \A x : Contains(u[hid], x) <=> x \in R /\ Hid(names[x], n) = hid
    BY <1>5, <1>6
  <2> QED
    BY <1>5, <2>1 DEF Spread
<1>8. Named(names, R)
  BY <1>3 DEF Named
<1>9. IsFiniteSet(R) /\ h.num + 1 = Cardinality(R)
  BY <1>3, FS_AddElement
<1>10. Sound([tbl |-> u, num |-> h.num + 1], names, R)
  BY <1>2, <1>5, <1>7, <1>8, <1>9 DEF Sound
<1>11. ASSUME NEW x \in S, NEW y \in S, names[x] = names[y]
       PROVE  Precedes(t, names, x, y) <=> Precedes(u, names, x, y)
  <2>1. Hid(names[x], n) \in 1 .. n /\ x # o
    BY <1>2, <1>3, <1>4, HidRange DEF Named
  <2> QED
    BY <1>5, <2>1 DEF Precedes, n
<1>12. SameOrder(h.tbl, u, names, S)
  BY <1>2, <1>11 DEF SameOrder
<1>13. ASSUME NEW y \in S, names[y] = names[o] PROVE Precedes(u, names, o, y)
  <2>1. Contains(t[g], y)
    BY <1>5, <1>6, <1>13
  <2> QED
    BY <1>5, <2>1 DEF Precedes
<1> QED
  BY <1>1, <1>5, <1>10, <1>12, <1>13 DEF n, t

\* remove(): the object is no entry any more, and the others keep their order.
LEMMA RemoveSound ==
  ASSUME NEW h, NEW names, NEW S, Sound(h, names, S), NEW o \in S
  PROVE  /\ Sound(remove(h, names, o), names, S \ {o})
         /\ Len(remove(h, names, o).tbl)
              = IF mustShrink(h.num - 1, Len(h.tbl))
                THEN Len(h.tbl) \div 2 ELSE Len(h.tbl)
         /\ remove(h, names, o).num = h.num - 1 /\ h.num - 1 \in Nat
         /\ Len(h.tbl) > 0 /\ PowerOfTwo(Len(h.tbl))
         /\ SameOrder(h.tbl, remove(h, names, o).tbl, names, S \ {o})
<1> DEFINE sz == Len(h.tbl)
           g == Hid(names[o], sz)
           c == h.tbl[g]
           d == Unlink(c, o)
           t == [h.tbl EXCEPT ![g] = d]
           u == IF mustShrink(h.num - 1, sz) THEN shrinkTable(t, names) ELSE t
           R == S \ {o}
<1>1. /\ h.tbl \in Seq(Seq(Objects)) /\ sz \in Nat /\ h.num \in Nat
      /\ DOMAIN h.tbl = 1 .. sz
      /\ \A hid \in 1 .. sz : h.tbl[hid] \in Seq(Objects)
      /\ g \in 1 .. sz
  BY SoundNumbers
<1>2. sz > 0
  BY <1>1
<1>3. /\ Named(names, S) /\ IsFiniteSet(S) /\ h.num = Cardinality(S)
      /\ PowerOfTwo(sz) /\ h.num \div sz <= CHAIN_LENGTH
      /\ \A hid \in 1 .. sz :
           /\ IsInjective(h.tbl[hid])
           /\ \A x : Contains(h.tbl[hid], x) <=> x \in S /\ Hid(names[x], sz) = hid
  BY <1>2 DEF Sound, Spread
<1>4. c \in Seq(Objects) /\ IsInjective(c) /\ Contains(c, o)
  BY <1>1, <1>3
<1>5. remove(h, names, o) = [tbl |-> u, num |-> h.num - 1]
  BY <1>4 DEF remove
<1>6. IsFiniteSet(R) /\ h.num - 1 = Cardinality(R) /\ h.num - 1 \in Nat
  <2>1. IsFiniteSet(S \ {o}) /\ Cardinality(S \ {o}) = Cardinality(S) - 1
    BY <1>3, FS_RemoveElement
  <2>2. Cardinality(S \ {o}) \in Nat
    BY <2>1, FS_CardinalityType
  <2> QED
    BY <1>3, <2>1, <2>2
<1> HIDE DEF c
<1>7. /\ d \in Seq(Objects) /\ IsInjective(d)
      /\ \A x : Contains(d, x) <=> Contains(c, x) /\ x # o
      /\ \A x, y : Ahead(d, x, y) <=> Ahead(c, x, y) /\ x # o /\ y # o
  BY <1>4, UnlinkChain
<1> HIDE DEF d
<1>8. t \in Seq(Seq(Objects)) /\ Len(t) = sz
  BY <1>1, <1>7, ExceptSeq
<1>9. \A hid \in 1 .. sz : t[hid] = IF hid = g THEN d ELSE h.tbl[hid]
  BY <1>1
<1> HIDE DEF t
<1>10. Spread(t, names, R)
  <2>1. ASSUME NEW hid \in 1 .. sz
        PROVE  /\ IsInjective(t[hid])
               /\ \A x : Contains(t[hid], x) <=> x \in R /\ Hid(names[x], sz) = hid
    <3>1. CASE hid = g
      <4>1. t[hid] = d /\ h.tbl[hid] = c
        BY <1>9, <3>1 DEF c
      <4> HIDE DEF sz, g
      <4> QED
        BY <1>3, <1>7, <4>1
    <3>2. CASE hid # g
      <4>1. t[hid] = h.tbl[hid]
        BY <1>9, <3>2
      <4>2. Hid(names[o], sz) # hid
        BY <3>2
      <4> HIDE DEF sz, g
      <4> QED
        BY <1>3, <4>1, <4>2
    <3> QED
      BY <3>1, <3>2
  <2> HIDE DEF sz
  <2> QED
    BY <1>8, <2>1 DEF Spread
<1>11. SameOrder(h.tbl, t, names, R)
  <2>1. ASSUME NEW x \in R, NEW y \in R, names[x] = names[y]
        PROVE  Precedes(h.tbl, names, x, y) <=> Precedes(t, names, x, y)
    <3> DEFINE k == Hid(names[x], sz)
    <3>1. k \in 1 .. sz /\ x # o /\ y # o
      BY <1>1, SoundNumbers
    <3>2. Ahead(h.tbl[k], x, y) <=> Ahead(t[k], x, y)
      <4>1. CASE k = g
        <5>1. t[k] = d /\ h.tbl[k] = c
          BY <1>9, <3>1, <4>1 DEF c
        <5> HIDE DEF k
        <5> QED
          BY <1>7, <3>1, <5>1
      <4>2. CASE k # g
        BY <1>9, <3>1, <4>2
      <4> QED
        BY <4>1, <4>2
    <3> QED
      BY <1>8, <3>2 DEF Precedes
  <2> QED
    BY <2>1 DEF SameOrder
<1>12. Named(names, R)
  BY <1>3 DEF Named
<1> HIDE DEF R
<1>13. CASE mustShrink(h.num - 1, sz)
  <2> DEFINE m == sz \div 2
  <2>1. sz > 1
    BY <1>13 DEF mustShrink
  <2>2. m \in Nat /\ m > 0 /\ sz = 2 * m /\ PowerOfTwo(m)
    <3> HIDE DEF sz
    <3> QED
      BY <1>1, <1>3, <2>1, PowerOfTwoHalf
  <2>3. u = Rehash(t, names, m)
    BY <1>8, <1>13 DEF shrinkTable
  <2> HIDE DEF m, sz
  <2>4. mustShrink(h.num - 1, 2 * m)
    BY <1>13, <2>2
  <2>5. (h.num - 1) \div m <= CHAIN_LENGTH
    BY <1>6, <2>2, <2>4, ShrinkKeeps
  <2>6. Len(t) > 0
    BY <1>2, <1>8
  <2>7. /\ Spread(u, names, R) /\ Len(u) = m /\ SameOrder(t, u, names, R)
    BY <1>10, <1>12, <2>2, <2>3, <2>6, RehashSound
  <2> HIDE DEF u
  <2>8. Sound([tbl |-> u, num |-> h.num - 1], names, R)
    BY <1>6, <1>12, <2>2, <2>5, <2>7 DEF Sound
  <2>9. SameOrder(h.tbl, u, names, R)
    BY <1>11, <2>7 DEF SameOrder
  <2>10. Len(u) = IF mustShrink(h.num - 1, sz) THEN sz \div 2 ELSE sz
    BY <1>13, <2>7 DEF m
  <2>11. remove(h, names, o).tbl = u /\ remove(h, names, o).num = h.num - 1
    BY <1>5
  <2>12. Sound(remove(h, names, o), names, R)
    BY <1>5, <2>8
  <2> QED
    BY <1>2, <1>3, <1>6, <2>9, <2>10, <2>11, <2>12 DEF R, sz
<1>14. CASE ~ mustShrink(h.num - 1, sz)
  <2>1. u = t
    BY <1>14
  <2>2. (h.num - 1) \div sz <= CHAIN_LENGTH
    <3>1. h.num - 1 <= h.num
      BY <1>1
    <3> HIDE DEF sz
    <3> QED
      BY <1>1, <1>2, <1>3, <1>6, <3>1, LoadFalls
  <2> HIDE DEF u
  <2>3. Sound([tbl |-> t, num |-> h.num - 1], names, R)
    BY <1>2, <1>3, <1>6, <1>8, <1>10, <1>12, <2>2 DEF Sound
  <2> QED
    BY <1>2, <1>3, <1>5, <1>6, <1>8, <1>11, <1>14, <2>1, <2>3 DEF R
<1> QED
  BY <1>13, <1>14

\* Every set of positions has a first one.
LEMMA MinFirst ==
  ASSUME NEW T \in SUBSET Nat, T # {}
  PROVE  Min(T) \in T /\ \A y \in T : Min(T) <= y
<1> DEFINE R == OpToRel(<, Nat)
<1>1. \A x, y \in Nat : <<x, y>> \in R <=> x < y
  BY DEF OpToRel
<1>2. IsWellFoundedOn(R, Nat)
  BY NatLessThanWellFounded
<1> HIDE DEF R
<1>3. PICK x \in T : \A y \in T : ~ (<<y, x>> \in R)
  BY <1>2, WFMin
<1>4. \A y \in T : x <= y
  <2>1. ASSUME NEW y \in T PROVE x <= y
    <3>1. x \in Nat /\ y \in Nat /\ ~ (y < x)
      BY <1>1, <1>3
    <3> QED
      BY <3>1
  <2> QED
    BY <2>1
<1> QED
  BY <1>4 DEF Min

\* find() returns the entry that precedes all others of its name.
LEMMA FindFirst ==
  ASSUME NEW h, NEW names, NEW S, Sound(h, names, S), NEW o \in S,
         \A y \in S : names[y] = names[o] /\ y # o => Precedes(h.tbl, names, o, y)
  PROVE  find(h, names, names[o]) = o
<1> DEFINE g == Hid(names[o], Len(h.tbl))
           c == h.tbl[g]
           P == {i \in DOMAIN c : names[c[i]] = names[o]}
<1>1. /\ h.tbl \in Seq(Seq(Objects)) /\ Len(h.tbl) \in Nat
      /\ g \in 1 .. Len(h.tbl) /\ c \in Seq(Objects)
  BY SoundNumbers
<1>2. /\ IsInjective(c)
      /\ \A x : Contains(c, x) <=> x \in S /\ Hid(names[x], Len(h.tbl)) = g
  BY <1>1 DEF Sound, Spread
<1>3. h.tbl # << >>
  BY <1>1
<1>4. DOMAIN c = 1 .. Len(c) /\ Len(c) \in Nat
  BY <1>1, LenProperties
<1>5. Contains(c, o)
  BY <1>2
<1> HIDE DEF c
<1>6. P \subseteq Nat /\ P # {}
  BY <1>4, <1>5 DEF Contains
<1> DEFINE i == Min(P)
<1>7. i \in P /\ \A j \in P : i <= j
  <2> HIDE DEF P
  <2> QED
    BY <1>6, MinFirst
<1>8. find(h, names, names[o]) = c[i]
  BY <1>3, <1>6 DEF find, c
<1> HIDE DEF i
<1>9. i \in DOMAIN c /\ names[c[i]] = names[o]
  BY <1>7
<1>10. c[i] \in S
  BY <1>2, <1>4, <1>9 DEF Contains
<1>11. c[i] = o
  <2> SUFFICES ASSUME c[i] # o
               PROVE  FALSE
    OBVIOUS
  <2>1. Ahead(c, o, c[i])
    BY <1>9, <1>10 DEF Precedes, c
  <2>2. PICK j \in DOMAIN c, k \in DOMAIN c : j < k /\ c[j] = o /\ c[k] = c[i]
    BY <2>1 DEF Ahead
  <2>3. k = i
    BY <1>2, <1>9, <2>2 DEF IsInjective
  <2>4. i <= j
    BY <1>7, <2>2
  <2> QED
    BY <1>4, <1>9, <2>2, <2>3, <2>4
<1> QED
  BY <1>8, <1>11

\* find() returns None only if no entry has the name.
LEMMA FindNone ==
  ASSUME NEW h, NEW names, NEW S, Sound(h, names, S), NEW o \in S,
         find(h, names, names[o]) = None
  PROVE  FALSE
<1> DEFINE g == Hid(names[o], Len(h.tbl))
           c == h.tbl[g]
           P == {i \in DOMAIN c : names[c[i]] = names[o]}
<1>1. /\ h.tbl \in Seq(Seq(Objects)) /\ Len(h.tbl) \in Nat
      /\ g \in 1 .. Len(h.tbl) /\ c \in Seq(Objects)
  BY SoundNumbers
<1>2. Contains(c, o)
  BY <1>1 DEF Sound, Spread
<1>3. h.tbl # << >>
  BY <1>1
<1>4. DOMAIN c = 1 .. Len(c) /\ Len(c) \in Nat /\ \A i \in 1 .. Len(c) : c[i] \in Objects
  BY <1>1, LenProperties, ElementOfSeq
<1> HIDE DEF c
<1>5. P \subseteq Nat /\ P # {}
  BY <1>2, <1>4 DEF Contains
<1>6. Min(P) \in P
  <2> HIDE DEF P
  <2> QED
    BY <1>5, MinFirst
<1>7. find(h, names, names[o]) = c[Min(P)]
  BY <1>3, <1>5 DEF find, c
<1>8. c[Min(P)] \in Objects
  BY <1>4, <1>6
<1> QED
  BY <1>7, <1>8, HashAssumption

\* A table has its entries under any names that agree on them.
LEMMA SoundAgree ==
  ASSUME NEW h, NEW a, NEW b, NEW S, Sound(h, a, S), \A o \in S : b[o] = a[o]
  PROVE  Sound(h, b, S)
BY DEF Sound, Spread, Named

\* So is the order of the entries.
LEMMA OrderAgree ==
  ASSUME NEW t, NEW u, NEW a, NEW b, NEW S, SameOrder(t, u, a, S),
         \A o \in S : b[o] = a[o]
  PROVE  SameOrder(t, u, b, S)
BY DEF SameOrder, Precedes

-----------------------------------------------------------------------------
(* The inductive invariant: the table of the nets has the nets that exist. *)

HashInv ==
  /\ net_name \in [Objects -> Names \cup {None}]
  /\ Sound(net_hash, net_name, Live)

\* One of two entries of a name is before the other in the chain of the name.
LEMMA BeforeIs ==
  ASSUME NEW h, NEW names, NEW S, Sound(h, names, S), NEW o \in S, NEW p
  PROVE  (\E hid \in DOMAIN h.tbl : Ahead(h.tbl[hid], o, p))
           <=> Precedes(h.tbl, names, o, p)
<1>1. /\ DOMAIN h.tbl = 1 .. Len(h.tbl)
      /\ \A hid \in 1 .. Len(h.tbl) : h.tbl[hid] \in Seq(Objects)
      /\ Hid(names[o], Len(h.tbl)) \in 1 .. Len(h.tbl)
  BY SoundNumbers
<1>2. ASSUME NEW hid \in 1 .. Len(h.tbl), Ahead(h.tbl[hid], o, p)
      PROVE  hid = Hid(names[o], Len(h.tbl))
  <2>1. Contains(h.tbl[hid], o)
    BY <1>1, <1>2, AheadIn
  <2> QED
    BY <2>1 DEF Sound, Spread
<1> QED
  BY <1>1, <1>2 DEF Precedes

\* What a step that gives o another name, or none, does to the table.
Renamed(o) ==
  /\ net_name' \in [Objects -> Names \cup {None}]
  /\ Sound(net_hash', net_name', Live')
  /\ \A p \in Objects : p # o => net_name'[p] = net_name[p]
  /\ net_name'[o] # net_name[o]
  /\ SameOrder(net_hash.tbl, net_hash'.tbl, net_name, Live \ {o})
  /\ net_name'[o] # None => find(net_hash', net_name', net_name'[o]) = o
  /\ ResizeStep

\* create()
LEMMA CreateRenames ==
  ASSUME HashInv, NEW o \in Objects, NEW name \in Names, NEW skip,
         create(o, name, skip)
  PROVE  Renamed(o)
<1> DEFINE S == Live
           names == net_name'
           h == net_hash
           u == insert(h, names, o)
<1>1. /\ net_name \in [Objects -> Names \cup {None}] /\ net_name[o] = None
      /\ names = [net_name EXCEPT ![o] = name] /\ net_hash' = u
      /\ Sound(h, net_name, S)
  BY DEF HashInv, create
<1>2. name # None /\ None \notin Names
  BY HashAssumption
<1>3. /\ names \in [Objects -> Names \cup {None}] /\ names[o] = name
      /\ \A p \in Objects : p # o => names[p] = net_name[p]
  BY <1>1
<1>4. o \notin S /\ S \subseteq Objects /\ Live' = S \cup {o}
  BY <1>1, <1>2, <1>3 DEF Live
<1> HIDE DEF S, h, names
<1>5. \A p \in S : names[p] = net_name[p]
  BY <1>3, <1>4
<1>6. Sound(h, names, S)
  BY <1>1, <1>5, SoundAgree
<1>7. names[o] \in Names
  BY <1>3
<1>8. /\ Sound(u, names, S \cup {o})
      /\ Len(u.tbl) = Len(Room(h, names))
      /\ u.num = h.num + 1
      /\ SameOrder(h.tbl, u.tbl, names, S)
      /\ \A y \in S : names[y] = names[o] => Precedes(u.tbl, names, o, y)
  BY <1>4, <1>6, <1>7, InsertSound
<1>9. Len(Room(h, names)) = IF Len(h.tbl) = 0 THEN 1
                            ELSE IF mustGrow(h.num + 1, Len(h.tbl))
                            THEN 2 * Len(h.tbl) ELSE Len(h.tbl)
  BY <1>6, RoomSound
<1>10. h.num \in Nat /\ Len(h.tbl) \in Nat
  BY <1>6, SoundNumbers
<1> HIDE DEF u
<1>11. find(u, names, names[o]) = o
  <2>1. o \in S \cup {o}
    OBVIOUS
  <2>2. \A y \in S \cup {o} : names[y] = names[o] /\ y # o => Precedes(u.tbl, names, o, y)
    BY <1>8
  <2> QED
    BY <1>8, <2>1, <2>2, FindFirst
<1>12. SameOrder(h.tbl, u.tbl, net_name, S)
  BY <1>5, <1>8 DEF SameOrder, Precedes
<1>13. ResizeStep
  <2> DEFINE n == Len(h.tbl)
             m == Len(u.tbl)
  <2>1. ASSUME n > 0, m > n PROVE ~ mustShrink(u.num - 1, m)
    <3>1. mustGrow(h.num + 1, n) /\ m = 2 * n
      BY <1>8, <1>9, <1>10, <2>1
    <3>2. u.num - 1 = h.num
      BY <1>8, <1>10
    <3> HIDE DEF n, m
    <3>3. ~ mustShrink(h.num, 2 * n)
      BY <1>10, <2>1, <3>1, GrowKeeps DEF n
    <3> QED
      BY <3>1, <3>2, <3>3
  <2>2. ~ (m < n)
    BY <1>8, <1>9, <1>10
  <2> QED
    BY <1>1, <2>1, <2>2 DEF ResizeStep, h
<1>14. S \ {o} = S
  BY <1>4
<1> QED
  BY <1>1, <1>2, <1>3, <1>4, <1>8, <1>11, <1>12, <1>13, <1>14 DEF Renamed, S, h, names

\* destroy()
LEMMA DestroyRenames ==
  ASSUME HashInv, NEW o \in Objects, destroy(o)
  PROVE  Renamed(o)
<1> DEFINE S == Live
           R == S \ {o}
           names == net_name'
           h == net_hash
           u == remove(h, net_name, o)
<1>1. /\ net_name \in [Objects -> Names \cup {None}] /\ net_name[o] # None
      /\ names = [net_name EXCEPT ![o] = None] /\ net_hash' = u
      /\ Sound(h, net_name, S)
  BY DEF HashInv, destroy
<1>2. /\ names \in [Objects -> Names \cup {None}] /\ names[o] = None
      /\ \A p \in Objects : p # o => names[p] = net_name[p]
  BY <1>1
<1>3. o \in S /\ S \subseteq Objects /\ Live' = R
  BY <1>1, <1>2 DEF Live
<1> HIDE DEF S, h, names
<1>4. \A p \in R : names[p] = net_name[p]
  BY <1>2, <1>3
<1>5. /\ Sound(u, net_name, S \ {o})
      /\ Len(u.tbl) = IF mustShrink(h.num - 1, Len(h.tbl))
                      THEN Len(h.tbl) \div 2 ELSE Len(h.tbl)
      /\ u.num = h.num - 1 /\ h.num - 1 \in Nat
      /\ Len(h.tbl) > 0 /\ PowerOfTwo(Len(h.tbl))
      /\ SameOrder(h.tbl, u.tbl, net_name, S \ {o})
  BY <1>1, <1>3, RemoveSound
<1>6. Len(h.tbl) \in Nat /\ h.num \in Nat
  BY <1>1, SoundNumbers
<1> HIDE DEF u, R
<1>7. Sound(u, names, R)
  BY <1>4, <1>5, SoundAgree DEF R
<1>8. ResizeStep
  <2> DEFINE n == Len(h.tbl)
             m == Len(u.tbl)
  <2>1. mustShrink(h.num - 1, n) => n > 1
    BY DEF mustShrink
  <2>2. n > 1 => n \div 2 \in Nat /\ n \div 2 > 0 /\ n = 2 * (n \div 2)
    BY <1>5, <1>6, PowerOfTwoHalf
  <2>3. (mustShrink(h.num - 1, n) /\ m = n \div 2) \/ m = n
    BY <1>5
  <2>4. n \in Nat
    BY <1>6
  <2> HIDE DEF n, m
  <2>5. ~ (m > n)
    BY <2>1, <2>2, <2>3, <2>4
  <2>6. ASSUME m < n PROVE ~ mustGrow(h.num, m)
    <3>1. mustShrink(h.num - 1, n) /\ m = n \div 2
      BY <2>3, <2>4, <2>6
    <3>2. m \in Nat /\ m > 0 /\ n = 2 * m
      BY <2>1, <2>2, <3>1
    <3>3. (h.num - 1) + 1 = h.num
      BY <1>6
    <3>4. mustShrink(h.num - 1, 2 * m)
      BY <3>1, <3>2
    <3>5. ~ mustGrow((h.num - 1) + 1, m)
      BY <1>5, <3>2, <3>4, ShrinkKeeps
    <3> QED
      BY <3>3, <3>5
  <2> QED
    BY <1>1, <2>5, <2>6 DEF ResizeStep, h, n, m
<1> QED
  BY <1>1, <1>2, <1>3, <1>5, <1>7, <1>8 DEF Renamed, S, R, h, names

\* rename(): the removal may shrink the table, but then the insertion does not
\* let it grow again.
LEMMA RenameRenames ==
  ASSUME HashInv, NEW o \in Objects, NEW name \in Names, rename(o, name)
  PROVE  Renamed(o)
<1> DEFINE S == Live
           R == S \ {o}
           names == net_name'
           h == net_hash
           g == remove(h, net_name, o)
           u == insert(g, names, o)
<1>1. /\ net_name \in [Objects -> Names \cup {None}] /\ net_name[o] # None
      /\ find(h, net_name, name) = None
      /\ names = [net_name EXCEPT ![o] = name] /\ net_hash' = u
      /\ Sound(h, net_name, S)
  BY DEF HashInv, rename
<1>2. name # None
  BY HashAssumption
<1>3. /\ names \in [Objects -> Names \cup {None}] /\ names[o] = name
      /\ \A p \in Objects : p # o => names[p] = net_name[p]
  BY <1>1
<1>4. o \in S /\ S \subseteq Objects /\ Live' = S
  BY <1>1, <1>2, <1>3 DEF Live
<1> HIDE DEF S, h, names
<1>5. name # net_name[o]
  BY <1>1, <1>4, FindNone
<1>6. \A p \in R : names[p] = net_name[p]
  BY <1>3, <1>4
<1>7. /\ Sound(g, net_name, S \ {o})
      /\ Len(g.tbl) = IF mustShrink(h.num - 1, Len(h.tbl))
                      THEN Len(h.tbl) \div 2 ELSE Len(h.tbl)
      /\ g.num = h.num - 1 /\ h.num - 1 \in Nat
      /\ Len(h.tbl) > 0 /\ PowerOfTwo(Len(h.tbl))
      /\ SameOrder(h.tbl, g.tbl, net_name, S \ {o})
  BY <1>1, <1>4, RemoveSound
<1>8. Len(h.tbl) \in Nat /\ h.num \in Nat
  BY <1>1, SoundNumbers
<1> HIDE DEF g
<1>9. Sound(g, names, R) /\ o \notin R /\ names[o] \in Names
  BY <1>3, <1>6, <1>7, SoundAgree
<1> HIDE DEF R
<1>10. /\ Sound(u, names, R \cup {o})
       /\ Len(u.tbl) = Len(Room(g, names))
       /\ u.num = g.num + 1
       /\ SameOrder(g.tbl, u.tbl, names, R)
       /\ \A y \in R : names[y] = names[o] => Precedes(u.tbl, names, o, y)
  BY <1>9, InsertSound
<1>11. Len(Room(g, names)) = IF Len(g.tbl) = 0 THEN 1
                             ELSE IF mustGrow(g.num + 1, Len(g.tbl))
                             THEN 2 * Len(g.tbl) ELSE Len(g.tbl)
  BY <1>9, RoomSound
<1> HIDE DEF u
<1>12. R \cup {o} = S
  BY <1>4 DEF R
<1>13. find(u, names, names[o]) = o
  <2>1. o \in R \cup {o}
    OBVIOUS
  <2>2. \A y \in R \cup {o} : names[y] = names[o] /\ y # o => Precedes(u.tbl, names, o, y)
    BY <1>10
  <2> QED
    BY <1>10, <2>1, <2>2, FindFirst
<1>14. SameOrder(h.tbl, u.tbl, net_name, R)
  <2>1. SameOrder(g.tbl, u.tbl, net_name, R)
    BY <1>6, <1>10, OrderAgree
  <2>2. SameOrder(h.tbl, g.tbl, net_name, R)
    BY <1>7 DEF R
  <2> QED
    BY <2>1, <2>2 DEF SameOrder
<1>15. ResizeStep
  <2> DEFINE n == Len(h.tbl)
             k == Len(g.tbl)
             m == Len(u.tbl)
  <2>1. n \in Nat /\ n > 0 /\ h.num \div n <= CHAIN_LENGTH
    BY <1>1, <1>7, <1>8 DEF Sound
  <2>2. n > 1 => n \div 2 \in Nat /\ n \div 2 > 0 /\ n = 2 * (n \div 2)
    BY <1>7, <1>8, PowerOfTwoHalf
  <2>3. mustShrink(h.num - 1, n) => n > 1
    BY DEF mustShrink
  <2>4. (mustShrink(h.num - 1, n) /\ k = n \div 2) \/ (~ mustShrink(h.num - 1, n) /\ k = n)
    BY <1>7
  <2>5. /\ m = IF k = 0 THEN 1 ELSE IF mustGrow(g.num + 1, k) THEN 2 * k ELSE k
        /\ g.num + 1 = h.num /\ (h.num - 1) + 1 = h.num /\ u.num = h.num
    BY <1>7, <1>8, <1>10, <1>11
  <2> HIDE DEF n, k, m
  <2>6. CASE mustShrink(h.num - 1, n)
    <3>1. k = n \div 2 /\ k \in Nat /\ k > 0 /\ n = 2 * k
      BY <2>2, <2>3, <2>4, <2>6
    <3>2. mustShrink(h.num - 1, 2 * k)
      BY <2>6, <3>1
    <3>3. ~ mustGrow((h.num - 1) + 1, k)
      BY <1>7, <3>1, <3>2, ShrinkKeeps
    <3>4. ~ mustGrow(h.num, k) /\ m = k
      BY <2>5, <3>1, <3>3
    <3>5. ~ (m > n)
      BY <3>1, <3>4
    <3> QED
      BY <1>1, <3>4, <3>5 DEF ResizeStep, n, m, h
  <2>7. CASE ~ mustShrink(h.num - 1, n)
    <3>1. k = n
      BY <2>4, <2>7
    <3>2. ~ mustGrow(h.num, n)
      <4>1. h.num \div n \in Nat
        BY <1>8, <2>1
      <4>2. CHAIN_LENGTH \in Nat
        BY HashAssumption
      <4> QED
        BY <2>1, <4>1, <4>2 DEF mustGrow
    <3>3. m = n
      BY <2>1, <2>5, <3>1, <3>2
    <3>4. ~ (m > n) /\ ~ (m < n)
      BY <2>1, <3>3
    <3> QED
      BY <1>1, <3>4 DEF ResizeStep, n, m, h
  <2> QED
    BY <2>6, <2>7
<1> QED
  BY <1>1, <1>3, <1>4, <1>5, <1>10, <1>12, <1>13, <1>14, <1>15
     DEF Renamed, S, R, h, names

\* Every step gives one net another name, or none.
LEMMA StepRenames ==
  ASSUME HashInv, Next
  PROVE  \E o \in Objects : Renamed(o)
<1>1. PICK o \in Objects :
        \/ \E name \in Names, skip \in BOOLEAN : create(o, name, skip)
        \/ \E name \in Names : rename(o, name)
        \/ destroy(o)
  BY DEF Next
<1>2. ASSUME NEW name \in Names, NEW skip \in BOOLEAN, create(o, name, skip)
      PROVE  Renamed(o)
  BY <1>2, CreateRenames
<1>3. ASSUME NEW name \in Names, rename(o, name) PROVE Renamed(o)
  BY <1>3, RenameRenames
<1>4. ASSUME destroy(o) PROVE Renamed(o)
  BY <1>4, DestroyRenames
<1> QED
  BY <1>1, <1>2, <1>3, <1>4

-----------------------------------------------------------------------------
(* The theorems. *)

\* The table that is empty at first has the nets that exist.
LEMMA InitHashInv ==
  ASSUME Init
  PROVE  HashInv
<1>1. /\ net_name \in [Objects -> Names \cup {None}] /\ Live = {}
      /\ net_hash = [tbl |-> << >>, num |-> 0]
  BY DEF Init, Live
<1>2. << >> \in Seq(Seq(Objects)) /\ Len(<< >>) = 0
  OBVIOUS
<1>3. Spread(<< >>, net_name, {})
  BY <1>2 DEF Spread
<1>4. IsFiniteSet({}) /\ Cardinality({}) = 0
  BY FS_EmptySet
<1>5. Sound(net_hash, net_name, {})
  BY <1>1, <1>2, <1>3, <1>4 DEF Sound, Named
<1> QED
  BY <1>1, <1>5 DEF HashInv

LEMMA HashInvStep ==
  ASSUME HashInv, [Next]_vars
  PROVE  HashInv'
<1>1. CASE Next
  BY <1>1, StepRenames DEF Renamed, HashInv
<1>2. CASE UNCHANGED vars
  BY <1>2 DEF vars, HashInv, Live
<1> QED
  BY <1>1, <1>2

\* What the invariant says of the chains.
LEMMA HashInvSound ==
  ASSUME HashInv
  PROVE  ChainsSound
<1> DEFINE n == Len(net_hash.tbl)
<1>1. /\ net_hash.tbl \in Seq(Seq(Objects)) /\ n \in Nat /\ net_hash.num \in Nat
      /\ DOMAIN net_hash.tbl = 1 .. n
      /\ \A o \in Live : Hid(net_name[o], n) \in 1 .. n
  BY SoundNumbers DEF HashInv
<1>2. /\ \A hid \in 1 .. n :
           /\ IsInjective(net_hash.tbl[hid])
           /\ \A o : Contains(net_hash.tbl[hid], o) <=> o \in Live /\ Hid(net_name[o], n) = hid
      /\ net_hash.num = Cardinality(Live)
      /\ n > 0 => PowerOfTwo(n) /\ net_hash.num \div n <= CHAIN_LENGTH
  BY DEF HashInv, Sound, Spread
<1>3. TypeOK
  <2>1. n = 0 \/ n > 0
    BY <1>1
  <2> QED
    BY <1>1, <1>2, <2>1 DEF TypeOK, HashInv
<1>4. Placed
  <2>1. ASSUME NEW o \in Objects
        PROVE  PlacesOf(o) = IF o \in Live THEN {Hid(net_name[o], n)} ELSE {}
    <3>1. \A hid : hid \in PlacesOf(o) <=> hid \in 1 .. n /\ o \in Live /\ Hid(net_name[o], n) = hid
      BY <1>1, <1>2 DEF PlacesOf
    <3> QED
      BY <1>1, <3>1
  <2> QED
    BY <1>1, <1>2, <2>1 DEF Placed
<1>5. LoadBounded
  <2>1. ASSUME net_hash.tbl # << >> PROVE n > 0
    BY <1>1, <2>1, EmptySeq
  <2> QED
    BY <1>2, <2>1 DEF LoadBounded
<1> QED
  BY <1>3, <1>4, <1>5 DEF ChainsSound

(***************************************************************************)
(* Every net, and nothing else, is in the chain that its name is looked up *)
(* in, once; the number of chains is a power of two, as the mask of the    *)
(* hash needs; and chains are within CHAIN_LENGTH on average: insert(),    *)
(* remove(), growTable() and shrinkTable() keep it so in any order.        *)
(***************************************************************************)
THEOREM HashChainsSound == Spec => []ChainsSound
<1>1. Init => HashInv
  BY InitHashInv
<1>2. HashInv /\ [Next]_vars => HashInv'
  BY HashInvStep
<1>3. HashInv => ChainsSound
  BY HashInvSound
<1> QED
  BY <1>1, <1>2, <1>3, PTL DEF Spec

(***************************************************************************)
(* find() returns the net that got the name last, and resizing the table   *)
(* does not change which of several nets of one name that is.              *)
(***************************************************************************)
THEOREM HashNewestFound == Spec => NewestFound
<1>1. Init => HashInv
  BY InitHashInv
<1>2. HashInv /\ [Next]_vars => HashInv'
  BY HashInvStep
<1>3. HashInv /\ [Next]_vars => [NewestStep]_vars
  <2> SUFFICES ASSUME HashInv, Next PROVE NewestStep
    OBVIOUS
  <2>1. PICK o \in Objects : Renamed(o)
    BY StepRenames
  <2>2. /\ \A p \in Objects : p # o => net_name'[p] = net_name[p]
        /\ net_name'[o] # net_name[o]
        /\ SameOrder(net_hash.tbl, net_hash'.tbl, net_name, Live \ {o})
        /\ net_name'[o] # None => find(net_hash', net_name', net_name'[o]) = o
        /\ Sound(net_hash, net_name, Live) /\ Sound(net_hash', net_name', Live')
    BY <2>1 DEF Renamed, HashInv
  <2>3. ASSUME NEW q \in Objects, net_name'[q] = net_name[q], NEW p \in Live,
               net_name'[p] = net_name[p], net_name[p] = net_name[q]
        PROVE  Before(q, p) <=> Before(q, p)'
    <3>1. q \in Live \ {o} /\ p \in Live \ {o} /\ q \in Live'
      BY <2>2, <2>3 DEF Live
    <3>2. Before(q, p) <=> Precedes(net_hash.tbl, net_name, q, p)
      BY <2>2, <3>1, BeforeIs DEF Before
    <3>3. Before(q, p)' <=> Precedes(net_hash'.tbl, net_name', q, p)
      BY <2>2, <3>1, BeforeIs DEF Before
    <3>4. Precedes(net_hash.tbl, net_name, q, p) <=> Precedes(net_hash'.tbl, net_name, q, p)
      BY <2>2, <2>3, <3>1 DEF SameOrder
    <3>5. Precedes(net_hash'.tbl, net_name, q, p) <=> Precedes(net_hash'.tbl, net_name', q, p)
      BY <2>3 DEF Precedes
    <3> QED
      BY <3>2, <3>3, <3>4, <3>5
  <2>4. ASSUME NEW q \in Objects, net_name'[q] # net_name[q], net_name'[q] # None
        PROVE  find(net_hash', net_name', net_name'[q]) = q
    BY <2>2, <2>4
  <2> QED
    BY <2>3, <2>4 DEF NewestStep
<1> QED
  BY <1>1, <1>2, <1>3, PTL DEF Spec, NewestFound

(***************************************************************************)
(* The thresholds of growTable() and shrinkTable() leave a gap: a net that *)
(* comes and goes does not resize the table every time.                    *)
(***************************************************************************)
THEOREM HashNoThrashing == Spec => NoThrashing
<1>1. Init => HashInv
  BY InitHashInv
<1>2. HashInv /\ [Next]_vars => HashInv'
  BY HashInvStep
<1>3. HashInv /\ [Next]_vars => [ResizeStep]_vars
  BY StepRenames DEF Renamed
<1> QED
  BY <1>1, <1>2, <1>3, PTL DEF Spec, NoThrashing
=============================================================================
