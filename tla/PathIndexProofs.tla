-------------------------- MODULE PathIndexProofs --------------------------
(***************************************************************************)
(* The index of protected anchors: the order of texts by their bytes, what *)
(* the sorted list and the binary search of the Go library return, what    *)
(* the text of a path tells of the path, and from these that the index     *)
(* decides Overlap.  What a recursive definition computes is proved with a *)
(* least counterexample.                                                   *)
(***************************************************************************)
EXTENDS PathIndex, PathProofs, FiniteSetTheorems

Texts == Seq(Nat)

\* A prefix, byte by byte.
LEMMA PrefixPoints ==
  ASSUME NEW s \in Texts, NEW t \in Texts
  PROVE  IsPrefix(s, t) <=>
           Len(s) <= Len(t) /\ \A k \in 1..Len(s) : s[k] = t[k]
<1>1. /\ Len(s) \in Nat /\ Len(t) \in Nat /\ SubSeq(s, 1, Len(s)) = s
      /\ \A k \in 1..Len(t) : t[k] \in Nat
  BY LenProperties, SubSeqFull, ElementOfSeq DEF Texts
<1>2. ASSUME Len(s) <= Len(t)
      PROVE  /\ SubSeq(t, 1, Len(s)) \in Texts /\ Len(SubSeq(t, 1, Len(s))) = Len(s)
             /\ \A k \in 1..Len(s) : SubSeq(t, 1, Len(s))[k] = t[k]
  BY <1>1, <1>2, SubSeqProperties DEF Texts
<1>3. CASE Len(s) <= Len(t)
  <2>1. s = SubSeq(t, 1, Len(s)) <=> \A k \in 1..Len(s) : s[k] = t[k]
    BY <1>2, <1>3, SeqEqual DEF Texts
  <2> QED BY <1>1, <1>3, <2>1 DEF IsPrefix
<1> QED BY <1>3 DEF IsPrefix

\* Equal up to a position.
LEMMA EqualUpTo ==
  ASSUME NEW s \in Texts, NEW t \in Texts, NEW i \in 1..Len(s), i <= Len(t)
  PROVE  SubSeq(s, 1, i - 1) = SubSeq(t, 1, i - 1) <=> \A k \in 1..i - 1 : s[k] = t[k]
<1>1. /\ Len(s) \in Nat /\ Len(t) \in Nat
      /\ \A k \in 1..Len(s) : s[k] \in Nat
      /\ \A k \in 1..Len(t) : t[k] \in Nat
  BY LenProperties, ElementOfSeq DEF Texts
<1>2. /\ SubSeq(s, 1, i - 1) \in Texts /\ Len(SubSeq(s, 1, i - 1)) = i - 1
      /\ \A k \in 1..i - 1 : SubSeq(s, 1, i - 1)[k] = s[k]
  BY <1>1, SubSeqProperties DEF Texts
<1>3. /\ SubSeq(t, 1, i - 1) \in Texts /\ Len(SubSeq(t, 1, i - 1)) = i - 1
      /\ \A k \in 1..i - 1 : SubSeq(t, 1, i - 1)[k] = t[k]
  BY <1>1, SubSeqProperties DEF Texts
<1> QED BY <1>2, <1>3, SeqEqual DEF Texts

\* The order of texts by their bytes.
Precedes(s, t) ==
  \/ Len(s) <= Len(t) /\ \A k \in 1..Len(s) : s[k] = t[k]
  \/ \E i \in 1..Len(s) : i <= Len(t) /\ (\A k \in 1..i - 1 : s[k] = t[k]) /\ s[i] < t[i]

\* It is the order that the model writes with subsequences.
LEMMA OrderPoints ==
  ASSUME NEW s \in Texts, NEW t \in Texts
  PROVE  LessOrEqual(s, t) <=> Precedes(s, t)
BY PrefixPoints, EqualUpTo DEF LessOrEqual, Precedes

\* Where two texts of which neither is a prefix of the other differ first.
LEMMA FirstDifference ==
  ASSUME NEW s \in Texts, NEW t \in Texts, ~ IsPrefix(s, t), ~ IsPrefix(t, s)
  PROVE  \E i \in 1..Len(s) : /\ i <= Len(t) /\ s[i] # t[i]
                              /\ \A k \in 1..i - 1 : s[k] = t[k]
<1> DEFINE D == {i \in 1..Len(s) : i <= Len(t) /\ s[i] # t[i]}
<1>1. Len(s) \in Nat /\ Len(t) \in Nat
  BY LenProperties DEF Texts
<1>2. D # {} /\ D \in SUBSET Nat
  BY <1>1, PrefixPoints
<1>3. PICK i \in D : \A k \in D : i <= k
  <2> HIDE DEF D
  <2> QED BY <1>2, LeastNumber
<1> QED BY <1>1, <1>3

\* The order of texts is reflexive, total and antisymmetric.
LEMMA TextOrder ==
  ASSUME NEW s \in Texts, NEW t \in Texts
  PROVE  /\ LessOrEqual(s, s)
         /\ LessOrEqual(s, t) \/ LessOrEqual(t, s)
         /\ LessOrEqual(s, t) /\ LessOrEqual(t, s) => s = t
<1>1. /\ Len(s) \in Nat /\ Len(t) \in Nat
      /\ \A k \in 1..Len(s) : s[k] \in Nat
      /\ \A k \in 1..Len(t) : t[k] \in Nat
  BY LenProperties, ElementOfSeq DEF Texts
<1>2. LessOrEqual(s, s)
  BY <1>1, OrderPoints DEF Precedes
<1>3. LessOrEqual(s, t) \/ LessOrEqual(t, s)
  <2>1. CASE IsPrefix(s, t) \/ IsPrefix(t, s)
    BY <2>1 DEF LessOrEqual
  <2>2. CASE ~ IsPrefix(s, t) /\ ~ IsPrefix(t, s)
    <3>1. PICK i \in 1..Len(s) : /\ i <= Len(t) /\ s[i] # t[i]
                                 /\ \A k \in 1..i - 1 : s[k] = t[k]
      BY <2>2, FirstDifference
    <3>2. i \in 1..Len(t) /\ \A k \in 1..i - 1 : t[k] = s[k]
      BY <1>1, <3>1
    <3>3. s[i] < t[i] \/ t[i] < s[i]
      BY <1>1, <3>1, <3>2
    <3>4. Precedes(s, t) \/ Precedes(t, s)
      BY <1>1, <3>1, <3>2, <3>3 DEF Precedes
    <3> QED BY <3>4, OrderPoints
  <2> QED BY <2>1, <2>2
<1>4. LessOrEqual(s, t) /\ LessOrEqual(t, s) => s = t
  <2> SUFFICES ASSUME Precedes(s, t), Precedes(t, s) PROVE s = t
    BY OrderPoints
  <2>1. Len(s) = Len(t) /\ \A k \in 1..Len(s) : s[k] = t[k]
    <3>1. CASE \E i \in 1..Len(s) : i <= Len(t) /\ (\A k \in 1..i - 1 : s[k] = t[k]) /\ s[i] < t[i]
      <4>1. PICK i \in 1..Len(s) : i <= Len(t) /\ (\A k \in 1..i - 1 : s[k] = t[k]) /\ s[i] < t[i]
        BY <3>1
      <4>2. PICK m \in 1..Len(t) : m <= Len(s) /\ (\A k \in 1..m - 1 : t[k] = s[k]) /\ t[m] < s[m]
        BY <1>1, <4>1 DEF Precedes
      <4>3. m < i \/ i < m \/ i = m
        OBVIOUS
      <4> QED BY <1>1, <4>1, <4>2, <4>3
    <3>2. CASE Len(s) <= Len(t) /\ \A k \in 1..Len(s) : s[k] = t[k]
      BY <1>1, <3>2 DEF Precedes
    <3> QED BY <3>1, <3>2 DEF Precedes
  <2> QED BY <2>1, SeqEqual DEF Texts
<1> QED BY <1>2, <1>3, <1>4

\* And it is transitive.
LEMMA TextOrderTransitive ==
  ASSUME NEW s \in Texts, NEW t \in Texts, NEW u \in Texts,
         LessOrEqual(s, t), LessOrEqual(t, u)
  PROVE  LessOrEqual(s, u)
<1> DEFINE Pre(a, b) == Len(a) <= Len(b) /\ \A k \in 1..Len(a) : a[k] = b[k]
           At(a, b, i) == /\ i \in 1..Len(a) /\ i <= Len(b) /\ a[i] < b[i]
                          /\ \A k \in 1..i - 1 : a[k] = b[k]
<1>1. /\ Len(s) \in Nat /\ Len(t) \in Nat /\ Len(u) \in Nat
      /\ \A k \in 1..Len(s) : s[k] \in Nat
      /\ \A k \in 1..Len(t) : t[k] \in Nat
      /\ \A k \in 1..Len(u) : u[k] \in Nat
  BY LenProperties, ElementOfSeq DEF Texts
<1>2. /\ Pre(s, t) \/ \E i \in 1..Len(s) : At(s, t, i)
      /\ Pre(t, u) \/ \E i \in 1..Len(t) : At(t, u, i)
  BY OrderPoints DEF Precedes
<1>3. Pre(s, u) \/ (\E i \in 1..Len(s) : At(s, u, i)) => LessOrEqual(s, u)
  BY OrderPoints DEF Precedes
<1>4. CASE Pre(s, t) /\ Pre(t, u)
  BY <1>1, <1>3, <1>4
<1>5. ASSUME Pre(s, t), NEW i \in 1..Len(t), At(t, u, i) PROVE LessOrEqual(s, u)
  <2>1. CASE i <= Len(s)
    <3>1. At(s, u, i)
      BY <1>1, <1>5, <2>1
    <3> QED BY <1>1, <1>3, <2>1, <3>1
  <2>2. CASE i > Len(s)
    BY <1>1, <1>3, <1>5, <2>2
  <2> QED BY <1>1, <2>1, <2>2
<1>6. ASSUME Pre(t, u), NEW i \in 1..Len(s), At(s, t, i) PROVE LessOrEqual(s, u)
  <2>1. At(s, u, i)
    BY <1>1, <1>6
  <2> QED BY <1>3, <2>1
<1>7. ASSUME NEW i \in 1..Len(s), At(s, t, i), NEW m \in 1..Len(t), At(t, u, m)
      PROVE  LessOrEqual(s, u)
  <2>1. CASE i <= m
    <3>1. At(s, u, i)
      BY <1>1, <1>7, <2>1
    <3> QED BY <1>3, <3>1
  <2>2. CASE m < i
    <3>1. m \in 1..Len(s) /\ At(s, u, m)
      BY <1>1, <1>7, <2>2
    <3> QED BY <1>3, <3>1
  <2> QED BY <2>1, <2>2
<1> QED BY <1>2, <1>4, <1>5, <1>6, <1>7

-----------------------------------------------------------------------------
UpTo(S, t) == {s \in S : LessOrEqual(s, t)}

\* A greater text has more of the others before it.
LEMMA UpToCounts ==
  ASSUME NEW S \in SUBSET Texts, IsFiniteSet(S), NEW t \in S
  PROVE  /\ Cardinality(UpTo(S, t)) \in 1..Cardinality(S)
         /\ \A u \in S : LessOrEqual(t, u) /\ t # u =>
              Cardinality(UpTo(S, t)) < Cardinality(UpTo(S, u))
<1>1. Cardinality(S) \in Nat
  BY FS_CardinalityType
<1>2. ASSUME NEW U \in SUBSET S
      PROVE  IsFiniteSet(U) /\ Cardinality(U) \in Nat /\ Cardinality(U) <= Cardinality(S)
  BY FS_Subset, FS_CardinalityType
<1>3. UpTo(S, t) \subseteq S /\ t \in UpTo(S, t)
  BY TextOrder DEF UpTo
<1>4. Cardinality(UpTo(S, t)) \in 1..Cardinality(S)
  <2>1. Cardinality(UpTo(S, t)) # 0
    BY <1>2, <1>3, FS_EmptySet
  <2> QED BY <1>1, <1>2, <1>3, <2>1
<1>5. ASSUME NEW u \in S, LessOrEqual(t, u), t # u
      PROVE  Cardinality(UpTo(S, t)) < Cardinality(UpTo(S, u))
  <2>1. u \in UpTo(S, u) /\ UpTo(S, u) \subseteq S
    BY TextOrder DEF UpTo
  <2>2. u \notin UpTo(S, t)
    BY <1>5, TextOrder DEF UpTo
  <2>3. UpTo(S, t) \subseteq UpTo(S, u) \ {u}
    <3> SUFFICES ASSUME NEW s \in UpTo(S, t) PROVE s \in UpTo(S, u)
      BY <2>2
    <3>1. s \in S /\ s \in Texts /\ LessOrEqual(s, t) /\ t \in Texts /\ u \in Texts
      BY DEF UpTo
    <3>2. LessOrEqual(s, u)
      BY <1>5, <3>1, TextOrderTransitive
    <3> QED BY <3>1, <3>2 DEF UpTo
  <2>4. Cardinality(UpTo(S, u) \ {u}) = Cardinality(UpTo(S, u)) - 1
    BY <1>2, <2>1, FS_RemoveElement
  <2>5. Cardinality(UpTo(S, t)) <= Cardinality(UpTo(S, u) \ {u})
    BY <1>2, <2>1, <2>3, FS_Subset
  <2> QED BY <1>2, <1>3, <2>1, <2>4, <2>5
<1> QED BY <1>4, <1>5

\* What sort.Strings returns: every text once, in order.
LEMMA SortedList ==
  ASSUME NEW S \in SUBSET Texts, IsFiniteSet(S)
  PROVE  /\ Sorted(S) \in Seq(S)
         /\ \A t \in S : \E i \in 1..Len(Sorted(S)) : Sorted(S)[i] = t
         /\ \A i, j \in 1..Len(Sorted(S)) : i <= j => LessOrEqual(Sorted(S)[i], Sorted(S)[j])
<1> DEFINE n == Cardinality(S)
           l == Sorted(S)
           rank == [t \in S |-> Cardinality(UpTo(S, t))]
<1>1. n \in Nat
  BY FS_CardinalityType
<1>2. \A t \in S : rank[t] \in 1..n
  BY UpToCounts
<1>3. \A t, u \in S : LessOrEqual(t, u) /\ t # u => rank[t] < rank[u]
  BY UpToCounts
<1> HIDE DEF n
<1>4. rank \in [S -> 1..n]
  BY <1>2
<1>5. \A t \in S : Cardinality(UpTo(S, t)) = rank[t]
  OBVIOUS
<1> HIDE DEF rank
<1>6. \A t, u \in S : rank[t] = rank[u] => t = u
  <2> SUFFICES ASSUME NEW t \in S, NEW u \in S, rank[t] = rank[u] PROVE t = u
    OBVIOUS
  <2>1. ~ (rank[t] < rank[u]) /\ ~ (rank[u] < rank[t])
    BY <1>1, <1>4
  <2> QED BY <1>3, <2>1, TextOrder
<1>7. \A i \in 1..n : \E t \in S : rank[t] = i
  <2>1. rank \in Injection(S, 1..n)
    BY <1>4, <1>6 DEF Injection, IsInjective
  <2>2. IsFiniteSet(1..n) /\ Cardinality(1..n) = n
    BY <1>1, FS_Interval
  <2>3. rank \in Surjection(S, 1..n)
    BY <2>1, <2>2, FS_Injection DEF n
  <2> QED BY <2>3 DEF Surjection
<1>8. l = [i \in 1..n |-> CHOOSE t \in S : Cardinality(UpTo(S, t)) = i]
  BY DEF Sorted, UpTo, n
<1>9. ASSUME NEW i \in 1..n PROVE l[i] \in S /\ rank[l[i]] = i
  <2>1. \E t \in S : Cardinality(UpTo(S, t)) = i
    BY <1>5, <1>7
  <2>2. l[i] \in S /\ Cardinality(UpTo(S, l[i])) = i
    BY <1>8, <2>1
  <2> QED BY <1>5, <2>2
<1> HIDE DEF l
<1>10. l \in Seq(S) /\ Len(l) = n
  BY <1>1, <1>8, <1>9
<1>11. ASSUME NEW i \in 1..n, NEW j \in 1..n, i <= j PROVE LessOrEqual(l[i], l[j])
  <2>1. l[i] \in S /\ l[j] \in S /\ ~ (rank[l[j]] < rank[l[i]])
    BY <1>1, <1>9, <1>11
  <2> QED BY <1>3, <2>1, TextOrder
<1>12. ASSUME NEW t \in S PROVE \E i \in 1..n : l[i] = t
  <2>1. rank[t] \in 1..n /\ l[rank[t]] = t
    BY <1>4, <1>6, <1>9
  <2> QED BY <2>1
<1> QED BY <1>10, <1>11, <1>12 DEF l

-----------------------------------------------------------------------------
\* One step of a binary search for the first of 1..n that satisfies "at least".
Halved(f, w, L) ==
  LET h == (w[1] + w[2]) \div 2
  IN  IF w[1] >= w[2] THEN w[1]
      ELSE IF L[h + 1] THEN f[<<w[1], h>>] ELSE f[<<h + 1, w[2]>>]

Halving(f, n, L) == f = [w \in (0..n) \X (0..n) |-> Halved(f, w, L)]

\* The candidates of a window, and the first of them.
Candidates(w, L) == {k \in w[1]..w[2] : k = w[2] \/ L[k + 1]}

First(w, L, k) == k \in Candidates(w, L) /\ \A m \in Candidates(w, L) : k <= m

\* The middle of a window lies in it.
LEMMA MiddleOf ==
  ASSUME NEW n \in Nat, NEW i \in 0..n, NEW j \in 0..n, i < j
  PROVE  /\ (i + j) \div 2 \in 0..n /\ i <= (i + j) \div 2 /\ (i + j) \div 2 < j
         /\ (i + j) \div 2 + 1 \in 1..n
BY SMT

\* Each step keeps the first candidate.
LEMMA HalvedFirst ==
  ASSUME NEW n \in Nat, NEW L \in [1..n -> BOOLEAN],
         \A i, j \in 1..n : i <= j /\ L[i] => L[j],
         NEW f, NEW i \in 0..n, NEW j \in 0..n, i <= j,
         \A a, b \in 0..n : a <= b /\ b - a < j - i => First(<<a, b>>, L, f[<<a, b>>])
  PROVE  First(<<i, j>>, L, Halved(f, <<i, j>>, L))
<1> DEFINE h == (i + j) \div 2
<1>1. CASE i = j
  BY <1>1 DEF Halved, First, Candidates
<1>2. CASE i < j
  <2>1. h \in 0..n /\ i <= h /\ h < j /\ h + 1 \in 1..n
    BY <1>2, MiddleOf
  <2>2. Halved(f, <<i, j>>, L) = IF L[h + 1] THEN f[<<i, h>>] ELSE f[<<h + 1, j>>]
    BY <1>2 DEF Halved
  <2> HIDE DEF h
  <2>3. CASE L[h + 1]
    <3>1. First(<<i, h>>, L, f[<<i, h>>])
      BY <2>1
    <3>2. f[<<i, h>>] \in i..h /\ L[f[<<i, h>>] + 1]
      BY <2>1, <2>3, <3>1 DEF First, Candidates
    <3> DEFINE r == f[<<i, h>>]
    <3>3. \A k, e : k \in Candidates(<<i, e>>, L) <=> (k \in i..e /\ (k = e \/ L[k + 1]))
      BY DEF Candidates
    <3>4. r \in i..h /\ r \in Candidates(<<i, j>>, L)
      BY <2>1, <3>2, <3>3
    <3>5. ASSUME NEW m \in Candidates(<<i, j>>, L) PROVE r <= m
      <4>1. m \in i..j /\ (m = j \/ L[m + 1])
        BY <3>3
      <4>2. CASE m \in i..h
        <5>1. m \in Candidates(<<i, h>>, L)
          BY <2>1, <2>3, <3>3, <4>1, <4>2
        <5> QED BY <3>1, <5>1 DEF First
      <4>3. CASE m > h
        BY <2>1, <3>4, <4>1, <4>3
      <4> QED BY <2>1, <4>1, <4>2, <4>3
    <3>6. First(<<i, j>>, L, r)
      BY <3>4, <3>5 DEF First
    <3> QED BY <2>2, <2>3, <3>6
  <2>4. CASE ~ L[h + 1]
    <3>1. First(<<h + 1, j>>, L, f[<<h + 1, j>>])
      BY <2>1
    <3>2. Candidates(<<i, j>>, L) = Candidates(<<h + 1, j>>, L)
      <4>1. ASSUME NEW k \in i..j, k <= h PROVE ~ (k = j \/ L[k + 1])
        BY <2>1, <2>4, <4>1
      <4> QED BY <2>1, <4>1 DEF Candidates
    <3> QED BY <2>2, <2>4, <3>1, <3>2 DEF First
  <2> QED BY <2>3, <2>4
<1> QED BY <1>1, <1>2

\* A function that satisfies the recursion of the search exists.
LEMMA HalvingExists ==
  ASSUME NEW n \in Nat, NEW L \in [1..n -> BOOLEAN],
         \A i, j \in 1..n : i <= j /\ L[i] => L[j]
  PROVE  \E f : Halving(f, n, L)
<1> DEFINE W == (0..n) \X (0..n)
           G == [w \in W |-> IF w[1] > w[2] THEN w[1] ELSE CHOOSE k : First(w, L, k)]
<1>1. ASSUME NEW i \in 0..n, NEW j \in 0..n, i <= j
      PROVE  First(<<i, j>>, L, G[<<i, j>>])
  <2>1. Candidates(<<i, j>>, L) \in SUBSET Nat /\ j \in Candidates(<<i, j>>, L)
    BY <1>1 DEF Candidates
  <2>2. \E k : First(<<i, j>>, L, k)
    BY <2>1, LeastNumber DEF First
  <2>3. G[<<i, j>>] = CHOOSE k : First(<<i, j>>, L, k)
    <3>1. <<i, j>> \in W /\ ~ (<<i, j>>[1] > <<i, j>>[2])
      BY <1>1
    <3>2. \A w \in W : ~ (w[1] > w[2]) => G[w] = CHOOSE k : First(w, L, k)
      OBVIOUS
    <3> HIDE DEF G, W
    <3> QED BY <3>1, <3>2
  <2> QED BY <2>2, <2>3
<1>2. ASSUME NEW i \in 0..n, NEW j \in 0..n
      PROVE  G[<<i, j>>] = Halved(G, <<i, j>>, L)
  <2>1. CASE i > j
    BY <2>1 DEF Halved
  <2>2. CASE i <= j
    <3> DEFINE k == G[<<i, j>>]
               m == Halved(G, <<i, j>>, L)
    <3>1. First(<<i, j>>, L, k)
      BY <1>1, <2>2
    <3>2. First(<<i, j>>, L, m)
      <4> HIDE DEF G
      <4> QED BY <1>1, <2>2, HalvedFirst
    <3> HIDE DEF k, m
    <3>3. k <= m /\ m <= k /\ k \in Int /\ m \in Int
      BY <3>1, <3>2 DEF First, Candidates
    <3>4. k = m
      BY <3>3
    <3> QED BY <3>4 DEF k, m
  <2> QED BY <2>1, <2>2
<1>3. \A w \in W : w = <<w[1], w[2]>> /\ w[1] \in 0..n /\ w[2] \in 0..n
  OBVIOUS
<1>4. \A w \in W : G[w] = Halved(G, w, L)
  <2> HIDE DEF G
  <2> QED BY <1>2, <1>3
<1>5. DOMAIN G = W /\ G = [w \in W |-> G[w]]
  OBVIOUS
<1> HIDE DEF G
<1>6. G = [w \in W |-> Halved(G, w, L)]
  BY <1>4, <1>5
<1> QED BY <1>6 DEF Halving

\* Whatever satisfies it finds the first candidate.
LEMMA HalvingFinds ==
  ASSUME NEW n \in Nat, NEW L \in [1..n -> BOOLEAN],
         \A i, j \in 1..n : i <= j /\ L[i] => L[j],
         NEW f, Halving(f, n, L)
  PROVE  First(<<0, n>>, L, f[<<0, n>>])
<1> DEFINE Wrong(i, j) == i <= j /\ ~ First(<<i, j>>, L, f[<<i, j>>])
           Widths == {d \in 0..n : \E i, j \in 0..n : d = j - i /\ Wrong(i, j)}
<1>1. Widths = {}
  <2> SUFFICES ASSUME Widths # {} PROVE FALSE
    OBVIOUS
  <2>1. Widths \in SUBSET Nat
    OBVIOUS
  <2>2. PICK d \in Widths : \A e \in Widths : d <= e
    <3> HIDE DEF Widths
    <3> QED BY <2>1, LeastNumber
  <2>3. PICK i \in 0..n, j \in 0..n : d = j - i /\ Wrong(i, j)
    BY <2>2
  <2>4. \A a, b \in 0..n : a <= b /\ b - a < j - i => First(<<a, b>>, L, f[<<a, b>>])
    <3> SUFFICES ASSUME NEW a \in 0..n, NEW b \in 0..n, a <= b, b - a < j - i
                 PROVE  ~ Wrong(a, b)
      OBVIOUS
    <3>1. b - a \in 0..n /\ d <= n /\ ~ (d <= b - a)
      BY <2>3
    <3> QED BY <2>2, <3>1
  <2>5. f[<<i, j>>] = Halved(f, <<i, j>>, L)
    <3>1. <<i, j>> \in (0..n) \X (0..n)
      OBVIOUS
    <3> QED BY <3>1 DEF Halving
  <2>6. First(<<i, j>>, L, Halved(f, <<i, j>>, L))
    BY <2>3, <2>4, HalvedFirst
  <2> QED BY <2>3, <2>5, <2>6
<1>2. ~ Wrong(0, n)
  <2>1. 0 \in 0..n /\ n \in 0..n /\ n = n - 0
    OBVIOUS
  <2> HIDE DEF Wrong
  <2> QED BY <1>1, <2>1
<1> QED BY <1>2

\* What sort.SearchStrings returns on a sorted list: the first position of t or
\* more, or the position after the last.
LEMMA SearchFinds ==
  ASSUME NEW l \in Seq(Texts), NEW t \in Texts,
         \A i, j \in 1..Len(l) : i <= j => LessOrEqual(l[i], l[j])
  PROVE  /\ SearchStrings(l, t) \in 1..Len(l) + 1
         /\ \A i \in 1..Len(l) : LessOrEqual(t, l[i]) <=> SearchStrings(l, t) <= i
<1> DEFINE n == Len(l)
           L == [i \in 1..n |-> LessOrEqual(t, l[i])]
<1>1. n \in Nat /\ \A i \in 1..n : l[i] \in Texts
  BY LenProperties, ElementOfSeq
<1>2. L \in [1..n -> BOOLEAN]
  <2>1. \A i \in 1..n : LessOrEqual(t, l[i]) \in BOOLEAN
    BY DEF LessOrEqual, IsPrefix
  <2> QED BY <2>1
<1>3. \A i, j \in 1..n : i <= j /\ L[i] => L[j]
  BY <1>1, TextOrderTransitive
<1> DEFINE s == CHOOSE f : Halving(f, n, L)
<1>4. Halving(s, n, L)
  <2> HIDE DEF n, L
  <2> QED BY <1>1, <1>2, <1>3, HalvingExists
<1>5. SearchStrings(l, t) = s[<<0, n>>] + 1
  <2> DEFINE Step(f, w) ==
               LET h == (w[1] + w[2]) \div 2
               IN  IF w[1] >= w[2] THEN w[1]
                   ELSE IF LessOrEqual(t, l[h + 1]) THEN f[<<w[1], h>>]
                   ELSE f[<<h + 1, w[2]>>]
  <2>1. \A f : [w \in (0..n) \X (0..n) |-> Step(f, w)]
               = [w \in (0..n) \X (0..n) |-> Halved(f, w, L)]
    <3>1. ASSUME NEW f, NEW w \in (0..n) \X (0..n) PROVE Step(f, w) = Halved(f, w, L)
      <4>1. CASE w[1] < w[2]
        <5>1. (w[1] + w[2]) \div 2 + 1 \in 1..n
          BY <1>1, <4>1, MiddleOf
        <5> QED BY <5>1 DEF Halved
      <4>2. CASE ~ (w[1] < w[2])
        BY <4>2 DEF Halved
      <4> QED BY <4>1, <4>2
    <3> HIDE DEF Step
    <3> QED BY <3>1
  <2>2. SearchStrings(l, t) =
          (CHOOSE f : f = [w \in (0..n) \X (0..n) |-> Step(f, w)])[<<0, n>>] + 1
    BY DEF SearchStrings
  <2>3. (CHOOSE f : f = [w \in (0..n) \X (0..n) |-> Step(f, w)]) = s
    <3> HIDE DEF Step, n, L
    <3> QED BY <2>1 DEF Halving
  <2> HIDE DEF Step, n, s
  <2> QED BY <2>2, <2>3
<1>6. First(<<0, n>>, L, s[<<0, n>>])
  <2> HIDE DEF n, L, s
  <2> QED BY <1>1, <1>2, <1>3, <1>4, HalvingFinds
<1> HIDE DEF s
<1>7. s[<<0, n>>] \in 0..n
  BY <1>6 DEF First, Candidates
<1>8. ASSUME NEW i \in 1..n PROVE L[i] <=> s[<<0, n>>] + 1 <= i
  <2>1. CASE L[i]
    <3>1. i - 1 \in Candidates(<<0, n>>, L)
      BY <1>1, <2>1 DEF Candidates
    <3> QED BY <1>6, <1>7, <2>1, <3>1 DEF First
  <2>2. CASE s[<<0, n>>] + 1 <= i
    <3>1. L[s[<<0, n>>] + 1]
      BY <1>1, <1>6, <1>7, <2>2 DEF First, Candidates
    <3> HIDE DEF L
    <3> QED BY <1>1, <1>3, <1>7, <2>2, <3>1
  <2> QED BY <2>1, <2>2
<1> QED BY <1>5, <1>7, <1>8

-----------------------------------------------------------------------------
\* The text of a path is spelled name by name.
Names == Seq(Nat \ {Slash}) \ {<<>>}
NamePaths == Seq(Names)

Spelling(f, p, i) ==
  IF i = 0 THEN <<>> ELSE IF i = 1 THEN p[1] ELSE f[i - 1] \o <<Slash>> \o p[i]

Spelled(f, p) == f = [i \in 0..Len(p) |-> Spelling(f, p, i)]

Spell(p) == CHOOSE f : Spelled(f, p)

\* The names of a path are texts, and not empty.
LEMMA NameFacts ==
  ASSUME NEW p \in NamePaths
  PROVE  /\ Len(p) \in Nat /\ Slash \in Nat
         /\ \A i \in 1..Len(p) : /\ p[i] \in Names /\ p[i] \in Texts
                                 /\ Len(p[i]) \in Nat /\ Len(p[i]) > 0
<1>1. \A a \in Names : a \in Texts /\ Len(a) \in Nat /\ Len(a) > 0
  <2> SUFFICES ASSUME NEW a \in Names PROVE a \in Texts /\ Len(a) \in Nat /\ Len(a) > 0
    OBVIOUS
  <2>1. a \in Seq(Nat \ {Slash}) /\ a # <<>>
    BY DEF Names
  <2>2. Len(a) \in Nat /\ Len(a) > 0
    BY <2>1, EmptySeq, LenProperties
  <2>3. a \in Seq(Nat)
    BY <2>1, <2>2, ElementOfSeq
  <2> QED BY <2>2, <2>3 DEF Texts
<1>2. \A i \in 1..Len(p) : p[i] \in Names
  BY ElementOfSeq DEF NamePaths
<1> QED BY <1>1, <1>2, LenProperties, PathIndexAssumption DEF NamePaths

\* A function that spells a path exists: one name more at a time.
LEMMA SpelledExists ==
  ASSUME NEW p \in NamePaths
  PROVE  \E f : Spelled(f, p)
<1> DEFINE Good(m) == \E f : f = [i \in 0..m |-> Spelling(f, p, i)]
           Bad == {m \in 0..Len(p) : ~ Good(m)}
<1>1. Len(p) \in Nat
  BY NameFacts
<1>2. Good(0)
  <2> DEFINE f == [i \in 0..0 |-> <<>>]
  <2>1. f = [i \in 0..0 |-> Spelling(f, p, i)]
    BY DEF Spelling
  <2> QED BY <2>1
<1>3. ASSUME NEW m \in Nat \ {0}, Good(m - 1) PROVE Good(m)
  <2>1. PICK g : g = [i \in 0..m - 1 |-> Spelling(g, p, i)]
    BY <1>3
  <2> DEFINE f == [i \in 0..m |-> IF i = m THEN Spelling(g, p, m) ELSE g[i]]
  <2>2. \A i \in 0..m - 1 : f[i] = g[i]
    OBVIOUS
  <2>3. ASSUME NEW i \in 0..m PROVE f[i] = Spelling(g, p, i)
    <3>1. CASE i = m
      BY <3>1
    <3>2. CASE i # m
      <4>1. i \in 0..m - 1
        BY <3>2
      <4>2. g[i] = Spelling(g, p, i)
        BY <2>1, <4>1
      <4> QED BY <2>2, <4>1, <4>2
    <3> QED BY <3>1, <3>2
  <2>4. ASSUME NEW i \in 0..m PROVE f[i] = Spelling(f, p, i)
    <3>1. CASE i = 0 \/ i = 1
      BY <2>3, <3>1 DEF Spelling
    <3>2. CASE i > 1
      <4>1. f[i - 1] = g[i - 1]
        BY <2>2, <3>2
      <4> HIDE DEF f
      <4> QED BY <2>3, <3>2, <4>1 DEF Spelling
    <3> QED BY <3>1, <3>2
  <2>5. f = [i \in 0..m |-> f[i]]
    OBVIOUS
  <2> HIDE DEF f
  <2>6. f = [i \in 0..m |-> Spelling(f, p, i)]
    BY <2>4, <2>5
  <2> QED BY <2>6
<1>4. Bad = {}
  <2> SUFFICES ASSUME Bad # {} PROVE FALSE
    OBVIOUS
  <2> HIDE DEF Good
  <2>1. Bad \in SUBSET Nat
    OBVIOUS
  <2>2. PICK m \in Bad : \A k \in Bad : m <= k
    <3> HIDE DEF Bad
    <3> QED BY <2>1, LeastNumber
  <2>3. m \in Nat \ {0} /\ m - 1 \in 0..Len(p) /\ ~ (m <= m - 1)
    BY <1>1, <1>2, <2>2
  <2>4. Good(m - 1)
    BY <2>2, <2>3
  <2> QED BY <1>3, <2>2, <2>3, <2>4
<1>5. Good(Len(p))
  <2> HIDE DEF Good
  <2> QED BY <1>1, <1>4
<1> QED BY <1>5 DEF Spelled

\* The text of each prefix of a path.
LEMMA SpellFacts ==
  ASSUME NEW p \in NamePaths
  PROVE  /\ Text(p) = Spell(p)[Len(p)]
         /\ \A i \in 0..Len(p) : Spell(p)[i] = Spelling(Spell(p), p, i)
         /\ \A i \in 0..Len(p) : Spell(p)[i] \in Texts
         /\ \A i \in 1..Len(p) : Len(Spell(p)[i]) > 0
<1> DEFINE f == Spell(p)
           Fine(i) == f[i] \in Texts /\ (i > 0 => Len(f[i]) > 0)
           Bad == {i \in 0..Len(p) : ~ Fine(i)}
<1>1. Len(p) \in Nat
  BY NameFacts
<1>2. Text(p) = f[Len(p)]
  BY DEF Text, Spell, Spelled, Spelling
<1>3. Spelled(f, p)
  BY SpelledExists DEF Spell
<1> HIDE DEF f
<1>4. \A i \in 0..Len(p) : f[i] = Spelling(f, p, i)
  BY <1>3 DEF Spelled
<1>5. Fine(0)
  <2>1. f[0] = <<>>
    BY <1>1, <1>4 DEF Spelling
  <2> QED BY <2>1, EmptySeq DEF Texts
<1>6. ASSUME NEW i \in 1..Len(p), Fine(i - 1) PROVE Fine(i)
  <2>1. CASE i = 1
    <3>1. f[1] = p[1]
      BY <1>1, <1>4, <2>1 DEF Spelling
    <3> QED BY <1>1, <2>1, <3>1, NameFacts
  <2>2. CASE i > 1
    <3>1. f[i] = f[i - 1] \o <<Slash>> \o p[i]
      <4>1. i \in 0..Len(p) /\ i # 0 /\ i # 1
        BY <2>2
      <4>2. f[i] = Spelling(f, p, i)
        BY <1>4, <4>1
      <4> QED BY <4>1, <4>2, Zenon DEF Spelling
    <3>2. f[i - 1] \in Texts /\ <<Slash>> \in Texts /\ p[i] \in Texts
      BY <1>6, NameFacts DEF Texts
    <3>3. f[i - 1] \o <<Slash>> \in Texts
      BY <3>2, ConcatProperties DEF Texts
    <3> DEFINE a == f[i - 1] \o <<Slash>>
    <3>4. a \in Texts /\ f[i] = a \o p[i]
      BY <3>1, <3>3
    <3> HIDE DEF a
    <3>5. f[i] \in Texts /\ Len(f[i]) = Len(a) + Len(p[i])
      BY <3>2, <3>4, ConcatProperties DEF Texts
    <3>6. Len(a) \in Nat /\ Len(p[i]) \in Nat /\ Len(p[i]) > 0
      BY <3>4, LenProperties, NameFacts DEF Texts
    <3> QED BY <3>5, <3>6
  <2> QED BY <2>1, <2>2
<1>7. Bad = {}
  <2> SUFFICES ASSUME Bad # {} PROVE FALSE
    OBVIOUS
  <2> HIDE DEF Fine
  <2>1. Bad \in SUBSET Nat
    OBVIOUS
  <2>2. PICK m \in Bad : \A k \in Bad : m <= k
    <3> HIDE DEF Bad
    <3> QED BY <2>1, LeastNumber
  <2>3. m \in 1..Len(p) /\ m - 1 \in 0..Len(p) /\ ~ (m <= m - 1)
    BY <1>1, <1>5, <2>2
  <2>4. Fine(m - 1)
    BY <2>2, <2>3
  <2> QED BY <1>6, <2>2, <2>3, <2>4
<1>8. \A i \in 0..Len(p) : Fine(i)
  BY <1>7
<1>9. \A i \in 1..Len(p) : i \in 0..Len(p) /\ i > 0
  BY <1>1
<1> QED BY <1>2, <1>4, <1>8, <1>9 DEF f

\* A later name follows a slash.
LEMMA SpellNext ==
  ASSUME NEW p \in NamePaths, NEW j \in 2..Len(p)
  PROVE  Spell(p)[j] = Spell(p)[j - 1] \o <<Slash>> \o p[j]
<1>1. j \in 0..Len(p) /\ j # 0 /\ j # 1
  BY NameFacts
<1>2. Spell(p)[j] = Spelling(Spell(p), p, j)
  BY <1>1, SpellFacts
<1> QED BY <1>1, <1>2, Zenon DEF Spelling
-----------------------------------------------------------------------------
\* The first i names of a path, each with the slash after it.
Term(p, i) == IF i = 0 THEN <<>> ELSE DescendantPrefix(Spell(p)[i])

\* It is a text.
LEMMA TermIsText ==
  ASSUME NEW p \in NamePaths, NEW i \in 0..Len(p)
  PROVE  Term(p, i) \in Texts /\ Len(Term(p, i)) \in Nat
<1>1. Term(p, i) \in Texts
  <2>1. Spell(p)[i] \in Texts /\ Slash \in Nat
    BY SpellFacts, NameFacts
  <2>2. Append(Spell(p)[i], Slash) \in Texts
    BY <2>1, AppendProperties DEF Texts
  <2> QED BY <2>2, EmptySeq DEF Term, DescendantPrefix, Texts
<1> QED BY <1>1, LenProperties DEF Texts

\* The next name goes after it.
LEMMA TermNext ==
  ASSUME NEW p \in NamePaths, NEW i \in Nat, i < Len(p)
  PROVE  /\ Spell(p)[i + 1] = Term(p, i) \o p[i + 1]
         /\ Len(Term(p, i + 1)) = Len(Term(p, i)) + Len(p[i + 1]) + 1
         /\ \A k \in 1..Len(Term(p, i)) : Term(p, i + 1)[k] = Term(p, i)[k]
         /\ \A k \in 1..Len(p[i + 1]) : Term(p, i + 1)[Len(Term(p, i)) + k] = p[i + 1][k]
         /\ Term(p, i + 1)[Len(Term(p, i)) + Len(p[i + 1]) + 1] = Slash
<1> DEFINE f == Spell(p)
           a == Term(p, i)
           b == p[i + 1]
<1>1. /\ Len(p) \in Nat /\ i + 1 \in 1..Len(p) /\ i \in 0..Len(p) /\ i + 1 \in 0..Len(p)
      /\ i + 1 # 0 /\ Slash \in Nat
  BY NameFacts
<1>2. a \in Texts /\ Len(a) \in Nat
  BY <1>1, TermIsText
<1>3. b \in Texts /\ Len(b) \in Nat
  BY <1>1, NameFacts
<1>4. f[i + 1] = a \o b
  <2>1. f[i + 1] = Spelling(f, p, i + 1)
    BY <1>1, SpellFacts
  <2>2. CASE i = 0
    <3>1. f[i + 1] = b
      BY <2>1, <2>2 DEF Spelling
    <3>2. a = <<>>
      BY <2>2 DEF Term
    <3> HIDE DEF a, b, f
    <3>3. <<>> \o b = b
      BY <1>3, ConcatEmptySeq DEF Texts
    <3> QED BY <3>1, <3>2, <3>3
  <2>3. CASE i # 0
    <3>2. PICK j \in 2..Len(p) : j = i + 1
      BY <1>1, <2>3
    <3>3. f[i + 1] = f[i] \o <<Slash>> \o b
      <4>1. f[j] = f[j - 1] \o <<Slash>> \o p[j]
        BY SpellNext
      <4>2. j - 1 = i /\ f[j] = f[i + 1] /\ p[j] = b
        BY <3>2
      <4> HIDE DEF f, b
      <4> QED BY <4>1, <4>2
    <3>4. f[i] \in Texts
      BY <1>1, SpellFacts
    <3>5. a = Append(f[i], Slash)
      BY <2>3 DEF Term, DescendantPrefix
    <3> HIDE DEF a, b, f
    <3>6. a = f[i] \o <<Slash>>
      BY <1>1, <3>4, <3>5, AppendIsConcat DEF Texts
    <3> QED BY <3>3, <3>6
  <2> QED BY <2>2, <2>3
<1>5. Term(p, i + 1) = Append(a \o b, Slash)
  BY <1>1, <1>4 DEF Term, DescendantPrefix
<1> HIDE DEF a, b, f
<1> DEFINE c == a \o b
<1>6. /\ c \in Texts /\ Len(c) = Len(a) + Len(b)
      /\ \A k \in 1..Len(a) + Len(b) : c[k] = IF k <= Len(a) THEN a[k] ELSE b[k - Len(a)]
  BY <1>2, <1>3, ConcatProperties DEF Texts
<1> HIDE DEF c
<1> DEFINE d == Append(c, Slash)
<1>7. /\ Len(d) = Len(c) + 1 /\ d[Len(c) + 1] = Slash
      /\ \A k \in 1..Len(c) : d[k] = c[k]
  BY <1>1, <1>6, AppendProperties DEF Texts
<1> HIDE DEF d
<1>8. /\ Len(d) = Len(a) + Len(b) + 1 /\ d[Len(a) + Len(b) + 1] = Slash
      /\ \A k \in 1..Len(a) : d[k] = a[k]
  BY <1>2, <1>3, <1>6, <1>7
<1>9. ASSUME NEW k \in 1..Len(b) PROVE d[Len(a) + k] = b[k]
  <2>1. Len(a) + k \in 1..Len(c) /\ ~ (Len(a) + k <= Len(a)) /\ Len(a) + k - Len(a) = k
    BY <1>2, <1>3, <1>6
  <2>2. c[Len(a) + k] = b[Len(a) + k - Len(a)]
    BY <1>6, <2>1
  <2> QED BY <1>7, <2>1, <2>2
<1>10. Term(p, i + 1) = d
  BY <1>5 DEF c, d
<1> QED BY <1>4, <1>8, <1>9, <1>10 DEF a, b, f

\* Paths that agree so far are spelled alike so far.
LEMMA TermAgrees ==
  ASSUME NEW p \in NamePaths, NEW q \in NamePaths, NEW n \in Nat, n <= Len(p), n <= Len(q),
         \A k \in 1..n : p[k] = q[k]
  PROVE  \A i \in 0..n : Term(p, i) = Term(q, i)
<1> DEFINE Bad == {i \in 0..n : Term(p, i) # Term(q, i)}
<1> SUFFICES ASSUME Bad # {} PROVE FALSE
  OBVIOUS
<1>1. Len(p) \in Nat /\ Len(q) \in Nat /\ Bad \in SUBSET Nat
  BY NameFacts
<1>2. PICK m \in Bad : \A k \in Bad : m <= k
  <2> HIDE DEF Bad
  <2> QED BY <1>1, LeastNumber
<1>3. m # 0
  BY <1>2 DEF Term
<1>4. /\ m - 1 \in Nat /\ m - 1 < Len(p) /\ m - 1 < Len(q) /\ m \in 1..n
      /\ m - 1 + 1 = m /\ m - 1 \in 0..n /\ ~ (m <= m - 1)
  BY <1>1, <1>2, <1>3
<1>5. Term(p, m - 1) = Term(q, m - 1)
  BY <1>2, <1>4
<1>6. Spell(p)[m] = Term(p, m - 1) \o p[m] /\ Spell(q)[m] = Term(q, m - 1) \o q[m]
  <2>1. Spell(p)[m - 1 + 1] = Term(p, m - 1) \o p[m - 1 + 1]
    BY <1>4, TermNext
  <2>2. Spell(q)[m - 1 + 1] = Term(q, m - 1) \o q[m - 1 + 1]
    BY <1>4, TermNext
  <2> QED BY <1>4, <2>1, <2>2
<1>7. Term(p, m) = Term(q, m)
  BY <1>3, <1>4, <1>5, <1>6 DEF Term
<1> QED BY <1>2, <1>7

\* More names make a longer text that begins with the shorter one.
LEMMA TermGrows ==
  ASSUME NEW p \in NamePaths, NEW m \in Nat, NEW n \in Nat, m <= n, n <= Len(p)
  PROVE  /\ m < n => Len(Term(p, m)) < Len(Term(p, n))
         /\ IsPrefix(Term(p, m), Term(p, n))
<1> DEFINE Fine(i) == /\ Len(Term(p, m)) + (i - m) <= Len(Term(p, i))
                      /\ \A k \in 1..Len(Term(p, m)) : Term(p, m)[k] = Term(p, i)[k]
           Bad == {i \in m..n : ~ Fine(i)}
<1>1. Len(p) \in Nat /\ Bad \in SUBSET Nat
  BY NameFacts
<1>2. \A i \in 0..n : Term(p, i) \in Texts /\ Len(Term(p, i)) \in Nat
  BY <1>1, TermIsText
<1>3. Fine(m)
  BY <1>1, <1>2
<1>4. ASSUME NEW i \in m..n - 1, Fine(i) PROVE Fine(i + 1)
  <2>1. i \in Nat /\ i < Len(p) /\ i + 1 \in 1..Len(p) /\ i \in 0..n /\ i + 1 \in 0..n
    BY <1>1
  <2>2. Len(Term(p, i + 1)) = Len(Term(p, i)) + Len(p[i + 1]) + 1
    BY <2>1, TermNext
  <2>3. \A k \in 1..Len(Term(p, i)) : Term(p, i + 1)[k] = Term(p, i)[k]
    BY <2>1, TermNext
  <2>4. Len(p[i + 1]) \in Nat /\ Len(p[i + 1]) > 0
    BY <2>1, NameFacts
  <2>5. Len(Term(p, m)) <= Len(Term(p, i)) /\ Len(Term(p, i)) \in Nat /\ Len(Term(p, m)) \in Nat
    BY <1>2, <1>4, <2>1
  <2>6. Len(Term(p, m)) + (i + 1 - m) <= Len(Term(p, i + 1))
    BY <1>4, <2>2, <2>4, <2>5
  <2>7. \A k \in 1..Len(Term(p, m)) : Term(p, m)[k] = Term(p, i + 1)[k]
    BY <1>4, <2>3, <2>5
  <2> QED BY <2>6, <2>7
<1>5. Bad = {}
  <2> SUFFICES ASSUME Bad # {} PROVE FALSE
    OBVIOUS
  <2> HIDE DEF Fine
  <2>1. PICK i \in Bad : \A k \in Bad : i <= k
    <3> HIDE DEF Bad
    <3> QED BY <1>1, LeastNumber
  <2>2. i \in m..n /\ i # m
    BY <1>3, <2>1
  <2>3. i - 1 \in m..n - 1 /\ i - 1 \in m..n /\ ~ (i <= i - 1) /\ i - 1 + 1 = i
    BY <2>2
  <2>4. Fine(i - 1)
    BY <2>1, <2>3
  <2>5. Fine(i - 1 + 1)
    BY <1>4, <2>3, <2>4
  <2> QED BY <2>1, <2>3, <2>5
<1>6. Fine(n)
  <2> HIDE DEF Fine
  <2> QED BY <1>5
<1>7. Term(p, m) \in Texts /\ Term(p, n) \in Texts
  BY <1>2
<1>8. Len(Term(p, m)) <= Len(Term(p, n)) /\ (m < n => Len(Term(p, m)) < Len(Term(p, n)))
  BY <1>2, <1>6
<1> QED BY <1>6, <1>7, <1>8, PrefixPoints

\* A name ends at its slash, so that the text after a common beginning fixes it.
LEMMA SameName ==
  ASSUME NEW p \in NamePaths, NEW q \in NamePaths, NEW t \in Texts,
         NEW i \in Nat, i < Len(p), i < Len(q), Term(p, i) = Term(q, i),
         IsPrefix(Term(p, i + 1), t), IsPrefix(Term(q, i + 1), t)
  PROVE  p[i + 1] = q[i + 1]
<1> DEFINE n == Len(Term(p, i))
           a == p[i + 1]
           b == q[i + 1]
<1>1. /\ Len(p) \in Nat /\ Len(q) \in Nat
      /\ i + 1 \in 1..Len(p) /\ i + 1 \in 1..Len(q) /\ i + 1 \in 0..Len(p) /\ i + 1 \in 0..Len(q)
      /\ i \in 0..Len(p) /\ n \in Nat
  BY NameFacts, TermIsText
<1>2. /\ a \in Names /\ b \in Names /\ a \in Texts /\ b \in Texts
      /\ Len(a) \in Nat /\ Len(b) \in Nat
  BY <1>1, NameFacts
<1>3. (\A k \in 1..Len(a) : a[k] # Slash) /\ \A k \in 1..Len(b) : b[k] # Slash
  <2>1. a \in Seq(Nat \ {Slash}) /\ b \in Seq(Nat \ {Slash})
    BY <1>2 DEF Names
  <2> HIDE DEF a, b
  <2>2. (\A k \in 1..Len(a) : a[k] \in Nat \ {Slash}) /\ \A k \in 1..Len(b) : b[k] \in Nat \ {Slash}
    BY <2>1, ElementOfSeq
  <2> QED BY <2>2
<1>4. ASSUME NEW r \in NamePaths, i < Len(r), Term(r, i) = Term(p, i),
             IsPrefix(Term(r, i + 1), t)
      PROVE  /\ \A k \in 1..Len(r[i + 1]) : t[n + k] = r[i + 1][k]
             /\ t[n + Len(r[i + 1]) + 1] = Slash
  <2> DEFINE c == r[i + 1]
             d == Term(r, i + 1)
  <2>1. i + 1 \in 0..Len(r) /\ i + 1 \in 1..Len(r)
    BY <1>4, NameFacts
  <2>2. /\ d \in Texts /\ Len(d) = n + Len(c) + 1 /\ Len(c) \in Nat
        /\ \A k \in 1..Len(c) : d[n + k] = c[k]
        /\ d[n + Len(c) + 1] = Slash
    <3>1. d \in Texts /\ Len(c) \in Nat
      BY <2>1, TermIsText, NameFacts
    <3>2. /\ Len(d) = Len(Term(r, i)) + Len(c) + 1
          /\ \A k \in 1..Len(c) : d[Len(Term(r, i)) + k] = c[k]
          /\ d[Len(Term(r, i)) + Len(c) + 1] = Slash
      BY <1>4, TermNext
    <3>3. Len(Term(r, i)) = n
      BY <1>4
    <3> HIDE DEF c, d, n
    <3> QED BY <3>1, <3>2, <3>3
  <2> HIDE DEF c, d, n
  <2>3. \A k \in 1..Len(d) : d[k] = t[k]
    BY <1>4, <2>2, PrefixPoints DEF d
  <2>4. ASSUME NEW k \in 1..Len(c) PROVE t[n + k] = c[k]
    <3>1. n + k \in 1..Len(d)
      BY <1>1, <2>2
    <3> QED BY <2>2, <2>3, <3>1
  <2>5. t[n + Len(c) + 1] = Slash
    <3>1. n + Len(c) + 1 \in 1..Len(d)
      BY <1>1, <2>2
    <3> QED BY <2>2, <2>3, <3>1
  <2> QED BY <2>4, <2>5 DEF c
<1>5. /\ \A k \in 1..Len(a) : t[n + k] = a[k]
      /\ t[n + Len(a) + 1] = Slash
  BY <1>4
<1>6. /\ \A k \in 1..Len(b) : t[n + k] = b[k]
      /\ t[n + Len(b) + 1] = Slash
  BY <1>4
<1> HIDE DEF a, b, n
<1>7. ~ (Len(a) < Len(b))
  <2> SUFFICES ASSUME Len(a) < Len(b) PROVE FALSE
    OBVIOUS
  <2>1. Len(a) + 1 \in 1..Len(b) /\ n + (Len(a) + 1) = n + Len(a) + 1
    BY <1>1, <1>2
  <2> QED BY <1>3, <1>5, <1>6, <2>1
<1>8. ~ (Len(b) < Len(a))
  <2> SUFFICES ASSUME Len(b) < Len(a) PROVE FALSE
    OBVIOUS
  <2>1. Len(b) + 1 \in 1..Len(a) /\ n + (Len(b) + 1) = n + Len(b) + 1
    BY <1>1, <1>2
  <2> QED BY <1>3, <1>5, <1>6, <2>1
<1>9. Len(a) = Len(b)
  BY <1>2, <1>7, <1>8
<1>10. \A k \in 1..Len(a) : a[k] = b[k]
  BY <1>5, <1>6, <1>9
<1>11. a = b
  BY <1>2, <1>9, <1>10, SeqEqual DEF Texts
<1> QED BY <1>11 DEF a, b

\* The path begins with the names of another.
Begins(p, q) == Len(p) <= Len(q) /\ \A k \in 1..Len(p) : p[k] = q[k]

\* Prefixes of prefixes.
LEMMA PrefixTransitive ==
  ASSUME NEW s \in Texts, NEW t \in Texts, NEW u \in Texts, IsPrefix(s, t), IsPrefix(t, u)
  PROVE  IsPrefix(s, u)
<1>1. Len(s) \in Nat /\ Len(t) \in Nat /\ Len(u) \in Nat
  BY LenProperties DEF Texts
<1> QED BY <1>1, PrefixPoints

\* With a slash after it, a text is a beginning of the text of exactly the
\* paths at or below its own.
LEMMA TermBegins ==
  ASSUME NEW p \in NamePaths, NEW q \in NamePaths
  PROVE  IsPrefix(Term(p, Len(p)), Term(q, Len(q))) <=> Begins(p, q)
<1>1. /\ Len(p) \in Nat /\ Len(q) \in Nat
      /\ Term(p, Len(p)) \in Texts /\ Term(q, Len(q)) \in Texts
  BY NameFacts, TermIsText
<1>2. ASSUME Begins(p, q) PROVE IsPrefix(Term(p, Len(p)), Term(q, Len(q)))
  <2>1. Len(p) <= Len(q) /\ \A k \in 1..Len(p) : p[k] = q[k]
    BY <1>2 DEF Begins
  <2>2. Term(p, Len(p)) = Term(q, Len(p))
    BY <1>1, <2>1, TermAgrees
  <2>3. IsPrefix(Term(q, Len(p)), Term(q, Len(q)))
    BY <1>1, <2>1, TermGrows
  <2> QED BY <2>2, <2>3
<1>3. ASSUME IsPrefix(Term(p, Len(p)), Term(q, Len(q))) PROVE Begins(p, q)
  <2> DEFINE Fine(i) == i <= Len(q) /\ \A k \in 1..i : p[k] = q[k]
             Bad == {i \in 0..Len(p) : ~ Fine(i)}
  <2>1. Fine(0)
    BY <1>1
  <2>2. ASSUME NEW i \in Nat, i < Len(p), Fine(i) PROVE Fine(i + 1)
    <3>1. /\ i + 1 <= Len(p) /\ i \in 0..Len(p) /\ i \in 0..Len(q) /\ i + 1 \in 0..Len(p)
          /\ i + 1 \in Nat
      BY <1>1, <2>2
    <3>2. Term(p, i) = Term(q, i)
      <4>1. \A k \in 0..i : Term(p, k) = Term(q, k)
        BY <1>1, <2>2, <3>1, TermAgrees
      <4> QED BY <2>2, <4>1
    <3>3. Term(p, i + 1) \in Texts
      BY <3>1, TermIsText
    <3>4. IsPrefix(Term(p, i + 1), Term(q, Len(q)))
      <4>1. IsPrefix(Term(p, i + 1), Term(p, Len(p)))
        BY <1>1, <3>1, TermGrows
      <4> QED BY <1>1, <1>3, <3>3, <4>1, PrefixTransitive
    <3>5. i < Len(q)
      <4> SUFFICES ASSUME i = Len(q) PROVE FALSE
        BY <1>1, <2>2
      <4>1. Len(Term(p, i)) < Len(Term(p, i + 1))
        BY <1>1, <3>1, TermGrows
      <4>2. Len(Term(p, i + 1)) <= Len(Term(q, Len(q)))
        BY <1>1, <3>3, <3>4, PrefixPoints
      <4>3. Len(Term(p, i + 1)) \in Nat /\ Len(Term(p, i)) \in Nat
        BY <3>1, TermIsText
      <4> QED BY <3>2, <4>1, <4>2, <4>3
    <3>6. i + 1 \in 0..Len(q) /\ i + 1 <= Len(q)
      BY <1>1, <2>2, <3>5
    <3>7. IsPrefix(Term(q, i + 1), Term(q, Len(q)))
      BY <1>1, <3>1, <3>6, TermGrows
    <3>8. p[i + 1] = q[i + 1]
      BY <1>1, <2>2, <3>2, <3>4, <3>5, <3>7, SameName
    <3>9. ASSUME NEW k \in 1..i + 1 PROVE p[k] = q[k]
      <4>1. k \in 1..i \/ k = i + 1
        BY <2>2
      <4> QED BY <2>2, <3>8, <4>1
    <3> QED BY <3>6, <3>9
  <2>3. Bad = {}
    <3> SUFFICES ASSUME Bad # {} PROVE FALSE
      OBVIOUS
    <3> HIDE DEF Fine
    <3>1. Bad \in SUBSET Nat
      BY <1>1
    <3>2. PICK m \in Bad : \A k \in Bad : m <= k
      <4> HIDE DEF Bad
      <4> QED BY <3>1, LeastNumber
    <3>3. m # 0 /\ m \in 0..Len(p)
      BY <2>1, <3>2
    <3>4. /\ m - 1 \in Nat /\ m - 1 < Len(p) /\ m - 1 \in 0..Len(p) /\ ~ (m <= m - 1)
          /\ m - 1 + 1 = m
      BY <1>1, <3>3
    <3>5. Fine(m - 1)
      BY <3>2, <3>4
    <3>6. Fine(m - 1 + 1)
      BY <2>2, <3>4, <3>5
    <3> QED BY <3>2, <3>4, <3>6
  <2>4. Fine(Len(p))
    <3> HIDE DEF Fine
    <3> QED BY <1>1, <2>3
  <2> QED BY <2>4 DEF Begins
<1> QED BY <1>2, <1>3

-----------------------------------------------------------------------------
\* The relations of paths in terms of their names.
LEMMA BeginsMeans ==
  ASSUME NEW p \in NamePaths, NEW q \in NamePaths
  PROVE  /\ Ancestor(p, q) <=> (Begins(p, q) /\ Len(p) < Len(q))
         /\ p = q <=> (Begins(p, q) /\ Begins(q, p))
<1>1. Len(p) \in Nat /\ Len(q) \in Nat
  BY NameFacts
<1>2. /\ \A k \in 1..Len(p) : p[k] \in Names
      /\ \A k \in 1..Len(q) : q[k] \in Names
  BY NameFacts
<1>3. ASSUME Len(p) < Len(q)
      PROVE  SubSeq(q, 1, Len(p)) = p <=> \A k \in 1..Len(p) : p[k] = q[k]
  <2>1. /\ SubSeq(q, 1, Len(p)) \in Seq(Names) /\ Len(SubSeq(q, 1, Len(p))) = Len(p)
        /\ \A k \in 1..Len(p) : SubSeq(q, 1, Len(p))[k] = q[k]
    BY <1>1, <1>2, <1>3, SubSeqProperties
  <2> QED BY <2>1, SeqEqual DEF NamePaths
<1>4. Ancestor(p, q) <=> (Begins(p, q) /\ Len(p) < Len(q))
  BY <1>1, <1>3 DEF Ancestor, Begins
<1>5. Begins(p, q) /\ Begins(q, p) => p = q
  BY <1>1, SeqEqual DEF Begins, NamePaths
<1>6. p = q => (Begins(p, q) /\ Begins(q, p))
  BY <1>1 DEF Begins
<1> QED BY <1>4, <1>5, <1>6

\* The text of a path that is not the docroot.
LEMMA TextFacts ==
  ASSUME NEW p \in NamePaths, p # <<>>
  PROVE  /\ Text(p) \in Texts /\ Len(Text(p)) \in Nat /\ Len(Text(p)) > 0
         /\ DescendantPrefix(Text(p)) = Term(p, Len(p)) /\ Term(p, Len(p)) \in Texts
         /\ Len(Term(p, Len(p))) = Len(Text(p)) + 1
         /\ \A k \in 1..Len(Text(p)) : Term(p, Len(p))[k] = Text(p)[k]
         /\ Term(p, Len(p))[Len(Text(p)) + 1] = Slash
<1>1. Len(p) \in Nat /\ Len(p) > 0 /\ Slash \in Nat
  BY NameFacts, EmptySeq DEF NamePaths
<1>2. /\ Text(p) \in Texts /\ Len(Text(p)) > 0
  BY <1>1, SpellFacts
<1>3. DescendantPrefix(Text(p)) = Term(p, Len(p))
  BY <1>1, SpellFacts DEF Term
<1>4. /\ Append(Text(p), Slash) \in Texts
      /\ Len(Append(Text(p), Slash)) = Len(Text(p)) + 1
      /\ \A k \in 1..Len(Text(p)) : Append(Text(p), Slash)[k] = Text(p)[k]
      /\ Append(Text(p), Slash)[Len(Text(p)) + 1] = Slash
  BY <1>1, <1>2, AppendProperties DEF Texts
<1>5. Append(Text(p), Slash) = Term(p, Len(p))
  BY <1>3 DEF DescendantPrefix
<1>6. Len(Text(p)) \in Nat
  BY <1>2, LenProperties DEF Texts
<1> QED BY <1>2, <1>3, <1>4, <1>5, <1>6

\* What the texts of two paths tell of the paths.
LEMMA TextsTell ==
  ASSUME NEW p \in NamePaths, NEW q \in NamePaths, p # <<>>, q # <<>>
  PROVE  /\ Text(p) = Text(q) => p = q
         /\ IsPrefix(DescendantPrefix(Text(p)), Text(q)) <=> Ancestor(p, q)
<1> DEFINE s == Text(p)
           t == Text(q)
           d == Term(p, Len(p))
           e == Term(q, Len(q))
<1>1. /\ s \in Texts /\ Len(s) \in Nat /\ DescendantPrefix(s) = d
      /\ d \in Texts /\ Len(d) = Len(s) + 1
      /\ \A k \in 1..Len(s) : d[k] = s[k]
      /\ d[Len(s) + 1] = Slash
  BY TextFacts
<1>2. /\ t \in Texts /\ Len(t) \in Nat /\ DescendantPrefix(t) = e
      /\ e \in Texts /\ Len(e) = Len(t) + 1
      /\ \A k \in 1..Len(t) : e[k] = t[k]
      /\ e[Len(t) + 1] = Slash
  BY TextFacts
<1>3. /\ IsPrefix(d, e) <=> Begins(p, q)
      /\ IsPrefix(e, d) <=> Begins(q, p)
  BY TermBegins
<1>4. s = t => p = q
  <2> SUFFICES ASSUME s = t PROVE p = q
    OBVIOUS
  <2>1. d = e
    BY <1>1, <1>2
  <2>2. IsPrefix(d, e) /\ IsPrefix(e, d)
    <3> HIDE DEF d, e
    <3> QED BY <1>1, <1>2, <2>1, PrefixPoints
  <2> QED BY <1>3, <2>2, BeginsMeans
<1> HIDE DEF s, t, d, e
<1>5. ASSUME IsPrefix(d, t) PROVE Ancestor(p, q)
  <2>1. Len(d) <= Len(t) /\ \A k \in 1..Len(d) : d[k] = t[k]
    BY <1>1, <1>2, <1>5, PrefixPoints
  <2>2. IsPrefix(d, e)
    BY <1>1, <1>2, <2>1, PrefixPoints
  <2>3. ~ IsPrefix(e, d)
    BY <1>1, <1>2, <2>1, PrefixPoints
  <2>4. Begins(p, q) /\ ~ Begins(q, p) /\ Len(p) \in Nat /\ Len(q) \in Nat
    BY <1>3, <2>2, <2>3, NameFacts
  <2>5. Len(p) < Len(q)
    BY <2>4 DEF Begins
  <2> QED BY <2>4, <2>5, BeginsMeans
<1>6. ASSUME Ancestor(p, q) PROVE IsPrefix(d, t)
  <2>1. Begins(p, q) /\ ~ Begins(q, p)
    <3>1. Begins(p, q) /\ Len(p) < Len(q) /\ Len(p) \in Nat /\ Len(q) \in Nat
      BY <1>6, BeginsMeans, NameFacts
    <3> QED BY <3>1 DEF Begins
  <2>2. IsPrefix(d, e) /\ ~ IsPrefix(e, d)
    BY <1>3, <2>1
  <2>3. Len(d) <= Len(e) /\ \A k \in 1..Len(d) : d[k] = e[k]
    BY <1>1, <1>2, <2>2, PrefixPoints
  <2>4. Len(d) # Len(e)
    BY <1>1, <1>2, <2>2, <2>3, PrefixPoints
  <2> QED BY <1>1, <1>2, <2>3, <2>4, PrefixPoints
<1> QED BY <1>1, <1>4, <1>5, <1>6 DEF s, t

\* The walk up a text meets the texts that it begins with, up to a slash.
LEMMA WalkMeets ==
  ASSUME NEW p \in NamePaths, p # <<>>, NEW t \in Texts
  PROVE  Text(p) \in TextAncestors(t) <=> IsPrefix(DescendantPrefix(Text(p)), t)
<1> DEFINE s == Text(p)
           d == DescendantPrefix(s)
           n == Len(s)
<1>1. /\ s \in Texts /\ n \in Nat /\ n > 0 /\ d \in Texts /\ Len(d) = n + 1
      /\ \A k \in 1..n : d[k] = s[k]
      /\ d[n + 1] = Slash
  BY TextFacts
<1>2. Len(t) \in Nat /\ \A k \in 1..Len(t) : t[k] \in Nat
  BY LenProperties, ElementOfSeq DEF Texts
<1> HIDE DEF d, s
<1>3. ASSUME NEW i \in 1..Len(t)
      PROVE  /\ SubSeq(t, 1, i - 1) \in Texts /\ Len(SubSeq(t, 1, i - 1)) = i - 1
             /\ \A k \in 1..i - 1 : SubSeq(t, 1, i - 1)[k] = t[k]
  BY <1>2, SubSeqProperties DEF Texts
<1>4. s \in TextAncestors(t) <=> \E i \in 2..Len(t) : t[i] = Slash /\ s = SubSeq(t, 1, i - 1)
  BY DEF TextAncestors
<1>5. ASSUME NEW i \in 2..Len(t), t[i] = Slash, s = SubSeq(t, 1, i - 1)
      PROVE  IsPrefix(d, t)
  <2>1. i \in 1..Len(t) /\ n = i - 1 /\ \A k \in 1..n : s[k] = t[k]
    BY <1>2, <1>3, <1>5
  <2>2. Len(d) <= Len(t) /\ \A k \in 1..Len(d) : d[k] = t[k]
    BY <1>1, <1>2, <1>5, <2>1
  <2> QED BY <1>1, <2>2, PrefixPoints
<1>6. ASSUME IsPrefix(d, t) PROVE \E i \in 2..Len(t) : t[i] = Slash /\ s = SubSeq(t, 1, i - 1)
  <2>1. Len(d) <= Len(t) /\ \A k \in 1..Len(d) : d[k] = t[k]
    BY <1>1, <1>6, PrefixPoints
  <2>2. n + 1 \in 2..Len(t) /\ n + 1 \in 1..Len(t) /\ n + 1 - 1 = n /\ t[n + 1] = Slash
    BY <1>1, <1>2, <2>1
  <2>3. \A k \in 1..n : s[k] = t[k]
    BY <1>1, <2>1
  <2>4. s = SubSeq(t, 1, n)
    <3>1. /\ SubSeq(t, 1, n) \in Texts /\ Len(SubSeq(t, 1, n)) = n
          /\ \A k \in 1..n : SubSeq(t, 1, n)[k] = t[k]
      BY <1>3, <2>2
    <3> QED BY <1>1, <2>3, <3>1, SeqEqual DEF Texts
  <2> QED BY <2>2, <2>4
<1> QED BY <1>4, <1>5, <1>6 DEF s, d

\* The texts that begin with a text follow it in the order without a gap.
LEMMA Contiguous ==
  ASSUME NEW t \in Texts, NEW y \in Texts, NEW x \in Texts,
         LessOrEqual(t, y), LessOrEqual(y, x), IsPrefix(t, x)
  PROVE  IsPrefix(t, y)
<1>1. /\ Len(t) \in Nat /\ Len(y) \in Nat /\ Len(x) \in Nat
      /\ \A k \in 1..Len(t) : t[k] \in Nat
      /\ \A k \in 1..Len(y) : y[k] \in Nat
  BY LenProperties, ElementOfSeq DEF Texts
<1> SUFFICES ASSUME ~ IsPrefix(t, y) PROVE FALSE
  OBVIOUS
<1>2. PICK i \in 1..Len(t) : i <= Len(y) /\ (\A k \in 1..i - 1 : t[k] = y[k]) /\ t[i] < y[i]
  <2>1. Precedes(t, y) /\ ~ (Len(t) <= Len(y) /\ \A k \in 1..Len(t) : t[k] = y[k])
    BY OrderPoints, PrefixPoints
  <2> QED BY <2>1 DEF Precedes
<1>3. Len(t) <= Len(x) /\ \A k \in 1..Len(t) : t[k] = x[k]
  BY PrefixPoints
<1>4. i \in 1..Len(x) /\ i <= Len(y) /\ (\A k \in 1..i - 1 : x[k] = y[k]) /\ x[i] < y[i]
  BY <1>1, <1>2, <1>3
<1>5. LessOrEqual(x, y)
  BY <1>4, OrderPoints DEF Precedes
<1>6. x = y
  BY <1>5, TextOrder
<1> QED BY <1>1, <1>2, <1>4, <1>6

-----------------------------------------------------------------------------
\* The binary search decides whether the text of some path below is indexed.
LEMMA SearchMeets ==
  ASSUME NEW S \in SUBSET Texts, IsFiniteSet(S), NEW d \in Texts
  PROVE  LET l == Sorted(S)
             position == SearchStrings(l, d)
         IN  position <= Len(l) /\ IsPrefix(d, l[position]) <=> \E x \in S : IsPrefix(d, x)
<1> DEFINE l == Sorted(S)
           position == SearchStrings(l, d)
<1>1. /\ l \in Seq(S) /\ \A t \in S : \E i \in 1..Len(l) : l[i] = t
      /\ \A i, j \in 1..Len(l) : i <= j => LessOrEqual(l[i], l[j])
  BY SortedList
<1> HIDE DEF l
<1>2. Len(l) \in Nat /\ \A i \in 1..Len(l) : l[i] \in S /\ l[i] \in Texts
  BY <1>1, LenProperties, ElementOfSeq
<1>3. l \in Seq(Texts)
  BY <1>1, <1>2
<1>4. /\ position \in 1..Len(l) + 1
      /\ \A i \in 1..Len(l) : LessOrEqual(d, l[i]) <=> position <= i
  BY <1>1, <1>3, SearchFinds
<1> HIDE DEF position
<1>5. ASSUME position <= Len(l), IsPrefix(d, l[position]) PROVE \E x \in S : IsPrefix(d, x)
  BY <1>2, <1>4, <1>5
<1>6. ASSUME NEW x \in S, IsPrefix(d, x) PROVE position <= Len(l) /\ IsPrefix(d, l[position])
  <2>1. PICK i \in 1..Len(l) : l[i] = x
    BY <1>1
  <2>2. LessOrEqual(d, l[i])
    BY <1>6, <2>1 DEF LessOrEqual
  <2>3. position <= i /\ position \in 1..Len(l)
    BY <1>2, <1>4, <2>1, <2>2
  <2>4. LessOrEqual(d, l[position]) /\ LessOrEqual(l[position], l[i])
    BY <1>1, <1>2, <1>4, <2>3
  <2>5. IsPrefix(d, l[position])
    BY <1>2, <1>6, <2>1, <2>3, <2>4, Contiguous
  <2> QED BY <1>2, <2>3, <2>5
<1> QED BY <1>5, <1>6 DEF l, position

\* Finitely many paths have finitely many texts.
LEMMA TextsFinite ==
  ASSUME NEW A \in SUBSET (NamePaths \ {<<>>}), IsFiniteSet(A)
  PROVE  IsFiniteSet({Text(a) : a \in A}) /\ {Text(a) : a \in A} \in SUBSET Texts
<1> DEFINE T == {Text(a) : a \in A}
           f == [a \in A |-> Text(a)]
<1>1. f \in Surjection(A, T)
  BY DEF Surjection
<1>2. T \in SUBSET Texts
  BY TextFacts
<1> HIDE DEF T, f
<1>3. IsFiniteSet(T)
  BY <1>1, FS_Surjection
<1> QED BY <1>2, <1>3 DEF T

\* overlaps is the relation of paths that it is named for.
LEMMA OverlapsMeans ==
  ASSUME NEW A \in SUBSET (NamePaths \ {<<>>}), IsFiniteSet(A), NEW c \in NamePaths, c # <<>>
  PROVE  Overlaps({Text(a) : a \in A}, Text(c)) <=> \E a \in A : Overlap(c, a)
<1> DEFINE T == {Text(a) : a \in A}
           t == Text(c)
           d == DescendantPrefix(t)
<1>1. IsFiniteSet(T) /\ T \in SUBSET Texts
  BY TextsFinite
<1>2. t \in Texts /\ d \in Texts
  BY TextFacts
<1>3. t \in T <=> \E a \in A : c = a
  BY TextsTell
<1>4. TextAncestors(t) \cap T # {} <=> \E a \in A : Ancestor(a, c)
  <2>1. TextAncestors(t) \cap T # {} <=> \E a \in A : Text(a) \in TextAncestors(t)
    BY Zenon
  <2>2. \A a \in A : Text(a) \in TextAncestors(t) <=> Ancestor(a, c)
    <3> SUFFICES ASSUME NEW a \in A PROVE Text(a) \in TextAncestors(t) <=> Ancestor(a, c)
      OBVIOUS
    <3>1. a \in NamePaths /\ a # <<>>
      OBVIOUS
    <3>2. Text(a) \in TextAncestors(t) <=> IsPrefix(DescendantPrefix(Text(a)), t)
      BY <1>2, <3>1, WalkMeets
    <3> QED BY <3>1, <3>2, TextsTell
  <2> QED BY <2>1, <2>2
<1>5. (\E x \in T : IsPrefix(d, x)) <=> \E a \in A : Ancestor(c, a)
  <2>1. \A a \in A : IsPrefix(d, Text(a)) <=> Ancestor(c, a)
    BY TextsTell
  <2>2. (\E x \in T : IsPrefix(d, x)) <=> \E a \in A : IsPrefix(d, Text(a))
    BY Zenon
  <2> QED BY <2>1, <2>2
<1> HIDE DEF T, t, d
<1>6. (LET l == Sorted(T)
           position == SearchStrings(l, d)
       IN  position <= Len(l) /\ IsPrefix(d, l[position])) <=> \E a \in A : Ancestor(c, a)
  BY <1>1, <1>2, <1>5, SearchMeets
<1>7. Overlaps(T, t) <=>
        \/ t \in T
        \/ TextAncestors(t) \cap T # {}
        \/ LET l == Sorted(T)
               position == SearchStrings(l, d)
           IN  position <= Len(l) /\ IsPrefix(d, l[position])
  BY DEF Overlaps, d
<1>8. Overlaps(T, t) <=> \E a \in A : Overlap(c, a)
  BY <1>3, <1>4, <1>6, <1>7, Zenon DEF Overlap
<1> QED BY <1>8 DEF T, t
-----------------------------------------------------------------------------
\* What is indexed and claimed are paths, and the result belongs to them.
CheckedInv ==
  /\ indexed \subseteq IndexPaths /\ IsFiniteSet(indexed)
  /\ claims \subseteq IndexPaths \ {<<>>}
  /\ refused = Refuses(claims, indexed)

\* Every step keeps it.
LEMMA CheckedInductive == Spec => []CheckedInv
<1>1. Init => CheckedInv
  BY FS_EmptySet DEF Init, CheckedInv, Refuses
<1>2. CheckedInv /\ [Next]_vars => CheckedInv'
  <2> SUFFICES ASSUME CheckedInv, [Next]_vars PROVE CheckedInv'
    OBVIOUS
  <2>1. ASSUME NEW p \in IndexPaths, Protect(p) PROVE CheckedInv'
    <3>1. IsFiniteSet(indexed \cup {p})
      BY FS_AddElement DEF CheckedInv
    <3> QED BY <2>1, <3>1 DEF CheckedInv, Protect, Refuses
  <2>2. ASSUME NEW p \in IndexPaths \ {<<>>}, Validate({p}) PROVE CheckedInv'
    BY <2>2 DEF CheckedInv, Validate, Refuses
  <2>3. CASE UNCHANGED vars
    BY <2>3 DEF CheckedInv, vars, Refuses
  <2> QED BY <2>1, <2>2, <2>3 DEF Next
<1> QED BY <1>1, <1>2, PTL DEF Spec

\* validateClaimsNotProtected refuses a promotion exactly when a claim is, lies
\* below or contains a protected anchor: pathOverlapIndex.overlaps, which looks
\* for one text with a binary search, misses none and reports no other, however
\* the bytes of names such as "a-b" sort among those of "a/b".
THEOREM RefusedOnOverlap == Spec => []RefusedExactlyOnOverlap
<1>1. CheckedInv => RefusedExactlyOnOverlap
  <2> SUFFICES ASSUME CheckedInv PROVE RefusedExactlyOnOverlap
    OBVIOUS
  <2>1. IndexPaths \subseteq NamePaths
    BY PathIndexAssumption DEF NamePaths, Names
  <2>2. CASE <<>> \in indexed
    <3>1. refused <=> claims # {}
      BY <2>2 DEF CheckedInv, Refuses
    <3> QED BY <2>2, <3>1 DEF RefusedExactlyOnOverlap, Overlap
  <2>3. CASE <<>> \notin indexed
    <3>1. indexed \in SUBSET (NamePaths \ {<<>>}) /\ IsFiniteSet(indexed)
      BY <2>1, <2>3 DEF CheckedInv
    <3>2. \A c \in claims : Overlaps({Text(a) : a \in indexed}, Text(c))
                              <=> \E a \in indexed : Overlap(c, a)
      BY <2>1, <3>1, OverlapsMeans DEF CheckedInv
    <3>3. refused <=> \E c \in claims : Overlaps({Text(a) : a \in indexed}, Text(c))
      BY <2>3 DEF CheckedInv, Refuses
    <3>4. refused <=> \E c \in claims : \E a \in indexed : Overlap(c, a)
      BY <3>2, <3>3, Zenon
    <3> QED BY <2>3, <3>4, Zenon DEF RefusedExactlyOnOverlap
  <2> QED BY <2>2, <2>3
<1> QED BY <1>1, CheckedInductive, PTL
=============================================================================
