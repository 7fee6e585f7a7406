----------------------------- MODULE PathProofs -----------------------------
(***************************************************************************)
(* The order of prefixes on paths, and least numbers: the lemmas about     *)
(* Paths that the proofs about Claims and about the docroot both need.     *)
(***************************************************************************)
EXTENDS Paths, TLAPS, SequenceTheorems, NaturalsInduction, WellFoundedInduction

\* The prefix of a prefix.
LEMMA Prefix ==
  ASSUME NEW p \in Seq(STRING), NEW n \in 0..Len(p)
  PROVE  /\ SubSeq(p, 1, n) \in Seq(STRING) /\ Len(SubSeq(p, 1, n)) = n
         /\ \A m \in 0..n : SubSeq(SubSeq(p, 1, n), 1, m) = SubSeq(p, 1, m)
<1>1. Len(p) \in Nat
  BY LenProperties
<1>2. SubSeq(p, 1, n) \in Seq(STRING) /\ Len(SubSeq(p, 1, n)) = n
  <2>1. CASE n = 0
    BY <2>1, SubSeqEmpty, EmptySeq
  <2>2. CASE n # 0
    BY <1>1, <2>2, SubSeqProperties
  <2> QED BY <2>1, <2>2
<1>3. ASSUME NEW m \in 0..n PROVE SubSeq(SubSeq(p, 1, n), 1, m) = SubSeq(p, 1, m)
  <2>1. CASE m = 0
    BY <1>1, <1>2, <2>1, SubSeqEmpty
  <2>2. CASE m # 0
    <3>1. \A i \in 1..m : SubSeq(p, 1, n)[i] = p[i]
      BY <1>1, <2>2, SubSeqProperties
    <3> DEFINE q == SubSeq(p, 1, n)
    <3>2. q \in Seq(STRING) /\ Len(q) = n /\ m \in 1..n
      BY <1>1, <1>2, <2>2
    <3>3. /\ SubSeq(q, 1, m) \in Seq(STRING) /\ Len(SubSeq(q, 1, m)) = m
          /\ \A i \in 1..m : SubSeq(q, 1, m)[i] = q[i]
      <4> HIDE DEF q
      <4> QED BY <3>2, SubSeqProperties
    <3>4. /\ SubSeq(p, 1, m) \in Seq(STRING) /\ Len(SubSeq(p, 1, m)) = m
          /\ \A i \in 1..m : SubSeq(p, 1, m)[i] = p[i]
      BY <1>1, <2>2, SubSeqProperties
    <3>5. \A i \in 1..m : SubSeq(q, 1, m)[i] = SubSeq(p, 1, m)[i]
      BY <3>1, <3>3, <3>4
    <3> HIDE DEF q
    <3>6. SubSeq(q, 1, m) = SubSeq(p, 1, m)
      BY <3>3, <3>4, <3>5, SeqEqual
    <3> QED BY <3>6 DEF q
  <2> QED BY <2>1, <2>2
<1> QED BY <1>2, <1>3

\* At or below is to be a prefix.
LEMMA BelowPrefix ==
  ASSUME NEW p \in Seq(STRING), NEW q \in Seq(STRING)
  PROVE  AtOrBelow(p, q) <=> Len(p) <= Len(q) /\ SubSeq(q, 1, Len(p)) = p
<1>1. Len(p) \in Nat /\ Len(q) \in Nat /\ SubSeq(q, 1, Len(q)) = q
  BY LenProperties, SubSeqFull
<1>2. CASE Len(p) = Len(q)
  BY <1>1, <1>2 DEF AtOrBelow, Ancestor
<1>3. CASE Len(p) # Len(q)
  BY <1>1, <1>3 DEF AtOrBelow, Ancestor
<1> QED BY <1>2, <1>3

\* Two prefixes of one path: the shorter is a prefix of the longer.
LEMMA PrefixChain ==
  ASSUME NEW p \in Seq(STRING), NEW q \in Seq(STRING), NEW r \in Seq(STRING),
         AtOrBelow(p, r), AtOrBelow(q, r), Len(p) <= Len(q)
  PROVE  AtOrBelow(p, q)
<1>1. /\ Len(p) \in Nat /\ Len(q) \in Nat /\ Len(r) \in Nat
      /\ Len(q) <= Len(r) /\ SubSeq(r, 1, Len(p)) = p /\ SubSeq(r, 1, Len(q)) = q
  BY BelowPrefix, LenProperties
<1>2. SubSeq(SubSeq(r, 1, Len(q)), 1, Len(p)) = SubSeq(r, 1, Len(p))
  BY <1>1, Prefix
<1> QED BY <1>1, <1>2, BelowPrefix

LEMMA BelowTransitive ==
  ASSUME NEW p \in Seq(STRING), NEW q \in Seq(STRING), NEW r \in Seq(STRING),
         AtOrBelow(p, q), AtOrBelow(q, r)
  PROVE  AtOrBelow(p, r)
<1>1. /\ Len(p) \in Nat /\ Len(q) \in Nat /\ Len(r) \in Nat
      /\ Len(p) <= Len(q) /\ Len(q) <= Len(r)
      /\ SubSeq(q, 1, Len(p)) = p /\ SubSeq(r, 1, Len(q)) = q
  BY BelowPrefix, LenProperties
<1>2. SubSeq(SubSeq(r, 1, Len(q)), 1, Len(p)) = SubSeq(r, 1, Len(p))
  BY <1>1, Prefix
<1>3. Len(p) <= Len(r) /\ SubSeq(r, 1, Len(p)) = p
  BY <1>1, <1>2
<1> QED BY <1>3, BelowPrefix

\* Paths at or above one path overlap.
LEMMA AboveOverlap ==
  ASSUME NEW p \in Seq(STRING), NEW q \in Seq(STRING), NEW r \in Seq(STRING),
         AtOrBelow(p, r), AtOrBelow(q, r)
  PROVE  Overlap(p, q)
<1>1. Len(p) \in Nat /\ Len(q) \in Nat
  BY LenProperties
<1>2. CASE Len(p) <= Len(q)
  BY <1>2, PrefixChain DEF AtOrBelow, Overlap
<1>3. CASE Len(q) <= Len(p)
  BY <1>3, PrefixChain DEF AtOrBelow, Overlap
<1> QED BY <1>1, <1>2, <1>3
-----------------------------------------------------------------------------
\* The least member of a set of numbers.
LEMMA LeastNumber ==
  ASSUME NEW S \in SUBSET Nat, S # {}
  PROVE  \E m \in S : \A s \in S : m <= s
<1> DEFINE R == OpToRel(<, Nat)
<1>1. PICK m \in S : \A s \in S : <<s, m>> \notin R
  <2>1. IsWellFoundedOn(R, Nat)
    BY NatLessThanWellFounded
  <2> HIDE DEF R
  <2> QED BY <2>1, WFMin
<1>2. ASSUME NEW s \in S PROVE m <= s
  <2>1. <<s, m>> \in Nat \X Nat /\ <<s, m>>[1] = s /\ <<s, m>>[2] = m
    OBVIOUS
  <2>2. ~ (s < m)
    BY <1>1, <2>1 DEF OpToRel
  <2> QED BY <2>2
<1> QED BY <1>2
=============================================================================
