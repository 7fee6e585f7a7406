---------------------------- MODULE ClaimsProofs ----------------------------
(***************************************************************************)
(* Theorems about Claims, for every tree, every set of boundaries and      *)
(* every list of refused paths, containers and hidden directories.         *)
(***************************************************************************)
EXTENDS Claims, PathProofs, FiniteSetTheorems

Path == Seq(STRING) \ {<<>>}

LEMMA Places ==
  /\ TreePaths \subseteq Path /\ UNION BoundarySets \subseteq Path
  /\ RejectedSharedPaths \subseteq Path /\ SharedContainers \subseteq Path
  /\ Hidden \subseteq Path
BY ClaimsAssumption DEF Path
-----------------------------------------------------------------------------
\* c is the claim of e where the directories in B are boundaries: e itself in a
\* shared container, otherwise the first path at or above e below them all.
Fits(B, c, e) ==
  /\ c \in Path /\ AtOrBelow(c, e.path)
  /\ Shared(e.path) => c = e.path
  /\ ~ Shared(e.path) => \A b \in B : Ancestor(b, e.path) => Len(b) < Len(c)

\* The search for the deepest boundary finds one.
LEMMA Deepest ==
  ASSUME NEW p \in Path, boundaries \subseteq Path
  PROVE  /\ DeepestBoundary(p) \in 0..Len(p) - 1
         /\ DeepestBoundary(p) > 0 => SubSeq(p, 1, DeepestBoundary(p)) \in boundaries
         /\ \A b \in boundaries : Ancestor(b, p) => Len(b) <= DeepestBoundary(p)
<1> DEFINE above == {Len(b) : b \in {c \in boundaries : Ancestor(c, p)}}
           short == {Len(p) - n : n \in above \cup {0}}
<1>1. Len(p) \in Nat /\ Len(p) > 0
  BY LenProperties, EmptySeq DEF Path
<1>2. above \subseteq 0..Len(p) - 1
  BY <1>1, LenProperties DEF Ancestor, Path
<1>3. PICK n \in above \cup {0} : \A m \in above : n >= m
  <2>1. short \subseteq Nat /\ short # {}
    BY <1>1, <1>2
  <2>2. PICK k \in short : \A j \in short : k <= j
    <3> HIDE DEF short
    <3> QED BY <2>1, LeastNumber
  <2>3. PICK n \in above \cup {0} : k = Len(p) - n
    BY <2>2
  <2>4. ASSUME NEW m \in above PROVE n >= m
    <3>1. Len(p) - m \in short
      OBVIOUS
    <3>2. k <= Len(p) - m
      BY <2>2, <3>1
    <3> HIDE DEF above
    <3> QED BY <1>1, <1>2, <2>3, <3>2
  <2> QED BY <2>4
<1>4. /\ DeepestBoundary(p) \in above \cup {0}
      /\ \A m \in above : DeepestBoundary(p) >= m
  BY <1>3 DEF DeepestBoundary
<1>5. ASSUME DeepestBoundary(p) > 0
      PROVE  SubSeq(p, 1, DeepestBoundary(p)) \in boundaries
  <2>1. DeepestBoundary(p) \in above
    BY <1>4, <1>5
  <2>2. PICK b \in boundaries : Ancestor(b, p) /\ Len(b) = DeepestBoundary(p)
    BY <2>1
  <2> QED BY <2>2 DEF Ancestor
<1> QED BY <1>1, <1>2, <1>4, <1>5

LEMMA ClaimFits ==
  ASSUME NEW e \in Entries, boundaries \subseteq Path
  PROVE  /\ Fits(boundaries, Claim(e), e)
         /\ ~ Shared(e.path) /\ Len(Claim(e)) > 1
              => SubSeq(Claim(e), 1, Len(Claim(e)) - 1) \in boundaries
<1>1. e.path \in Path
  BY Places DEF Entries
<1>2. e.path \in Seq(STRING) /\ Len(e.path) \in Nat
  BY <1>1, LenProperties DEF Path
<1>3. CASE Shared(e.path)
  BY <1>1, <1>3 DEF Claim, Fits, AtOrBelow
<1>4. CASE ~ Shared(e.path)
  <2> DEFINE n == DeepestBoundary(e.path)
             c == SubSeq(e.path, 1, n + 1)
  <2>1. /\ n \in 0..Len(e.path) - 1
        /\ n > 0 => SubSeq(e.path, 1, n) \in boundaries
        /\ \A b \in boundaries : Ancestor(b, e.path) => Len(b) <= n
    BY <1>1, Deepest
  <2>2. Claim(e) = c
    BY <1>4 DEF Claim, ClaimForPath
  <2> HIDE DEF n
  <2>3. /\ c \in Seq(STRING) /\ Len(c) = n + 1 /\ SubSeq(c, 1, n) = SubSeq(e.path, 1, n)
    <3>1. n + 1 \in 0..Len(e.path) /\ n \in 0..n + 1
      BY <1>2, <2>1
    <3> QED BY <1>2, <3>1, Prefix
  <2>4. c \in Path
    BY <1>2, <2>1, <2>3, EmptySeq DEF Path
  <2>5. AtOrBelow(c, e.path)
    <3>1. Len(c) <= Len(e.path) /\ SubSeq(e.path, 1, Len(c)) = c
      BY <1>2, <2>1, <2>3
    <3> HIDE DEF c
    <3> QED BY <1>2, <2>3, <3>1, BelowPrefix
  <2> HIDE DEF c
  <2>6. \A b \in boundaries : Ancestor(b, e.path) => Len(b) < Len(c)
    BY <2>1, <2>3, LenProperties DEF Path
  <2>7. Len(c) > 1 => SubSeq(c, 1, Len(c) - 1) \in boundaries
    <3>1. Len(c) > 1 => n > 0 /\ Len(c) - 1 = n
      BY <1>2, <2>1, <2>3
    <3> QED BY <2>1, <2>3, <3>1
  <2> QED BY <1>4, <2>2, <2>4, <2>5, <2>6, <2>7 DEF Fits
<1> QED BY <1>3, <1>4
-----------------------------------------------------------------------------
\* What a tree can be: no entry of it is below another one.
TreeInv ==
  /\ boundaries \cup found \subseteq UNION BoundarySets
  /\ tree \subseteq Entries /\ served \subseteq Entries
  /\ \A e, f \in tree : Overlap(e.path, f.path) => e = f

\* What is published is a claim for each entry of the release, by the boundaries
\* of its deploy, and nothing else; no two overlap.
ClaimInv ==
  /\ Antichain(published)
  /\ \A c \in published : \E e \in served : Visible(e) /\ Fits(found, c, e)
  /\ \A e \in served :
       ~ Refused(e) /\ (Visible(e) => \E c \in published : Fits(found, c, e))

Inv == TreeInv /\ ClaimInv

LEMMA InvInit == Init => Inv
BY DEF Init, Inv, TreeInv, ClaimInv, Antichain

\* A deploy leaves the claims of its tree, whatever was published before.
LEMMA DeployInv == Inv /\ Deploy => Inv'
<1> SUFFICES ASSUME Inv, Deploy PROVE Inv'
  OBVIOUS
<1>1. boundaries \subseteq Path /\ tree \subseteq Entries
  BY Places DEF Inv, TreeInv
<1>2. published' = Compute(tree)
  BY DEF Deploy, Removed, Old
<1>3. TreeInv'
  BY DEF Inv, TreeInv, Deploy
<1>4. \A c \in published' : \E e \in tree : Visible(e) /\ c = Claim(e)
  BY <1>2 DEF Compute
<1>5. \A e \in tree : Visible(e) => Claim(e) \in published'
  BY <1>2 DEF Compute
<1>6. \A e \in tree : Fits(boundaries, Claim(e), e) /\ ~ Refused(e)
  BY <1>1, ClaimFits DEF Deploy
<1>7. Antichain(published')
  BY <1>2 DEF Deploy, Antichain
<1>8. \A e \in tree : /\ Visible(e)' = Visible(e) /\ Refused(e)' = Refused(e)
                      /\ \A c : Fits(found, c, e)' = Fits(boundaries, c, e)
  BY DEF Deploy, Visible, Refused, Fits
<1>9. served' = tree
  BY DEF Deploy
<1>10. ClaimInv'
  BY <1>4, <1>5, <1>6, <1>7, <1>8, <1>9 DEF ClaimInv
<1> QED BY <1>3, <1>10 DEF Inv

LEMMA InvNext == Inv /\ [Next]_vars => Inv'
<1> SUFFICES ASSUME Inv, [Next]_vars PROVE Inv'
  OBVIOUS
<1>1. CASE UNCHANGED <<served, found, published>> /\ TreeInv'
  <2>1. ClaimInv'
    BY <1>1 DEF Inv, ClaimInv, Antichain, Visible, Refused, Fits
  <2> QED BY <1>1, <2>1 DEF Inv
<1>2. ASSUME NEW p \in TreePaths, NEW link \in BOOLEAN, Add(p, link) PROVE Inv'
  <2> DEFINE new == [path |-> p, link |-> link]
  <2>1. new \in Entries /\ new.path = p
    BY DEF Entries
  <2>2. \A e \in tree : ~ Overlap(e.path, p) /\ ~ Overlap(p, e.path)
    BY <1>2 DEF Add, OverlapsAny, Overlap
  <2>3. tree' = tree \cup {new} /\ UNCHANGED <<boundaries, served, found, published>>
    BY <1>2 DEF Add
  <2> HIDE DEF new
  <2>4. TreeInv'
    BY <2>1, <2>2, <2>3 DEF Inv, TreeInv
  <2> QED BY <1>1, <2>3, <2>4
<1>3. ASSUME NEW e \in Entries, Delete(e) PROVE Inv'
  BY <1>1, <1>3 DEF Delete, Inv, TreeInv
<1>4. CASE Deploy
  BY <1>4, DeployInv
<1>5. CASE Restructure
  <2>1. TreeInv'
    BY <1>5 DEF Restructure, Inv, TreeInv
  <2> QED BY <1>1, <1>5, <2>1 DEF Restructure
<1>6. CASE UNCHANGED vars
  BY <1>1, <1>6 DEF vars, Inv, TreeInv
<1> QED BY <1>2, <1>3, <1>4, <1>5, <1>6 DEF Next

LEMMA Invariance == Spec => []Inv
BY InvInit, InvNext, PTL DEF Spec

\* What the invariant says of one public claim.
LEMMA Claimed ==
  ASSUME Inv, NEW c \in published
  PROVE  \E e \in served :
           /\ e \in Entries /\ e.path \in Path /\ c \in Path
           /\ Visible(e) /\ ~ Refused(e) /\ AtOrBelow(c, e.path) /\ Fits(found, c, e)
BY Places DEF Inv, TreeInv, ClaimInv, Fits, Entries
-----------------------------------------------------------------------------
\* Trees are sets of entries, and what is public is at or above a path of one.
THEOREM TypeCorrect == Spec => []TypeOK
<1>1. ASSUME Inv PROVE TypeOK
  <2>1. \A c \in published : \E p \in TreePaths : AtOrBelow(c, p)
    BY <1>1, Claimed DEF Entries
  <2> QED BY <1>1, <2>1 DEF Inv, TreeInv, TypeOK
<1> QED BY <1>1, Invariance, PTL

\* Every file of a release is reached through exactly one claim and every claim
\* is needed, however the boundaries of the deploys before grouped the files.
THEOREM PublishedOnce == Spec => []EveryFilePublishedOnce
<1>1. ASSUME Inv PROVE EveryFilePublishedOnce
  <2>1. ASSUME NEW e \in served, Visible(e)
        PROVE  Cardinality({c \in published : AtOrBelow(c, e.path)}) = 1
    <3>1. PICK c \in published : Fits(found, c, e)
      BY <1>1, <2>1 DEF Inv, ClaimInv
    <3>2. e.path \in Path
      BY <1>1, Places DEF Inv, TreeInv, Entries
    <3>3. ASSUME NEW d \in published, AtOrBelow(d, e.path) PROVE d = c
      <4>1. Overlap(d, c)
        BY <1>1, <3>1, <3>2, <3>3, Claimed, AboveOverlap DEF Fits, Path
      <4> QED BY <1>1, <4>1 DEF Inv, ClaimInv, Antichain
    <3>4. {d \in published : AtOrBelow(d, e.path)} = {c}
      BY <3>1, <3>3 DEF Fits
    <3> QED BY <3>4, FS_Singleton
  <2>2. \A c \in published : \E e \in served : Visible(e) /\ AtOrBelow(c, e.path)
    BY <1>1, Claimed
  <2> QED BY <2>1, <2>2 DEF EveryFilePublishedOnce
<1> QED BY <1>1, Invariance, PTL
-----------------------------------------------------------------------------
\* A path with boundaries above it is not inside a claim, unless a file of the
\* release is in the place of such a boundary.
LEMMA NotBelow ==
  ASSUME Inv, NEW c \in published, NEW p \in Path, Kept(p)
  PROVE  ~ Ancestor(c, p)
<1> SUFFICES ASSUME Ancestor(c, p) PROVE FALSE
  OBVIOUS
<1>1. PICK e \in served :
        /\ e.path \in Path /\ c \in Path
        /\ AtOrBelow(c, e.path) /\ Fits(found, c, e)
  BY Claimed
<1>2. Len(c) \in 1..Len(p) - 1 /\ SubSeq(p, 1, Len(c)) = c
  BY <1>1, LenProperties, EmptySeq DEF Ancestor, Path
<1>3. c \in found /\ e.path # c
  BY <1>2 DEF Kept
<1>4. CASE Shared(e.path)
  BY <1>1, <1>3, <1>4 DEF Fits
<1>5. CASE ~ Shared(e.path)
  <2>1. Ancestor(c, e.path)
    BY <1>1, <1>3 DEF AtOrBelow
  <2>2. Len(c) < Len(c)
    BY <1>1, <1>3, <1>5, <2>1 DEF Fits
  <2> QED BY <1>2, <2>2
<1> QED BY <1>4, <1>5

\* What is above a claim is above an entry of the release.
LEMMA EntryBelow ==
  ASSUME Inv, NEW c \in published, NEW p \in Path, AtOrBelow(p, c),
         NEW e \in served, e.path \in Path, Fits(found, c, e)
  PROVE  AtOrBelow(p, e.path)
BY BelowTransitive DEF Fits, Path

\* Runtime paths, shared containers, boundaries and the namespace are neither
\* replaced nor served, given boundaries around them; in a shared container the
\* links are those of single regular files.
THEOREM PlatformKept == Spec => []PlatformPathsKept
<1>1. ASSUME Inv PROVE PlatformPathsKept
  <2> SUFFICES ASSUME NEW c \in published
               PROVE  /\ \A s \in RejectedSharedPaths \cup Hidden :
                           Kept(s) => ~ Overlap(c, s)
                      /\ \A s \in SharedContainers : Kept(s) => ~ AtOrBelow(c, s)
                      /\ \A b \in found : Kept(b) /\ (\A e \in served : e.path # b)
                                          => ~ AtOrBelow(c, b)
                      /\ Shared(c) => [path |-> c, link |-> FALSE] \in served
    BY DEF PlatformPathsKept
  <2>1. PICK e \in served :
          /\ e \in Entries /\ e.path \in Path /\ c \in Path
          /\ Visible(e) /\ ~ Refused(e) /\ AtOrBelow(c, e.path) /\ Fits(found, c, e)
    BY <1>1, Claimed
  <2>2. ASSUME NEW s \in RejectedSharedPaths \cup Hidden, Kept(s) PROVE ~ Overlap(c, s)
    <3>1. s \in Path
      BY Places
    <3>2. ~ AtOrBelow(s, e.path)
      BY <2>1, <2>2 DEF Visible, Refused, Within
    <3>3. ~ AtOrBelow(s, c)
      BY <1>1, <2>1, <3>1, <3>2, EntryBelow
    <3> QED BY <1>1, <2>2, <3>1, <3>3, NotBelow DEF Overlap, AtOrBelow
  <2>3. Shared(c) => Shared(e.path)
    BY <1>1, <2>1, Places, EntryBelow DEF Shared, Within
  <2>4. ASSUME NEW s \in SharedContainers, Kept(s) PROVE ~ AtOrBelow(c, s)
    <3>1. s # c
      <4> SUFFICES ASSUME s = c PROVE FALSE
        OBVIOUS
      <4>1. Shared(c)
        BY DEF Shared, Within, AtOrBelow
      <4>2. e.path \in SharedContainers
        BY <2>1, <2>3, <4>1 DEF Fits
      <4> QED BY <2>1, <4>2 DEF Refused
    <3> QED BY <1>1, <2>4, <3>1, Places, NotBelow DEF AtOrBelow
  <2>5. ASSUME NEW b \in found, Kept(b), \A f \in served : f.path # b
        PROVE  ~ AtOrBelow(c, b)
    <3>1. b \in Path
      BY <1>1, Places DEF Inv, TreeInv
    <3>2. b # c
      <4> SUFFICES ASSUME b = c PROVE FALSE
        OBVIOUS
      <4>1. Ancestor(b, e.path) /\ ~ Shared(e.path)
        BY <2>1, <2>5 DEF AtOrBelow, Fits
      <4>2. Len(b) < Len(b)
        BY <2>1, <4>1 DEF Fits
      <4> QED BY <3>1, <4>2, LenProperties DEF Path
    <3> QED BY <1>1, <2>5, <3>1, <3>2, NotBelow DEF AtOrBelow
  <2>6. ASSUME Shared(c) PROVE [path |-> c, link |-> FALSE] \in served
    <3>1. e.path = c /\ e.link = FALSE
      BY <2>1, <2>3, <2>6 DEF Fits, Refused, Entries
    <3> QED BY <2>1, <3>1 DEF Entries
  <2> QED BY <2>2, <2>4, <2>5, <2>6
<1> QED BY <1>1, Invariance, PTL
-----------------------------------------------------------------------------
\* Two entries whose claims are one inside the other: what separates them would
\* be a boundary above the first one's claim.
LEMMA ClaimsOverlapNot ==
  ASSUME TreeInv, \A p \in boundaries \cup SharedContainers : Enclosed(p),
         NEW e \in tree, NEW f \in tree, Ancestor(Claim(e), Claim(f))
  PROVE  FALSE
<1> DEFINE c == Claim(e)
           d == Claim(f)
<1>1. /\ e.path \in Path /\ f.path \in Path /\ boundaries \subseteq Path
      /\ e \in Entries /\ f \in Entries
  BY Places DEF TreeInv, Entries
<1>2. /\ Fits(boundaries, c, e) /\ Fits(boundaries, d, f)
      /\ ~ Shared(f.path) /\ Len(d) > 1 => SubSeq(d, 1, Len(d) - 1) \in boundaries
  BY <1>1, ClaimFits
<1> HIDE DEF c, d
<1>3. c \in Seq(STRING) /\ d \in Seq(STRING) /\ Ancestor(c, d)
  BY <1>2 DEF Fits, Path, c, d
<1>4. Len(c) \in Nat /\ Len(d) \in Nat /\ Len(c) > 0 /\ Len(c) < Len(d)
  BY <1>2, <1>3, LenProperties, EmptySeq DEF Ancestor, Fits, Path
\* The claim of e is above the entry f, so it is not the entry e.
<1>5. c # e.path
  <2> SUFFICES ASSUME c = e.path PROVE FALSE
    OBVIOUS
  <2>1. AtOrBelow(c, f.path)
    BY <1>1, <1>2, <1>3, BelowTransitive DEF AtOrBelow, Fits, Path
  <2>2. e = f
    BY <2>1 DEF TreeInv, Overlap, AtOrBelow
  <2>3. AtOrBelow(d, c)
    BY <1>2, <2>2 DEF Fits
  <2>4. Len(d) <= Len(c)
    BY <1>3, <2>3, BelowPrefix
  <2> QED BY <1>4, <2>4
<1>6. ~ Shared(e.path) /\ Ancestor(c, e.path)
  BY <1>2, <1>5 DEF Fits, AtOrBelow
\* Then it is not a boundary either.
<1>7. c \notin boundaries
  <2> SUFFICES ASSUME c \in boundaries PROVE FALSE
    OBVIOUS
  <2>1. Len(c) < Len(c)
    BY <1>2, <1>6 DEF Fits
  <2> QED BY <1>4, <2>1
<1>8. CASE Shared(f.path)
  <2>1. PICK s \in SharedContainers : AtOrBelow(s, f.path)
    BY <1>8 DEF Shared, Within
  <2>2. s \in Seq(STRING) /\ Len(s) \in Nat /\ d = f.path
    BY <1>2, <1>8, Places, LenProperties DEF Fits, Path
  <2>3. AtOrBelow(c, f.path)
    BY <1>3, <2>2 DEF AtOrBelow
  <2>4. CASE Len(c) < Len(s)
    <3>1. AtOrBelow(c, s) /\ c # s
      BY <1>1, <1>3, <2>1, <2>2, <2>3, <2>4, PrefixChain DEF Path
    <3>2. SubSeq(s, 1, Len(c)) = c /\ Len(c) \in 1..Len(s) - 1
      BY <1>4, <2>2, <2>4, <3>1 DEF AtOrBelow, Ancestor
    <3> QED BY <1>7, <3>2 DEF Enclosed
  <2>5. CASE Len(s) <= Len(c)
    <3>1. AtOrBelow(s, c)
      BY <1>1, <1>3, <2>1, <2>2, <2>3, <2>5, PrefixChain DEF Path
    <3>2. AtOrBelow(s, e.path)
      BY <1>1, <1>2, <1>3, <2>2, <3>1, BelowTransitive DEF Fits, Path
    <3> QED BY <1>6, <3>2 DEF Shared, Within
  <2> QED BY <1>4, <2>2, <2>4, <2>5
<1>9. CASE ~ Shared(f.path)
  <2> DEFINE b == SubSeq(d, 1, Len(d) - 1)
  <2>1. b \in boundaries
    BY <1>2, <1>4, <1>9
  <2>2. b \in Seq(STRING) /\ Len(b) = Len(d) - 1 /\ SubSeq(b, 1, Len(c)) = c
    <3>1. Len(d) - 1 \in 0..Len(d) /\ Len(c) \in 0..Len(d) - 1
      BY <1>4
    <3>2. SubSeq(d, 1, Len(c)) = c
      BY <1>3 DEF Ancestor
    <3> QED BY <1>3, <3>1, <3>2, Prefix
  <2> HIDE DEF b
  <2>3. CASE Len(c) = Len(b)
    <3>1. c = b
      BY <2>2, <2>3, SubSeqFull
    <3> QED BY <1>7, <2>1, <3>1
  <2>4. CASE Len(c) # Len(b)
    <3>1. Len(c) \in 1..Len(b) - 1
      BY <1>4, <2>2, <2>4
    <3> QED BY <1>7, <2>1, <2>2, <3>1 DEF Enclosed
  <2> QED BY <2>3, <2>4
<1> QED BY <1>8, <1>9

\* Where boundaries and containers have only boundaries above them, no claim of
\* a tree is inside another one.
THEOREM ApartByBoundaries == Spec => []ClaimsApart
<1>1. ASSUME Inv PROVE ClaimsApart
  <2> SUFFICES ASSUME \A p \in boundaries \cup SharedContainers : Enclosed(p),
                      NEW e \in tree, NEW f \in tree, Overlap(Claim(e), Claim(f))
               PROVE  Claim(e) = Claim(f)
    BY DEF ClaimsApart, Antichain, Compute
  <2> QED BY <1>1, ClaimsOverlapNot DEF Overlap, Inv
<1> QED BY <1>1, Invariance, PTL
=============================================================================
