--------------------------- MODULE PruningProofs ---------------------------
(***************************************************************************)
(* The active release outlives pruning, refused deploys and rollbacks to a *)
(* target that was chosen without the lock; Prune leaves exactly the       *)
(* releases it is to keep: proofs about Pruning.                           *)
(***************************************************************************)
EXTENDS Pruning, TLAPS, FiniteSetTheorems

\* A deploy is between its adoption and its end; Prune is at work.
Deploying == Phases \ {"idle"}
InPrune   == {"keeping", "removing", "clearing"}

\* The inductive invariant.  A name is used once, so a release that has just
\* been adopted is not the active one; from the switch on it is, and nothing
\* but the end of the deploy changes that; and Prune holds it in keep.
SafeInv ==
  /\ ActiveSurvives
  /\ phase \in Phases
  /\ Present \subseteq used /\ used \subseteq Ids
  /\ phase \in Deploying => run \in Present
  /\ phase = "adopted" => run # active
  /\ phase \in Deploying \ {"adopted"} => active = run
  /\ phase \in InPrune => run \in keep
  /\ phase = "clearing" => Head(list) \notin keep

\* Removing a part of a directory removes no directory.
LEMMA TearKeepsPresent ==
  ASSUME NEW r, Tear(r)
  PROVE  Present' = Present
BY DEF Tear, Present

\* The invariant holds at first.
LEMMA SafeInit == Init => SafeInv
BY DEF Init, SafeInv, ActiveSurvives, Present, Phases, Deploying, InPrune

\* Every step preserves the invariant.
LEMMA SafeNext == SafeInv /\ [Next]_vars => SafeInv'
<1> SUFFICES ASSUME SafeInv, [Next]_vars PROVE SafeInv'
  OBVIOUS
<1> USE DEF SafeInv, ActiveSurvives, Phases, Deploying, InPrune
<1>1. ASSUME NEW r \in Ids, NEW t \in Times, Adopt(r, t) PROVE SafeInv'
  <2>1. Present' = Present \cup {r}
    BY <1>1 DEF Adopt, Present
  <2>2. r # active
    BY <1>1 DEF Adopt, Ids
  <2> QED
    BY <1>1, <2>1, <2>2 DEF Adopt
<1>2. CASE Discard
  <2>1. Present' = Present \ {run} \/ Present' = Present
    BY <1>2, TearKeepsPresent DEF Discard, Without, Present
  <2> QED
    BY <1>2, <2>1 DEF Discard
<1>3. CASE Activate
  BY <1>3 DEF Activate, Present
<1>4. CASE Start
  BY <1>4 DEF Start, Present, InitialKeep
<1>5. CASE KeepNext
  BY <1>5 DEF KeepNext, Present
<1>6. CASE StopKeeping
  BY <1>6 DEF StopKeeping, Present
<1>7. CASE SkipKept
  BY <1>7 DEF SkipKept, Present
<1>8. CASE BeginRemoval
  <2>1. Present' = Present
    BY <1>8, TearKeepsPresent DEF BeginRemoval
  <2> QED
    BY <1>8, <2>1 DEF BeginRemoval
<1>9. CASE EndRemoval
  <2>1. Present' = Present \ {Head(list)}
    BY <1>9 DEF EndRemoval, Without, Present
  <2>2. Head(list) # run
    BY <1>9 DEF EndRemoval
  <2> QED
    BY <1>9, <2>1, <2>2 DEF EndRemoval
<1>10. CASE Done
  BY <1>10 DEF Done, Present
<1>11. CASE Document
  BY <1>11 DEF Document, Present
<1>12. CASE Stop
  BY <1>12 DEF Stop, Present
<1>13. CASE ChooseTarget
  BY <1>13 DEF ChooseTarget, Present
<1>14. CASE Rollback
  BY <1>14 DEF Rollback, Exists, Present
<1>15. CASE NoRollback
  BY <1>15 DEF NoRollback, Present
<1>16. CASE UNCHANGED vars
  BY <1>16 DEF vars, Present
<1> QED
  BY <1>1, <1>2, <1>3, <1>4, <1>5, <1>6, <1>7, <1>8, <1>9, <1>10, <1>11,
     <1>12, <1>13, <1>14, <1>15, <1>16 DEF Next

LEMMA Safe == Spec => []SafeInv
<1>1. Init => SafeInv
  BY SafeInit
<1>2. SafeInv /\ [Next]_vars => SafeInv'
  BY SafeNext
<1> QED
  BY <1>1, <1>2, PTL DEF Spec

\* The active release exists at every instant, for any number of releases, any
\* limit and any clock.
THEOREM ActiveNeverPruned == Spec => []ActiveSurvives
<1>1. SafeInv => ActiveSurvives
  BY DEF SafeInv
<1> QED
  BY <1>1, Safe, PTL

\* No step takes a part of the active release away: what is torn is either not
\* yet active or not in keep.
THEOREM ActiveNeverTorn == Spec => ActiveStaysWhole
<1> DEFINE Whole == active' = active /\ active # 0 /\ active \notin torn
                      => active \notin torn'
<1>1. SafeInv /\ [Next]_vars => Whole
  <2> SUFFICES ASSUME SafeInv, [Next]_vars, active' = active, active \notin torn
               PROVE  active \notin torn'
    OBVIOUS
  <2> USE DEF SafeInv, Phases, Deploying, InPrune
  <2>1. CASE Discard
    BY <2>1 DEF Discard, Tear
  <2>2. CASE BeginRemoval
    BY <2>2 DEF BeginRemoval, Tear
  <2>3. CASE EndRemoval
    BY <2>3 DEF EndRemoval
  <2>4. CASE \E r \in Ids, t \in Times : Adopt(r, t)
    BY <2>4 DEF Adopt
  <2>5. CASE Activate \/ Start \/ KeepNext \/ StopKeeping \/ SkipKept \/ Done
    BY <2>5 DEF Activate, Start, KeepNext, StopKeeping, SkipKept, Done
  <2>6. CASE Document \/ Stop \/ ChooseTarget \/ Rollback \/ NoRollback
    BY <2>6 DEF Document, Stop, ChooseTarget, Rollback, NoRollback
  <2>7. CASE UNCHANGED vars
    BY <2>7 DEF vars
  <2> QED
    BY <2>1, <2>2, <2>3, <2>4, <2>5, <2>6, <2>7 DEF Next
<1>2. SafeInv /\ [Next]_vars => [Whole]_vars
  BY <1>1
<1> QED
  BY <1>2, Safe, PTL DEF Spec, ActiveStaysWhole
-----------------------------------------------------------------------------
\* List: the order of the releases, and the sequence it makes of them.
Timed == mtime \in [Present -> Nat] /\ Present \subseteq Ids

\* The releases of S that List has before r.
Before(S, r) == {s \in S : Newer(s, r)}

LEMMA NewerOrder ==
  ASSUME Timed, NEW r \in Present, NEW s \in Present
  PROVE  /\ ~ Newer(r, r)
         /\ Newer(r, s) \/ Newer(s, r) \/ r = s
         /\ Newer(r, s) => ~ Newer(s, r)
         /\ \A t \in Present : Newer(r, s) /\ Newer(s, t) => Newer(r, t)
BY DEF Timed, Newer, Ids

LEMMA FiniteIds ==
  ASSUME NEW S \in SUBSET Ids
  PROVE  IsFiniteSet(S) /\ Cardinality(S) \in Nat
<1>1. IsFiniteSet(Ids)
  BY PruningAssumption, FS_Interval DEF Ids
<1> QED BY <1>1, FS_Subset, FS_CardinalityType

\* An older release has more of the others before it.
LEMMA BeforeCounts ==
  ASSUME Timed, NEW S \in SUBSET Present, NEW r \in S
  PROVE  /\ Cardinality(Before(S, r)) \in 0..Cardinality(S) - 1
         /\ \A q \in S : Newer(r, q) =>
              Cardinality(Before(S, r)) < Cardinality(Before(S, q))
<1>1. IsFiniteSet(S) /\ S \subseteq Present /\ S \subseteq Ids /\ Cardinality(S) \in Nat
  BY FiniteIds DEF Timed
<1>2. ASSUME NEW U \in SUBSET S, r \in U
      PROVE  /\ IsFiniteSet(U \ {r}) /\ Cardinality(U \ {r}) = Cardinality(U) - 1
             /\ Cardinality(U) \in Nat
  BY <1>1, <1>2, FS_Subset, FS_RemoveElement, FS_CardinalityType
<1>3. Before(S, r) \subseteq S \ {r} /\ Cardinality(Before(S, r)) \in Nat
  <2>1. Before(S, r) \subseteq S \ {r}
    BY <1>1, NewerOrder DEF Before
  <2> QED BY <1>1, <2>1, FS_Subset, FS_CardinalityType
<1>4. Cardinality(Before(S, r)) \in 0..Cardinality(S) - 1
  <2>1. Cardinality(Before(S, r)) <= Cardinality(S \ {r})
    BY <1>2, <1>3, FS_Subset
  <2> QED BY <1>1, <1>2, <1>3, <2>1
<1>5. ASSUME NEW q \in S, Newer(r, q)
      PROVE  Cardinality(Before(S, r)) < Cardinality(Before(S, q))
  <2>1. Before(S, q) \subseteq S /\ r \in Before(S, q)
    BY <1>5 DEF Before
  <2>2. Before(S, r) \subseteq Before(S, q) \ {r}
    BY <1>1, <1>5, NewerOrder DEF Before
  <2>3. Cardinality(Before(S, r)) <= Cardinality(Before(S, q) \ {r})
    BY <1>2, <2>1, <2>2, FS_Subset
  <2> QED BY <1>2, <1>3, <2>1, <2>3
<1> QED BY <1>4, <1>5

\* List has every release once, newest first.
LEMMA Listed ==
  ASSUME Timed, NEW S \in SUBSET Present
  PROVE  /\ ListOf(S) \in Seq(S) /\ Range(ListOf(S)) = S
         /\ \A i, j \in 1..Len(ListOf(S)) : i < j => Newer(ListOf(S)[i], ListOf(S)[j])
<1> DEFINE n == Cardinality(S)
           l == ListOf(S)
           rank == [r \in S |-> Cardinality(Before(S, r))]
<1>1. IsFiniteSet(S) /\ n \in Nat /\ S \subseteq Present
  BY FiniteIds DEF Timed
<1>2. \A r \in S : rank[r] \in 0..n - 1
  BY BeforeCounts
<1>3. \A r, q \in S : Newer(r, q) => rank[r] < rank[q]
  BY BeforeCounts
<1> HIDE DEF n
<1>4. rank \in [S -> 0..n - 1]
  BY <1>2
<1>5. \A r \in S : Cardinality(Before(S, r)) = rank[r]
  OBVIOUS
<1> HIDE DEF rank
<1>6. \A r, q \in S : rank[r] = rank[q] => r = q
  <2> SUFFICES ASSUME NEW r \in S, NEW q \in S, rank[r] = rank[q] PROVE r = q
    OBVIOUS
  <2>1. ~ (rank[r] < rank[q]) /\ ~ (rank[q] < rank[r])
    BY <1>1, <1>4
  <2> QED BY <1>1, <1>3, <2>1, NewerOrder
<1>7. \A i \in 0..n - 1 : \E r \in S : rank[r] = i
  <2>1. rank \in Injection(S, 0..n - 1)
    BY <1>4, <1>6 DEF Injection, IsInjective
  <2>2. IsFiniteSet(0..n - 1) /\ Cardinality(0..n - 1) = n
    BY <1>1, FS_Interval
  <2>3. rank \in Surjection(S, 0..n - 1)
    BY <2>1, <2>2, FS_Injection DEF n
  <2> QED BY <2>3 DEF Surjection
<1>8. l = [i \in 1..n |-> CHOOSE r \in S : Cardinality(Before(S, r)) = i - 1]
  BY DEF ListOf, Before, n
<1>9. ASSUME NEW i \in 1..n PROVE l[i] \in S /\ rank[l[i]] = i - 1
  <2>1. \E r \in S : Cardinality(Before(S, r)) = i - 1
    BY <1>1, <1>5, <1>7
  <2>2. l[i] \in S /\ Cardinality(Before(S, l[i])) = i - 1
    BY <1>8, <2>1
  <2> QED BY <1>5, <2>2
<1> HIDE DEF l
<1>10. l \in Seq(S) /\ Len(l) = n /\ DOMAIN l = 1..n
  BY <1>1, <1>8, <1>9
<1>11. ASSUME NEW i \in 1..n, NEW j \in 1..n, i < j PROVE Newer(l[i], l[j])
  <2>1. l[i] \in S /\ l[j] \in S /\ ~ (rank[l[j]] < rank[l[i]]) /\ l[i] # l[j]
    BY <1>1, <1>9, <1>11
  <2> QED BY <1>1, <1>3, <2>1, NewerOrder
<1>12. Range(l) = S
  <2>1. ASSUME NEW r \in S PROVE r \in Range(l)
    <3>1. rank[r] + 1 \in 1..n
      BY <1>1, <1>4
    <3>2. l[rank[r] + 1] = r
      BY <1>4, <1>6, <1>9, <3>1
    <3> QED BY <1>10, <3>1, <3>2 DEF Range
  <2> QED BY <1>9, <1>10, <2>1 DEF Range
<1> QED BY <1>10, <1>11, <1>12 DEF l
-----------------------------------------------------------------------------
\* The loops of Prune.  While keep is filled, it has the active release and all
\* that List has before the rest, each of which was wanted at its turn.
KeepingInv ==
  /\ list \in Seq(Present)
  /\ \A i, j \in 1..Len(list) : i < j => Newer(list[i], list[j])
  /\ keep = {run} \cup (Present \ Range(list))
  /\ \A v \in Present \ Range(list) :
       /\ \A s \in Range(list) : Newer(v, s)
       /\ Cardinality({run} \cup Before(Present, v)) < KeepReleases
  /\ Cardinality(keep) <= KeepReleases

\* While releases are removed, what is not kept is still to come.
RemovingInv ==
  /\ list \in Seq(Present)
  /\ \A i, j \in 1..Len(list) : list[i] = list[j] => i = j
  /\ keep \subseteq Present /\ Present \ keep \subseteq Range(list)
  /\ Cardinality(keep) <= KeepReleases
  /\ Cardinality(keep) < KeepReleases => Present = keep

LoopInv ==
  /\ Timed
  /\ phase = "keeping" => KeepingInv
  /\ phase \in {"removing", "clearing"} => RemovingInv
  /\ phase = "clearing" => list # <<>>

\* The rest of a sequence without repetitions.
LEMMA TailRange ==
  ASSUME NEW S, NEW l \in Seq(S), l # <<>>,
         \A i, j \in 1..Len(l) : l[i] = l[j] => i = j
  PROVE  /\ Head(l) \in S /\ Head(l) \in Range(l) /\ Range(l) \subseteq S
         /\ Tail(l) \in Seq(S \ {Head(l)}) /\ Tail(l) \in Seq(S)
         /\ Range(Tail(l)) = Range(l) \ {Head(l)}
         /\ Len(Tail(l)) = Len(l) - 1
         /\ \A i \in 1..Len(l) - 1 : Tail(l)[i] = l[i + 1] /\ i + 1 \in 1..Len(l)
<1>1. /\ Len(l) \in Nat /\ Len(l) > 0 /\ Head(l) = l[1] /\ DOMAIN l = 1..Len(l)
      /\ \A i \in 1..Len(l) : l[i] \in S
  OBVIOUS
<1>2. /\ Tail(l) \in Seq(S) /\ Len(Tail(l)) = Len(l) - 1
      /\ DOMAIN Tail(l) = 1..Len(l) - 1
      /\ \A i \in 1..Len(l) - 1 : Tail(l)[i] = l[i + 1] /\ i + 1 \in 1..Len(l)
  OBVIOUS
<1>3. \A i \in 1..Len(l) - 1 : Tail(l)[i] \in S \ {Head(l)}
  BY <1>1, <1>2
<1>4. Tail(l) \in Seq(S \ {Head(l)})
  <2> DEFINE t == Tail(l)
             m == Len(l) - 1
             T == S \ {Head(l)}
  <2>1. m \in Nat /\ t \in Seq(S) /\ Len(t) = m /\ \A i \in 1..m : t[i] \in T
    BY <1>1, <1>2, <1>3
  <2> HIDE DEF t, m, T
  <2>2. t \in [1..m -> T]
    BY <2>1
  <2>3. t \in Seq(T)
    BY <2>1, <2>2
  <2> QED BY <2>3 DEF t, T
<1>5. Range(Tail(l)) = Range(l) \ {Head(l)}
  <2>1. ASSUME NEW x \in Range(l), x # Head(l) PROVE x \in Range(Tail(l))
    <3>1. PICK i \in 1..Len(l) : l[i] = x
      BY <1>1 DEF Range
    <3>2. i - 1 \in 1..Len(l) - 1 /\ (i - 1) + 1 = i
      BY <1>1, <2>1, <3>1
    <3>3. Tail(l)[i - 1] = x
      BY <1>2, <3>1, <3>2
    <3> QED BY <1>2, <3>2, <3>3 DEF Range
  <2>2. ASSUME NEW x \in Range(Tail(l)) PROVE x \in Range(l) \ {Head(l)}
    <3>1. PICK i \in 1..Len(l) - 1 : Tail(l)[i] = x
      BY <1>2 DEF Range
    <3> QED BY <1>1, <1>2, <1>3, <3>1 DEF Range
  <2> QED BY <2>1, <2>2
<1>6. Head(l) \in S /\ Head(l) \in Range(l) /\ Range(l) \subseteq S
  BY <1>1 DEF Range
<1> QED BY <1>2, <1>4, <1>5, <1>6
-----------------------------------------------------------------------------
\* The times stay times.
LEMMA TimedNext == SafeInv /\ Timed /\ [Next]_vars => Timed'
<1> SUFFICES ASSUME SafeInv, Timed, [Next]_vars PROVE Timed'
  OBVIOUS
<1>1. Present' \subseteq Ids
  BY SafeNext DEF SafeInv
<1>2. CASE mtime' = mtime
  BY <1>2 DEF Timed, Present
<1>3. ASSUME NEW r \in Ids, NEW t \in Times, Adopt(r, t) PROVE Timed'
  <2>1. t \in Nat
    BY PruningAssumption
  <2> QED BY <1>1, <1>3, <2>1 DEF Timed, Present, Adopt
<1>4. ASSUME NEW r, Tear(r) PROVE Timed'
  <2>1. PICK t \in Times \cup {mtime[r]} : mtime' = [mtime EXCEPT ![r] = t]
    BY <1>4 DEF Tear
  <2>2. r \in Present => t \in Nat
    BY PruningAssumption DEF Timed
  <2> QED BY <1>1, <2>1, <2>2 DEF Timed, Present
<1>5. ASSUME NEW r, mtime' = Without(r) PROVE Timed'
  BY <1>1, <1>5 DEF Timed, Present, Without
<1>6. CASE Discard
  BY <1>4, <1>5, <1>6 DEF Discard
<1>7. CASE EndRemoval
  BY <1>5, <1>7 DEF EndRemoval
<1>8. CASE BeginRemoval
  BY <1>4, <1>8 DEF BeginRemoval
<1> QED
  BY <1>2, <1>3, <1>6, <1>7, <1>8
  DEF Next, Activate, Start, KeepNext, StopKeeping, SkipKept, Done, Document, Stop,
      ChooseTarget, Rollback, NoRollback, vars

\* Prune lists the releases: none is visited yet, and the active one is in keep.
LEMMA StartLoop == LoopInv /\ Start => KeepingInv'
<1> SUFFICES ASSUME LoopInv, Start PROVE KeepingInv'
  OBVIOUS
<1>1. /\ list' = ListOf(Present) /\ keep' = {run} /\ run' = run /\ mtime' = mtime
  BY DEF Start, InitialKeep
<1>2. /\ list' \in Seq(Present) /\ Range(list') = Present
      /\ \A i, j \in 1..Len(list') : i < j => Newer(list'[i], list'[j])
  BY <1>1, Listed DEF LoopInv
<1>3. Present' = Present /\ \A r, s : Newer(r, s)' = Newer(r, s)
  BY <1>1 DEF Present, Newer
<1>4. Cardinality(keep') = 1 /\ 1 <= KeepReleases
  BY <1>1, FS_Singleton, PruningAssumption
<1>5. Present' \ Range(list') = {}
  BY <1>2, <1>3
<1> QED BY <1>1, <1>2, <1>3, <1>4, <1>5 DEF KeepingInv

\* A turn of the first loop.
LEMMA KeepLoop == SafeInv /\ LoopInv /\ KeepNext => KeepingInv'
<1> SUFFICES ASSUME SafeInv, LoopInv, KeepNext PROVE KeepingInv'
  OBVIOUS
<1> DEFINE h == Head(list)
<1>1. /\ list # <<>> /\ ~ Full(keep) /\ list' = Tail(list) /\ keep' = keep \cup {h}
      /\ run' = run /\ mtime' = mtime /\ KeepingInv /\ Timed
  BY DEF KeepNext, LoopInv
<1>2. Present' = Present /\ \A r, s : Newer(r, s)' = Newer(r, s)
  BY <1>1 DEF Present, Newer
<1>3. \A r : Before(Present, r)' = Before(Present, r)
  BY <1>2 DEF Before
<1>4. \A i, j \in 1..Len(list) : list[i] = list[j] => i = j
  <2> SUFFICES ASSUME NEW i \in 1..Len(list), NEW j \in 1..Len(list), i # j
               PROVE  list[i] # list[j]
    OBVIOUS
  <2>1. /\ list[i] \in Present /\ list[j] \in Present
        /\ Newer(list[i], list[j]) \/ Newer(list[j], list[i])
    BY <1>1 DEF KeepingInv
  <2> QED BY <1>1, <2>1, NewerOrder
<1>5. /\ h \in Present /\ h \in Range(list) /\ Range(list) \subseteq Present
      /\ list' \in Seq(Present) /\ Range(list') = Range(list) \ {h}
      /\ Len(list') = Len(list) - 1
      /\ \A i \in 1..Len(list) - 1 : list'[i] = list[i + 1] /\ i + 1 \in 1..Len(list)
  BY <1>1, <1>4, TailRange DEF KeepingInv
<1>6. \A s \in Range(list) : s = h \/ Newer(h, s)
  <2> SUFFICES ASSUME NEW i \in 1..Len(list) PROVE list[i] = h \/ Newer(h, list[i])
    BY <1>1 DEF Range, KeepingInv
  <2>1. h = list[1] /\ 1 \in 1..Len(list)
    BY <1>1 DEF KeepingInv
  <2> HIDE DEF h
  <2> QED BY <1>1, <2>1 DEF KeepingInv
<1> HIDE DEF h
\* What List has before h is what has been visited.
<1>7. Before(Present, h) = Present \ Range(list)
  <2>1. ASSUME NEW s \in Present, Newer(s, h) PROVE s \notin Range(list)
    BY <1>1, <1>5, <1>6, <2>1, NewerOrder
  <2>2. ASSUME NEW v \in Present \ Range(list) PROVE Newer(v, h)
    BY <1>1, <1>5 DEF KeepingInv
  <2> QED BY <2>1, <2>2 DEF Before
<1>8. keep \subseteq Ids /\ IsFiniteSet(keep) /\ Cardinality(keep) \in Nat
  <2>1. keep \subseteq Ids
    BY <1>1 DEF KeepingInv, SafeInv, Timed, KeepNext, Deploying, Phases
  <2> QED BY <2>1, FiniteIds
<1>9. Cardinality(keep) < KeepReleases /\ KeepReleases \in Nat
  BY <1>1, <1>8, PruningAssumption DEF Full
<1>10. Cardinality(keep') <= KeepReleases
  <2>1. Cardinality(keep') <= Cardinality(keep) + 1
    BY <1>1, <1>8, FS_AddElement
  <2>2. Cardinality(keep') \in Nat
    BY <1>1, <1>8, FS_AddElement
  <2> QED BY <1>8, <1>9, <2>1, <2>2
<1>11. keep' = {run} \cup (Present \ Range(list'))
  BY <1>1, <1>5 DEF KeepingInv
<1>12. \A i, j \in 1..Len(list') : i < j => Newer(list'[i], list'[j])
  BY <1>1, <1>5 DEF KeepingInv
<1>13. ASSUME NEW v \in Present \ Range(list')
       PROVE  /\ \A s \in Range(list') : Newer(v, s)
              /\ Cardinality({run} \cup Before(Present, v)) < KeepReleases
  <2>1. CASE v = h
    <3>1. {run} \cup Before(Present, h) = keep
      BY <1>1, <1>7 DEF KeepingInv
    <3> QED BY <1>5, <1>6, <1>9, <2>1, <3>1
  <2>2. CASE v # h
    BY <1>1, <1>5, <2>2 DEF KeepingInv
  <2> QED BY <2>1, <2>2
<1> QED BY <1>1, <1>2, <1>3, <1>5, <1>10, <1>11, <1>12, <1>13 DEF KeepingInv

\* The first loop ends.
LEMMA EndLoop == SafeInv /\ LoopInv /\ StopKeeping => RemovingInv'
<1> SUFFICES ASSUME SafeInv, LoopInv, StopKeeping PROVE RemovingInv'
  OBVIOUS
<1>1. /\ list = <<>> \/ Full(keep)
      /\ list' = ListOf(Present) /\ keep' = keep /\ mtime' = mtime /\ KeepingInv /\ Timed
  BY DEF StopKeeping, LoopInv
<1>2. Present' = Present
  BY <1>1 DEF Present
<1>3. /\ list' \in Seq(Present) /\ Range(list') = Present
      /\ \A i, j \in 1..Len(list') : i < j => Newer(list'[i], list'[j])
  BY <1>1, Listed
<1>4. \A i, j \in 1..Len(list') : list'[i] = list'[j] => i = j
  <2> SUFFICES ASSUME NEW i \in 1..Len(list'), NEW j \in 1..Len(list'), i # j
               PROVE  list'[i] # list'[j]
    OBVIOUS
  <2>1. /\ list'[i] \in Present /\ list'[j] \in Present
        /\ Newer(list'[i], list'[j]) \/ Newer(list'[j], list'[i])
    BY <1>3
  <2> QED BY <1>1, <2>1, NewerOrder
<1>5. keep \subseteq Present
  BY <1>1 DEF KeepingInv, SafeInv, StopKeeping, Deploying, Phases
<1>6. Cardinality(keep) < KeepReleases => Present = keep
  <2>1. KeepReleases \in Nat /\ Cardinality(keep) \in Nat
    BY <1>1, <1>5, FiniteIds, PruningAssumption DEF Timed
  <2>2. ASSUME list = <<>> PROVE Present = keep
    <3>1. Range(list) = {}
      BY <2>2 DEF Range
    <3> QED BY <1>1, <1>5, <3>1 DEF KeepingInv
  <2> QED BY <1>1, <2>1, <2>2 DEF Full
<1>7. Cardinality(keep) <= KeepReleases
  BY <1>1 DEF KeepingInv
<1> QED BY <1>1, <1>2, <1>3, <1>4, <1>5, <1>6, <1>7 DEF RemovingInv

\* A turn of the second loop.
LEMMA RemoveLoop ==
  SafeInv /\ LoopInv /\ (SkipKept \/ BeginRemoval \/ EndRemoval) => RemovingInv'
<1> SUFFICES ASSUME SafeInv, LoopInv, SkipKept \/ BeginRemoval \/ EndRemoval
             PROVE  RemovingInv'
  OBVIOUS
<1> DEFINE h == Head(list)
<1>1. RemovingInv /\ list # <<>> /\ keep' = keep
  BY DEF LoopInv, SkipKept, BeginRemoval, EndRemoval
<1>2. /\ h \in Present /\ h \in Range(list)
      /\ Tail(list) \in Seq(Present) /\ Tail(list) \in Seq(Present \ {h})
      /\ Range(Tail(list)) = Range(list) \ {h}
      /\ Len(Tail(list)) = Len(list) - 1
      /\ \A i \in 1..Len(list) - 1 : Tail(list)[i] = list[i + 1] /\ i + 1 \in 1..Len(list)
  BY <1>1, TailRange DEF RemovingInv
<1>3. \A i, j \in 1..Len(Tail(list)) : Tail(list)[i] = Tail(list)[j] => i = j
  <2> SUFFICES ASSUME NEW i \in 1..Len(Tail(list)), NEW j \in 1..Len(Tail(list)),
                      Tail(list)[i] = Tail(list)[j]
               PROVE  i = j
    OBVIOUS
  <2>1. list[i + 1] = list[j + 1] /\ i + 1 \in 1..Len(list) /\ j + 1 \in 1..Len(list)
    BY <1>2
  <2>2. i + 1 = j + 1
    BY <1>1, <2>1 DEF RemovingInv
  <2> QED BY <2>2
<1>4. CASE SkipKept
  <2>1. /\ list' = Tail(list) /\ h \in keep /\ Present' = Present
    BY <1>4 DEF SkipKept, Present
  <2> HIDE DEF h
  <2> QED BY <1>1, <1>2, <1>3, <2>1 DEF RemovingInv
<1>5. CASE BeginRemoval
  <2>1. list' = list /\ Present' = Present
    BY <1>5, TearKeepsPresent DEF BeginRemoval
  <2> QED BY <1>1, <2>1 DEF RemovingInv
<1>6. CASE EndRemoval
  <2>1. list' = Tail(list) /\ Present' = Present \ {h} /\ h \notin keep
    BY <1>6 DEF EndRemoval, Without, Present, SafeInv
  <2> HIDE DEF h
  <2>2. Cardinality(keep) < KeepReleases => Present \ {h} = keep
    BY <1>1, <1>2, <2>1 DEF RemovingInv
  <2> QED BY <1>1, <1>2, <1>3, <2>1, <2>2 DEF RemovingInv
<1> QED BY <1>4, <1>5, <1>6

\* Every other step leaves the loops alone, or there is none.
LEMMA LoopNext == SafeInv /\ LoopInv /\ [Next]_vars => LoopInv'
<1> SUFFICES ASSUME SafeInv, LoopInv, [Next]_vars PROVE LoopInv'
  OBVIOUS
<1>1. Timed'
  BY TimedNext DEF LoopInv
<1>2. CASE phase' \notin InPrune
  BY <1>1, <1>2 DEF LoopInv, InPrune
<1>3. CASE UNCHANGED <<mtime, phase, run, list, keep>>
  BY <1>1, <1>3
  DEF LoopInv, KeepingInv, RemovingInv, Present, Before, Newer
<1>4. CASE Start
  BY <1>1, <1>4, StartLoop DEF LoopInv, Start
<1>5. CASE KeepNext
  BY <1>1, <1>5, KeepLoop DEF LoopInv, KeepNext
<1>6. CASE StopKeeping
  BY <1>1, <1>6, EndLoop DEF LoopInv, StopKeeping
<1>7. CASE SkipKept \/ BeginRemoval \/ EndRemoval
  BY <1>1, <1>7, RemoveLoop DEF LoopInv, SkipKept, BeginRemoval, EndRemoval
<1> QED
  BY <1>2, <1>3, <1>4, <1>5, <1>6, <1>7
  DEF Next, Adopt, Discard, Activate, Done, Document, Stop, ChooseTarget, Rollback,
      NoRollback, vars, InPrune

LEMMA LoopHolds == Spec => [](SafeInv /\ LoopInv)
<1>1. Init => LoopInv
  BY DEF Init, LoopInv, Timed, Present
<1> QED BY <1>1, SafeInit, SafeNext, LoopNext, PTL DEF Spec

\* Prune removes a release only when KeepReleases others are to stay, and ends with
\* exactly these, whatever the clock did and earlier commands have left.
THEOREM PruneKeeps == Spec => PruneKeepsEnough
<1>1. ASSUME LoopInv, [Next]_vars, phase = "removing", phase' = "clearing"
      PROVE  keep \subseteq Present /\ Cardinality(keep) = KeepReleases
  <2>1. RemovingInv
    BY <1>1 DEF LoopInv
  <2>2. list # <<>> /\ Head(list) \notin keep
    BY <1>1
    DEF Next, Adopt, Discard, Activate, Start, KeepNext, StopKeeping, SkipKept,
        BeginRemoval, EndRemoval, Done, Document, Stop, ChooseTarget, Rollback,
        NoRollback, vars
  <2>3. Head(list) \in Present
    BY <2>1, <2>2, TailRange DEF RemovingInv
  <2>4. Cardinality(keep) \in Nat /\ KeepReleases \in Nat
    BY <1>1, <2>1, FiniteIds, PruningAssumption DEF RemovingInv, LoopInv, Timed
  <2> QED BY <2>1, <2>2, <2>3, <2>4 DEF RemovingInv
<1>2. ASSUME LoopInv, [Next]_vars, phase = "removing", phase' = "pruned"
      PROVE  Present = keep /\ Cardinality(keep) <= KeepReleases
  <2>1. list = <<>>
    BY <1>2
    DEF Next, Adopt, Discard, Activate, Start, KeepNext, StopKeeping, SkipKept,
        BeginRemoval, EndRemoval, Done, Document, Stop, ChooseTarget, Rollback,
        NoRollback, vars
  <2>2. Range(list) = {}
    BY <2>1 DEF Range
  <2> QED BY <1>2, <2>2 DEF LoopInv, RemovingInv
<1> QED BY <1>1, <1>2, LoopHolds, PTL DEF Spec, PruneKeepsEnough

\* With a clock that only goes forward the first loop computes KeepSet, which
\* Promotion has in its place.
THEOREM LoopIsKeepSet == Spec => LoopComputesKeepSet
<1> DEFINE Forward == \A r, s \in Present : r < s => mtime[r] <= mtime[s]
<1>1. ASSUME SafeInv, LoopInv, [Next]_vars, phase = "keeping", phase' = "removing", Forward
      PROVE  keep = KeepSet(Present, KeepReleases, active)
  <2>1. /\ KeepingInv /\ Timed /\ active = run /\ run \in Present
        /\ list = <<>> \/ Full(keep)
    BY <1>1
    DEF LoopInv, SafeInv, Deploying, Phases, Next, Adopt, Discard, Activate, Start,
        KeepNext, StopKeeping, SkipKept, BeginRemoval, EndRemoval, Done, Document,
        Stop, ChooseTarget, Rollback, NoRollback, vars
  <2>2. ASSUME NEW r \in Present PROVE Before(Present, r) = {n \in Present : n > r}
    <3>1. ASSUME NEW n \in Present PROVE Newer(n, r) <=> n > r
      <4>1. n \in Int /\ r \in Int /\ mtime[n] \in Int /\ mtime[r] \in Int
        BY <2>1 DEF Timed, Ids
      <4>2. (n < r => mtime[n] <= mtime[r]) /\ (r < n => mtime[r] <= mtime[n])
        BY <1>1
      <4> QED BY <4>1, <4>2 DEF Newer
    <3> QED BY <3>1 DEF Before
  <2>3. ASSUME NEW r \in keep
        PROVE  /\ r \in Present
               /\ r = run \/ Cardinality({run} \cup Before(Present, r)) < KeepReleases
    BY <2>1 DEF KeepingInv
  <2>4. ASSUME NEW r \in Present \ keep
        PROVE  r # run /\ ~ (Cardinality({run} \cup Before(Present, r)) < KeepReleases)
    <3>1. r \in Range(list) /\ r # run
      BY <2>1 DEF KeepingInv
    <3>2. keep \subseteq {run} \cup Before(Present, r)
      BY <2>1, <3>1 DEF KeepingInv, Before
    <3>3. {run} \cup Before(Present, r) \subseteq Ids /\ keep \subseteq Ids
      BY <2>1, <3>2 DEF Before, Timed
    <3>4. Cardinality(keep) <= Cardinality({run} \cup Before(Present, r))
      BY <3>2, <3>3, FiniteIds, FS_Subset
    <3>5. Cardinality(keep) >= KeepReleases
      BY <2>1, <3>1 DEF Full, Range
    <3> QED BY <3>1, <3>3, <3>4, <3>5, FiniteIds, PruningAssumption
  <2>5. KeepSet(Present, KeepReleases, active)
          = {r \in Present : \/ r = run
                            \/ Cardinality({run} \cup Before(Present, r)) < KeepReleases}
    BY <2>1, <2>2 DEF KeepSet
  <2> QED BY <2>3, <2>4, <2>5
<1> QED BY <1>1, LoopHolds, PTL DEF Spec, LoopComputesKeepSet
=============================================================================
