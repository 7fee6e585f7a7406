-------------------------- MODULE PromotionProofs --------------------------
(***************************************************************************)
(* Proofs about Promotion, for every set of deployments, paths and commits *)
(* and every bound: the type invariant, then the store.  "current" never   *)
(* dangles; the store implements ReleaseStore; and what a command that     *)
(* fails leaves of its release follows from the history of a release id.   *)
(***************************************************************************)
EXTENDS Promotion, PathProofs, FiniteSetTheorems

\* The type invariant in three parts, and what a running command has at hand: a
\* release, and at one of these labels a path.
DocrootOK ==
  /\ node \in [PublicPaths -> Nodes]
  /\ tmp \in [PublicPaths -> [PublicPaths -> Nodes]]
  /\ marker \in Deployments \cup {NoMarker, WordPress}

StoreOK ==
  /\ stored \in [Deployments -> [Ids -> Commits \cup {NoCommit}]]
  /\ meta \in [Deployments -> SUBSET Ids]
  /\ current \in [Deployments -> 0..MaxReleases]
  /\ incoming \in [Deployments -> SUBSET Ids]
  /\ log \in [Deployments -> SUBSET PublicPaths]
  /\ nextId \in [Deployments -> 1..(MaxReleases + 1)]

ControlOK ==
  /\ pc \in [Deployments -> Labels]
  /\ job \in [Deployments -> Job]
  /\ verdict \in [Deployments -> Statuses]
  /\ faults \in 0..MaxFaults

AtPath == {"place", "swap", "record", "drop"}

RunningJob == {j \in Job : j.run \in Ids}

HasWork ==
  \A d \in Deployments : /\ pc[d] \in AtPath => job[d].todo # {}
                         /\ pc[d] # "idle" => job[d] \in RunningJob

TypeInv == DocrootOK /\ StoreOK /\ ControlOK /\ HasWork

LEMMA TypeInvTypeOK == TypeInv => TypeOK
BY DEF TypeInv, DocrootOK, StoreOK, ControlOK, TypeOK
-----------------------------------------------------------------------------
\* First picks a member of a set of paths.
LEMMA FirstInSet ==
  ASSUME NEW S \in SUBSET PublicPaths, S # {}
  PROVE  First(S) \in S
<1>1. PICK p \in S : \A q \in S : Rank[p] <= Rank[q]
  BY PromotionAssumption
<1> QED BY <1>1 DEF First

LEMMA NextPath ==
  ASSUME TypeInv, NEW d \in Deployments, job[d].todo # {}
  PROVE  First(job[d].todo) \in PublicPaths
BY FirstInSet DEF TypeInv, ControlOK, Job

LEMMA NoJobType == NoJob \in Job
BY PromotionAssumption DEF NoJob, Job, Kinds, Ids

\* The operations on the file system yield file systems.
FileSystem == [PublicPaths -> Nodes]

LEMMA NothingType == Nothing \in FileSystem
BY DEF Nothing, FileSystem, Nodes, Plain

LEMMA LinkType ==
  ASSUME NEW p \in PublicPaths, NEW d \in Deployments
  PROVE  LinkAt(p, d) \in FileSystem
BY DEF LinkAt, Nothing, FileSystem, Nodes, Plain

LEMMA MkdirType ==
  ASSUME NEW fs \in FileSystem, NEW p
  PROVE  MkdirParents(fs, p) \in FileSystem
BY DEF MkdirParents, FileSystem, Nodes, Plain

LEMMA GraftType ==
  ASSUME NEW fs \in FileSystem, NEW t \in FileSystem, NEW p
  PROVE  Graft(fs, p, t) \in FileSystem
BY DEF Graft, FileSystem

LEMMA ExchangedType ==
  ASSUME DocrootOK, NEW p \in PublicPaths
  PROVE  Exchanged(p) \in [PublicPaths -> FileSystem]
<1>1. Displaced(p) \in FileSystem
  BY DEF Displaced, FileSystem, DocrootOK, Nodes, Plain
<1> QED BY <1>1, NothingType DEF Exchanged, DocrootOK, FileSystem

LEMMA ClearedType ==
  ASSUME DocrootOK, NEW d
  PROVE  Cleared(d) \in Deployments \cup {NoMarker, WordPress}
BY DEF DocrootOK, Cleared

\* The sets of claims a command computes with are sets of public paths.
LEMMA ClaimsType ==
  ASSUME NEW c PROVE ClaimsIn(c) \in SUBSET PublicPaths
BY PromotionAssumption DEF ClaimsIn

LEMMA RemovalsType ==
  ASSUME TypeInv, NEW d \in Deployments
  PROVE  /\ Removals(d) \in SUBSET PublicPaths
         /\ Blocking(d, Removals(d)) \in SUBSET PublicPaths
BY ClaimsType DEF Removals, Blocking, OldClaims, TypeInv, ControlOK, Job
-----------------------------------------------------------------------------
\* A step of control keeps the control state well typed.
LEMMA GotoType ==
  ASSUME TypeInv, NEW d \in Deployments, NEW l \in Labels, NEW j \in RunningJob,
         l \in AtPath => j.todo # {}, Goto(d, l, j)
  PROVE  ControlOK' /\ HasWork'
BY DEF TypeInv, ControlOK, HasWork, Goto, RunningJob

LEMMA ExitType ==
  ASSUME TypeInv, NEW d \in Deployments, NEW s \in Statuses, Exit(d, s),
         faults' \in 0..MaxFaults
  PROVE  ControlOK' /\ HasWork'
<1>1. pc' \in [Deployments -> Labels]
  BY DEF TypeInv, ControlOK, Exit, Labels
<1>2. job' \in [Deployments -> Job] /\ verdict' \in [Deployments -> Statuses]
  BY NoJobType DEF TypeInv, ControlOK, Exit
<1>3. HasWork'
  BY DEF TypeInv, ControlOK, HasWork, Exit, AtPath
<1> QED BY <1>1, <1>2, <1>3 DEF ControlOK

LEMMA UnwindType ==
  ASSUME TypeInv, NEW d \in Deployments, Unwind(d), faults' \in 0..MaxFaults
  PROVE  /\ StoreOK' /\ ControlOK' /\ HasWork'
         /\ marker' \in Deployments \cup {NoMarker, WordPress}
<1>1. ControlOK' /\ HasWork'
  BY ExitType DEF Unwind, Statuses
<1>2. StoreOK'
  <2>1. job[d] \in Job
    BY DEF TypeInv, ControlOK
  <2>2. stored' \in [Deployments -> [Ids -> Commits \cup {NoCommit}]]
    BY DEF TypeInv, StoreOK, Unwind
  <2>3. incoming' \in [Deployments -> SUBSET Ids]
    BY DEF TypeInv, StoreOK, Unwind
  <2> QED BY <2>2, <2>3 DEF TypeInv, StoreOK, Unwind
<1>3. marker' \in Deployments \cup {NoMarker, WordPress}
  BY ClearedType DEF TypeInv, DocrootOK, Unwind
<1> QED BY <1>1, <1>2, <1>3
-----------------------------------------------------------------------------
\* Only a command that runs takes steps.
LEMMA StepRuns ==
  ASSUME NEW d, CommandStep(d)
  PROVE  pc[d] # "idle"
BY DEF CommandStep, TidyOne, TidyDone, Probe, NoSuchRelease, Mark, Scan, Adopt,
  Compute, Refuse, Inspect, Unlink, StartReconcile, Check, Reject, Place,
  CannotPlace, Stray, Swap, CannotSwap, Record, Drop, SwitchCurrent,
  DoneRetiring, Verify, CannotVerify, RunHook, Unmark, Prune, DonePruning,
  Document

\* Every step keeps the type invariant.  One step of the proof for each action;
\* where an action writes the docroot or the store, the part it writes is typed
\* first.
LEMMA CommandStepType ==
  ASSUME TypeInv, NEW d \in Deployments, CommandStep(d)
  PROVE  TypeInv'
<1> DEFINE j == job[d]
           p == First(j.todo)
<1>j. j \in RunningJob /\ pc[d] \in Labels
  BY StepRuns DEF TypeInv, ControlOK, HasWork
<1>f. faults \in 0..MaxFaults
  BY DEF TypeInv, ControlOK
<1>1. CASE TidyOne(d)
  <2>1. p \in PublicPaths
    BY <1>1, NextPath DEF TidyOne
  <2>2. DocrootOK'
    BY <1>1, <2>1, NothingType DEF TidyOne, TypeInv, DocrootOK, FileSystem
  <2>3. ControlOK' /\ HasWork'
    <3>1. [j EXCEPT !.todo = @ \ {p}] \in RunningJob
      BY <1>j DEF Job, RunningJob
    <3> QED BY <1>1, <1>j, <3>1, GotoType DEF TidyOne, AtPath
  <2> QED BY <1>1, <2>2, <2>3 DEF TidyOne, TypeInv, StoreOK, store
<1>2. CASE TidyDone(d)
  <2>1. StoreOK'
    BY <1>2 DEF TidyDone, TypeInv, StoreOK
  <2>3. [j EXCEPT !.todo = j.removed] \in RunningJob
    BY <1>j DEF Job, RunningJob
  <2>4. ControlOK' /\ HasWork'
    BY <1>2, <1>j, <2>3, GotoType DEF TidyDone, AtPath, Labels
  <2> QED BY <1>2, <2>1, <2>4 DEF TidyDone, TypeInv, DocrootOK, docroot
<1>3. CASE Probe(d)
  <2>1. DocrootOK'
    BY <1>3, ClearedType DEF Probe, TypeInv, DocrootOK
  <2>2. ControlOK' /\ HasWork'
    BY <1>3, <1>j, GotoType DEF Probe, AtPath, Labels
  <2> QED BY <1>3, <2>1, <2>2 DEF Probe, TypeInv, StoreOK, store
<1>4. CASE NoSuchRelease(d)
  <2>1. DocrootOK'
    BY <1>4, ClearedType DEF NoSuchRelease, TypeInv, DocrootOK
  <2>2. ControlOK' /\ HasWork'
    BY <1>4, <1>f, ExitType DEF NoSuchRelease, Statuses
  <2> QED BY <1>4, <2>1, <2>2 DEF NoSuchRelease, TypeInv, StoreOK, store
<1>5. CASE Mark(d)
  <2>1. DocrootOK'
    BY <1>5 DEF Mark, TypeInv, DocrootOK
  <2>2. [j EXCEPT !.owned = TRUE] \in RunningJob
    BY <1>j DEF Job, RunningJob
  <2>3. ControlOK' /\ HasWork'
    BY <1>5, <2>2, GotoType DEF Mark, AtPath, Labels
  <2> QED BY <1>5, <2>1, <2>3 DEF Mark, TypeInv, StoreOK, store
<1>6. CASE Scan(d)
  <2>1. [j EXCEPT !.links = Links(d)] \in RunningJob
    BY <1>j DEF Job, RunningJob, Links
  <2>2. ControlOK' /\ HasWork'
    BY <1>6, <2>1, GotoType DEF Scan, AtPath, Labels
  <2> QED BY <1>6, <2>2 DEF Scan, TypeInv, StoreOK, DocrootOK, docroot, store
<1>7. CASE Adopt(d)
  <2>1. StoreOK'
    BY <1>7, <1>j DEF Adopt, TypeInv, StoreOK, Job, RunningJob
  <2>2. Adopted(j) \in RunningJob
    BY <1>j DEF Job, RunningJob, Adopted
  <2>3. ControlOK' /\ HasWork'
    BY <1>7, <2>2, GotoType DEF Adopt, AtPath, Labels
  <2> QED BY <1>7, <2>1, <2>3 DEF Adopt, TypeInv, DocrootOK, docroot
<1>8. CASE Compute(d)
  <2>1. [Validated(j) EXCEPT !.links = {}, !.removed = Removals(d),
                             !.todo = Blocking(d, Removals(d))] \in RunningJob
    BY <1>j, RemovalsType DEF Job, RunningJob, Validated
  <2>2. ControlOK' /\ HasWork'
    BY <1>8, <2>1, GotoType DEF Compute, AtPath, Labels
  <2> QED BY <1>8, <2>2 DEF Compute, TypeInv, StoreOK, DocrootOK, docroot, store
<1>9. CASE Refuse(d)
  BY <1>9, <1>f, UnwindType DEF Refuse, Fail, TypeInv, DocrootOK
<1>10. CASE Inspect(d)
  <2>1. /\ [j EXCEPT !.ours = TRUE] \in RunningJob
        /\ [j EXCEPT !.todo = @ \ {p}] \in RunningJob
    BY <1>j DEF Job, RunningJob
  <2>2. ControlOK' /\ HasWork'
    BY <1>10, <1>j, <2>1, GotoType DEF Inspect, AtPath
  <2> QED BY <1>10, <2>2 DEF Inspect, TypeInv, StoreOK, DocrootOK, docroot, store
<1>11. CASE Unlink(d)
  <2>1. DocrootOK'
    BY <1>11 DEF Unlink, TypeInv, DocrootOK, Nodes, Plain
  <2>2. [j EXCEPT !.todo = @ \ {p}, !.ours = FALSE] \in RunningJob
    BY <1>j DEF Job, RunningJob
  <2>3. ControlOK' /\ HasWork'
    BY <1>11, <1>j, <2>2, GotoType DEF Unlink, AtPath
  <2> QED BY <1>11, <2>1, <2>3 DEF Unlink, TypeInv, StoreOK, store
<1>12. CASE StartReconcile(d)
  <2>1. StoreOK'
    BY <1>12 DEF StartReconcile, TypeInv, StoreOK
  <2>2. [j EXCEPT !.todo = NewClaims(d)] \in RunningJob
    BY <1>j, ClaimsType DEF Job, RunningJob, NewClaims
  <2>3. ControlOK' /\ HasWork'
    BY <1>12, <2>2, GotoType DEF StartReconcile, AtPath, Labels
  <2> QED BY <1>12, <2>1, <2>3 DEF StartReconcile, TypeInv, DocrootOK, docroot
<1>13. CASE Check(d)
  <2>1. ControlOK' /\ HasWork'
    BY <1>13, <1>j, GotoType DEF Check, Labels
  <2> QED BY <1>13, <2>1 DEF Check, TypeInv, StoreOK, DocrootOK, docroot, store
<1>14. CASE Reject(d)
  BY <1>14, <1>f, UnwindType DEF Reject, Fail, TypeInv, DocrootOK
<1>15. CASE Place(d)
  <2>1. j.todo # {}
    BY <1>15 DEF Place, TypeInv, HasWork, AtPath
  <2>2. p \in PublicPaths
    BY <2>1, NextPath
  <2>3. DocrootOK'
    BY <1>15, <2>2, MkdirType, LinkType DEF Place, TypeInv, DocrootOK, FileSystem
  <2>4. ControlOK' /\ HasWork'
    BY <1>15, <1>j, <2>1, GotoType DEF Place, Labels
  <2> QED BY <1>15, <2>3, <2>4 DEF Place, TypeInv, StoreOK, store
<1>16. CASE CannotPlace(d)
  <2>1. node' \in [PublicPaths -> Nodes]
    BY <1>16, MkdirType DEF CannotPlace, TypeInv, DocrootOK, FileSystem
  <2> QED BY <1>16, <2>1, <1>f, UnwindType DEF CannotPlace, TypeInv, DocrootOK
<1>17. CASE Stray(d)
  <2>1. j.todo # {}
    BY <1>17 DEF Stray, TypeInv, HasWork, AtPath
  <2>2. p \in PublicPaths
    BY <2>1, NextPath
  <2>3. [NextClaim(j) EXCEPT !.strayed = @ \cup {p}] \in RunningJob
    BY <1>j, <2>2 DEF Job, RunningJob, NextClaim
  <2>4. ControlOK' /\ HasWork'
    BY <1>17, <2>3, GotoType DEF Stray, AtPath, Labels
  <2> QED BY <1>17, <2>4 DEF Stray, TypeInv, StoreOK, DocrootOK, docroot, store
<1>18. CASE Swap(d)
  <2>1. j.todo # {}
    BY <1>18 DEF Swap, TypeInv, HasWork, AtPath
  <2>2. p \in PublicPaths
    BY <2>1, NextPath
  <2>3. DocrootOK'
    BY <1>18, <2>2, GraftType, ExchangedType DEF Swap, TypeInv, DocrootOK, FileSystem
  <2>4. NextClaim(j) \in RunningJob
    BY <1>j DEF Job, RunningJob, NextClaim
  <2>5. ControlOK' /\ HasWork'
    BY <1>18, <1>j, <2>1, <2>4, GotoType DEF Swap, AtPath, Labels
  <2> QED BY <1>18, <2>3, <2>5 DEF Swap, TypeInv, StoreOK, store
<1>19. CASE CannotSwap(d)
  BY <1>19, <1>f, UnwindType DEF CannotSwap, Fail, TypeInv, DocrootOK
<1>20. CASE Record(d)
  <2>1. j.todo # {}
    BY <1>20 DEF Record, TypeInv, HasWork, AtPath
  <2>2. p \in PublicPaths
    BY <2>1, NextPath
  <2>3. StoreOK'
    BY <1>20, <2>2 DEF Record, TypeInv, StoreOK
  <2>4. ControlOK' /\ HasWork'
    BY <1>20, <1>j, <2>1, GotoType DEF Record, Labels
  <2> QED BY <1>20, <2>3, <2>4 DEF Record, TypeInv, DocrootOK, docroot
<1>21. CASE Drop(d)
  <2>1. DocrootOK'
    BY <1>21, NothingType DEF Drop, TypeInv, DocrootOK, FileSystem
  <2>2. NextClaim(j) \in RunningJob
    BY <1>j DEF Job, RunningJob, NextClaim
  <2>3. ControlOK' /\ HasWork'
    BY <1>21, <2>2, GotoType DEF Drop, AtPath, Labels
  <2> QED BY <1>21, <2>1, <2>3 DEF Drop, TypeInv, StoreOK, store
<1>22. CASE SwitchCurrent(d)
  <2>1. StoreOK'
    BY <1>22, <1>j DEF SwitchCurrent, TypeInv, StoreOK, Job, RunningJob
  <2>2. [j EXCEPT !.todo = log[d]] \in RunningJob
    BY <1>j DEF Job, RunningJob, TypeInv, StoreOK
  <2>3. ControlOK' /\ HasWork'
    BY <1>22, <2>2, GotoType DEF SwitchCurrent, AtPath, Labels
  <2> QED BY <1>22, <2>1, <2>3 DEF SwitchCurrent, TypeInv, DocrootOK, docroot
<1>23. CASE DoneRetiring(d)
  <2>1. ControlOK' /\ HasWork'
    BY <1>23, <1>j, GotoType DEF DoneRetiring, AtPath, Labels
  <2> QED BY <1>23, <2>1 DEF DoneRetiring, TypeInv, StoreOK, DocrootOK, docroot, store
<1>24. CASE Verify(d)
  <2>1. ControlOK' /\ HasWork'
    BY <1>24, <1>j, GotoType DEF Verify, AtPath, Labels
  <2> QED BY <1>24, <2>1 DEF Verify, TypeInv, StoreOK, DocrootOK, docroot, store
<1>25. CASE CannotVerify(d)
  BY <1>25, <1>f, UnwindType DEF CannotVerify, Fail, TypeInv, DocrootOK
<1>26. CASE RunHook(d)
  <2>1. ControlOK' /\ HasWork'
    BY <1>26, <1>j, GotoType DEF RunHook, AtPath, Labels
  <2> QED BY <1>26, <2>1 DEF RunHook, TypeInv, StoreOK, DocrootOK, docroot, store
<1>27. CASE Unmark(d)
  <2>1. DocrootOK'
    BY <1>27, ClearedType DEF Unmark, TypeInv, DocrootOK
  <2>2. [j EXCEPT !.owned = FALSE] \in RunningJob
    BY <1>j DEF Job, RunningJob
  <2>3. ControlOK' /\ HasWork'
    <3>1. CASE j.kind = "deploy"
      BY <1>27, <2>2, <3>1, GotoType DEF Unmark, AtPath, Labels
    <3>2. CASE j.kind # "deploy"
      BY <1>27, <1>f, <3>2, ExitType DEF Unmark, Statuses
    <3> QED BY <3>1, <3>2
  <2> QED BY <1>27, <2>1, <2>3 DEF Unmark, TypeInv, StoreOK, store
<1>28. CASE Prune(d)
  <2>1. StoreOK'
    <3>1. PICK r \in Prunable(d) : stored' = [stored EXCEPT ![d][r] = NoCommit]
      BY <1>28 DEF Prune
    <3>2. stored' \in [Deployments -> [Ids -> Commits \cup {NoCommit}]]
      BY <3>1 DEF TypeInv, StoreOK
    <3> QED BY <1>28, <3>2 DEF Prune, TypeInv, StoreOK
  <2>2. ControlOK' /\ HasWork'
    BY <1>28 DEF Prune, TypeInv, ControlOK, HasWork
  <2> QED BY <1>28, <2>1, <2>2 DEF Prune, TypeInv, DocrootOK, docroot
<1>29. CASE DonePruning(d)
  <2>1. ControlOK' /\ HasWork'
    BY <1>29, <1>j, GotoType DEF DonePruning, AtPath, Labels
  <2> QED BY <1>29, <2>1 DEF DonePruning, TypeInv, StoreOK, DocrootOK, docroot, store
<1>30. CASE Document(d)
  <2>1. ControlOK' /\ HasWork'
    BY <1>30, <1>f, ExitType DEF Document, Statuses
  <2>2. DocrootOK'
    BY <1>30 DEF Document, TypeInv, DocrootOK, docroot
  <2>3. StoreOK'
    BY <1>30, <1>j DEF Document, TypeInv, StoreOK, RunningJob
  <2> QED BY <2>1, <2>2, <2>3 DEF TypeInv
<1> QED
  BY <1>1, <1>2, <1>3, <1>4, <1>5, <1>6, <1>7, <1>8, <1>9, <1>10, <1>11, <1>12,
     <1>13, <1>14, <1>15, <1>16, <1>17, <1>18, <1>19, <1>20, <1>21, <1>22,
     <1>23, <1>24, <1>25, <1>26, <1>27, <1>28, <1>29, <1>30 DEF CommandStep

LEMMA StartType ==
  ASSUME TypeInv, NEW d \in Deployments, Start(d)
  PROVE  TypeInv'
<1>1. CASE \E c \in Repo[d] : NoOp(d, c)
  <2>1. PICK c \in Repo[d] : NoOp(d, c)
    BY <1>1
  <2>2. StoreOK'
    BY <2>1 DEF NoOp, SweepStaging, TypeInv, StoreOK
  <2>3. ControlOK' /\ HasWork'
    BY <2>1 DEF NoOp, SweepStaging, TypeInv, ControlOK, HasWork, Statuses
  <2> QED BY <2>1, <2>2, <2>3 DEF NoOp, SweepStaging, TypeInv, DocrootOK, docroot
<1>2. CASE \E c \in Repo[d], force \in ForceModes : StartDeploy(d, c, force)
  <2>1. PICK c \in Repo[d], force \in ForceModes : StartDeploy(d, c, force)
    BY <1>2
  <2>2. c \in Commits /\ nextId[d] \in Ids
    BY <2>1, PromotionAssumption DEF StartDeploy, SweepStaging
  <2>3. StoreOK'
    <3>1. nextId' \in [Deployments -> 1..(MaxReleases + 1)]
      BY <2>1, <2>2, PromotionAssumption DEF StartDeploy, SweepStaging, TypeInv, StoreOK, Ids
    <3>2. incoming' \in [Deployments -> SUBSET Ids]
      BY <2>1, <2>2 DEF StartDeploy, SweepStaging, TypeInv, StoreOK
    <3> QED BY <2>1, <3>1, <3>2 DEF StartDeploy, SweepStaging, TypeInv, StoreOK
  <2>4. [NoJob EXCEPT !.kind = "deploy", !.commit = c, !.run = nextId[d],
                      !.todo = log[d]] \in RunningJob
    <3>1. log[d] \in SUBSET PublicPaths
      BY DEF TypeInv, StoreOK
    <3>2. nextId[d] \in Ids /\ Ids \subseteq 0..MaxReleases
      BY <2>2 DEF Ids
    <3> QED BY <2>2, <3>1, <3>2 DEF RunningJob, Job, NoJob, Kinds
  <2>5. ControlOK' /\ HasWork'
    BY <2>1, <2>4, GotoType DEF StartDeploy, SweepStaging, AtPath, Labels
  <2> QED BY <2>1, <2>3, <2>5 DEF StartDeploy, SweepStaging, TypeInv, DocrootOK, docroot
<1>3. CASE \E r \in RollbackIds : StartRollback(d, r)
  <2>1. PICK r \in RollbackIds : StartRollback(d, r)
    BY <1>3
  <2>2. [NoJob EXCEPT !.kind = "rollback", !.run = r, !.todo = log[d]] \in RunningJob
    <3>1. log[d] \in SUBSET PublicPaths
      BY DEF TypeInv, StoreOK
    <3>2. r \in Ids /\ Ids \subseteq 0..MaxReleases
      BY PromotionAssumption DEF Ids
    <3> QED BY <3>1, <3>2 DEF RunningJob, Job, NoJob, Kinds
  <2>3. ControlOK' /\ HasWork'
    BY <2>1, <2>2, GotoType DEF StartRollback, AtPath, Labels
  <2> QED BY <2>1, <2>3 DEF StartRollback, TypeInv, DocrootOK, StoreOK, docroot, store
<1> QED BY <1>1, <1>2, <1>3 DEF Start

LEMMA FaultType ==
  ASSUME TypeInv, NEW d \in Deployments, Fault(d)
  PROVE  TypeInv'
<1>1. faults' \in 0..MaxFaults
  BY PromotionAssumption DEF Fault, CountFault, TypeInv, ControlOK
<1>2. node' \in [PublicPaths -> Nodes] /\ tmp' \in [PublicPaths -> [PublicPaths -> Nodes]]
  BY NothingType DEF Fault, TypeInv, DocrootOK, FileSystem
<1>3. Unwind(d)
  BY DEF Fault
<1> QED BY <1>1, <1>2, <1>3, UnwindType DEF TypeInv, DocrootOK

LEMMA CrashType ==
  ASSUME TypeInv, NEW d \in Deployments, Crash(d)
  PROVE  TypeInv'
<1>1. faults' \in 0..MaxFaults
  BY PromotionAssumption DEF Crash, CountFault, TypeInv, ControlOK
<1>2. ControlOK' /\ HasWork'
  BY <1>1, ExitType DEF Crash, Statuses
<1> QED BY <1>2 DEF Crash, TypeInv, DocrootOK, StoreOK, docroot, store

LEMMA InitType == Init => TypeInv
<1> SUFFICES ASSUME Init PROVE TypeInv
  OBVIOUS
<1>1. \A d \in Deployments : Installed[d] \in Commits \cup {NoCommit}
  BY PromotionAssumption
<1>2. DocrootOK
  <2>1. InitialNode \in FileSystem
    <3>1. ASSUME NEW p \in PublicPaths,
                 \E d \in Deployments : p \in ClaimsIn(Installed[d])
          PROVE  (CHOOSE d \in Deployments : p \in ClaimsIn(Installed[d])) \in Deployments
      BY <3>1
    <3> QED BY <3>1, PromotionAssumption DEF InitialNode, FileSystem, Nodes
  <2> QED BY <2>1, NothingType DEF Init, DocrootOK, FileSystem
<1>3. StoreOK
  <2>1. stored \in [Deployments -> [Ids -> Commits \cup {NoCommit}]]
    BY <1>1 DEF Init
  <2> QED BY <2>1, PromotionAssumption DEF Init, StoreOK, Ids
<1>4. ControlOK /\ HasWork
  BY NoJobType, PromotionAssumption DEF Init, ControlOK, HasWork, Labels, Statuses, AtPath
<1> QED BY <1>2, <1>3, <1>4 DEF TypeInv

LEMMA NextType == TypeInv /\ [Next]_vars => TypeInv'
<1> SUFFICES ASSUME TypeInv, [Next]_vars PROVE TypeInv'
  OBVIOUS
<1>1. ASSUME NEW d \in Deployments, Start(d) \/ CommandStep(d) \/ Fault(d) \/ Crash(d)
      PROVE  TypeInv'
  BY <1>1, StartType, CommandStepType, FaultType, CrashType
<1>2. CASE CoreUpdate
  <2>1. DocrootOK'
    BY <1>2 DEF CoreUpdate, TypeInv, DocrootOK
  <2> QED BY <1>2, <2>1 DEF CoreUpdate, TypeInv, StoreOK, ControlOK, HasWork, store
<1>3. CASE UNCHANGED vars
  BY <1>3 DEF vars, docroot, store, TypeInv, DocrootOK, StoreOK, ControlOK, HasWork
<1> QED BY <1>1, <1>2, <1>3 DEF Next

\* Whatever deployments, rollbacks, crashes and failing calls do, and in every
\* interleaving, each variable keeps its type; and no command handles a path it
\* does not have.
THEOREM TypeCorrect == Spec => []TypeOK
<1>1. Spec => []TypeInv
  BY InitType, NextType, PTL DEF Spec
<1> QED BY <1>1, TypeInvTypeOK, PTL
-----------------------------------------------------------------------------
\* What StoreInv says of one deployment.
StoreInvAt(d) ==
  /\ current[d] # 0 => Active(d) \in Commits
  /\ \A r \in Ids : r >= nextId[d] => stored[d][r] = NoCommit
  /\ pc[d] # "idle" => Phase(d, pc[d], job[d])

\* A step of d leaves the other deployments' part of the state alone.
Frame(d) ==
  \A e \in Deployments \ {d} :
    /\ stored'[e] = stored[e] /\ current'[e] = current[e] /\ nextId'[e] = nextId[e]
    /\ pc'[e] = pc[e] /\ job'[e] = job[e]

LEMMA FrameKeeps ==
  ASSUME StoreInv, NEW d \in Deployments, Frame(d), StoreInvAt(d)'
  PROVE  StoreInv'
<1> SUFFICES ASSUME NEW e \in Deployments PROVE StoreInvAt(e)'
  BY DEF StoreInv, StoreInvAt
<1>1. CASE e # d
  <2>1. StoreInvAt(e)
    BY DEF StoreInv, StoreInvAt
  <2>2. /\ stored'[e] = stored[e] /\ current'[e] = current[e] /\ nextId'[e] = nextId[e]
        /\ pc'[e] = pc[e] /\ job'[e] = job[e]
    BY <1>1 DEF Frame
  <2> QED BY <2>1, <2>2 DEF StoreInvAt, Active, Phase
<1> QED BY <1>1

\* A command that goes on without writing the store: the invariant holds if its
\* new place agrees with the store.
LEMMA GotoKeeps ==
  ASSUME TypeInv, StoreInv, NEW d \in Deployments, NEW l, NEW j, Goto(d, l, j),
         UNCHANGED <<stored, current, nextId>>, Phase(d, l, j)
  PROVE  StoreInv'
<1>1. Frame(d)
  BY DEF Goto, Frame, TypeInv, ControlOK
<1>2. StoreInvAt(d)'
  <2>1. pc'[d] = l /\ job'[d] = j
    BY DEF Goto, TypeInv, ControlOK
  <2>2. StoreInvAt(d)
    BY DEF StoreInv, StoreInvAt
  <2> QED BY <2>1, <2>2 DEF StoreInvAt, Active, Phase
<1> QED BY <1>1, <1>2, FrameKeeps

\* A command that ends without writing the store.
LEMMA ExitKeeps ==
  ASSUME TypeInv, StoreInv, NEW d \in Deployments, NEW s, Exit(d, s),
         UNCHANGED <<stored, current, nextId>>
  PROVE  StoreInv'
<1>1. Frame(d)
  BY DEF Exit, Frame, TypeInv, ControlOK
<1>2. StoreInvAt(d)'
  <2>1. pc'[d] = "idle"
    BY DEF Exit, TypeInv, ControlOK
  <2>2. StoreInvAt(d)
    BY DEF StoreInv, StoreInvAt
  <2> QED BY <2>1, <2>2 DEF StoreInvAt, Active
<1> QED BY <1>1, <1>2, FrameKeeps

\* An error return: the release it may remove is not the active one.
LEMMA UnwindKeeps ==
  ASSUME TypeInv, StoreInv, NEW d \in Deployments, pc[d] # "idle", Unwind(d)
  PROVE  StoreInv'
<1> DEFINE j == job[d]
<1>1. UNCHANGED <<current, nextId>> /\ Exit(d, "failed")
  BY DEF Unwind
<1>2. CASE ~ j.fresh
  BY <1>1, <1>2, ExitKeeps DEF Unwind
<1>3. CASE j.fresh
  <2>1. Phase(d, pc[d], j)
    BY DEF StoreInv
  <2>2. current[d] # j.run
    BY <1>3, <2>1 DEF Phase, BeforeSwitch
  <2>3. stored' = [stored EXCEPT ![d][j.run] = NoCommit]
    BY <1>3 DEF Unwind
  <2>4. Frame(d)
    BY <1>1, <2>3 DEF Exit, Frame, TypeInv, ControlOK, StoreOK
  <2>5. StoreInvAt(d)'
    <3>1. pc'[d] = "idle"
      BY <1>1 DEF Exit, TypeInv, ControlOK
    <3>2. StoreInvAt(d)
      BY DEF StoreInv, StoreInvAt
    <3>3. j.run \in Ids
      BY DEF TypeInv, HasWork, RunningJob
    <3>4. \A r \in Ids : stored'[d][r] = IF r = j.run THEN NoCommit ELSE stored[d][r]
      BY <2>3, <3>3 DEF TypeInv, StoreOK
    <3>5. current[d] # 0 => current[d] \in Ids
      BY DEF TypeInv, StoreOK, Ids
    <3> QED BY <1>1, <2>2, <3>1, <3>2, <3>4, <3>5 DEF StoreInvAt, Active
  <2> QED BY <2>4, <2>5, FrameKeeps
<1> QED BY <1>2, <1>3
-----------------------------------------------------------------------------
\* Every step of a command keeps the invariant.  Most steps only go on: there the
\* new place has to agree with the store as it is.
LEMMA CommandStepKeeps ==
  ASSUME TypeInv, StoreInv, NEW d \in Deployments, CommandStep(d)
  PROVE  StoreInv'
<1> DEFINE j == job[d]
           p == First(j.todo)
<1>j. j \in RunningJob /\ pc[d] # "idle"
  BY StepRuns DEF TypeInv, HasWork
<1>p. Phase(d, pc[d], j) /\ StoreInvAt(d)
  BY <1>j DEF StoreInv, StoreInvAt
<1>1. CASE TidyOne(d)
  <2>1. Phase(d, pc[d], [j EXCEPT !.todo = @ \ {p}])
    BY <1>1, <1>j, <1>p DEF TidyOne, RunningJob, Job,
       Phase, Known, BeforeSwitch, AfterSwitch, Labels
  <2> QED BY <1>1, <2>1, GotoKeeps DEF TidyOne, store
<1>2. CASE TidyDone(d)
  <2>1. CASE pc[d] = "tidy"
    <3>1. Phase(d, "probe", j)
      BY <1>2, <1>j, <1>p, <2>1 DEF TidyDone, RunningJob, Job,
         Phase, Known, BeforeSwitch, AfterSwitch, Labels
    <3> QED BY <1>2, <2>1, <3>1, GotoKeeps DEF TidyDone
  <2>2. CASE pc[d] # "tidy"
    <3>1. Phase(d, "retire", [j EXCEPT !.todo = j.removed])
      BY <1>2, <1>j, <1>p, <2>2 DEF TidyDone, RunningJob, Job,
         Phase, Known, BeforeSwitch, AfterSwitch, Labels
    <3> QED BY <1>2, <2>2, <3>1, GotoKeeps DEF TidyDone
  <2> QED BY <1>2, <2>1, <2>2 DEF TidyDone
<1>3. CASE Probe(d)
  <2>1. j.kind = "rollback" => stored[d][j.run] \in Commits
    BY <1>3, <1>j DEF Probe, Stored, RunningJob, TypeInv, StoreOK
  <2>2. Phase(d, "mark", j) /\ Phase(d, "scan", j)
    BY <1>3, <1>j, <1>p, <2>1 DEF Probe, RunningJob, Job, Kinds,
       Phase, Known, BeforeSwitch, AfterSwitch, Labels
  <2> QED BY <1>3, <2>2, GotoKeeps DEF Probe, store
<1>4. CASE NoSuchRelease(d)
  BY <1>4, ExitKeeps DEF NoSuchRelease, store
<1>5. CASE Mark(d)
  <2>1. Phase(d, "scan", [j EXCEPT !.owned = TRUE])
    BY <1>5, <1>j, <1>p DEF Mark, RunningJob, Job,
       Phase, Known, BeforeSwitch, AfterSwitch, Labels
  <2> QED BY <1>5, <2>1, GotoKeeps DEF Mark, store
<1>6. CASE Scan(d)
  <2>1. CASE j.kind = "deploy"
    <3>1. Phase(d, "adopt", [j EXCEPT !.links = Links(d)])
      BY <1>6, <1>j, <1>p, <2>1 DEF Scan, RunningJob, Job,
         Phase, Known, BeforeSwitch, AfterSwitch, Labels
    <3> QED BY <1>6, <2>1, <3>1, GotoKeeps DEF Scan, store
  <2>2. CASE j.kind # "deploy"
    <3>1. Phase(d, "compute", [j EXCEPT !.links = Links(d)])
      BY <1>6, <1>j, <1>p, <2>2 DEF Scan, RunningJob, Job,
         Phase, Known, BeforeSwitch, AfterSwitch, Labels
    <3> QED BY <1>6, <2>2, <3>1, GotoKeeps DEF Scan, store
  <2> QED BY <1>6, <2>1, <2>2 DEF Scan
<1>7. CASE Adopt(d)
  <2>1. /\ j.kind = "deploy" /\ j.commit \in Commits
        /\ nextId[d] = j.run + 1 /\ current[d] # j.run
    BY <1>7, <1>p DEF Adopt, Phase, BeforeSwitch
  <2>2. /\ stored' = [stored EXCEPT ![d][j.run] = j.commit]
        /\ current' = current /\ nextId' = nextId
        /\ Goto(d, "compute", Adopted(j))
    BY <1>7 DEF Adopt
  <2>3. Frame(d)
    BY <2>2 DEF Goto, Frame, TypeInv, ControlOK, StoreOK
  <2>4. \A r \in Ids : stored'[d][r] = IF r = j.run THEN j.commit ELSE stored[d][r]
    BY <2>2 DEF TypeInv, StoreOK
  <2>5. pc'[d] = "compute" /\ job'[d] = [j EXCEPT !.fresh = TRUE]
    BY <2>2 DEF Goto, Adopted, TypeInv, ControlOK
  <2>6. j.run \in Ids /\ Ids \subseteq Nat /\ (current[d] # 0 => current[d] \in Ids)
    BY <1>j, PromotionAssumption DEF RunningJob, Ids, TypeInv, StoreOK
  <2>7. /\ current'[d] # 0 => Active(d)' \in Commits
        /\ \A r \in Ids : r >= nextId'[d] => stored'[d][r] = NoCommit
    BY <1>p, <2>1, <2>2, <2>4, <2>6 DEF StoreInvAt, Active
  <2>8. Phase(d, pc[d], job[d])'
    BY <1>j, <2>1, <2>2, <2>4, <2>5, <2>6 DEF RunningJob, Job,
       Phase, Known, BeforeSwitch, AfterSwitch, Labels
  <2>9. StoreInvAt(d)'
    BY <2>5, <2>7, <2>8 DEF StoreInvAt, Phase
  <2> QED BY <2>3, <2>9, FrameKeeps
<1>8. CASE Compute(d)
  <2>1. Phase(d, "shed", [Validated(j) EXCEPT !.links = {}, !.removed = Removals(d),
                       !.todo = Blocking(d, Removals(d))])
    BY <1>8, <1>j, <1>p DEF Compute, RunningJob, Job, Validated,
       Phase, Known, BeforeSwitch, AfterSwitch, Labels
  <2> QED BY <1>8, <2>1, GotoKeeps DEF Compute, store
<1>9. CASE Refuse(d)
  BY <1>9, <1>j, UnwindKeeps DEF Refuse, Fail
<1>10. CASE Inspect(d)
  <2>1. CASE node[p] = d
    <3>1. Phase(d, pc[d], [j EXCEPT !.ours = TRUE])
      BY <1>10, <1>j, <1>p, <2>1 DEF Inspect, RunningJob, Job,
         Phase, Known, BeforeSwitch, AfterSwitch, Labels
    <3> QED BY <1>10, <2>1, <3>1, GotoKeeps DEF Inspect, store
  <2>2. CASE node[p] # d
    <3>1. Phase(d, pc[d], [j EXCEPT !.todo = @ \ {p}])
      BY <1>10, <1>j, <1>p, <2>2 DEF Inspect, RunningJob, Job,
         Phase, Known, BeforeSwitch, AfterSwitch, Labels
    <3> QED BY <1>10, <2>2, <3>1, GotoKeeps DEF Inspect, store
  <2> QED BY <1>10, <2>1, <2>2 DEF Inspect
<1>11. CASE Unlink(d)
  <2>1. Phase(d, pc[d], [j EXCEPT !.todo = @ \ {p}, !.ours = FALSE])
    BY <1>11, <1>j, <1>p DEF Unlink, RunningJob, Job,
       Phase, Known, BeforeSwitch, AfterSwitch, Labels
  <2> QED BY <1>11, <2>1, GotoKeeps DEF Unlink, store
<1>12. CASE StartReconcile(d)
  <2>1. Phase(d, "check", [j EXCEPT !.todo = NewClaims(d)])
    BY <1>12, <1>j, <1>p DEF StartReconcile, RunningJob, Job,
       Phase, Known, BeforeSwitch, AfterSwitch, Labels
  <2> QED BY <1>12, <2>1, GotoKeeps DEF StartReconcile
<1>13. CASE Check(d)
  <2>1. Phase(d, "place", j)
    BY <1>13, <1>j, <1>p DEF Check, RunningJob, Job,
       Phase, Known, BeforeSwitch, AfterSwitch, Labels
  <2> QED BY <1>13, <2>1, GotoKeeps DEF Check, store
<1>14. CASE Reject(d)
  BY <1>14, <1>j, UnwindKeeps DEF Reject, Fail
<1>15. CASE Place(d)
  <2>1. Phase(d, "swap", j)
    BY <1>15, <1>j, <1>p DEF Place, RunningJob, Job,
       Phase, Known, BeforeSwitch, AfterSwitch, Labels
  <2> QED BY <1>15, <2>1, GotoKeeps DEF Place, store
<1>16. CASE CannotPlace(d)
  BY <1>16, <1>j, UnwindKeeps DEF CannotPlace
<1>17. CASE Stray(d)
  <2>1. Phase(d, "check", [NextClaim(j) EXCEPT !.strayed = @ \cup {p}])
    BY <1>17, <1>j, <1>p DEF Stray, RunningJob, Job, NextClaim,
       Phase, Known, BeforeSwitch, AfterSwitch, Labels
  <2> QED BY <1>17, <2>1, GotoKeeps DEF Stray, store
<1>18. CASE Swap(d)
  <2>1. Phase(d, "check", NextClaim(j))
    BY <1>18, <1>j, <1>p DEF Swap, RunningJob, Job, NextClaim,
       Phase, Known, BeforeSwitch, AfterSwitch, Labels
  <2>2. Phase(d, "record", j)
    BY <1>18, <1>j, <1>p DEF Swap, RunningJob, Job,
       Phase, Known, BeforeSwitch, AfterSwitch, Labels
  <2> QED BY <1>18, <2>1, <2>2, GotoKeeps DEF Swap, store
<1>19. CASE CannotSwap(d)
  BY <1>19, <1>j, UnwindKeeps DEF CannotSwap, Fail
<1>20. CASE Record(d)
  <2>1. Phase(d, "drop", j)
    BY <1>20, <1>j, <1>p DEF Record, RunningJob, Job,
       Phase, Known, BeforeSwitch, AfterSwitch, Labels
  <2> QED BY <1>20, <2>1, GotoKeeps DEF Record
<1>21. CASE Drop(d)
  <2>1. Phase(d, "check", NextClaim(j))
    BY <1>21, <1>j, <1>p DEF Drop, RunningJob, Job, NextClaim,
       Phase, Known, BeforeSwitch, AfterSwitch, Labels
  <2> QED BY <1>21, <2>1, GotoKeeps DEF Drop, store
<1>22. CASE SwitchCurrent(d)
  <2>1. stored[d][j.run] \in Commits /\ ~ j.fresh
    BY <1>22, <1>p DEF SwitchCurrent, Phase, Known
  <2>2. /\ current' = [current EXCEPT ![d] = j.run]
        /\ stored' = stored /\ nextId' = nextId
        /\ Goto(d, "settle", [j EXCEPT !.todo = log[d]])
    BY <1>22 DEF SwitchCurrent
  <2>3. Frame(d)
    BY <2>2 DEF Goto, Frame, TypeInv, ControlOK, StoreOK
  <2>4. /\ pc'[d] = "settle" /\ job'[d] = [j EXCEPT !.todo = log[d]]
        /\ current'[d] = j.run
    BY <2>2 DEF Goto, TypeInv, ControlOK, StoreOK
  <2>5. j.run # 0
    BY <1>j DEF RunningJob, Ids
  <2>6. Phase(d, pc[d], job[d])'
    BY <1>22, <1>j, <1>p, <2>1, <2>2, <2>4 DEF SwitchCurrent, RunningJob, Job,
       Phase, Known, BeforeSwitch, AfterSwitch, Labels
  <2>7. StoreInvAt(d)'
    BY <1>p, <2>1, <2>2, <2>4, <2>5, <2>6 DEF StoreInvAt, Active, Phase
  <2> QED BY <2>3, <2>7, FrameKeeps
<1>23. CASE DoneRetiring(d)
  <2>1. Phase(d, "verify", j)
    BY <1>23, <1>j, <1>p DEF DoneRetiring, RunningJob, Job,
       Phase, Known, BeforeSwitch, AfterSwitch, Labels
  <2> QED BY <1>23, <2>1, GotoKeeps DEF DoneRetiring, store
<1>24. CASE Verify(d)
  <2>1. CASE j.kind = "deploy"
    <3>1. Phase(d, "hook", j)
      BY <1>24, <1>j, <1>p, <2>1 DEF Verify, RunningJob, Job,
         Phase, Known, BeforeSwitch, AfterSwitch, Labels
    <3> QED BY <1>24, <2>1, <3>1, GotoKeeps DEF Verify, store
  <2>2. CASE j.kind # "deploy"
    <3>1. Phase(d, "unmark", j)
      BY <1>24, <1>j, <1>p, <2>2 DEF Verify, RunningJob, Job,
         Phase, Known, BeforeSwitch, AfterSwitch, Labels
    <3> QED BY <1>24, <2>2, <3>1, GotoKeeps DEF Verify, store
  <2> QED BY <1>24, <2>1, <2>2 DEF Verify
<1>25. CASE CannotVerify(d)
  BY <1>25, <1>j, UnwindKeeps DEF CannotVerify, Fail
<1>26. CASE RunHook(d)
  <2>1. Phase(d, "unmark", j)
    BY <1>26, <1>j, <1>p DEF RunHook, RunningJob, Job,
       Phase, Known, BeforeSwitch, AfterSwitch, Labels
  <2> QED BY <1>26, <2>1, GotoKeeps DEF RunHook, store
<1>27. CASE Unmark(d)
  <2>1. CASE j.kind = "deploy"
    <3>1. Phase(d, "prune", [j EXCEPT !.owned = FALSE])
      BY <1>27, <1>j, <1>p, <2>1 DEF Unmark, RunningJob, Job,
         Phase, Known, BeforeSwitch, AfterSwitch, Labels
    <3> QED BY <1>27, <2>1, <3>1, GotoKeeps DEF Unmark, store
  <2>2. CASE j.kind # "deploy"
    BY <1>27, <2>2, ExitKeeps DEF Unmark, store
  <2> QED BY <2>1, <2>2
<1>28. CASE Prune(d)
  <2>1. PICK r \in Prunable(d) : stored' = [stored EXCEPT ![d][r] = NoCommit]
    BY <1>28 DEF Prune
  <2>2. r \in Ids /\ r # j.run
    BY DEF Prunable, PruneSet, KeepSet, Stored
  <2>3. UNCHANGED <<current, nextId, pc, job>>
    BY <1>28 DEF Prune
  <2>4. Frame(d)
    BY <2>1, <2>3 DEF Frame, TypeInv, StoreOK
  <2>5. pc[d] = "prune" /\ current[d] = j.run
    BY <1>28, <1>p DEF Prune, Phase, BeforeSwitch, AfterSwitch, Labels
  <2>6. \A s \in Ids : stored'[d][s] = IF s = r THEN NoCommit ELSE stored[d][s]
    BY <2>1, <2>2 DEF TypeInv, StoreOK
  <2>7. j.run \in Ids
    BY <1>j DEF RunningJob
  <2>8. StoreInvAt(d)'
    BY <1>p, <2>2, <2>3, <2>5, <2>6, <2>7 DEF StoreInvAt, Active, Phase
  <2> QED BY <2>4, <2>8, FrameKeeps
<1>29. CASE DonePruning(d)
  <2>1. Phase(d, "document", j)
    BY <1>29, <1>j, <1>p DEF DonePruning, RunningJob, Job,
       Phase, Known, BeforeSwitch, AfterSwitch, Labels
  <2> QED BY <1>29, <2>1, GotoKeeps DEF DonePruning, store
<1>30. CASE Document(d)
  BY <1>30, ExitKeeps DEF Document
<1> QED
  BY <1>1, <1>2, <1>3, <1>4, <1>5, <1>6, <1>7, <1>8, <1>9, <1>10, <1>11, <1>12,
     <1>13, <1>14, <1>15, <1>16, <1>17, <1>18, <1>19, <1>20, <1>21, <1>22,
     <1>23, <1>24, <1>25, <1>26, <1>27, <1>28, <1>29, <1>30 DEF CommandStep

LEMMA StartKeeps ==
  ASSUME TypeInv, StoreInv, NEW d \in Deployments, Start(d)
  PROVE  StoreInv'
<1>1. CASE \E c \in Repo[d] : NoOp(d, c)
  <2>1. PICK c \in Repo[d] : NoOp(d, c)
    BY <1>1
  <2> QED BY <2>1 DEF NoOp, SweepStaging, StoreInv, Active, Phase
<1>2. CASE \E c \in Repo[d], force \in ForceModes : StartDeploy(d, c, force)
  <2>1. PICK c \in Repo[d], force \in ForceModes : StartDeploy(d, c, force)
    BY <1>2
  <2> DEFINE r == nextId[d]
             j == [NoJob EXCEPT !.kind = "deploy", !.commit = c, !.run = r,
                                !.todo = log[d]]
  <2>2. c \in Commits /\ r \in Ids /\ r \in Int
    BY <2>1, PromotionAssumption DEF StartDeploy, SweepStaging, Ids
  <2>3. /\ nextId' = [nextId EXCEPT ![d] = r + 1]
        /\ stored' = stored /\ current' = current
        /\ Goto(d, "tidy", j)
    BY <2>1 DEF StartDeploy, SweepStaging
  <2>4. Frame(d)
    BY <2>3 DEF Goto, Frame, TypeInv, ControlOK, StoreOK
  <2>5. pc'[d] = "tidy" /\ job'[d] = j /\ nextId'[d] = r + 1
    BY <2>3 DEF Goto, TypeInv, ControlOK, StoreOK
  <2>6. StoreInvAt(d)
    BY DEF StoreInv, StoreInvAt
  <2>7. current[d] # r
    BY <2>2, <2>6, PromotionAssumption DEF StoreInvAt, Active, Ids
  <2>8. Phase(d, pc[d], job[d])'
    BY <2>2, <2>3, <2>5, <2>7 DEF NoJob, Phase, Known, BeforeSwitch, AfterSwitch, Labels
  <2>9. StoreInvAt(d)'
    BY <2>2, <2>3, <2>5, <2>6, <2>8 DEF StoreInvAt, Active, Phase, Ids
  <2> QED BY <2>4, <2>9, FrameKeeps
<1>3. CASE \E r \in RollbackIds : StartRollback(d, r)
  <2>1. PICK r \in RollbackIds : StartRollback(d, r)
    BY <1>3
  <2>2. Phase(d, "tidy", [NoJob EXCEPT !.kind = "rollback", !.run = r, !.todo = log[d]])
    BY DEF NoJob, Phase, Known, BeforeSwitch, AfterSwitch, Labels
  <2> QED BY <2>1, <2>2, GotoKeeps DEF StartRollback, store
<1> QED BY <1>1, <1>2, <1>3 DEF Start

LEMMA InitKeeps == Init => StoreInv
<1> SUFFICES ASSUME Init, NEW d \in Deployments PROVE StoreInvAt(d)
  BY DEF StoreInv, StoreInvAt
<1>1. Installed[d] \in Commits \cup {NoCommit} /\ 1 \in Ids
  BY PromotionAssumption DEF Ids
<1> QED BY <1>1 DEF Init, StoreInvAt, Active, Ids

LEMMA NextKeeps == TypeInv /\ StoreInv /\ [Next]_vars => StoreInv'
<1> SUFFICES ASSUME TypeInv, StoreInv, [Next]_vars PROVE StoreInv'
  OBVIOUS
<1>1. ASSUME NEW d \in Deployments, Fault(d) PROVE StoreInv'
  BY <1>1, UnwindKeeps DEF Fault, Fallible
<1>2. ASSUME NEW d \in Deployments, Crash(d) PROVE StoreInv'
  BY <1>2, ExitKeeps DEF Crash, store
<1>3. CASE CoreUpdate
  BY <1>3 DEF CoreUpdate, store, StoreInv, Active, Phase
<1>4. CASE UNCHANGED vars
  BY <1>4 DEF vars, store, StoreInv, Active, Phase
<1> QED BY <1>1, <1>2, <1>3, <1>4, StartKeeps, CommandStepKeeps DEF Next

\* The point a command has reached and what the store holds always agree.
THEOREM StoreConsistent == Spec => []StoreInv
BY InitType, NextType, InitKeeps, NextKeeps, PTL DEF Spec

\* "current" never dangles, for any number of deployments, releases, crashes and
\* failing calls: a failed deploy never removes the release that is active, nor
\* does a prune.
THEOREM CurrentNeverDangles == Spec => []CurrentIsReal
<1>1. StoreInv => CurrentIsReal
  BY DEF StoreInv, CurrentIsReal
<1> QED BY <1>1, StoreConsistent, PTL
-----------------------------------------------------------------------------
\* What becomes of the release id of a deploy: nothing is stored under it until
\* it is adopted, no metadata is written for it before the deploy ends, and its
\* release is fresh while its claims are to be computed.  And only a deployment
\* with maintenance mode owns a marker.
Early == {"tidy", "probe", "mark", "scan", "adopt"}

HistoryAt(d, l, j) ==
  /\ j.kind = "deploy" =>
       /\ j.run \notin meta[d]
       /\ l \in Early => stored[d][j.run] = NoCommit /\ ~ j.fresh
       /\ l = "compute" => j.fresh
  /\ l = "mark" \/ j.owned => d \in Maintained

\* What HistoryInv says of one deployment.
HistoryOf(d) ==
  /\ \A r \in meta[d] : r < nextId[d]
  /\ pc[d] # "idle" => HistoryAt(d, pc[d], job[d])

HistoryInv == \A d \in Deployments : HistoryOf(d)
-----------------------------------------------------------------------------
\* The other deployments' commands stay where they are.
Alone(d) == \A e \in Deployments \ {d} : pc'[e] = pc[e] /\ job'[e] = job[e]

\* The command of d goes on with its release and writes nothing about releases.
Proceeds(d) ==
  /\ UNCHANGED <<stored, meta, nextId, current>> /\ Alone(d)
  /\ pc'[d] # "idle"
  /\ job'[d].kind = job[d].kind /\ job'[d].run = job[d].run
  /\ job'[d].fresh = job[d].fresh
  /\ pc'[d] \in Early => pc[d] \in Early
  /\ pc'[d] = "compute" => job[d].kind # "deploy"
  /\ pc'[d] = "mark" => pc[d] = "mark" \/ d \in Maintained
  /\ job'[d].owned => job[d].owned \/ pc[d] = "mark"
  /\ pc'[d] = "document" => DonePruning(d)

\* It ends without an error, or finds no release, and writes nothing about
\* releases.
Ends(d) == /\ UNCHANGED <<stored, meta, nextId, current>> /\ Alone(d)
           /\ pc'[d] = "idle" /\ job'[d] = NoJob
           /\ verdict'[d] = "failed" => NoSuchRelease(d)
           /\ verdict'[d] = "success" => job[d].kind # "deploy"

\* It returns an error, which leaves its links as they are.
Fails(d) == Unwind(d) /\ Links(d)' = Links(d)

LEMMA GotoProceeds ==
  ASSUME TypeInv, NEW d \in Deployments, NEW l, NEW j, Goto(d, l, j),
         UNCHANGED <<stored, meta, nextId, current>>, l # "idle",
         j.kind = job[d].kind, j.run = job[d].run, j.fresh = job[d].fresh,
         l \in Early => pc[d] \in Early,
         l = "compute" => job[d].kind # "deploy",
         l = "mark" => pc[d] = "mark" \/ d \in Maintained,
         j.owned => job[d].owned \/ pc[d] = "mark",
         l = "document" => DonePruning(d)
  PROVE  Proceeds(d)
BY DEF Goto, Proceeds, Alone, TypeInv, ControlOK

LEMMA ExitEnds ==
  ASSUME TypeInv, NEW d \in Deployments, NEW s, Exit(d, s),
         UNCHANGED <<stored, meta, nextId, current>>,
         s = "failed" => NoSuchRelease(d),
         s = "success" => job[d].kind # "deploy"
  PROVE  Ends(d)
BY DEF Exit, Ends, Alone, TypeInv, ControlOK

\* Each kind of step, as far as releases are concerned.
LEMMA StepKinds ==
  ASSUME TypeInv, NEW d \in Deployments, CommandStep(d)
  PROVE  \/ Proceeds(d) \/ Ends(d) \/ Fails(d)
         \/ Adopt(d) \/ Compute(d) \/ SwitchCurrent(d) \/ Prune(d) \/ Document(d)
<1> DEFINE j == job[d]
           p == First(j.todo)
<1>j. j \in Job
  BY DEF TypeInv, ControlOK
<1>1. CASE TidyOne(d)
  <2>1. [j EXCEPT !.todo = @ \ {p}] \in Job
    BY <1>j DEF Job
  <2> QED BY <1>1, <1>j, GotoProceeds DEF TidyOne, store, Job, Early
<1>2. CASE TidyDone(d)
  BY <1>2, <1>j, GotoProceeds DEF TidyDone, Job, Early
<1>3. CASE Probe(d)
  BY <1>3, <1>j, GotoProceeds DEF Probe, store, Job, Early
<1>4. CASE Mark(d)
  BY <1>4, <1>j, GotoProceeds DEF Mark, store, Job, Early
<1>5. CASE Scan(d)
  BY <1>5, <1>j, GotoProceeds DEF Scan, store, Job, Early
<1>6. CASE Inspect(d)
  BY <1>6, <1>j, GotoProceeds DEF Inspect, store, Job, Early
<1>7. CASE Unlink(d)
  BY <1>7, <1>j, GotoProceeds DEF Unlink, store, Job, Early
<1>8. CASE StartReconcile(d)
  BY <1>8, <1>j, GotoProceeds DEF StartReconcile, Job, Early
<1>9. CASE Check(d) \/ Place(d)
  BY <1>9, GotoProceeds DEF Check, Place, store, Early
<1>10. CASE Stray(d)
  <2> DEFINE k == [NextClaim(j) EXCEPT !.strayed = @ \cup {p}]
  <2>1. k.kind = j.kind /\ k.run = j.run /\ k.fresh = j.fresh /\ k.owned = j.owned
    BY <1>j DEF NextClaim, Job
  <2>2. Goto(d, "check", k)
    BY <1>10 DEF Stray
  <2> HIDE DEF k
  <2> QED BY <1>10, <2>1, <2>2, GotoProceeds DEF Stray, store, Early
<1>11. CASE Swap(d)
  BY <1>11, <1>j, GotoProceeds DEF Swap, NextClaim, store, Job, Early
<1>12. CASE Record(d)
  BY <1>12, GotoProceeds DEF Record, Early
<1>13. CASE Drop(d)
  BY <1>13, <1>j, GotoProceeds DEF Drop, NextClaim, store, Job, Early
<1>14. CASE DoneRetiring(d) \/ Verify(d) \/ RunHook(d) \/ DonePruning(d)
  BY <1>14, GotoProceeds DEF DoneRetiring, Verify, RunHook, DonePruning, store, Early
<1>15. CASE Unmark(d)
  <2>1. CASE j.kind = "deploy"
    BY <1>15, <1>j, <2>1, GotoProceeds DEF Unmark, store, Job, Early
  <2>2. CASE j.kind # "deploy"
    BY <1>15, <2>2, ExitEnds DEF Unmark, store
  <2> QED BY <2>1, <2>2
<1>16. CASE NoSuchRelease(d)
  BY <1>16, ExitEnds DEF NoSuchRelease, store
<1>17. CASE Refuse(d) \/ Reject(d) \/ CannotSwap(d) \/ CannotVerify(d)
  BY <1>17 DEF Refuse, Reject, CannotSwap, CannotVerify, Fail, Fails, Links
<1>18. CASE CannotPlace(d)
  <2>1. node' = MkdirParents(node, p) \/ node' = node
    BY <1>18 DEF CannotPlace
  <2>2. \A q \in PublicPaths : (node'[q] = d) = (node[q] = d)
    BY <2>1, DocrootAssumption DEF MkdirParents, Plain
  <2> QED BY <1>18, <2>2 DEF CannotPlace, Fails, Links
<1> QED
  BY <1>1, <1>2, <1>3, <1>4, <1>5, <1>6, <1>7, <1>8, <1>9, <1>10, <1>11, <1>12,
     <1>13, <1>14, <1>15, <1>16, <1>17, <1>18
  DEF CommandStep
-----------------------------------------------------------------------------
LEMMA HistoryFrame ==
  ASSUME HistoryInv, NEW d \in Deployments, Alone(d), HistoryOf(d)',
         \A e \in Deployments \ {d} :
           stored'[e] = stored[e] /\ meta'[e] = meta[e] /\ nextId'[e] = nextId[e]
  PROVE  HistoryInv'
<1> SUFFICES ASSUME NEW e \in Deployments PROVE HistoryOf(e)'
  BY DEF HistoryInv
<1>1. CASE e # d
  <2>1. HistoryOf(e)
    BY DEF HistoryInv
  <2>2. /\ pc'[e] = pc[e] /\ job'[e] = job[e]
        /\ stored'[e] = stored[e] /\ meta'[e] = meta[e] /\ nextId'[e] = nextId[e]
    BY <1>1 DEF Alone
  <2> QED BY <2>1, <2>2 DEF HistoryOf, HistoryAt
<1> QED BY <1>1

\* An error return leaves the history of the others, and ends this one.
LEMMA UnwindHistory ==
  ASSUME TypeInv, HistoryInv, NEW d \in Deployments, Unwind(d)
  PROVE  HistoryInv'
<1>1. Alone(d) /\ pc'[d] = "idle"
  BY DEF Unwind, Exit, Alone, TypeInv, ControlOK
<1>2. \A e \in Deployments \ {d} : stored'[e] = stored[e]
  BY DEF Unwind, TypeInv, StoreOK
<1>3. meta' = meta /\ nextId' = nextId
  BY DEF Unwind
<1>4. HistoryOf(d)'
  BY <1>1, <1>3 DEF HistoryOf, HistoryInv
<1> QED BY <1>1, <1>2, <1>3, <1>4, HistoryFrame

LEMMA HistoryStep ==
  ASSUME TypeInv, StoreInv, HistoryInv, NEW d \in Deployments, CommandStep(d)
  PROVE  HistoryInv'
<1> DEFINE j == job[d]
<1>h. /\ pc[d] # "idle" /\ j \in RunningJob /\ Phase(d, pc[d], j)
      /\ HistoryAt(d, pc[d], j) /\ \A r \in meta[d] : r < nextId[d]
  BY StepRuns DEF TypeInv, HasWork, StoreInv, HistoryInv, HistoryOf
<1>1. CASE Proceeds(d)
  <2>1. HistoryOf(d)'
    BY <1>1, <1>h DEF Proceeds, HistoryOf, HistoryAt
  <2> QED BY <1>1, <2>1, HistoryFrame DEF Proceeds
<1>2. CASE Ends(d)
  <2>1. HistoryOf(d)'
    BY <1>2, <1>h DEF Ends, HistoryOf
  <2> QED BY <1>2, <2>1, HistoryFrame DEF Ends
<1>3. CASE Adopt(d)
  <2>1. j.kind = "deploy" /\ pc[d] = "adopt"
    BY <1>3, <1>h DEF Adopt, Phase
  <2>2. /\ pc'[d] = "compute" /\ job'[d] = [j EXCEPT !.fresh = TRUE] /\ Alone(d)
        /\ meta' = meta /\ nextId' = nextId
    BY <1>3 DEF Adopt, Adopted, Goto, Alone, TypeInv, ControlOK
  <2>3. \A e \in Deployments \ {d} : stored'[e] = stored[e]
    BY <1>3 DEF Adopt, TypeInv, StoreOK
  <2>4. HistoryOf(d)'
    BY <1>h, <2>1, <2>2 DEF HistoryOf, HistoryAt, Early, RunningJob, Job
  <2> QED BY <2>2, <2>3, <2>4, HistoryFrame
<1>4. CASE Compute(d)
  <2>1. /\ pc'[d] = "shed" /\ job'[d].kind = j.kind /\ job'[d].run = j.run
        /\ job'[d].owned = j.owned /\ Alone(d)
        /\ stored' = stored /\ meta' = meta /\ nextId' = nextId
    BY <1>4, <1>h DEF Compute, Validated, Goto, Alone, store, TypeInv, ControlOK,
       RunningJob, Job
  <2>2. HistoryOf(d)'
    BY <1>h, <2>1 DEF HistoryOf, HistoryAt, Early
  <2> QED BY <2>1, <2>2, HistoryFrame
<1>5. CASE SwitchCurrent(d)
  <2>1. /\ pc'[d] = "settle" /\ job'[d].kind = j.kind /\ job'[d].run = j.run
        /\ job'[d].owned = j.owned /\ Alone(d)
        /\ stored' = stored /\ meta' = meta /\ nextId' = nextId
    BY <1>5, <1>h DEF SwitchCurrent, Goto, Alone, TypeInv, ControlOK, RunningJob, Job
  <2>2. HistoryOf(d)'
    BY <1>h, <2>1 DEF HistoryOf, HistoryAt, Early
  <2> QED BY <2>1, <2>2, HistoryFrame
<1>6. CASE Prune(d)
  <2>1. /\ UNCHANGED <<pc, job, meta, nextId>> /\ pc[d] = "prune"
        /\ \A e \in Deployments \ {d} : stored'[e] = stored[e]
    BY <1>6 DEF Prune, TypeInv, StoreOK
  <2>2. HistoryOf(d)'
    BY <1>h, <2>1 DEF HistoryOf, HistoryAt, Early
  <2> QED BY <2>1, <2>2, HistoryFrame DEF Alone
<1>7. CASE Document(d)
  <2>1. /\ pc'[d] = "idle" /\ Alone(d) /\ UNCHANGED <<stored, nextId>>
        /\ meta' = [meta EXCEPT ![d] = @ \cup {j.run}]
    BY <1>7 DEF Document, Exit, Alone, TypeInv, ControlOK
  <2>2. meta'[d] = meta[d] \cup {j.run}
        /\ \A e \in Deployments \ {d} : meta'[e] = meta[e]
    BY <2>1 DEF TypeInv, StoreOK
  <2>3. j.run < nextId[d]
    <3>1. /\ stored[d][j.run] \in Commits /\ j.run \in Ids
          /\ \A r \in Ids : r >= nextId[d] => stored[d][r] = NoCommit
      BY <1>7, <1>h DEF Document, Phase, Known, RunningJob, StoreInv
    <3>2. NoCommit \notin Commits /\ j.run \in Int /\ nextId[d] \in Int
      BY <3>1, PromotionAssumption DEF Ids, TypeInv, StoreOK
    <3> QED BY <3>1, <3>2
  <2>4. HistoryOf(d)'
    BY <1>h, <2>1, <2>2, <2>3 DEF HistoryOf
  <2> QED BY <2>1, <2>2, <2>4, HistoryFrame
<1> QED
  BY <1>1, <1>2, <1>3, <1>4, <1>5, <1>6, <1>7, StepKinds, UnwindHistory DEF Fails

LEMMA StartHistory ==
  ASSUME TypeInv, StoreInv, HistoryInv, NEW d \in Deployments, Start(d)
  PROVE  HistoryInv'
<1>1. CASE \E c \in Repo[d] : NoOp(d, c)
  BY <1>1 DEF NoOp, HistoryInv, HistoryOf, HistoryAt
<1>2. CASE \E c \in Repo[d], force \in ForceModes : StartDeploy(d, c, force)
  <2>1. PICK c \in Repo[d], force \in ForceModes : StartDeploy(d, c, force)
    BY <1>2
  <2> DEFINE r == nextId[d]
  <2>2. r \in Ids /\ r \in Int
    BY <2>1, PromotionAssumption DEF StartDeploy, Ids
  <2>3. /\ pc'[d] = "tidy" /\ job'[d].run = r /\ job'[d].fresh = FALSE
        /\ job'[d].owned = FALSE /\ Alone(d)
        /\ stored' = stored /\ meta' = meta /\ nextId' = [nextId EXCEPT ![d] = r + 1]
    BY <2>1 DEF StartDeploy, Goto, NoJob, Alone, TypeInv, ControlOK
  <2>4. nextId'[d] = r + 1 /\ \A e \in Deployments \ {d} : nextId'[e] = nextId[e]
    BY <2>3 DEF TypeInv, StoreOK
  <2>5. r \notin meta[d] /\ stored[d][r] = NoCommit
        /\ \A s \in meta[d] : s < r /\ s \in Int
    BY <2>2 DEF HistoryInv, HistoryOf, StoreInv, TypeInv, StoreOK, Ids
  <2>6. HistoryOf(d)'
    BY <2>2, <2>3, <2>4, <2>5 DEF HistoryOf, HistoryAt
  <2> QED BY <2>3, <2>4, <2>6, HistoryFrame
<1>3. CASE \E r \in RollbackIds : StartRollback(d, r)
  <2>1. /\ pc'[d] = "tidy" /\ job'[d].kind = "rollback" /\ ~ job'[d].owned /\ Alone(d)
        /\ stored' = stored /\ meta' = meta /\ nextId' = nextId
    BY <1>3 DEF StartRollback, Goto, NoJob, Alone, store, TypeInv, ControlOK
  <2>2. HistoryOf(d)'
    BY <2>1 DEF HistoryOf, HistoryAt, HistoryInv
  <2> QED BY <2>1, <2>2, HistoryFrame
<1> QED BY <1>1, <1>2, <1>3 DEF Start

LEMMA HistoryInit == Init => HistoryInv
<1> SUFFICES ASSUME Init, NEW d \in Deployments PROVE HistoryOf(d)
  BY DEF HistoryInv, HistoryOf
<1> QED BY DEF Init, HistoryOf

LEMMA HistoryNext == TypeInv /\ StoreInv /\ HistoryInv /\ [Next]_vars => HistoryInv'
<1> SUFFICES ASSUME TypeInv, StoreInv, HistoryInv, [Next]_vars PROVE HistoryInv'
  OBVIOUS
<1>1. ASSUME NEW d \in Deployments, Fault(d) PROVE HistoryInv'
  BY <1>1, UnwindHistory DEF Fault
<1>2. ASSUME NEW d \in Deployments, Crash(d) PROVE HistoryInv'
  <2>1. /\ pc'[d] = "idle" /\ Alone(d) /\ stored' = stored /\ meta' = meta
        /\ nextId' = nextId
    BY <1>2 DEF Crash, Exit, Alone, store, TypeInv, ControlOK
  <2>2. HistoryOf(d)'
    BY <2>1 DEF HistoryOf, HistoryInv
  <2> QED BY <2>1, <2>2, HistoryFrame
<1>3. CASE CoreUpdate \/ UNCHANGED vars
  BY <1>3 DEF CoreUpdate, vars, store, HistoryInv, HistoryOf, HistoryAt
<1> QED BY <1>1, <1>2, <1>3, StartHistory, HistoryStep DEF Next
-----------------------------------------------------------------------------
\* Everything the proofs below need, as an invariant.
Inv == TypeInv /\ StoreInv /\ HistoryInv

LEMMA InvHolds == Spec => []Inv
<1>1. Init => Inv
  BY InitType, InitKeeps, HistoryInit DEF Inv
<1>2. Inv /\ [Next]_vars => Inv'
  BY NextType, NextKeeps, HistoryNext DEF Inv
<1> QED BY <1>1, <1>2, PTL DEF Spec

LEMMA StoredIsFinite ==
  ASSUME NEW S \in SUBSET Ids
  PROVE  IsFiniteSet(S) /\ Cardinality(S) \in Nat
<1>1. MaxReleases \in Int
  BY PromotionAssumption
<1>2. IsFiniteSet(Ids)
  BY <1>1, FS_Interval DEF Ids
<1>3. IsFiniteSet(S)
  BY <1>2, FS_Subset
<1> QED BY <1>3, FS_CardinalityType

\* ReleaseStore has its own copies of the operators of FiniteSets.
LEMMA SameCardinality ==
  ASSUME NEW S PROVE AbstractStore!Cardinality(S) = Cardinality(S)
<1>1. AbstractStore!IsFiniteSet(S) = IsFiniteSet(S)
  BY DEF AbstractStore!IsFiniteSet, IsFiniteSet
<1> QED BY <1>1 DEF AbstractStore!Cardinality, Cardinality

LEMMA SameStored ==
  ASSUME NEW d PROVE AbstractStore!Stored(d) = Stored(d)
BY DEF AbstractStore!Stored, Stored

\* An error return before the claims are accepted discards the newest release,
\* which was never active and has no metadata; any other leaves all releases.
LEMMA UnwindRefines ==
  ASSUME Inv, NEW d \in Deployments, pc[d] # "idle", Unwind(d)
  PROVE  [AbstractStore!Next]_(AbstractStore!vars)
<1> DEFINE r == job[d].run
<1>1. meta' = meta /\ current' = current
  BY DEF Unwind
<1>2. CASE ~ job[d].fresh
  BY <1>1, <1>2 DEF Unwind, AbstractStore!vars
<1>3. CASE job[d].fresh
  <2>1. stored' = [stored EXCEPT ![d][r] = NoCommit]
    BY <1>3 DEF Unwind
  <2>2. /\ Phase(d, pc[d], job[d]) /\ HistoryAt(d, pc[d], job[d]) /\ r \in Ids
        /\ \A s \in Ids : s >= nextId[d] => stored[d][s] = NoCommit
    BY DEF Inv, TypeInv, HasWork, RunningJob, StoreInv, HistoryInv, HistoryOf
  <2>3. /\ job[d].kind = "deploy" /\ stored[d][r] \in Commits /\ nextId[d] = r + 1
        /\ current[d] # r /\ r \notin meta[d]
    BY <1>3, <2>2 DEF Phase, Known, BeforeSwitch, HistoryAt
  <2>4. r \in Stored(d) \ (meta[d] \cup {current[d]})
    BY <2>2, <2>3, PromotionAssumption DEF Stored
  <2>5. \A s \in Stored(d) : s <= r
    BY <2>2, <2>3 DEF Stored, Ids
  <2>6. AbstractStore!Discard(d)
    BY <1>1, <2>1, <2>4, <2>5, SameStored DEF AbstractStore!Discard
  <2> QED BY <2>6 DEF AbstractStore!Next
<1> QED BY <1>2, <1>3

LEMMA StepRefines ==
  ASSUME Inv, NEW d \in Deployments, CommandStep(d)
  PROVE  [AbstractStore!Next]_(AbstractStore!vars)
<1> DEFINE j == job[d]
           r == j.run
<1>h. /\ pc[d] # "idle" /\ r \in Ids /\ Phase(d, pc[d], j) /\ HistoryAt(d, pc[d], j)
      /\ \A s \in Ids : s >= nextId[d] => stored[d][s] = NoCommit
  BY StepRuns DEF Inv, TypeInv, HasWork, RunningJob, StoreInv, HistoryInv, HistoryOf
<1>1. CASE Proceeds(d) \/ Ends(d)
  BY <1>1 DEF Proceeds, Ends, AbstractStore!vars
<1>2. CASE Compute(d)
  BY <1>2 DEF Compute, store, AbstractStore!vars
<1>3. CASE Adopt(d)
  <2>1. /\ stored' = [stored EXCEPT ![d][r] = j.commit]
        /\ meta' = meta /\ current' = current /\ pc[d] = "adopt"
    BY <1>3 DEF Adopt
  <2>2. j.commit \in Commits /\ nextId[d] = r + 1 /\ stored[d][r] = NoCommit
    BY <1>h, <2>1 DEF Phase, HistoryAt, Early
  <2>3. \A s \in Stored(d) : s < r
    BY <1>h, <2>2 DEF Stored, Ids
  <2>4. AbstractStore!Adopt(d)
    BY <1>h, <2>1, <2>2, <2>3, SameStored DEF AbstractStore!Adopt
  <2> QED BY <2>4 DEF AbstractStore!Next
<1>4. CASE SwitchCurrent(d)
  <2>1. /\ current' = [current EXCEPT ![d] = r]
        /\ stored' = stored /\ meta' = meta /\ pc[d] = "check"
    BY <1>4 DEF SwitchCurrent
  <2>2. r \in Stored(d)
    BY <1>h, <2>1, PromotionAssumption DEF Phase, Known, Stored
  <2>3. AbstractStore!Activate(d)
    BY <2>1, <2>2, SameStored DEF AbstractStore!Activate
  <2> QED BY <2>3 DEF AbstractStore!Next
<1>5. CASE Prune(d)
  <2>1. PICK s \in Prunable(d) : stored' = [stored EXCEPT ![d][s] = NoCommit]
    BY <1>5 DEF Prune
  <2>2. meta' = meta /\ current' = current /\ current[d] = r
    BY <1>5, <1>h DEF Prune, Phase, AfterSwitch, BeforeSwitch, Labels
  <2> DEFINE newer == {current[d]} \cup {n \in Stored(d) : n > s}
  <2>3. s \in Stored(d) \ {current[d]} /\ ~ (Cardinality(newer) < Keep)
    BY <2>2 DEF Prunable, PruneSet, KeepSet
  <2>4. Cardinality(newer) \in Nat
    <3>1. newer \in SUBSET Ids
      BY <1>h, <2>2 DEF Stored
    <3> QED BY <3>1, StoredIsFinite
  <2>5. Cardinality(newer) >= Keep
    BY <2>3, <2>4, PromotionAssumption
  <2>6. AbstractStore!Prune(d)
    BY <2>1, <2>2, <2>3, <2>5, SameStored, SameCardinality DEF AbstractStore!Prune
  <2> QED BY <2>6 DEF AbstractStore!Next
<1>6. CASE Document(d)
  <2>1. /\ meta' = [meta EXCEPT ![d] = @ \cup {r}]
        /\ stored' = stored /\ current' = current /\ pc[d] = "document"
    BY <1>6 DEF Document
  <2>2. current[d] = r /\ r # 0
    BY <1>h, <2>1 DEF Phase, AfterSwitch, BeforeSwitch, Labels, Ids
  <2>3. AbstractStore!Document(d)
    BY <2>1, <2>2 DEF AbstractStore!Document
  <2> QED BY <2>3 DEF AbstractStore!Next
<1> QED
  BY <1>h, <1>1, <1>2, <1>3, <1>4, <1>5, <1>6, StepKinds, UnwindRefines
  DEF Inv, Fails

LEMMA InitRefines == Init => AbstractStore!Init
<1> SUFFICES ASSUME Init PROVE AbstractStore!Init
  OBVIOUS
<1>1. Installed \in [Deployments -> Commits \cup {NoCommit}] /\ 1 \in Ids
  BY PromotionAssumption DEF Ids
<1>2. \A d \in Deployments :
        AbstractStore!Stored(d) = IF Installed[d] = NoCommit THEN {} ELSE {1}
  BY <1>1 DEF Init, AbstractStore!Stored
<1>3. stored \in [Deployments -> [Ids -> Commits \cup {NoCommit}]]
  BY <1>1 DEF Init
<1> QED BY <1>2, <1>3 DEF Init, AbstractStore!Init

\* Promotion implements ReleaseStore: whatever fails, is killed, rolled back or
\* pruned, and whatever other deployments do, a release is removed only before it
\* was ever active or with Keep others active or newer, and metadata is only
\* written for the active release.
THEOREM StoreRefined == Spec => ReleaseStoreSpec
<1>1. Inv /\ [Next]_vars => [AbstractStore!Next]_(AbstractStore!vars)
  <2> SUFFICES ASSUME Inv, [Next]_vars PROVE [AbstractStore!Next]_(AbstractStore!vars)
    OBVIOUS
  <2>1. ASSUME NEW d \in Deployments, Start(d) PROVE UNCHANGED <<stored, meta, current>>
    BY <2>1 DEF Start, NoOp, StartDeploy, StartRollback, store
  <2>2. ASSUME NEW d \in Deployments, Fault(d)
        PROVE  [AbstractStore!Next]_(AbstractStore!vars)
    BY <2>2, UnwindRefines DEF Fault, Fallible
  <2>3. ASSUME NEW d \in Deployments, Crash(d) PROVE UNCHANGED <<stored, meta, current>>
    BY <2>3 DEF Crash, store
  <2>4. CASE CoreUpdate \/ UNCHANGED vars
    BY <2>4 DEF CoreUpdate, vars, store, AbstractStore!vars
  <2> QED BY <2>1, <2>2, <2>3, <2>4, StepRefines DEF Next, AbstractStore!vars
<1> QED BY <1>1, InvHolds, InitRefines, PTL DEF Spec, ReleaseStoreSpec, AbstractStore!Spec
-----------------------------------------------------------------------------
\* An error return of a deploy removes what it has staged, and of a rollback nothing.
LEMMA UnwindStaging ==
  ASSUME TypeInv, NEW d \in Deployments, Unwind(d)
  PROVE  IF job[d].kind = "deploy" THEN job[d].run \notin incoming'[d]
                                   ELSE incoming'[d] = incoming[d]
<1>1. incoming \in [Deployments -> SUBSET Ids]
  BY DEF TypeInv, StoreOK
<1>2. CASE job[d].kind = "deploy"
  <2>1. incoming' = [incoming EXCEPT ![d] = @ \ {job[d].run}]
    BY <1>2 DEF Unwind
  <2> QED BY <1>1, <1>2, <2>1
<1>3. CASE job[d].kind # "deploy"
  BY <1>3 DEF Unwind
<1> QED BY <1>2, <1>3

\* A command that ends as failed returned an error, or found no release.
LEMMA FailureKinds ==
  ASSUME Inv, [Next]_vars, NEW d \in Deployments, Finishes(d, "failed")
  PROVE  NoSuchRelease(d) \/ Fails(d)
<1>1. pc[d] # "idle" /\ pc'[d] = "idle" /\ verdict'[d] = "failed"
  BY DEF Finishes
<1>2. ASSUME NEW e \in Deployments, Start(e) PROVE FALSE
  BY <1>1, <1>2 DEF Start, NoOp, StartDeploy, StartRollback, Begin, Goto, Inv,
     TypeInv, ControlOK
<1>3. ASSUME NEW e \in Deployments \ {d} PROVE ~ (CommandStep(e) \/ Fault(e) \/ Crash(e))
  <2>1. ~ CommandStep(e)
    <3>1. CommandStep(e) => pc'[d] = pc[d]
      <4>1. Fails(e) \/ Compute(e) \/ Adopt(e) \/ SwitchCurrent(e) \/ Prune(e)
              \/ Document(e) => pc'[d] = pc[d]
        BY <1>3 DEF Fails, Unwind, Exit, Goto, Compute, Adopt, SwitchCurrent, Prune,
           Document, Inv, TypeInv, ControlOK
      <4>2. Proceeds(e) \/ Ends(e) => pc'[d] = pc[d]
        BY <1>3 DEF Proceeds, Ends, Alone
      <4> QED BY <1>3, <4>1, <4>2, StepKinds DEF Inv
    <3> QED BY <3>1, <1>1
  <2>2. ~ (Fault(e) \/ Crash(e))
    BY <1>1, <1>3 DEF Fault, Crash, Unwind, Exit, Inv, TypeInv, ControlOK
  <2> QED BY <2>1, <2>2
<1>4. CASE CommandStep(d)
  <2>1. ~ (Proceeds(d) \/ Adopt(d) \/ Compute(d) \/ SwitchCurrent(d))
    BY <1>1 DEF Proceeds, Adopt, Compute, SwitchCurrent, Goto, Inv, TypeInv, ControlOK
  <2>2. ~ (Prune(d) \/ Document(d))
    BY <1>1 DEF Prune, Document, Exit, Inv, TypeInv, ControlOK
  <2> QED BY <1>1, <1>4, <2>1, <2>2, StepKinds DEF Inv, Ends
<1>5. CASE Fault(d)
  BY <1>5 DEF Fault, Fails, Links
<1>6. CASE Crash(d)
  BY <1>1, <1>6 DEF Crash, Exit, Inv, TypeInv, ControlOK
<1>7. CASE CoreUpdate \/ UNCHANGED vars
  BY <1>1, <1>7 DEF CoreUpdate, vars
<1> QED BY <1>2, <1>3, <1>4, <1>5, <1>6, <1>7 DEF Next

\* What an error return does to the release of the command: the release of a deploy
\* is gone where its claims were still to be validated and stays from there on, and
\* that of a rollback stays (the deferred RemoveAll of promoteLocked).
LEMMA UnwindRelease ==
  ASSUME Inv, NEW d \in Running, Unwind(d)
  PROVE  IF job[d].kind = "deploy"
         THEN (job[d].run \in Stored(d)') <=> (pc[d] \notin Unvalidated)
         ELSE Stored(d)' = Stored(d)
<1>1. /\ d \in Deployments /\ job[d].run \in Ids /\ pc[d] \in Labels \ {"idle"}
      /\ Phase(d, pc[d], job[d]) /\ HistoryAt(d, pc[d], job[d])
      /\ stored \in [Deployments -> [Ids -> Commits \cup {NoCommit}]]
  BY DEF Running, Inv, TypeInv, ControlOK, HasWork, RunningJob, StoreInv, HistoryInv,
     HistoryOf, StoreOK
<1>2. CASE job[d].kind = "deploy" /\ job[d].fresh
  <2>1. stored' = [stored EXCEPT ![d][job[d].run] = NoCommit]
    BY <1>2 DEF Unwind
  <2>2. stored'[d][job[d].run] = NoCommit
    BY <1>1, <2>1
  <2>3. pc[d] \in Unvalidated
    BY <1>1, <1>2 DEF Phase, Unvalidated
  <2> QED BY <1>2, <2>2, <2>3 DEF Stored
<1>3. CASE job[d].kind = "deploy" /\ ~ job[d].fresh
  <2>1. stored' = stored
    BY <1>3 DEF Unwind
  <2>2. CASE pc[d] \in Unvalidated
    BY <1>1, <1>3, <2>1, <2>2 DEF Stored, HistoryAt, Early, Unvalidated
  <2>3. CASE pc[d] \notin Unvalidated
    <3>1. stored[d][job[d].run] \in Commits
      BY <1>1, <2>3 DEF Phase, Known, Unvalidated
    <3> QED BY <1>1, <1>3, <2>1, <2>3, <3>1, PromotionAssumption DEF Stored
  <2> QED BY <2>2, <2>3
<1>4. CASE job[d].kind # "deploy"
  BY <1>1, <1>4 DEF Unwind, Phase, Stored
<1> QED BY <1>2, <1>3, <1>4

\* A deploy that fails after the switch leaves its release stored and active,
\* its links in place, and neither its marker nor its staging.
THEOREM LateFailureKeeps == Spec => LateFailureKeepsRelease
<1> DEFINE Kept(d) == /\ current'[d] = job[d].run /\ Active(d)' = Active(d)
                      /\ job[d].owned => marker' # d
                      /\ job[d].kind = "deploy" => job[d].run \notin incoming'[d]
                      /\ Links(d)' = Links(d)
<1>1. ASSUME Inv, [Next]_vars, NEW d \in Running, Finishes(d, "failed"),
             current[d] = job[d].run
      PROVE  Kept(d)
  <2>1. /\ d \in Deployments /\ job[d].run \in Ids
        /\ Phase(d, pc[d], job[d]) /\ HistoryAt(d, pc[d], job[d])
        /\ current[d] # 0 => Active(d) \in Commits
    BY <1>1 DEF Running, Inv, TypeInv, HasWork, RunningJob, StoreInv, HistoryInv,
       HistoryOf
  <2>2. ~ NoSuchRelease(d)
    BY <1>1, <2>1, PromotionAssumption DEF NoSuchRelease, Active, Stored, Ids
  <2>3. Unwind(d) /\ Links(d)' = Links(d)
    BY <1>1, <2>1, <2>2, FailureKinds DEF Fails
  <2>4. ~ job[d].fresh
    BY <1>1, <2>1 DEF Phase, BeforeSwitch
  <2>5. job[d].owned => marker' # d
    BY <2>1, <2>3, PromotionAssumption DEF Unwind, HistoryAt, Cleared, OwnsMarker
  <2>6. job[d].kind = "deploy" => job[d].run \notin incoming'[d]
    BY <1>1, <2>1, <2>3, UnwindStaging DEF Inv
  <2> QED BY <1>1, <2>3, <2>4, <2>5, <2>6 DEF Unwind, Active
<1>2. Inv /\ [Next]_vars
        => [\A d \in Running :
              Finishes(d, "failed") /\ current[d] = job[d].run => Kept(d)]_vars
  BY <1>1
<1> QED BY <1>2, InvHolds, PTL DEF Spec, LateFailureKeepsRelease
-----------------------------------------------------------------------------
\* Where there is nothing to prune, there are at most Keep releases: all but the
\* oldest are the active one or newer than the oldest, which is kept.
LEMMA NothingToPrune ==
  ASSUME NEW S \in SUBSET Ids, NEW a \in S, PruneSet(S, Keep, a) = {}
  PROVE  Cardinality(S) <= Keep
<1>1. Keep \in Nat /\ Keep >= 1
  BY PromotionAssumption
<1>2. CASE S = {a}
  BY <1>1, <1>2, FS_Singleton
<1>3. CASE S # {a}
  <2>1. PICK m \in S \ {a} : \A s \in S \ {a} : m <= s
    <3>1. S \ {a} \in SUBSET Nat /\ S \ {a} # {}
      BY <1>3 DEF Ids
    <3> HIDE DEF Ids
    <3> QED BY <3>1, LeastNumber
  <2> DEFINE newer == {a} \cup {n \in S : n > m}
  <2>2. m \in KeepSet(S, Keep, a)
    BY <2>1 DEF PruneSet
  <2>3. Cardinality(newer) < Keep
    BY <2>1, <2>2 DEF KeepSet
  <2>4. S = newer \cup {m} /\ m \notin newer /\ newer \in SUBSET Ids
    <3>1. m \in S /\ m # a /\ m \in Int /\ newer \subseteq S
      BY <2>1 DEF Ids
    <3>2. ASSUME NEW s \in S PROVE s \in newer \cup {m}
      <4>1. s \in Int /\ (s # a => m <= s)
        BY <2>1 DEF Ids
      <4> QED BY <3>1, <4>1
    <3>3. m \notin newer
      BY <3>1
    <3> HIDE DEF newer
    <3> QED BY <3>1, <3>2, <3>3
  <2>5. IsFiniteSet(newer) /\ Cardinality(newer) \in Nat
    BY <2>4, StoredIsFinite
  <2>6. Cardinality(S) = Cardinality(newer) + 1
    BY <2>4, <2>5, FS_AddElement
  <2> HIDE DEF newer
  <2> QED BY <1>1, <2>3, <2>5, <2>6
<1> QED BY <1>2, <1>3

\* The steps of one deployment leave the command and the releases of the others.
LEMMA OthersUntouched ==
  ASSUME TypeInv, NEW d \in Deployments, NEW e \in Deployments \ {d},
         Start(e) \/ CommandStep(e) \/ Fault(e) \/ Crash(e)
  PROVE  pc'[d] = pc[d] /\ job'[d] = job[d] /\ stored'[d] = stored[d]
<1> USE DEF TypeInv, ControlOK, StoreOK
<1>1. Unwind(e) => pc'[d] = pc[d] /\ job'[d] = job[d] /\ stored'[d] = stored[d]
  BY DEF Unwind, Exit
<1>2. CASE Start(e)
  BY <1>2 DEF Start, NoOp, StartDeploy, StartRollback, Goto, store
<1>3. CASE CommandStep(e)
  <2>1. CASE Proceeds(e) \/ Ends(e)
    BY <2>1 DEF Proceeds, Ends, Alone
  <2>2. CASE Compute(e) \/ SwitchCurrent(e)
    BY <2>2 DEF Compute, SwitchCurrent, Goto, store
  <2>3. CASE Adopt(e)
    BY <2>3 DEF Adopt, Goto
  <2>4. CASE Prune(e) \/ Document(e)
    BY <2>4 DEF Prune, Document, Exit
  <2> QED BY <1>1, <1>3, <2>1, <2>2, <2>3, <2>4, StepKinds DEF Fails
<1>4. CASE Fault(e) \/ Crash(e)
  BY <1>1, <1>4 DEF Fault, Crash, Exit, store
<1> QED BY <1>2, <1>3, <1>4

\* Metadata is written only when there is nothing left to prune.
PrunedInv == \A d \in Deployments : pc[d] = "document" => Prunable(d) = {}

LEMMA PrunedNext == Inv /\ PrunedInv /\ [Next]_vars => PrunedInv'
<1> SUFFICES ASSUME Inv, PrunedInv, [Next]_vars, NEW d \in Deployments,
                    pc'[d] = "document"
             PROVE  Prunable(d)' = {}
  BY DEF PrunedInv
<1>1. TypeInv /\ pc \in [Deployments -> Labels] /\ job \in [Deployments -> Job]
  BY DEF Inv, TypeInv, ControlOK
<1>2. pc'[d] = pc[d] /\ job'[d] = job[d] /\ stored'[d] = stored[d] => Prunable(d)' = {}
  BY DEF PrunedInv, Prunable, Stored
<1>3. ASSUME NEW e \in Deployments \ {d},
             Start(e) \/ CommandStep(e) \/ Fault(e) \/ Crash(e)
      PROVE  Prunable(d)' = {}
  BY <1>1, <1>2, <1>3, OthersUntouched
<1>4. CASE Start(d)
  BY <1>1, <1>4 DEF Start, NoOp, StartDeploy, StartRollback, Begin, Goto
<1>5. CASE CommandStep(d)
  <2>1. DonePruning(d)
    <3>1. ~ (Fails(d) \/ Ends(d) \/ Document(d))
      BY <1>1 DEF Fails, Ends, Unwind, Exit, Document
    <3>2. ~ (Adopt(d) \/ Compute(d) \/ SwitchCurrent(d) \/ Prune(d))
      BY <1>1 DEF Adopt, Compute, SwitchCurrent, Prune, Goto
    <3> QED BY <1>1, <1>5, <3>1, <3>2, StepKinds DEF Proceeds
  <2> QED BY <1>1, <2>1 DEF DonePruning, Goto, Prunable, Stored, store
<1>6. CASE Fault(d) \/ Crash(d)
  BY <1>1, <1>6 DEF Fault, Crash, Unwind, Exit
<1>7. CASE CoreUpdate \/ UNCHANGED vars
  BY <1>2, <1>7 DEF CoreUpdate, vars, store
<1> QED BY <1>3, <1>4, <1>5, <1>6, <1>7 DEF Next

\* A deploy that succeeds leaves at most Keep releases, counting what commands
\* that failed or were killed have left.
THEOREM Bounded == Spec => RetentionBound
<1> DEFINE Few(d) == Finishes(d, "success") /\ job[d].kind = "deploy"
                       => Cardinality(Stored(d)') <= Keep
<1>1. ASSUME Inv, PrunedInv, [Next]_vars, NEW d \in Deployments,
             Finishes(d, "success"), job[d].kind = "deploy"
      PROVE  Cardinality(Stored(d)') <= Keep
  <2>1. /\ TypeInv /\ pc \in [Deployments -> Labels] /\ job \in [Deployments -> Job]
        /\ verdict \in [Deployments -> Statuses]
        /\ pc[d] # "idle" /\ pc'[d] = "idle" /\ verdict'[d] = "success"
    BY <1>1 DEF Inv, TypeInv, ControlOK, Finishes
  <2>2. Document(d)
    <3>1. ASSUME NEW e \in Deployments \ {d}
          PROVE  ~ (Start(e) \/ CommandStep(e) \/ Fault(e) \/ Crash(e))
      BY <2>1, OthersUntouched
    <3>2. ~ Start(d)
      BY <2>1 DEF Start, NoOp, StartDeploy, StartRollback, Begin
    <3>3. ~ (Fault(d) \/ Crash(d) \/ Fails(d) \/ Ends(d))
      BY <1>1, <2>1 DEF Fault, Crash, Fails, Ends, Unwind, Exit
    <3>4. ~ (Proceeds(d) \/ Adopt(d) \/ Compute(d) \/ SwitchCurrent(d) \/ Prune(d))
      BY <2>1 DEF Proceeds, Adopt, Compute, SwitchCurrent, Prune, Goto
    <3>5. ~ (CoreUpdate \/ UNCHANGED vars)
      BY <2>1 DEF CoreUpdate, vars
    <3> QED BY <1>1, <2>1, <3>1, <3>2, <3>3, <3>4, <3>5, StepKinds DEF Next
  <2>3. Stored(d)' = Stored(d) /\ pc[d] = "document"
    BY <2>2 DEF Document, Stored
  <2>4. PruneSet(Stored(d), Keep, job[d].run) = {}
    BY <1>1, <2>3 DEF PrunedInv, Prunable
  <2>5. job[d].run \in Stored(d) /\ Stored(d) \in SUBSET Ids
    <3>1. Phase(d, pc[d], job[d]) /\ job[d].run \in Ids
      BY <1>1, <2>1 DEF Inv, TypeInv, HasWork, RunningJob, StoreInv
    <3> QED BY <2>3, <3>1, PromotionAssumption DEF Phase, Known, Stored
  <2> QED BY <2>3, <2>4, <2>5, NothingToPrune
<1>2. Inv /\ PrunedInv /\ [Next]_vars => [\A d \in Deployments : Few(d)]_vars
  BY <1>1
<1>3. Init => PrunedInv
  BY DEF Init, PrunedInv
<1> QED BY <1>2, <1>3, InvHolds, PrunedNext, PTL DEF Spec, RetentionBound
=============================================================================
