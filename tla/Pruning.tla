------------------------------ MODULE Pruning ------------------------------
(***************************************************************************)
(* The releases of one deployment through deploys and default rollbacks:   *)
(* releases.List and releases.Prune step by step, and the choice of the    *)
(* rollback target by selectRollbackTarget, which does not take the lock.  *)
(*                                                                         *)
(* Modification times come from a clock that may stand still or step back. *)
(* Releases are numbered in the order of their names, which come from the  *)
(* same clock, so a later release need not have the larger number; a name  *)
(* is used once.  Removing a release directory takes two steps, and can    *)
(* stop in between.                                                        *)
(*                                                                         *)
(* Simplifications.  What a promotion does to the docroot is left out (see *)
(* Promotion): a release is adopted, given up, or made active.             *)
(* selectRollbackTarget reads "current", the list and the metadata at one  *)
(* instant.                                                                *)
(***************************************************************************)
EXTENDS Releases, Sequences, Functions

CONSTANTS
  MaxReleases,  \* bound on the releases
  Times,        \* modification times
  KeepReleases  \* keepReleases

ASSUME PruningAssumption ==
  MaxReleases \in Nat /\ Times \subseteq Nat /\ KeepReleases \in Nat \ {0}

Ids == 1..MaxReleases

VARIABLES
  mtime,    \* mtime[r] for the release directories that exist
  torn,     \* the directories of which a part has been removed
  meta,     \* the releases with a metadata file; Prune leaves the file
  used,     \* the names used so far
  active,   \* the release "current" points to, 0 before the first deploy
  phase,    \* where the deploy that holds the lock stands
  run,      \* its ReleaseID, or 0
  list,     \* what the loop of Prune has still to visit
  keep,     \* the set keep
  target    \* the default target a rollback goes for, or 0

vars == <<mtime, torn, meta, used, active, phase, run, list, keep, target>>

Phases == {"idle", "adopted", "active", "keeping", "removing", "clearing", "pruned"}

Present == DOMAIN mtime

\* A mutant: oldest first.
Older(r, s) == mtime[r] < mtime[s] \/ (mtime[r] = mtime[s] /\ r < s)

\* List: newest first, and by decreasing name where the times are equal.
Newer(r, s) == mtime[r] > mtime[s] \/ (mtime[r] = mtime[s] /\ r > s)

ListOf(S) ==
  [i \in 1..Cardinality(S) |->
     CHOOSE r \in S : Cardinality({s \in S : Newer(s, r)}) = i - 1]

\* The directory of r is gone.
Without(r) == [s \in Present \ {r} |-> mtime[s]]

\* Part of the directory of r is gone; that may set its modification time.
Tear(r) ==
  /\ torn' = torn \cup {r}
  /\ \E t \in Times \cup {mtime[r]} : mtime' = [mtime EXCEPT ![r] = t]
-----------------------------------------------------------------------------
Init ==
  /\ mtime = [r \in {} |-> 0]
  /\ torn = {} /\ meta = {} /\ used = {}
  /\ active = 0
  /\ phase = "idle" /\ run = 0
  /\ list = <<>> /\ keep = {}
  /\ target = 0

\* A deploy renames incoming to a new release and sets its time.
Adopt(r, t) ==
  /\ phase = "idle"
  /\ r \notin used
  /\ used' = used \cup {r}
  /\ mtime' = [s \in Present \cup {r} |-> IF s = r THEN t ELSE mtime[s]]
  /\ phase' = "adopted"
  /\ run' = r
  /\ UNCHANGED <<torn, meta, active, list, keep, target>>

\* The tree is refused: the deferred RemoveAll, whose error is ignored.
Discard ==
  /\ phase = "adopted"
  /\ \/ mtime' = Without(run) /\ torn' = torn
     \/ Tear(run)
  /\ phase' = "idle"
  /\ run' = 0
  /\ UNCHANGED <<meta, used, active, list, keep, target>>

\* switchCurrent.
Activate ==
  /\ phase = "adopted"
  /\ active' = run
  /\ phase' = "active"
  /\ UNCHANGED <<mtime, torn, meta, used, run, list, keep, target>>

\* A mutant: the active release is not special.
EmptyKeep == {}

\* keep := {activeRelease}.
InitialKeep == {run}

\* Prune, called with ReleaseID for activeRelease, lists the releases.
Start ==
  /\ phase = "active"
  /\ phase' = "keeping"
  /\ list' = ListOf(Present)
  /\ keep' = InitialKeep
  /\ UNCHANGED <<mtime, torn, meta, used, active, run, target>>

\* A mutant: the limit is passed before it is noticed.
FullLate(S) == Cardinality(S) > KeepReleases

\* The loop breaks when keep is large enough.
Full(S) == Cardinality(S) >= KeepReleases

KeepNext ==
  /\ phase = "keeping"
  /\ list # <<>> /\ ~ Full(keep)
  /\ keep' = keep \cup {Head(list)}
  /\ list' = Tail(list)
  /\ UNCHANGED <<mtime, torn, meta, used, active, phase, run, target>>

StopKeeping ==
  /\ phase = "keeping"
  /\ list = <<>> \/ Full(keep)
  /\ phase' = "removing"
  /\ list' = ListOf(Present)
  /\ UNCHANGED <<mtime, torn, meta, used, active, run, keep, target>>

SkipKept ==
  /\ phase = "removing"
  /\ list # <<>> /\ Head(list) \in keep
  /\ list' = Tail(list)
  /\ UNCHANGED <<mtime, torn, meta, used, active, phase, run, keep, target>>

\* os.RemoveAll of a release begins, and ends.
BeginRemoval ==
  /\ phase = "removing"
  /\ list # <<>> /\ Head(list) \notin keep
  /\ Tear(Head(list))
  /\ phase' = "clearing"
  /\ UNCHANGED <<meta, used, active, run, list, keep, target>>

EndRemoval ==
  /\ phase = "clearing"
  /\ mtime' = Without(Head(list))
  /\ torn' = torn \ {Head(list)}
  /\ list' = Tail(list)
  /\ phase' = "removing"
  /\ UNCHANGED <<meta, used, active, run, keep, target>>

Done ==
  /\ phase = "removing"
  /\ list = <<>>
  /\ phase' = "pruned"
  /\ UNCHANGED <<mtime, torn, meta, used, active, run, list, keep, target>>

\* Deploy saves the metadata of its release.
Document ==
  /\ phase = "pruned"
  /\ meta' = meta \cup {run}
  /\ phase' = "idle"
  /\ run' = 0
  /\ keep' = {}
  /\ UNCHANGED <<mtime, torn, used, active, list, target>>

\* The process is killed, or a call fails: where it stands, everything stays.
Stop ==
  /\ phase # "idle"
  /\ phase' = "idle"
  /\ run' = 0
  /\ keep' = {}
  /\ list' = <<>>
  /\ UNCHANGED <<mtime, torn, meta, used, active, target>>

\* Releases a rollback could go back to, and which of them it prefers.
Others     == Present \ {active}
Candidates == IF Others \cap meta # {} THEN Others \cap meta ELSE Others

\* selectRollbackTarget, at any time.
ChooseTarget ==
  /\ target = 0
  /\ Candidates # {}
  /\ target' = Head(ListOf(Candidates))
  /\ UNCHANGED <<mtime, torn, meta, used, active, phase, run, list, keep>>

\* A mutant: the release is taken to exist, as it did when it was chosen.
TakenToExist(r) == TRUE

\* The os.Stat of Rollback.
Exists(r) == r \in Present

\* engine.Rollback with that target, under the lock.
Rollback ==
  /\ target # 0
  /\ phase = "idle"
  /\ Exists(target)
  /\ active' = target
  /\ target' = 0
  /\ UNCHANGED <<mtime, torn, meta, used, phase, run, list, keep>>

\* The lock is taken, the release is gone, the rollback is killed or fails.
NoRollback ==
  /\ target # 0
  /\ target' = 0
  /\ UNCHANGED <<mtime, torn, meta, used, active, phase, run, list, keep>>

Next ==
  \/ \E r \in Ids, t \in Times : Adopt(r, t)
  \/ Discard \/ Activate \/ Start \/ KeepNext \/ StopKeeping
  \/ SkipKept \/ BeginRemoval \/ EndRemoval \/ Done \/ Document \/ Stop
  \/ ChooseTarget \/ Rollback \/ NoRollback

Spec == Init /\ [][Next]_vars
-----------------------------------------------------------------------------
\* The active release is there, whole or torn as it was when it became active,
\* at every instant, whatever the clock did and whenever a rollback chose its
\* target: Prune spares it, and Rollback looks again under the lock.
ActiveSurvives == active # 0 => active \in Present

\* No pruning takes anything from the release that is active.
ActiveStaysWhole ==
  [][active' = active /\ active # 0 /\ active \notin torn => active \notin torn']_vars

\* Prune removes a release only when KeepReleases others are to stay, and in the
\* end exactly these are left.  What interrupted commands left counts among them.
PruneKeepsEnough ==
  [][/\ (phase = "removing" /\ phase' = "clearing" =>
            keep \subseteq Present /\ Cardinality(keep) = KeepReleases)
     /\ (phase = "removing" /\ phase' = "pruned" =>
            Present = keep /\ Cardinality(keep) <= KeepReleases)]_vars

\* Where the clock only went forward, the loop ends with KeepSet of the releases.
LoopComputesKeepSet ==
  [][(/\ phase = "keeping" /\ phase' = "removing"
      /\ \A r, s \in Present : r < s => mtime[r] <= mtime[s])
     => keep = KeepSet(Present, KeepReleases, active)]_vars

\* What a comment says and the code does not do: a partial directory is not the
\* default target while a known-good release remains (run.go, "Default rollback
\* should prefer releases with metadata so a failed partial deploy directory
\* cannot be selected while any known-good release remains").
DefaultTargetWhole ==
  [][phase = "idle" /\ target = 0 /\ target' \in torn
       => (Others \cap meta) \ torn = {}]_vars
=============================================================================
