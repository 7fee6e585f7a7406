# Verification of wpcloud-site-git-deploy

TLA+ models of the deployment engine, the TLC runs that check them, and TLAPS
proofs.  The reference is the Go code under `src/`; line numbers below are those
of `src/internal/...`.

## 1. The system

The tool deploys a Git repository into a WordPress docroot.  Every deployment has
an id; several deployments may publish into one docroot.  A deployment owns a
directory `.wpcloud-site-git-deploy/deployments/<id>` with its releases, and
publishes *claims*: public paths of the docroot at which it puts a relative
symlink through its `current` symlink into the active release.

| component | state | operations | interacts through |
|---|---|---|---|
| promotion, rollback (`engine/promote.go`) | public links, maintenance file, `current`, `releases/`, exchanged-paths record | `promoteLocked`, `Rollback` | the docroot, shared by all deployments and by WordPress |
| deploy pipeline (`engine/deploy.go`) | repository cache, worktrees, `incoming/`, metadata | `Deploy` | lock, promotion, metadata |
| claims (`claims`) | none | `Compute`, `Removed` | called by promotion on release trees |
| releases (`releases`) | `releases/`, metadata files | `NewID`, `List`, `Prune`, `SaveMetadata` | called by deploy, promotion, default rollback |
| public file system (`publicfs`) | none | `Exchange`, `PublicSymlinkTarget`, `AssertClaimSymlinksUnderDocroot` | system calls on the docroot |
| lock (`lock`) | lock file of a deployment | `Acquire` (does not wait), `Close` | deploy and rollback of one deployment exclude each other; nothing excludes those of different deployments |
| reports (`report`) | `runs.jsonl`, `latest-run.json`, a stats file per release | `Finish` | written by every deploy, also by one that found the lock taken |
| command line (`cli`), configuration (`config`), keys (`auth`) | configuration file, managed key | `init`, `config`, `auth`, `destroy`, ... | load, change, save, without a lock |
| doctor (`doctor`) | none | checks | reads |
| state, execx, scripts | none | path layout, command execution, installation | |

What is hard here, and what correctness means for each part:

* *Promotion* changes the live docroot with single system calls, can be killed
  between any two of them and has a failure return at nearly every one.  A success
  has to publish exactly the claims of its release whatever earlier commands left
  behind; a path served before and after is served throughout; `current` never
  dangles; and a repeated deploy must come to rest.
* *Deployments share the docroot without a common lock.*  A takeover of exactly
  the same path is allowed, to publish through or over another one is not, and a
  maintenance marker of another owner stays.
* *Claims* decide what is replaced: each file must be reachable through exactly
  one claim, and no claim may cover what the platform owns.
* *Releases* are pruned while failed and interrupted deploys also leave releases,
  and their order comes from a clock.
* *State in two places.*  Configuration, key, repository cache, worktrees and
  history belong to the deployment's *name* and lie under `$HOME`; lock, staging
  and releases belong to the *layout*, the pair of docroot and deployment id.  Only
  the layout is locked, and `config` can move a name to another layout while its
  commands run.
* *Reports, configuration, keys, destroy* are read-modify-write without a lock of
  their own.

`PROJECT.json` lists each hazard with its line and the properties that cover it.

## 2. Modules

| module | models | extends |
|---|---|---|
| `Paths` | public paths and their overlap | |
| `Docroot` | the docroot's file system and what system calls do to it | `Paths` |
| `Releases` | which releases a prune keeps | |
| `ReleaseStore` | **abstract specification** of releases, metadata and `current` | |
| `Promotion` | `promoteLocked`, `Rollback`, and `Deploy` under the lock | `Docroot`, `Releases`; instantiates `ReleaseStore` |
| `Claims` | `claims.Compute`, `Removed` over changing trees and changing boundaries | `Paths` |
| `PathIndex` | `pathOverlapIndex`, `validateClaimsNotProtected`, byte by byte | `Paths` |
| `Pruning` | `releases.List` and `Prune` loop by loop, with times, and the default rollback | `Releases` |
| `Workspace` | the state that the commands for one name share, and how a command begins and ends | `Releases` |
| `Settings` | `init`, `config`, `auth`, `destroy` | `Workspace` |
| `Reports` | `Collector.Finish`, `AppendBoundedJSONL` | `Workspace` |
| `Pipeline` | `Deploy` from the cache to the report, `Rollback`, the inspections; the composition of all commands | `Settings`, `Reports`; instantiates `ReleaseStore` |
| `MCPromotion`, `MCClaims`, `MCPathIndex`, `MCPipeline` | small instances for TLC | |
| `PathProofs` | lemmas about `Paths` | `Paths`, TLAPS |
| `PromotionProofs`, `DocrootProofs` | proofs about `Promotion`: types and releases; the docroot, where links are and what is published | one another, `Promotion`, `PathProofs` |
| `PipelineProofs`, `ServiceProofs` | proofs about `Pipeline` | one another, `Pipeline`, TLAPS |
| `ClaimsProofs`, `PruningProofs`, `PathIndexProofs` | proofs about `Claims`, `Pruning` and `PathIndex` | their model, `PathProofs`, TLAPS |

Operators introduced by the comment "A mutant" are variants with a plausible bug;
each property is shown to fail when its variant takes the place of the original.
No definition of the models uses them.

### Promotion: correspondence with the code

A deployment `d` runs one command at a time (`Begin`: the lock file is taken
without waiting, so a command that finds it taken fails and changes nothing).
`pc[d]` is the point the command has reached, `job[d]` its local variables:

| `pc` | actions | code |
|---|---|---|
| `idle` | `NoOp`, `StartDeploy`, `StartRollback` | `Deploy` to the end of rsync, `Rollback` to the lock |
| `tidy` | `TidyOne`, `TidyDone` | `cleanupExchangedPaths` before the work |
| `probe` | `Probe`, `NoSuchRelease` | own marker removed, release looked up, marker path inspected |
| `mark` | `Mark` | the rename in `createMaintenanceFile` |
| `scan` | `Scan` | `discoverDocrootFacts` |
| `adopt` | `Adopt` | `incoming` renamed into `releases`, `cleanupReleaseOnFailure := true` |
| `compute` | `Compute`, `Refuse` | claims, refusal, removed claims, `cleanupReleaseOnFailure = false` |
| `shed` | `Inspect`, `Unlink`, `StartReconcile` | `cleanupOverlappingRemovedClaims` |
| `check` | `Check`, `Reject`, `SwitchCurrent` | `rejectForeignAncestor`, `rejectForeignDescendant`; after the last claim `switchCurrent` |
| `place` | `Place`, `CannotPlace`, `Stray` | `MkdirAll`, removal of an old temporary, `Symlink` |
| `swap` | `Swap`, `CannotSwap` | the rename or the exchange |
| `record`, `drop` | `Record`, `Drop` | `appendExchangedPath`, `RemoveAll` of the displaced subtree |
| `settle` | `TidyOne`, `TidyDone` | `cleanupExchangedPaths` after the switch |
| `retire` | `Inspect`, `Unlink`, `DoneRetiring` | `removeOwnedClaim` for the removed claims |
| `verify` | `Verify`, `CannotVerify` | `AssertClaimSymlinksUnderDocroot` |
| `hook`, `unmark` | `RunHook`, `Unmark` | the hook; own marker removed; a rollback ends |
| `prune` | `Prune`, `DonePruning` | `releases.Prune` |
| `document` | `Document` | `SaveMetadata` |

`Fault` is an error return at any point where the code has one, with the deferred
calls (`Unwind`: a fresh release, an owned marker and what a deploy has staged go).
`Crash` is SIGKILL: nothing is cleaned up.  `CoreUpdate` is WordPress writing and
removing its own maintenance file.

State: `node[p]` is what `Lstat` finds at the public path `p` (nothing, a file, a
directory with content of the site, a directory with nothing else in it, or the
link of a deployment); `tmp[p]` is the subtree at the temporary name beside `p`;
`marker`, `stored`, `meta`, `current`, `incoming` and `log` are the maintenance
file, the release directories, the metadata, `current`, the staging area and the
exchanged-paths record.

Abstractions: the content of a tree is the name of its commit, so its claims
(`ClaimsOf`), whether they are refused (`Rejected`) and which links lead to
content inside the docroot (`Resolves`) are constants.  Boundaries and protected
anchors do not change.  Releases are numbered in the order of their adoption
(`Pruning` drops this).  The docroot scan, the removal of a release directory, the
deferred calls of an error return, the `Lstat` with the rename or exchange it
selects, and the check of a marker's owner with its removal are one step each.
The ref is resolved before the lock is taken, so a deploy may use any commit in
`Repo[d]`.  Maintenance mode is fixed per deployment (its override per run is not
modelled), and `CreateTemp` files and worktrees, which nothing else reads, are
left out.

### Claims, PathIndex, Pruning

`Claims` lets a repository gain and lose entries and deploys it in between, so a
path turns from a file into a directory and back; the operators are `Compute`,
`claimForPath` and `sharedContainerFor` on sequences of names.  Between deploys
the platform may turn directories into sticky boundaries or back (`Restructure`).
A deploy computes the claims of the old and of the new release with the boundaries
it finds (promote.go:136-152), so what an earlier deploy published under others is
only known from the links in the docroot.  A claim takes away the boundaries at and
below it, with the directory that it replaces.  Trees two claims of which overlap,
which the code would place one inside the other, are left out.  `ClaimsApart` shows
that there are none where boundaries and containers have only boundaries above them.

`PathIndex` works on the text: the binary search for `path + "/"` is correct only
because every descendant sorts from there on without a gap, which names such as
`a-b` (before `a/`) put to the test.  In the sorted list each text stands at its rank;
the search is a recursive function of its window, a pair of bounds.

`Pruning` runs the two loops of `Prune` on modification times that may repeat or
step back.  The removal of a directory is two steps and can stop in between; what
is left is a directory with a part of its content, its old metadata, and maybe a new
modification time.  `ChooseTarget` is `selectRollbackTarget`, which runs before the
lock is taken, so anything may happen until `Rollback` looks for the release again.
The sorted list of `List` is the one in which each release stands at its rank.

### Workspace, Settings, Reports, Pipeline: correspondence with the code

A *layout* stands for a pair of docroot and deployment id.  Processes in `Procs`
run commands for one name; `job[p].conf` is the configuration a command has loaded
and goes on with, whatever `config` does meanwhile.

| `pc` | actions | code |
|---|---|---|
| `repo`, `fetch`, `resolve` | `EnsureRepo`, `Fetch`, `Resolve`, `CannotGit` | `ensureRepo`, `git fetch`, `resolveRef` (deploy.go:81-107); an inspection ends after the first or second |
| `lock` | `Acquire`, `Busy` | `lock.Acquire`, after which a deploy sweeps and a rollback switches |
| `sweep` | `Sweep` | `cleanupStaleStaging`: all worktrees of the name, all staging of the layout |
| `check` | `Check` | the no-op check |
| `worktree`, `copy`, `copying` | `AddWorktree`, `Copy`, `Copied`, `CannotStage` | `git worktree add`; rsync into `incoming` while others may delete what it reads |
| `adopt`, `validate`, `switch`, `prune` | `Adopt`, `Validate`, `Refuse`, `Switch`, `Prune`, `Pruned` | `promoteLocked`, in the steps that concern releases (`Promotion` has the rest) |
| `document` | `Document` | `SaveMetadata` |
| `clean` | `Clean` | the deferred removal of `incoming` and of the worktree |
| `read`, `append`, `sidecar`, `latest` | actions of `Reports` | `Finish`: history read, history renamed into place, stats file, latest run |
| `unlock` | `Unlock` | `Close` of the lock, after `Finish` |
| `return` | `Switch`, `NoSuchRelease` | `Rollback` under the lock |
| `purge`, `renew`, `keygen`, `generate`, `import` | `PurgeKey`, `RenewKey`, `MakeKey`, `CannotMakeKey` | `runAuth`: the key changes first |
| `save` | `Save` | `config.Save`, the end of `init`, `config` and `auth` |
| `dir`, `cache`, `tmp`, `key` | `RemoveDir`, `RemoveRepo`, `RemoveTmp`, `RemoveKey` | `runDestroy`, in its order |

`Fault` is a failing call with the error return of the command, `Kill` is SIGKILL;
`flock` is released with the process in both cases.  Commits are numbered in the
order in which they are pushed, so a smaller number is an older commit.  Pushes are
merged into the steps that look at the remote: a commit nobody sees yet changes
nothing.  `torn` are releases of which a part was not copied, because the worktree
was taken away under rsync; `lost` are worktrees that `destroy`, or a sweep from
another layout, took from a deploy.

Left out: children of a killed command that go on (rsync, git), a partial clone,
Git's administrative record of a worktree, two clones at once, forced pushes, refs
other than a branch, the deploy root.  The public half of the key goes with the
private one.

## 3. Runs

| run | question | bounds, and why they are enough |
|---|---|---|
| `Promotion_turns` | Does a deployment keep its promises when anything fails once, and do deployments that overlap respect each other in turn? | 3 releases with `Keep` 2, so that a prune happens and a rollback can name a pruned release; 1 fault anywhere; 5 commits: a file turning into a directory, fewer claims, a tree that escapes the docroot, a refused tree; forced deploys; a second deployment whose rollbacks publish its claims again, so that paths are taken over and ancestors and descendants meet in both directions |
| `Promotion_together` | What is safe when all steps of two deployments interleave? | 2 releases each, so that each command has an older release to go wrong with; one claim of its own, a disputed pair (a file and a directory at one path) and a refused tree that claims the shared container above it; 1 fault; one of them uses the maintenance file |
| `Promotion_cron` | Does a repeated deploy come to rest? | 2 faults, 4 releases: every deploy that fails or is killed takes an id, two may, and two remain; a file of the site and a link of the deployment stand where claims go, so that there is an exchange and a removal to be killed in; WordPress updates at any time |
| `Claims` | Which claims do trees get, and which stay? | 10 paths: at, above and below a container, a runtime path and nested boundaries, one of them a file in the place of a boundary; any of two nested boundaries |
| `PathIndex` | Is the search right? | indexes of up to 4 of 16 paths, names of 1 or 2 bytes around the slash |
| `Pruning` | Which releases survive, and whole? | 4 releases, 2 times, `keepReleases` 2: enough for a removal that stops, a later one that prunes again and a rollback in between |
| `Pipeline` | What do the commands of one name do to each other? | 2 processes, 3 commands of any kind, 2 layouts, 1 fault, 2 commits, `Keep` 1 and a history of 2 lines, so that the second success prunes and the third attempt cuts. Two commands overlap in every way, a third one comes before, between or after them |

Main properties of `Promotion`:

* `CurrentIsReal`, `StoreInv`: `current` never dangles; the point a command has
  reached agrees with what is stored.
* `SuccessPublishesExactly`: after a success the links of the deployment are the
  claims of its release, and all of them lead to content, although earlier
  commands may have stopped half-way.
* `SuccessLeavesNoResidue`: nor are a marker, a record, staging or a displaced
  path left beside its claims.
* `SteadyClaimsStayVisible`, `RemovalAfterSwitch`: what the old and the new release
  both publish is served at every step, where no other deployment works; what is
  dropped is served up to the switch unless it stands in the way.
* `FailureCleansUp`: a deploy that fails leaves no staging, and its release exactly
  if its claims had been validated (promote.go:161).  So one that is refused
  afterwards stays and can be rolled back to, also when it is the first claim that is
  refused (340-343) and no public path has changed.  A rollback that fails leaves
  releases and staging alone, and neither leaves an own marker if it got as far as to
  look for one.
* `LateFailureKeepsRelease`: a failure after the switch leaves the release stored,
  active and published, without marker and staging (invariants.md:122-123).
* `StaysInTerritory`: no step changes anything outside what accepted commits of its
  deployment claim, but for directories on the way to a claim, though several
  deployments work in one tree and a stored, recorded or found path may be stale.
* `RetentionBound`, `ContainersSurvive`.
* `ForeignClaimsUntouched`: one command at a time, the links of others stay.
* `ReleaseStoreSpec`: `Promotion` implements `ReleaseStore` (a prune removes only
  releases with `Keep` active or newer ones; a failure drops only a release that
  was never active; metadata is for the active release).
* `CronConverges`: under `CronSpec` the docroot settles.

Where commands of different deployments overlap in time, `SuccessPublishesExactly`,
`SuccessLeavesNoResidue` and `SteadyClaimsStayVisible` speak of the paths at, above
and below which no other deployment has a claim (`Undisputed`).

Main properties of the other models:

* `Claims`: `EveryFilePublishedOnce` (one claim per file, no claim left over from
  earlier boundaries), `PlatformPathsKept` (given boundaries at the directories above
  it, and no file of the release in the place of one of them, no claim touches a
  runtime path, a container, a boundary or the namespace), `ClaimsApart`.
* `Pruning`: `ActiveSurvives`, `ActiveStaysWhole`, `PruneKeepsEnough` (a release is
  removed only when `keepReleases` others are to stay, and in the end exactly these
  are there), `LoopComputesKeepSet` (with a clock that goes forward the loop ends with
  the operator `KeepSet` that `Promotion` has in its place).
* `Pipeline`: `SuccessServesFresh`: a deploy that ends well, a no-op included,
  leaves a documented and whole release active that is no older than the branch was
  at its start.  (Than the branch is at its end it may be older: the ref is resolved
  before the lock is taken.)  Whole means that nobody took the worktree under rsync,
  which only `destroy` and a deploy of another layout can do.
* `NoStagingLeft`: a deploy that got the lock leaves neither its own nor anybody's
  older staging, whatever it and earlier deploys ended with.
* `LockedAttemptsRecorded`, `LatestNeverOlder`: a deploy that has the lock adds its
  record and loses none, because `Finish` comes before `Close`; exceptions are a full
  file, and a last line appended without this lock, by a deploy that found it taken
  or one of another layout.  The latest run does not go back.
* `DestroyLeavesNothing`, `AuthLeavesUsableKey`: run alone they repair whatever a
  killed command left.
* `ReleaseStoreSpec` of `Pipeline`: the releases of every layout implement
  `ReleaseStore` while names move between layouts.

**Fairness.** `CronSpec` assumes that a command that runs goes on (the operating
system schedules it; Git, rsync and the hook end) and that commands are started
again (cron).  Faults are bounded, so in the end there are none.  Everything else
is safety and needs no fairness.  `CHECK_DEADLOCK FALSE` is set where the release
numbers or the commands run out and the model stops there; `Claims` and `PathIndex`
never stop.  `Pipeline` uses that processes, and layouts, are alike (`Alike`).

`ForeignClaimsUntouched`, and `SuccessPublishesExactly` for disputed paths, hold for
commands of overlapping deployments one at a time (`Promotion_turns`); the first
fails when they overlap, see below.  `Promotion_cron` starts with a file of the site
at a path that is claimed as a directory: with a directory there, the first finding
makes the retry fail for ever.

### Findings

| run | what the run shows |
|---|---|
| `Promotion_unrecorded` | The exchange (promote.go:364) comes before its record (368).  A command killed between them leaves the displaced directory at the temporary name and no record of it, against "recorded durably before they are deleted" and "retried" (invariants.md:40-42).  `os.Remove` cannot remove it, so the next replacement at that path fails. |
| `Promotion_engulf` | Between the walk for foreign links (343) and the exchange (364) another deployment can publish below the directory; its link is replaced and deleted with it, against invariants.md:65-66. |
| `Promotion_marker` | `strings.Contains(text, "deployment_id="+id)` (promote.go:778) also matches ids that begin with `id`.  While one deployment is promoted, a command of another one whose id begins its id removes its marker, against "matching deployment id" and "must not remove another deployment's active maintenance marker" (invariants.md:118-120).  `Mentions` says which ids a marker matches. |
| `Promotion_no_op` | A no-op deploy returns before any clean-up, so a killed forced deploy leaves the marker, and the site in maintenance, however often cron runs, against invariants.md:121 and 41-42. |
| `Pruning_torn` | `Prune` removes the directory of a release and leaves its metadata.  When the removal is interrupted, the rest of the directory counts as a release with metadata and may be the newest, so that the default rollback goes to it, against the comment at cli/run.go:570-571. |

Seen while modelling, without a run of their own:

* A path that is replaced leads into the old release, or nowhere, until the switch
  (against the comment at promote.go:362).
* The comment at promote.go:125-126 keeps a failed release from being selectable
  "until claim validation and reconciliation prove this release is usable", but the
  flag is reset between the two (161).  A deploy that reconciliation refuses
  (340-343), or whose exchanged-paths file cannot be written (332), leaves its
  release, also when nothing public has changed.  invariants.md:32-33 asks for the
  removal only "before public path reconciliation", which `FailureCleansUp` confirms.
* A marker that WordPress or another deployment creates between `Lstat` and the
  rename is overwritten (promote.go:800-835); `MarkersRespected` does not hold then
  either.
* When another deployment replaces an ancestor of a claim by its link between the
  check (340) and `MkdirAll` (346), the claim is made inside the release tree of
  that deployment (`Stray`), against invariants.md:63-64.
* The temporary link of a killed command stays, and dangles, until its path is
  claimed again.
* Without a sticky boundary above `wp-content` a file of it claims the whole of it,
  shared containers included, and next to a file in a container the claims of one
  release overlap (claims.go:137-140 against invariants.md:84-87).
* A maintenance file with a configured name is not refused (claims.go:14 against
  invariants.md:81).
* A deploy that finds the lock taken appends its record while the one that has the
  lock may do the same: one record is lost (report.go:285-344).  A record of more
  than 4 MB makes every later append fail (report.go:302).
* A deploy that runs while its name is destroyed makes `deployments/<name>` again
  for its report (report.go:289), and can adopt a copy of a part of its worktree;
  so can one whose worktree a deploy from another layout sweeps (deploy.go:257).
* `auth --remove --purge-key` deletes the key before it saves the configuration
  without it (run.go:373), and a concurrent `config` is lost (run.go:254, 399).

## 4. Proofs

For every set of deployments, processes, layouts, paths, commits and releases and
every bound, from `PromotionAssumption`, `DocrootAssumption`, `WorkspaceAssumption`,
`ClaimsAssumption`, `PruningAssumption` and `PathIndexAssumption`, and where the table
says so one more hypothesis:

| theorem | statement |
|---|---|
| `PromotionProofs!TypeCorrect` | `Spec => []TypeOK` |
| `PromotionProofs!StoreConsistent` | `Spec => []StoreInv` |
| `PromotionProofs!CurrentNeverDangles` | `Spec => []CurrentIsReal` |
| `PromotionProofs!StoreRefined` | `Spec => ReleaseStoreSpec` |
| `PromotionProofs!LateFailureKeeps` | `Spec => LateFailureKeepsRelease` |
| `PromotionProofs!Bounded` | `Spec => RetentionBound` |
| `DocrootProofs!ContainersStay` | `Spec => []ContainersSurvive` |
| `DocrootProofs!TerritoryKept` | `Spec => StaysInTerritory` |
| `DocrootProofs!DocrootIsTree` | `Spec => []WellFormed(node)` |
| `DocrootProofs!PublishesExactly` | `Spec => SuccessPublishesExactly` |
| `DocrootProofs!LeavesNoResidue` | `Spec => SuccessLeavesNoResidue` |
| `DocrootProofs!FailureCleans` | `Spec => FailureCleansUp` |
| `DocrootProofs!SteadyClaimsStay` | `Spec => SteadyClaimsStayVisible` |
| `DocrootProofs!RemovedAfterSwitch` | `Spec => RemovalAfterSwitch` |
| `DocrootProofs!ForeignUntouched` | `Spec => ForeignClaimsUntouched`, if `MaxActive = 1` |
| `PipelineProofs!TypeCorrect` | `Spec => []TypeOK` |
| `PipelineProofs!DestroyRemovesAll` | `Spec => DestroyLeavesNothing` |
| `PipelineProofs!AuthKeyUsable` | `Spec => AuthLeavesUsableKey` |
| `ServiceProofs!StagingRemoved` | `Spec => NoStagingLeft` |
| `ServiceProofs!ServesFresh` | `Spec => SuccessServesFresh` |
| `ServiceProofs!AttemptsRecorded` | `Spec => LockedAttemptsRecorded` |
| `ServiceProofs!LatestAdvances` | `Spec => LatestNeverOlder` |
| `ServiceProofs!PipelineImplementsStore` | `Spec => ReleaseStoreSpec` |
| `ClaimsProofs!TypeCorrect` | `Spec => []TypeOK` |
| `ClaimsProofs!PublishedOnce` | `Spec => []EveryFilePublishedOnce` |
| `ClaimsProofs!PlatformKept` | `Spec => []PlatformPathsKept` |
| `ClaimsProofs!ApartByBoundaries` | `Spec => []ClaimsApart` |
| `PruningProofs!ActiveNeverPruned` | `Spec => []ActiveSurvives` |
| `PruningProofs!ActiveNeverTorn` | `Spec => ActiveStaysWhole` |
| `PruningProofs!PruneKeeps` | `Spec => PruneKeepsEnough` |
| `PruningProofs!LoopIsKeepSet` | `Spec => LoopComputesKeepSet` |
| `PathIndexProofs!RefusedOnOverlap` | `Spec => []RefusedExactlyOnOverlap` |

`Promotion`:

* *Types.*  `TypeOK` is not inductive: the actions at `place`, `swap`, `record` and
  `drop` handle the first path of a set, and every action of a command its release.
  `TypeInv` adds that there is one (`HasWork`).  `FirstInSet` uses the one
  assumption on `Rank` that is not its type, that every non-empty set of paths has a
  least member.
* *`current` never dangles.*  `StoreInv` is inductive given `TypeInv`: it says where
  a command may have which `run`: a new release is the newest id and not active
  before the switch, a release that is fresh is one at `compute`, from `compute` on
  it exists, after the switch it is the active one.  Only `Unwind` and `Prune` remove
  a release; the first removes a fresh one, which is not active, and the second never
  the one that is active.
* *The refinement.*  `StoreInv` says nothing about metadata and the past of an id,
  which `ReleaseStore` speaks about.  `HistoryInv` adds it: nothing is stored under
  the id of a deploy until it is adopted, there is no metadata for it before the
  deploy ends, it is fresh while its claims are computed, and only a deployment with
  maintenance mode owns a marker.  `Inv`, the conjunction of the three, is inductive.
  `StepKinds` sorts the actions of a command into those that write nothing about
  releases (`Proceeds`, `Ends`), the error returns (`Fails`) and the five that each
  map to an action of `ReleaseStore`; all others stutter.  `SameCardinality` is there
  because an instance brings a `Cardinality` of its own.
* *Failures.*  `LateFailureKeepsRelease` follows from `Inv` at the step that fails
  (`FailureKinds`): every error return goes through `Unwind`, and `Inv` says what is
  fresh, owned and stored there.  So do the release and the staging in
  `FailureCleansUp` (`UnwindRelease`, `UnwindStaging`); that no own marker is left
  where the command owns none comes from `Residue`, below.
* *Retention.*  `PrunedInv`: at `document` there is nothing left to prune.
  `NothingToPrune` turns this into a number: the oldest release beside the active
  one is kept, so fewer than `Keep` are active or newer.  That there is an oldest one
  uses the well-foundedness of the numbers.
* *The site's directories.*  `SiteInv` adds where links can be: in the docroot and
  beside it (`LinkInv`), in the facts a command has gathered and in the paths it is
  about to remove or to publish (`Accepts`), only paths that an accepted commit
  claims.  So the release that is active must not be a refused one, which holds
  because every command passes `Compute` on its way to the switch.  `Unlink` and
  `Swap` change the docroot at or below such a path only, and `MkdirParents` only
  where nothing is.
* *What a command can reach.*  What a command has recorded, gathered or computed is
  in its `Territory`, so `Reach` sorts the changes of a step: at or below a path of
  the territory, or a directory made where nothing was on the way to one.
  `TerritoryKept` states it for every path; `OthersApart` uses it for the paths that
  another deployment has to itself.
* *Links, and commands that overlap.*  `PublishesExactly`, `LeavesNoResidue`,
  `SteadyClaimsStay` and `RemovedAfterSwitch` hold for any number of deployments whose
  steps interleave, three of them at the paths that no other one works at.  Beside
  `OthersApart` that needs what holds of a command that runs (`WorkOf`) and survives
  its own steps:
  - `Whereabouts`: where links of the deployment can be.  After the scan each is in
    `job.links`; from `shed` on it is a new claim or a path to be removed; after
    the last removal it is a new claim.
  - `InPlace`: which claims are done.  From the first `check` on a claim that is no
    longer in `todo` has its link and nothing beside it; `AtHand` says the same of
    the claim at hand, whose link is beside its path before the exchange and in it
    afterwards.
  - `Visits`: what the loops go through.  A removal never meets a new claim, and one
    before the switch overlaps a new claim.  `Verify` ends only when all links lead
    to content.
  - `Residue`: the record is empty after the switch, a deploy has staged nothing but
    its release, and once the command has looked at the maintenance file, a marker
    that it does not own is another's.

  `SuccessPublishesExactly` and `SuccessLeavesNoResidue` are these four at the last
  step, and `FailureCleansUp` takes its marker from the last of them.  For `SteadyClaimsStayVisible` and `RemovalAfterSwitch`, `LinkFate` says that
  a link goes only by `Unlink` at its path or by `Swap` at or above it, and
  `ActiveStep` that what `current` leads to changes at the switch only.
* *The docroot is a tree.*  `SoundInv`: entries exist only inside directories, in the
  docroot and in what stands beside a path.  It is inductive for commands that
  overlap, because an exchange moves whole subtrees and parents are made from above;
  `DocrootIsTree` is its half about the docroot, and is stated by no run.
* *Commands that take turns.*  `ForeignClaimsUntouched` is false for commands that
  overlap (`Promotion_engulf`), so its theorem assumes `MaxActive = 1`: one command at
  a time, of all deployments.  `SoleInv` says what that gives: what `Check` and
  `Inspect` have seen is still so at the next step.  With `SoundInv` an exchange where
  nothing foreign is below changes at most the link at its own path.

`Pipeline`:

* *Types.*  That an id is always left for a deploy that asks for one needs a count:
  the ids given out and the deploys that still wait for one are no more than the
  commands that have started (`IdsSuffice`).  `Shape` says which local variables a
  command has where.
* *What one process leaves to the others.*  `Framed` and `StepKinds` are the lemmas
  the rest cites: a step of one process does not change the control of another, and
  it moves a lock only from or to itself.  So a command from the acquisition to the
  end of its own deferred calls has its lock (`LockInv`).
* *Commands that run alone.*  `AloneInv`: while a command is alone no other takes a
  step, and each of its steps leaves in place what it has removed or made before.
  `DestroyRemovesAll` and `AuthKeyUsable` read this off at the last step.
* *Deploys beside other commands.*  `CountersInv` and `JobCounters`: ids and commits
  come from counters that only grow, and no two deploys have the same id.  Given
  that, `ProcessInv` follows one deploy through its locked part: what is staged
  (`StagingOf`), which commit it has and serves (`FreshOf`), that its id is above
  every other of its layout up to the adoption and above the latest run up to the
  report (`OrderOf`), and that the history it has read is the one in the file, unless
  someone without this lock appended last (`LinesOf`).  `ProcessInv` of one process
  has to hold through every step of another, which writes to the same layout only
  with the lock, and without it only what `destroy` and a sweep may remove.
* *The refinement.*  `Adopt`, `Switch`, `Prune` and `Document` map to the action of
  the same purpose, `Refuse` to the one that discards, everything else stutters.

`Claims`: `ClaimInv` is inductive.  What is published does not overlap, is one claim
for each visible entry by the boundaries of its deploy (`Fits`) and nothing else.
The lemmas below it are about prefixes (`PathProofs`): two paths at or above one path
are comparable (`PrefixChain`), the deepest boundary exists (`Deepest`, with the
well-foundedness of the numbers), and what `claimForPath` returns (`ClaimFits`).
`ApartByBoundaries`: if one claim is above another, the deepest boundary of the second
is above the first or below it, and either contradicts that boundaries are enclosed.

`Pruning`:

* *The active release.*  `SafeInv` says, for a clock that may repeat or step back,
  that `Prune` holds the active release in `keep` and that the directory it has begun
  to remove is not in it.
* *The loops.*  `KeepingInv` and `RemovingInv` are the loop invariants: what the
  first loop has passed is newer than what is to come and was wanted at its turn;
  while releases are removed, what is not to be kept is still to come.  That `List`
  has every release exactly once (`Listed`) is a counting argument on the ranks.

`PathIndex`: nothing changes here but the arguments, so the proof is about operators.
They are recursive functions; each induction is on a least counterexample
(`LeastNumber` in `PathProofs`).

* *Order.*  `TextOrder`: the order of texts is total, transitive and antisymmetric,
  from the first position at which two texts differ.  `SortedList`: the text at each
  rank exists and is the only one, by counting, so the list is the set, in order.
* *Search.*  `HalvedFirst`, by the size of the window: the search ends at the first
  position whose text is not before the one that is looked for.
* *Spelling.*  `SpellFacts` and `TermBegins`: where names hold no slash and are not
  empty, a text that ends in a slash begins another one only if its names begin the
  names of the other (`TextsTell` for equal texts); `WalkMeets` says that the walk to
  the ancestors visits just the texts of the ancestors.
* *Overlap.*  `Contiguous`: nothing sorts between `a/` and a text that begins with it
  but texts that do.  So the search finds a descendant if there is one (`SearchMeets`),
  and with the walk every overlap (`OverlapsMeans`).

Proof layout: a lemma for the way control goes on (`GotoType`, `GotoKeeps`), ends
(`Exit...`, `End...`) and fails (`Unwind...`, `Failed...`); then one step per action.

Model-checked only: `CronConverges`, because liveness under fairness is out of the
prover's reach, and the properties that the findings refute.

## 5. Not modelled, and the plan

Not modelled:

* what Git, LFS, rsync and hooks do inside; only that they succeed, fail or are
  overtaken (`Pipeline`), and children of a killed command that go on;
* argument parsing, help texts, output, and the checks of single fields of a
  configuration (`cli/parser.go`, `config`): functions without state;
* `doctor`, `list`, `releases`, `status`, which only read; of `branches`, `tags` and
  `commits` `Pipeline` has what they do to the repository cache, as inspections;
* in reports, the collection of statistics and the length of a line; the order and
  the atomicity of the writes are modelled;
* the public half of a key and the test of remote access;
* `execx` and the installation scripts, which hold no state of a deployment.

Left for a continuation:

1. In `Promotion`: boundaries that change during a promotion, and releases torn by a
   kill in the middle of a prune (now in `Pruning` alone).
2. Whether the releases of `Promotion` and of `Pipeline` agree step by step: both are
   shown to implement `ReleaseStore`, neither to implement the other.
