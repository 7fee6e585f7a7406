------------------------------ MODULE Pipeline ------------------------------
(***************************************************************************)
(* The commands of one deployment name together: Deploy of the engine from *)
(* the repository cache to the report, Rollback, the inspection of the     *)
(* repository, and the commands of Settings.  Processes run them at the    *)
(* same time and are killed between any two steps.                         *)
(*                                                                         *)
(* Simplifications.  promoteLocked is four steps, which Promotion refines: *)
(* adoption, validation, the switch, pruning.  The deferred removals on a  *)
(* return are one step and succeed.  The branch only moves forward, and    *)
(* git fetches it in one step.  The deploy root does not change.           *)
(***************************************************************************)
EXTENDS Settings, Reports

Labels ==
  {"idle", "save", "purge", "renew", "keygen", "generate", "import", "import --force",
   "dir", "cache", "tmp", "key", "repo", "fetch", "resolve", "lock", "sweep", "check",
   "worktree", "copy", "copying", "adopt", "validate", "switch", "prune", "document",
   "clean", "return", "read", "append", "sidecar", "latest", "unlock"}

Init ==
  /\ dir = TRUE
  /\ config \in {[layout |-> l, key |-> "other"] : l \in Layouts}
  /\ key = FALSE /\ repo = 0 /\ worktrees = {}
  /\ runs = <<>> /\ latest = NoRun
  /\ lock = [l \in Layouts |-> Nobody]
  /\ incoming = [l \in Layouts |-> {}]
  /\ stored = [l \in Layouts |-> [r \in Ids |-> 0]]
  /\ torn = {}
  /\ meta = [l \in Layouts |-> {}]
  /\ current = [l \in Layouts |-> 0]
  /\ sidecars = [l \in Layouts |-> {}]
  /\ tip = 1 /\ nextId = 1 /\ started = 0 /\ faults = 0 /\ lost = {}
  /\ pc = [p \in Procs |-> "idle"]
  /\ job = [p \in Procs |-> NoJob]

StartPipeline(p) ==
  /\ config # NoConfig
  /\ \/ Begin(p, "deploy", "repo", config, 0)
     \/ Begin(p, "inspect", "repo", config, 0)
     \/ \E r \in Ids \cap 1..nextId : Begin(p, "rollback", "lock", config, r)

\* An error return.  A deploy removes its staging first, and reports.
Failed(p) ==
  IF job[p].kind = "deploy"
  THEN Goto(p, IF job[p].run = 0 THEN "read" ELSE "clean", job[p]) /\ UNCHANGED lock
  ELSE End(p)
-----------------------------------------------------------------------------
\* git reaches the remote with the key that the loaded configuration names.
Access(p) == job[p].conf.key = "managed" => key

\* ensureRepo: the cache is there, or is cloned.  An inspection without --fetch
\* needs no more.
EnsureRepo(p) ==
  /\ pc[p] = "repo"
  /\ IF repo = 0 THEN Access(p) /\ Pushes /\ repo' = tip' ELSE UNCHANGED <<repo, tip>>
  /\ \/ Goto(p, "fetch", job[p]) /\ UNCHANGED lock
     \/ job[p].kind = "inspect" /\ End(p)
  /\ UNCHANGED <<dir, config, key, worktrees, reports, site, nextId, started, faults, lost>>

Fetch(p) ==
  /\ pc[p] = "fetch"
  /\ repo # 0 /\ Access(p)
  /\ Pushes /\ repo' = tip'
  /\ IF job[p].kind = "inspect" THEN End(p)
     ELSE Goto(p, "resolve", job[p]) /\ UNCHANGED lock
  /\ UNCHANGED <<dir, config, key, worktrees, reports, site, nextId, started, faults, lost>>

\* resolveRef of the branch.
Resolve(p) ==
  /\ pc[p] = "resolve"
  /\ repo # 0
  /\ Goto(p, "lock", [job[p] EXCEPT !.commit = repo])
  /\ UNCHANGED <<home, reports, lock, site, world>>

\* The key or the cache that git needs is gone.
CannotGit(p) ==
  /\ \/ pc[p] \in {"repo", "fetch"} /\ ~ Access(p) /\ (pc[p] = "repo" => repo = 0)
     \/ pc[p] \in {"fetch", "resolve", "worktree"} /\ repo = 0
  /\ Failed(p)
  /\ UNCHANGED <<home, reports, site, world>>

\* A mutant: flock is not asked.
AlwaysFree(l) == TRUE

Free(l) == lock[l] = Nobody

\* lock.Acquire does not wait.
Acquire(p) ==
  /\ pc[p] = "lock"
  /\ Free(Layout(p))
  /\ lock' = [lock EXCEPT ![Layout(p)] = p]
  /\ Goto(p, IF job[p].kind = "deploy" THEN "sweep" ELSE "return", job[p])
  /\ UNCHANGED <<home, reports, site, world>>

Busy(p) ==
  /\ pc[p] = "lock"
  /\ ~ Free(Layout(p))
  /\ Failed(p)
  /\ UNCHANGED <<home, reports, site, world>>

\* A mutant: only the docroot is swept.
KeptWorktrees == worktrees

\* removeStaleChildren of tmp/<name> keeps nothing.
SweptWorktrees == {}

\* cleanupStaleStaging: every worktree of the name, whoever uses it, and every
\* staged release of the layout.
Sweep(p) ==
  /\ pc[p] = "sweep"
  /\ worktrees' = SweptWorktrees
  /\ incoming' = [incoming EXCEPT ![Layout(p)] = {}]
  /\ lost' = lost \cup {w \in worktrees : \E q \in Running :
                          job[q].run = w /\ Layout(q) # Layout(p)}
  /\ Goto(p, "check", [job[p] EXCEPT !.mark = nextId])
  /\ UNCHANGED <<dir, config, key, repo, reports, lock, stored, torn, meta, current,
                 tip, nextId, started, faults>>

\* A mutant: any documented release is good enough.
Documented(l, c) == current[l] \in meta[l]

\* loadCurrentMetadata and CurrentMatches.
CurrentMatches(l, c) == current[l] \in meta[l] /\ stored[l][current[l]] = c

\* Without --force, a deploy of what is current ends here.
Check(p) ==
  /\ pc[p] = "check"
  /\ \E force \in BOOLEAN :
       IF ~ force /\ CurrentMatches(Layout(p), job[p].commit)
       THEN Goto(p, "read", [job[p] EXCEPT !.status = "no_op"])
       ELSE Goto(p, "worktree", job[p])
  /\ UNCHANGED <<home, reports, lock, site, world>>

\* NewID and git worktree add.
AddWorktree(p) ==
  /\ pc[p] = "worktree"
  /\ repo # 0
  /\ worktrees' = worktrees \cup {nextId}
  /\ nextId' = nextId + 1
  /\ Goto(p, "copy", [job[p] EXCEPT !.run = nextId])
  /\ UNCHANGED <<dir, config, key, repo, reports, lock, site, tip, started, faults, lost>>

HasWorktree(p) == job[p].run \in worktrees

\* The deploy root is there, and rsync starts.
Copy(p) ==
  /\ pc[p] = "copy"
  /\ HasWorktree(p)
  /\ incoming' = [incoming EXCEPT ![Layout(p)] = @ \cup {job[p].run}]
  /\ Goto(p, "copying", job[p])
  /\ UNCHANGED <<home, reports, lock, stored, torn, meta, current, world>>

\* rsync ends.  Where the worktree was taken away meanwhile it may have copied
\* the directories that were emptied before it came to them.
Copied(p) ==
  /\ pc[p] = "copying"
  /\ torn' = IF HasWorktree(p) THEN torn ELSE torn \cup {job[p].run}
  /\ Goto(p, "adopt", job[p])
  /\ UNCHANGED <<home, reports, lock, incoming, stored, meta, current, world>>

\* There is no worktree to copy, or nothing was staged.
CannotStage(p) ==
  /\ \/ pc[p] \in {"copy", "copying"} /\ ~ HasWorktree(p)
     \/ pc[p] = "adopt" /\ job[p].run \notin incoming[Layout(p)]
  /\ Failed(p)
  /\ UNCHANGED <<home, reports, site, world>>

Adopt(p) ==
  /\ pc[p] = "adopt"
  /\ LET l == Layout(p) IN
       /\ job[p].run \in incoming[l]
       /\ stored' = [stored EXCEPT ![l][job[p].run] = job[p].commit]
       /\ incoming' = [incoming EXCEPT ![l] = @ \ {job[p].run}]
  /\ Goto(p, "validate", job[p])
  /\ UNCHANGED <<home, reports, lock, torn, meta, current, world>>

\* The claims of the release are accepted, or it is removed again.
Validate(p) ==
  /\ Move(p, "validate", "switch")
  /\ UNCHANGED <<home, reports, lock, site, world>>

Refuse(p) ==
  /\ pc[p] = "validate"
  /\ stored' = [stored EXCEPT ![Layout(p)][job[p].run] = 0]
  /\ Failed(p)
  /\ UNCHANGED <<home, reports, incoming, torn, meta, current, world>>

\* switchCurrent, which a rollback reaches when its release exists.
Switch(p) ==
  /\ \/ Move(p, "switch", "prune")
     \/ /\ pc[p] = "return" /\ job[p].run \in Stored(Layout(p))
        /\ Goto(p, "unlock", [job[p] EXCEPT !.status = "success"])
  /\ current' = [current EXCEPT ![Layout(p)] = job[p].run]
  /\ UNCHANGED <<home, reports, lock, incoming, stored, torn, meta, world>>

NoSuchRelease(p) ==
  /\ pc[p] = "return" /\ job[p].run \notin Stored(Layout(p))
  /\ End(p)
  /\ UNCHANGED <<home, reports, site, world>>

Prunable(p) == PruneSet(Stored(Layout(p)), Keep, job[p].run)

Prune(p) ==
  /\ pc[p] = "prune"
  /\ \E r \in Prunable(p) :
       /\ \A s \in Prunable(p) : s <= r
       /\ stored' = [stored EXCEPT ![Layout(p)][r] = 0]
  /\ UNCHANGED <<home, reports, lock, incoming, torn, meta, current, world, pc, job>>

Pruned(p) ==
  /\ Move(p, "prune", "document")
  /\ Prunable(p) = {}
  /\ UNCHANGED <<home, reports, lock, site, world>>

Document(p) ==
  /\ pc[p] = "document"
  /\ meta' = [meta EXCEPT ![Layout(p)] = @ \cup {job[p].run}]
  /\ Goto(p, "clean", [job[p] EXCEPT !.status = "success"])
  /\ UNCHANGED <<home, reports, lock, incoming, stored, torn, current, world>>

\* A mutant: the lock is released before Finish.
ReleasedEarly(p) == [lock EXCEPT ![Layout(p)] = Nobody]

\* The lock while the deploy reports: Close comes after Finish.
DuringReport(p) == lock

\* The deferred removal of incoming and of the worktree.
Clean(p) ==
  /\ Move(p, "clean", "read")
  /\ incoming' = [incoming EXCEPT ![Layout(p)] = @ \ {job[p].run}]
  /\ worktrees' = worktrees \ {job[p].run}
  /\ lock' = DuringReport(p)
  /\ UNCHANGED <<dir, config, key, repo, reports, stored, torn, meta, current, world>>

Unlock(p) ==
  /\ pc[p] = "unlock"
  /\ End(p)
  /\ UNCHANGED <<home, reports, site, world>>

PipelineStep(p) ==
  \/ EnsureRepo(p) \/ Fetch(p) \/ Resolve(p) \/ CannotGit(p) \/ Acquire(p) \/ Busy(p)
  \/ Sweep(p) \/ Check(p) \/ AddWorktree(p) \/ Copy(p) \/ Copied(p) \/ CannotStage(p)
  \/ Adopt(p) \/ Validate(p) \/ Refuse(p) \/ Switch(p) \/ NoSuchRelease(p)
  \/ Prune(p) \/ Pruned(p) \/ Document(p) \/ Clean(p) \/ Unlock(p)
-----------------------------------------------------------------------------
CountFault == faults < MaxFaults /\ faults' = faults + 1

\* A call fails and the command returns the error; where a key is removed the
\* error is ignored.
Fault(p) ==
  /\ CountFault
  /\ pc[p] \notin {"idle", "purge", "renew", "check", "validate", "clean", "read",
                   "append", "sidecar", "latest", "unlock"}
  /\ Failed(p)
  /\ UNCHANGED <<home, reports, site, tip, nextId, started, lost>>

Kill(p) ==
  /\ CountFault
  /\ pc[p] # "idle"
  /\ End(p)
  /\ UNCHANGED <<home, reports, site, tip, nextId, started, lost>>

Next ==
  \E p \in Procs : \/ StartPipeline(p) \/ PipelineStep(p)
                   \/ StartSettings(p) \/ SettingsStep(p)
                   \/ ReportStep(p) \/ Fault(p) \/ Kill(p)

Spec == Init /\ [][Next]_vars
-----------------------------------------------------------------------------
\* Every variable has its type.
TypeOK ==
  /\ dir \in BOOLEAN /\ config \in Configs \cup {NoConfig} /\ key \in BOOLEAN
  /\ repo \in 0..MaxTip /\ worktrees \subseteq Ids
  /\ runs \in Seq(Records) /\ Len(runs) <= Retain
  /\ latest \in [run : Ids, layout : Layouts] \cup {NoRun}
  /\ lock \in [Layouts -> Procs \cup {Nobody}]
  /\ incoming \in [Layouts -> SUBSET Ids]
  /\ stored \in [Layouts -> [Ids -> 0..MaxTip]]
  /\ torn \subseteq Ids /\ lost \subseteq Ids
  /\ meta \in [Layouts -> SUBSET Ids] /\ sidecars \in [Layouts -> SUBSET Ids]
  /\ current \in [Layouts -> 0..MaxCommands]
  /\ tip \in 1..MaxTip /\ nextId \in 1..MaxCommands + 1
  /\ started \in 0..MaxCommands /\ faults \in 0..MaxFaults
  /\ pc \in [Procs -> Labels]

\* The command of p ends on its own in this step.
Completes(p) == pc[p] # "idle" /\ pc'[p] = "idle" /\ faults' = faults

\* A deploy that ends well, with or without work, leaves a documented release
\* active that is no older than what the branch was when it started: a lock that
\* is taken after the ref is resolved lets the service fall behind the branch
\* of now, never behind the branch of then.  And the release is a whole copy,
\* unless the worktree was taken from the deploy that made it by destroy or by
\* a sweep from another layout; the lock does not exclude these.
SuccessServesFresh ==
  [][\A p \in Procs :
       Completes(p) /\ job[p].kind = "deploy" /\ job[p].status \in {"success", "no_op"} =>
         LET l == Layout(p) IN
           /\ current[l] \in meta[l]
           /\ stored[l][current[l]] >= job[p].since
           /\ current[l] \in torn => current[l] \in lost]_vars

\* A deploy that got the lock, and is not killed, leaves no staging: not its
\* own, and of none that earlier deploys left, whatever they ended with.
NoStagingLeft ==
  [][\A p \in Procs : Completes(p) /\ job[p].kind = "deploy" /\ job[p].mark # 0 =>
       /\ incoming'[Layout(p)] = {}
       /\ \A w \in worktrees' : w >= job[p].mark /\ w # job[p].run]_vars

\* destroy, where nothing else runs, leaves nothing of the deployment in $HOME,
\* whatever was killed before (code-flow.md, "config/cache/tmp/managed keys").
DestroyLeavesNothing ==
  [][\A p \in Procs : Completes(p) /\ pc[p] = "key" /\ job[p].alone =>
       /\ ~ dir' /\ config' = NoConfig /\ ~ key' /\ repo' = 0 /\ worktrees' = {}
       /\ runs' = <<>> /\ latest' = NoRun]_vars

\* auth, where nothing else runs and no call fails, leaves a key that git can
\* use, also where an earlier auth was killed between the key and the save.
AuthLeavesUsableKey ==
  [][\A p \in Procs : Completes(p) /\ pc[p] = "save" /\ job[p].kind = "auth" /\ job[p].alone
       => (config'.key = "managed" => key')]_vars

\* The releases of every layout go only through what ReleaseStore allows, also
\* while a name moves from one layout to another with commands running.
AbstractStore == INSTANCE ReleaseStore WITH
  Deployments <- Layouts, Commits <- 1..MaxTip, NoCommit <- 0, Ids <- Ids,
  Keep <- Keep, stored <- stored, meta <- meta, current <- current
ReleaseStoreSpec == AbstractStore!Spec
=============================================================================
