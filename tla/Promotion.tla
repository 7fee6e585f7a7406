----------------------------- MODULE Promotion -----------------------------
(***************************************************************************)
(* Deploy and Rollback of the engine package: promoteLocked and Rollback   *)
(* of promote.go, and the part of Deploy (deploy.go) that runs under the   *)
(* deployment lock.  Several deployments publish into one docroot.  Each   *)
(* deployment runs one command at a time, because of the non-blocking lock *)
(* file: a command that finds the lock taken fails and changes nothing, so *)
(* it is a stutter here.  Commands of different deployments interleave.    *)
(*                                                                         *)
(* A step is one system call that changes what others see, or one decision *)
(* taken from what was read.  A command can be killed between any two      *)
(* steps (Crash) and any step that can return an error can do so (Fault).  *)
(*                                                                         *)
(* Simplifications.  What a release tree holds is named by its commit.     *)
(* Boundaries and protected anchors of the docroot do not change, so the   *)
(* claims of a commit (ClaimsOf) and whether it is refused (Rejected) are  *)
(* constants.  Deferred clean-ups on an error return are one step.  The    *)
(* Lstat of a public path and the rename or exchange it selects are one    *)
(* step, and so are the check of the owner of a marker and its removal.    *)
(***************************************************************************)
EXTENDS Docroot, Releases

CONSTANTS
  Rank,         \* the byte order in which sortedKeys lists paths
  Commits,      \* what can be deployed
  NoCommit,
  Repo,         \* Repo[d]: commits a deploy of d may resolve its ref to
  ClaimsOf,     \* ClaimsOf[c]: claims.Compute of the tree of c
  Resolves,     \* Resolves[c]: links that lead to a path under the docroot while c is current
  Rejected,     \* commits that claims.Compute or validateClaimsNotProtected refuses
  Installed,    \* Installed[d]: the commit deployed before the model starts, or NoCommit
  SiteNode,     \* what the site itself has in the docroot
  Keep,         \* KeepReleases
  Maintained,   \* deployments with maintenance mode enabled
  Mentions,     \* Mentions[e]: d with "deployment_id=" + d in the text of e's marker
  NoMarker, WordPress,
  ForceModes,   \* subset of BOOLEAN: values of --force in use
  RollbackIds,  \* releases a rollback may name
  MaxReleases,  \* bound on the releases of a deployment
  MaxActive,    \* bound on commands that run at the same time
  MaxFaults,    \* bound on crashes and failing system calls
  CoreUpdates   \* whether WordPress updates itself

Ids == 1..MaxReleases

ASSUME PromotionAssumption ==
  /\ Rank \in [PublicPaths -> Nat]
  /\ \A p, q \in PublicPaths : Rank[p] = Rank[q] => p = q
  /\ \A S \in (SUBSET PublicPaths) \ {{}} :
       \E p \in S : \A q \in S : Rank[p] <= Rank[q]
  /\ NoCommit \notin Commits
  /\ Repo \in [Deployments -> SUBSET Commits]
  /\ ClaimsOf \in [Commits -> SUBSET PublicPaths]
  /\ \A c \in Commits : Antichain(ClaimsOf[c])
  /\ Resolves \in [Commits -> SUBSET PublicPaths]
  /\ Rejected \subseteq Commits
  /\ Installed \in [Deployments -> (Commits \ Rejected) \cup {NoCommit}]
  /\ SiteNode \in [PublicPaths -> Plain]
  /\ Keep \in Nat \ {0}
  /\ Maintained \subseteq Deployments
  /\ Mentions \in [Deployments -> SUBSET Deployments]
  /\ \A d \in Deployments : d \in Mentions[d]
  /\ {NoMarker, WordPress} \cap Deployments = {}
  /\ NoMarker # WordPress
  /\ ForceModes \subseteq BOOLEAN
  /\ MaxReleases \in Nat \ {0}
  /\ RollbackIds \subseteq Ids
  /\ MaxActive \in Nat
  /\ MaxFaults \in Nat
  /\ CoreUpdates \in BOOLEAN

VARIABLES
  node,      \* the public paths of the docroot
  tmp,       \* tmp[p]: what the temporary link beside p holds
  marker,    \* the maintenance file: who wrote it, or NoMarker
  stored,    \* stored[d][r]: the commit in releases/r
  meta,      \* meta[d]: releases with a metadata file
  current,   \* current[d]: the release "current" points to, or 0
  incoming,  \* incoming[d]: staged releases
  log,       \* log[d]: paths recorded in the exchanged-paths file
  nextId,    \* nextId[d]: the release id of the next deploy
  pc,        \* pc[d]: where the command of d stands
  job,       \* job[d]: its local variables
  verdict,   \* verdict[d]: how the last command of d ended
  faults     \* crashes and failing system calls so far

docroot == <<node, tmp, marker>>
store   == <<stored, meta, current, incoming, log, nextId>>
vars    == <<docroot, store, pc, job, verdict, faults>>

Kinds    == {"none", "deploy", "rollback"}
Statuses == {"none", "success", "no_op", "failed", "killed"}
Labels   == {"idle", "tidy", "probe", "mark", "scan", "adopt", "compute",
             "shed", "check", "place", "swap", "record", "drop", "settle",
             "retire", "verify", "hook", "unmark", "prune", "document"}

\* The local variables of a command.
\*   commit   what Deploy resolved its ref to
\*   run      ReleaseID
\*   owned    maintenanceOwned
\*   fresh    cleanupReleaseOnFailure
\*   links    facts.materialized
\*   removed  removedClaims
\*   todo     the paths the loop at pc has still to visit
\*   ours     removeOwnedClaim has read its own target at the next path
\*   strayed  claims that went through the link of another deployment
NoJob == [kind |-> "none", commit |-> NoCommit, run |-> 0, owned |-> FALSE,
          fresh |-> FALSE, links |-> {}, removed |-> {}, todo |-> {},
          ours |-> FALSE, strayed |-> {}]

Job == [kind : Kinds, commit : Commits \cup {NoCommit}, run : 0..MaxReleases,
        owned : BOOLEAN, fresh : BOOLEAN, links : SUBSET PublicPaths,
        removed : SUBSET PublicPaths, todo : SUBSET PublicPaths,
        ours : BOOLEAN, strayed : SUBSET PublicPaths]
-----------------------------------------------------------------------------
\* What is derived from the state.

First(S) == CHOOSE p \in S : \A q \in S : Rank[p] <= Rank[q]

\* The release directories of d, and the claims of the tree of a commit.
Stored(d)    == {r \in Ids : stored[d][r] # NoCommit}
ClaimsIn(c)  == IF c \in Commits THEN ClaimsOf[c] ELSE {}

\* The commit of the release that "current" points to, the claims of that
\* release, and those of the release the running command promotes.
Active(d)    == IF current[d] = 0 THEN NoCommit ELSE stored[d][current[d]]
OldClaims(d) == ClaimsIn(Active(d))
Coming(d)    == IF job[d].run = 0 THEN NoCommit ELSE stored[d][job[d].run]
NewClaims(d) == ClaimsIn(Coming(d))

Links(d) == {p \in PublicPaths : node[p] = d}

\* A public link that leads to content under the docroot.
Leads(p) == node[p] \in Deployments /\ Active(node[p]) \in Commits
            /\ p \in Resolves[Active(node[p])]

\* maintenanceFileIsToolOwned.
OwnsMarker(d) == marker \in Deployments /\ d \in Mentions[marker]

\* A mutant: the test of the owner is inverted.
ClearedInverted(d) == IF d \in Maintained /\ ~ OwnsMarker(d) THEN NoMarker ELSE marker

\* cleanupOwnedMaintenanceFile: the marker after d has cleaned up.
Cleared(d) == IF d \in Maintained /\ OwnsMarker(d) THEN NoMarker ELSE marker

\* loadCurrentMetadata and releases.CurrentMatches.
CurrentMatches(d, c) == current[d] \in meta[d] /\ stored[d][current[d]] = c

\* The temporary side of an exchange at p: what was at p, with the temporary
\* links inside it.
Displaced(p) ==
  LET inside(q) == \E r \in Below(p) : Ancestor(q, r) /\ tmp[r] # Nothing
  IN  [q \in PublicPaths |->
         IF ~ AtOrBelow(p, q) THEN "none"
         ELSE IF node[q] = "bare" /\ inside(q) THEN "full" ELSE node[q]]
-----------------------------------------------------------------------------
InitialNode ==
  [p \in PublicPaths |->
     IF \E d \in Deployments : p \in ClaimsIn(Installed[d])
     THEN CHOOSE d \in Deployments : p \in ClaimsIn(Installed[d])
     ELSE SiteNode[p]]

ASSUME InitialDocroot == WellFormed(InitialNode)

Init ==
  /\ node = InitialNode
  /\ tmp = [p \in PublicPaths |-> Nothing]
  /\ marker = NoMarker
  /\ stored = [d \in Deployments |->
                 [r \in Ids |-> IF r = 1 THEN Installed[d] ELSE NoCommit]]
  /\ meta = [d \in Deployments |-> IF Installed[d] = NoCommit THEN {} ELSE {1}]
  /\ current = [d \in Deployments |-> IF Installed[d] = NoCommit THEN 0 ELSE 1]
  /\ incoming = [d \in Deployments |-> {}]
  /\ log = [d \in Deployments |-> {}]
  /\ nextId = [d \in Deployments |-> IF Installed[d] = NoCommit THEN 1 ELSE 2]
  /\ pc = [d \in Deployments |-> "idle"]
  /\ job = [d \in Deployments |-> NoJob]
  /\ verdict = [d \in Deployments |-> "none"]
  /\ faults = 0

Running == {d \in Deployments : pc[d] # "idle"}

\* The command of d goes on at label l with local variables j.
Goto(d, l, j) ==
  /\ pc' = [pc EXCEPT ![d] = l]
  /\ job' = [job EXCEPT ![d] = j]
  /\ UNCHANGED <<verdict, faults>>

\* The command of d ends.
Exit(d, status) ==
  /\ pc' = [pc EXCEPT ![d] = "idle"]
  /\ job' = [job EXCEPT ![d] = NoJob]
  /\ verdict' = [verdict EXCEPT ![d] = status]

\* An error return: the deferred calls remove the release while it is fresh,
\* the marker while it is owned, and what a deploy has staged.
Unwind(d) ==
  /\ Exit(d, "failed")
  /\ stored' = IF job[d].fresh THEN [stored EXCEPT ![d][job[d].run] = NoCommit]
                               ELSE stored
  /\ marker' = IF job[d].owned THEN Cleared(d) ELSE marker
  /\ incoming' = IF job[d].kind = "deploy"
                  THEN [incoming EXCEPT ![d] = @ \ {job[d].run}] ELSE incoming
  /\ UNCHANGED <<meta, current, log, nextId>>

Fail(d) == Unwind(d) /\ UNCHANGED <<node, tmp, faults>>
-----------------------------------------------------------------------------
\* Deploy up to the rsync into incoming: the lock is taken, stale staging is
\* swept, and the deploy stops there when the current release matches.
Begin(d) ==
  /\ pc[d] = "idle"
  /\ Cardinality(Running) < MaxActive

\* The sweep removes what interrupted deploys staged; "staged" is what this
\* deploy then stages itself.
SweepStaging(d, staged) == incoming' = [incoming EXCEPT ![d] = staged]

NoOp(d, c) ==
  /\ Begin(d)
  /\ FALSE \in ForceModes
  /\ CurrentMatches(d, c)
  /\ SweepStaging(d, {})
  /\ verdict' = [verdict EXCEPT ![d] = "no_op"]
  /\ UNCHANGED <<docroot, stored, meta, current, log, nextId, pc, job, faults>>

StartDeploy(d, c, force) ==
  /\ Begin(d)
  /\ nextId[d] \in Ids
  /\ ~ force => ~ CurrentMatches(d, c)
  /\ nextId' = [nextId EXCEPT ![d] = @ + 1]
  /\ SweepStaging(d, {nextId[d]})
  /\ Goto(d, "tidy", [NoJob EXCEPT !.kind = "deploy", !.commit = c,
                                   !.run = nextId[d], !.todo = log[d]])
  /\ UNCHANGED <<docroot, stored, meta, current, log>>

StartRollback(d, r) ==
  /\ Begin(d)
  /\ Goto(d, "tidy", [NoJob EXCEPT !.kind = "rollback", !.run = r, !.todo = log[d]])
  /\ UNCHANGED <<docroot, store>>

\* cleanupExchangedPaths, called before the work starts and after the switch:
\* every recorded temporary is removed, then the record.
TidyOne(d) ==
  /\ pc[d] \in {"tidy", "settle"}
  /\ job[d].todo # {}
  /\ LET p == First(job[d].todo) IN
       /\ tmp' = [tmp EXCEPT ![p] = Nothing]
       /\ Goto(d, pc[d], [job[d] EXCEPT !.todo = @ \ {p}])
  /\ UNCHANGED <<node, marker, store>>

TidyDone(d) ==
  /\ pc[d] \in {"tidy", "settle"}
  /\ job[d].todo = {}
  /\ log' = [log EXCEPT ![d] = {}]
  /\ IF pc[d] = "tidy"
     THEN Goto(d, "probe", job[d])
     ELSE Goto(d, "retire", [job[d] EXCEPT !.todo = job[d].removed])
  /\ UNCHANGED <<docroot, stored, meta, current, incoming, nextId>>

\* The own marker of an earlier command is removed, a rollback finds that its
\* release exists, and createMaintenanceFile finds whether the path is free.
Probe(d) ==
  /\ pc[d] = "probe"
  /\ marker' = Cleared(d)
  /\ job[d].kind = "rollback" => job[d].run \in Stored(d)
  /\ Goto(d, IF d \in Maintained /\ marker' = NoMarker THEN "mark" ELSE "scan", job[d])
  /\ UNCHANGED <<node, tmp, store>>

NoSuchRelease(d) ==
  /\ pc[d] = "probe"
  /\ job[d].kind = "rollback"
  /\ job[d].run \notin Stored(d)
  /\ marker' = Cleared(d)
  /\ Exit(d, "failed")
  /\ UNCHANGED <<node, tmp, store, faults>>

\* The rename at the end of createMaintenanceFile.
Mark(d) ==
  /\ pc[d] = "mark"
  /\ marker' = d
  /\ Goto(d, "scan", [job[d] EXCEPT !.owned = TRUE])
  /\ UNCHANGED <<node, tmp, store>>

\* discoverDocrootFacts.
Scan(d) ==
  /\ pc[d] = "scan"
  /\ Goto(d, IF job[d].kind = "deploy" THEN "adopt" ELSE "compute",
          [job[d] EXCEPT !.links = Links(d)])
  /\ UNCHANGED <<docroot, store>>

\* A mutant: the flag is never set.
NeverFresh(j) == j

\* cleanupReleaseOnFailure := true.
Adopted(j) == [j EXCEPT !.fresh = TRUE]

\* incoming is renamed into the releases directory.
Adopt(d) ==
  /\ pc[d] = "adopt"
  /\ stored' = [stored EXCEPT ![d][job[d].run] = job[d].commit]
  /\ incoming' = [incoming EXCEPT ![d] = @ \ {job[d].run}]
  /\ Goto(d, "compute", Adopted(job[d]))
  /\ UNCHANGED <<docroot, meta, current, log, nextId>>

\* Mutants: materialized links are forgotten, or the new claims are.
RemovalsOfTree(d) == OldClaims(d) \ NewClaims(d)
RemovalsWithNew(d) == OldClaims(d) \cup job[d].links

\* removedClaims: the claims of the release tree that is current and the own
\* links that are materialized, without the new claims.
Removals(d) == (OldClaims(d) \cup job[d].links) \ NewClaims(d)

\* A mutant: every removal is treated as one that blocks a new claim.
BlockingAll(d, S) == S

\* The removed claims that cleanupOverlappingRemovedClaims removes.
Blocking(d, S) == {p \in S : OverlapsAny(NewClaims(d), p)}

\* A mutant: no claims are refused.
AcceptableAll(d) == TRUE

\* claims.Compute and validateClaimsNotProtected return no error.
Acceptable(d) == Coming(d) \notin Rejected

\* A mutant: the flag is never reset.
StillFresh(j) == j

\* cleanupReleaseOnFailure := false: from here the release outlives a failure.
Validated(j) == [j EXCEPT !.fresh = FALSE]

\* claims.Compute, validateClaimsNotProtected and claims.Removed; the first
\* loop to come visits the removed claims that overlap a new one.
Compute(d) ==
  /\ pc[d] = "compute"
  /\ Acceptable(d)
  /\ Goto(d, "shed",
          [Validated(job[d]) EXCEPT
             !.links = {},
             !.removed = Removals(d),
             !.todo = Blocking(d, Removals(d))])
  /\ UNCHANGED <<docroot, store>>

Refuse(d) ==
  /\ pc[d] = "compute"
  /\ ~ Acceptable(d)
  /\ Fail(d)

\* removeOwnedClaim for the next path of cleanupOverlappingRemovedClaims, or of
\* the removals after the switch: it reads the link, and removes what is there
\* by then if the target it has read is its own.
Inspect(d) ==
  /\ pc[d] \in {"shed", "retire"}
  /\ job[d].todo # {}
  /\ ~ job[d].ours
  /\ LET p == First(job[d].todo) IN
       Goto(d, pc[d], IF node[p] = d THEN [job[d] EXCEPT !.ours = TRUE]
                                     ELSE [job[d] EXCEPT !.todo = @ \ {p}])
  /\ UNCHANGED <<docroot, store>>

Unlink(d) ==
  /\ pc[d] \in {"shed", "retire"}
  /\ job[d].ours
  /\ LET p == First(job[d].todo) IN
       /\ node' = IF Removable(Displaced(p), p) THEN [node EXCEPT ![p] = "none"]
                                                ELSE node
       /\ Goto(d, pc[d], [job[d] EXCEPT !.todo = @ \ {p}, !.ours = FALSE])
  /\ UNCHANGED <<tmp, marker, store>>

\* reconcileNewClaims starts with an empty exchanged-paths file.
StartReconcile(d) ==
  /\ pc[d] = "shed"
  /\ job[d].todo = {}
  /\ log' = [log EXCEPT ![d] = {}]
  /\ Goto(d, "check", [job[d] EXCEPT !.todo = NewClaims(d)])
  /\ UNCHANGED <<docroot, stored, meta, current, incoming, nextId>>

Foreign(d) == Deployments \ {d}

\* rejectForeignAncestor.
ForeignAncestor(d, p) == \E a \in Ancestors(p) : node[a] \in Foreign(d)

\* A mutant: the directory is not walked.
ForeignHere(d, p) == node[p] \in Foreign(d) /\ node[p] \in Dirs

\* rejectForeignDescendant walks a real directory, temporary links included.
ForeignDescendant(d, p) ==
  /\ node[p] \in Dirs
  /\ \E q \in Below(p) : \/ node[q] \in Foreign(d)
                         \/ \E r \in PublicPaths : tmp[q][r] \in Foreign(d)

\* The two checks for the next claim.
Check(d) ==
  /\ pc[d] = "check"
  /\ job[d].todo # {}
  /\ LET p == First(job[d].todo) IN
       ~ ForeignAncestor(d, p) /\ ~ ForeignDescendant(d, p)
  /\ Goto(d, "place", job[d])
  /\ UNCHANGED <<docroot, store>>

Reject(d) ==
  /\ pc[d] = "check"
  /\ job[d].todo # {}
  /\ LET p == First(job[d].todo) IN ForeignAncestor(d, p) \/ ForeignDescendant(d, p)
  /\ Fail(d)

\* The next claim is done.
NextClaim(j) == [j EXCEPT !.todo = @ \ {First(@)}]

\* The way to the parent of p: free of anything but directories, through the
\* link of a deployment, or blocked by a file.
Clear(p)   == \A a \in Ancestors(p) : node[a] \in Dirs \cup {"none"}
Routed(p)  == \E a \in Ancestors(p) : node[a] \in Deployments

\* A mutant: what an earlier command left is not removed.
Untouched(p) == tmp[p] = Nothing

\* os.Remove leaves the name of the temporary link free.
Reusable(p) == Removable(tmp[p], p)

\* MkdirAll of the parent, os.Remove of what an earlier command left at the
\* name of the temporary link, and Symlink.
Place(d) ==
  /\ pc[d] = "place"
  /\ LET p == First(job[d].todo) IN
       /\ Clear(p)
       /\ Reusable(p)
       /\ node' = MkdirParents(node, p)
       /\ tmp' = [tmp EXCEPT ![p] = LinkAt(p, d)]
  /\ Goto(d, "swap", job[d])
  /\ UNCHANGED <<marker, store>>

\* A file is in the way, or a directory is at the name of the temporary link.
CannotPlace(d) ==
  /\ pc[d] = "place"
  /\ LET p == First(job[d].todo) IN
       /\ ~ (Clear(p) /\ Reusable(p))
       /\ node' = IF Clear(p) THEN MkdirParents(node, p) ELSE node
  /\ Unwind(d)
  /\ UNCHANGED <<tmp, faults>>

\* An ancestor has become a link since it was checked: the claim is made inside
\* the release tree that the link leads to.
Stray(d) ==
  /\ pc[d] = "place"
  /\ LET p == First(job[d].todo) IN
       /\ Routed(p)
       /\ Goto(d, "check", [NextClaim(job[d]) EXCEPT !.strayed = @ \cup {p}])
  /\ UNCHANGED <<docroot, store>>

\* What exchanging the temporary link beside p with p leaves beside the paths.
Exchanged(p) ==
  [q \in PublicPaths |-> IF q = p THEN IF node[p] = "none" THEN Nothing ELSE Displaced(p)
                         ELSE IF Ancestor(p, q) THEN Nothing ELSE tmp[q]]

\* The temporary link is renamed to a free path, or exchanged with what is there.
Swap(d) ==
  /\ pc[d] = "swap"
  /\ LET p == First(job[d].todo) IN
       /\ tmp[p] # Nothing
       /\ node' = Graft(node, p, tmp[p])
       /\ tmp' = Exchanged(p)
       /\ IF node[p] = "none" THEN Goto(d, "check", NextClaim(job[d]))
                              ELSE Goto(d, "record", job[d])
  /\ UNCHANGED <<marker, store>>

\* The temporary link is no longer there.
CannotSwap(d) ==
  /\ pc[d] = "swap"
  /\ LET p == First(job[d].todo) IN tmp[p] = Nothing
  /\ Fail(d)

\* appendExchangedPath, then RemoveAll of the temporary side.
Record(d) ==
  /\ pc[d] = "record"
  /\ log' = [log EXCEPT ![d] = @ \cup {First(job[d].todo)}]
  /\ Goto(d, "drop", job[d])
  /\ UNCHANGED <<docroot, stored, meta, current, incoming, nextId>>

Drop(d) ==
  /\ pc[d] = "drop"
  /\ tmp' = [tmp EXCEPT ![First(job[d].todo)] = Nothing]
  /\ Goto(d, "check", NextClaim(job[d]))
  /\ UNCHANGED <<node, marker, store>>

\* switchCurrent.
SwitchCurrent(d) ==
  /\ pc[d] = "check"
  /\ job[d].todo = {}
  /\ current' = [current EXCEPT ![d] = job[d].run]
  /\ Goto(d, "settle", [job[d] EXCEPT !.todo = log[d]])
  /\ UNCHANGED <<docroot, stored, meta, incoming, log, nextId>>

\* After the last removal, AssertClaimSymlinksUnderDocroot is next.
DoneRetiring(d) ==
  /\ pc[d] = "retire"
  /\ job[d].todo = {}
  /\ Goto(d, "verify", job[d])
  /\ UNCHANGED <<docroot, store>>

Asserted(d) == \A p \in NewClaims(d) : Leads(p) \/ p \in job[d].strayed

Verify(d) ==
  /\ pc[d] = "verify"
  /\ Asserted(d)
  /\ Goto(d, IF job[d].kind = "deploy" THEN "hook" ELSE "unmark", job[d])
  /\ UNCHANGED <<docroot, store>>

CannotVerify(d) == pc[d] = "verify" /\ ~ Asserted(d) /\ Fail(d)

\* runPostDeploy of a hook that succeeds.
RunHook(d) ==
  /\ pc[d] = "hook"
  /\ Goto(d, "unmark", job[d])
  /\ UNCHANGED <<docroot, store>>

\* The marker is removed on success; a rollback ends here.
Unmark(d) ==
  /\ pc[d] = "unmark"
  /\ marker' = Cleared(d)
  /\ IF job[d].kind = "deploy"
     THEN Goto(d, "prune", [job[d] EXCEPT !.owned = FALSE])
     ELSE Exit(d, "success") /\ UNCHANGED faults
  /\ UNCHANGED <<node, tmp, store>>

Prunable(d) == PruneSet(Stored(d), Keep, job[d].run)

\* releases.Prune removes one directory after the other, newest first.
Prune(d) ==
  /\ pc[d] = "prune"
  /\ \E r \in Prunable(d) :
       /\ \A s \in Prunable(d) : s <= r
       /\ stored' = [stored EXCEPT ![d][r] = NoCommit]
  /\ UNCHANGED <<docroot, meta, current, incoming, log, nextId, pc, job, verdict, faults>>

DonePruning(d) ==
  /\ pc[d] = "prune"
  /\ Prunable(d) = {}
  /\ Goto(d, "document", job[d])
  /\ UNCHANGED <<docroot, store>>

\* SaveMetadata; the deferred clean-up finds nothing more to remove.
Document(d) ==
  /\ pc[d] = "document"
  /\ meta' = [meta EXCEPT ![d] = @ \cup {job[d].run}]
  /\ Exit(d, "success")
  /\ UNCHANGED <<docroot, stored, current, incoming, log, nextId, faults>>
-----------------------------------------------------------------------------
\* The steps of a command, its faults, and what happens around it.
CommandStep(d) ==
  \/ TidyOne(d) \/ TidyDone(d) \/ Probe(d) \/ NoSuchRelease(d) \/ Mark(d)
  \/ Scan(d) \/ Adopt(d) \/ Compute(d) \/ Refuse(d)
  \/ Inspect(d) \/ Unlink(d) \/ StartReconcile(d)
  \/ Check(d) \/ Reject(d) \/ Place(d) \/ CannotPlace(d) \/ Stray(d)
  \/ Swap(d) \/ CannotSwap(d) \/ Record(d) \/ Drop(d) \/ SwitchCurrent(d)
  \/ DoneRetiring(d) \/ Verify(d) \/ CannotVerify(d) \/ RunHook(d)
  \/ Unmark(d) \/ Prune(d) \/ DonePruning(d) \/ Document(d)

Start(d) ==
  \/ \E c \in Repo[d] : NoOp(d, c) \/ \E force \in ForceModes : StartDeploy(d, c, force)
  \/ \E r \in RollbackIds : StartRollback(d, r)

CountFault == faults < MaxFaults /\ faults' = faults + 1

\* Where an error is returned; elsewhere the code ignores it.
Fallible == Labels \ {"idle", "shed", "retire", "unmark"}

\* A system call, the rsync or the hook fails.  A failed rename or exchange
\* takes the temporary link away.
Fault(d) ==
  /\ CountFault
  /\ pc[d] \in Fallible
  /\ LET p == First(job[d].todo) IN
       tmp' = IF pc[d] = "swap" /\ Removable(tmp[p], p)
              THEN [tmp EXCEPT ![p] = Nothing] ELSE tmp
  /\ Unwind(d)
  /\ UNCHANGED node

\* SIGKILL or a lost connection: nothing is cleaned up, the lock is released.
Crash(d) ==
  /\ CountFault
  /\ pc[d] # "idle"
  /\ Exit(d, "killed")
  /\ UNCHANGED <<docroot, store>>

\* WordPress updates itself: it writes and later removes its own marker.
CoreUpdate ==
  /\ CoreUpdates
  /\ marker' = IF marker = WordPress THEN NoMarker ELSE WordPress
  /\ UNCHANGED <<node, tmp, store, pc, job, verdict, faults>>

Next ==
  \/ \E d \in Deployments : Start(d) \/ CommandStep(d) \/ Fault(d) \/ Crash(d)
  \/ CoreUpdate

Spec == Init /\ [][Next]_vars

\* A command that runs goes on, and cron starts the next one.
CronSpec ==
  Spec /\ \A d \in Deployments : WF_vars(CommandStep(d)) /\ WF_vars(Start(d))
-----------------------------------------------------------------------------
\* Every variable has its type: the docroot holds what Lstat can find, a store
\* holds commits, and a command's locals are those of promoteLocked.
TypeOK ==
  /\ node \in [PublicPaths -> Nodes]
  /\ tmp \in [PublicPaths -> [PublicPaths -> Nodes]]
  /\ marker \in Deployments \cup {NoMarker, WordPress}
  /\ stored \in [Deployments -> [Ids -> Commits \cup {NoCommit}]]
  /\ meta \in [Deployments -> SUBSET Ids]
  /\ current \in [Deployments -> 0..MaxReleases]
  /\ incoming \in [Deployments -> SUBSET Ids]
  /\ log \in [Deployments -> SUBSET PublicPaths]
  /\ nextId \in [Deployments -> 1..(MaxReleases + 1)]
  /\ pc \in [Deployments -> Labels]
  /\ job \in [Deployments -> Job]
  /\ verdict \in [Deployments -> Statuses]
  /\ faults \in 0..MaxFaults

\* "current" never dangles: whatever failed, was killed, was rolled back or was
\* pruned, the release it points to is on disk (promote.go, the deferred
\* RemoveAll of the release and releases.Prune).
CurrentIsReal == \A d \in Deployments : current[d] # 0 => Active(d) \in Commits

\* Where a command stands and what the store holds go together: a new release is
\* the newest and becomes active at the switch, and only then; from where the
\* release is known to exist it stays; and a release that a failure would remove
\* is one whose claims are still to be computed (cleanupReleaseOnFailure).
BeforeSwitch == {"tidy", "probe", "mark", "scan", "adopt", "compute", "shed",
                 "check", "place", "swap", "record", "drop"}
AfterSwitch  == Labels \ (BeforeSwitch \cup {"idle"})

Known(l, j) == /\ l \notin {"tidy", "probe", "adopt"}
               /\ j.kind = "deploy" => l \notin {"mark", "scan"}

Phase(d, l, j) ==
  /\ j.kind # "none"
  /\ j.kind = "deploy" => j.commit \in Commits /\ nextId[d] = j.run + 1
  /\ j.kind = "deploy" /\ l \in BeforeSwitch => current[d] # j.run
  /\ l = "adopt" => j.kind = "deploy"
  /\ j.fresh => j.kind = "deploy" /\ l = "compute"
  /\ Known(l, j) => stored[d][j.run] \in Commits
  /\ l \in AfterSwitch => current[d] = j.run

StoreInv ==
  \A d \in Deployments :
    /\ current[d] # 0 => Active(d) \in Commits
    /\ \A r \in Ids : r >= nextId[d] => stored[d][r] = NoCommit
    /\ pc[d] # "idle" => Phase(d, pc[d], job[d])

\* The command of d takes this step.
Acts(d) == pc[d] # "idle" /\ <<pc[d], job[d]>>' # <<pc[d], job[d]>>

\* The command of d ends in this step with the given status.
Finishes(d, status) == pc[d] # "idle" /\ pc'[d] = "idle" /\ verdict'[d] = status

\* No command of another deployment works at, above or below p while d runs.
Undisputed(d, p) ==
  \/ MaxActive = 1
  \/ \A e \in Foreign(d) : \A c \in Repo[e] \cup {Installed[e]} :
       ~ OverlapsAny(ClaimsIn(c), p)

\* A command that succeeds has published the claims of its release, all of
\* them, and no link of its deployment is left anywhere else, whatever earlier
\* commands that failed or were killed left in the docroot, and whatever other
\* deployments do elsewhere at the same time.
SuccessPublishesExactly ==
  [][\A d \in Deployments : Finishes(d, "success") =>
       \A p \in PublicPaths : Undisputed(d, p) =>
         /\ (p \in Links(d)') = (p \in OldClaims(d)')
         /\ p \in Links(d)' => Leads(p)']_vars

\* A command that succeeds leaves no record of exchanges to clean up, no marker
\* of its own and nothing displaced beside its claims; a deploy leaves no staged
\* release either (a rollback does not sweep them).
SuccessLeavesNoResidue ==
  [][\A d \in Deployments : Finishes(d, "success") =>
       /\ log'[d] = {}
       /\ job[d].kind = "deploy" => incoming'[d] = {}
       /\ d \in Maintained => marker' # d
       /\ \A p \in OldClaims(d)' : Undisputed(d, p) => tmp'[p] = Nothing]_vars

\* A path that both the old and the new release publish is served at every
\* instant of a promotion: no step of it takes the content away, where no other
\* deployment works.  (What the new release holds there must be content: a
\* symlink out of the docroot is only found by AssertClaimSymlinksUnderDocroot,
\* after the switch.)
SteadyClaimsStayVisible ==
  [][\A d \in Deployments : Acts(d) =>
       \A p \in OldClaims(d) \cap NewClaims(d) :
         (/\ Undisputed(d, p) /\ node[p] = d
          /\ Leads(p) /\ p \in Resolves[Coming(d)]) => Leads(p)']_vars

\* A claim the new release drops is served until "current" is the new release,
\* unless it overlaps a new claim.
RemovalAfterSwitch ==
  [][\A d \in Deployments : Acts(d) =>
       \A p \in OldClaims(d) :
         (node[p] = d /\ Leads(p) /\ ~ Leads(p)' /\ ~ OverlapsAny(NewClaims(d), p))
           => current'[d] = job[d].run]_vars

\* A link of another deployment changes only by the takeover of exactly its
\* path: it is not removed, not engulfed, and no claim is made through it.
ForeignClaimsUntouched ==
  [][\A d \in Deployments : Acts(d) =>
       /\ job'[d].strayed = {}
       /\ \A p \in PublicPaths : (node[p] \in Foreign(d) /\ node'[p] # node[p])
                                   => p \in NewClaims(d) /\ node'[p] = d]_vars

\* What the releases directory, the metadata and "current" go through is what
\* ReleaseStore allows: releases are dropped only before they were active or by
\* a prune that keeps Keep others, and metadata is for the active release.
AbstractStore == INSTANCE ReleaseStore WITH stored <- stored, meta <- meta, current <- current
ReleaseStoreSpec == AbstractStore!Spec

\* A deploy that succeeds leaves at most Keep releases, those that earlier
\* commands left when they failed or were killed included.
RetentionBound ==
  [][\A d \in Deployments :
       Finishes(d, "success") /\ job[d].kind = "deploy"
         => Cardinality(Stored(d)') <= Keep]_vars

\* A command that fails leaves behind what the code means it to and no more.  The
\* release of a deploy is gone if its claims were still to be validated, and stays
\* from there on: also when its first claim is refused and nothing public has
\* changed (cleanupReleaseOnFailure is reset before reconcileNewClaims).  What a
\* deploy has staged is gone; a rollback leaves releases and staging as they were.
\* No marker of one's own is left, unless the command ended before it looked for
\* one.
Unvalidated == {"tidy", "probe", "mark", "scan", "adopt", "compute"}

FailureCleansUp ==
  [][\A d \in Running : Finishes(d, "failed") =>
       /\ IF job[d].kind = "deploy"
          THEN /\ job[d].run \notin incoming'[d]
               /\ (job[d].run \in Stored(d)') <=> (pc[d] \notin Unvalidated)
          ELSE Stored(d)' = Stored(d) /\ incoming'[d] = incoming[d]
       /\ (pc[d] \notin {"tidy", "probe"} /\ d \in Maintained) => marker' # d]_vars

\* A deploy that fails after the switch (a symlink leaves the docroot, the hook
\* or the pruning fails) leaves its release stored and active, and its marker
\* and staging removed; what it published stays published (invariants.md, "the
\* promoted release remains active ... and owned maintenance is cleaned up").
LateFailureKeepsRelease ==
  [][\A d \in Running : Finishes(d, "failed") /\ current[d] = job[d].run =>
       /\ current'[d] = job[d].run /\ Active(d)' = Active(d)
       /\ job[d].owned => marker' # d
       /\ job[d].kind = "deploy" => job[d].run \notin incoming'[d]
       /\ Links(d)' = Links(d)]_vars

\* A command publishes and removes at or below the claims of commits of its
\* deployment that are not refused: everywhere else it only makes directories on
\* the way to such a claim, whatever failed, was killed or runs at the same time
\* (validateClaimsNotProtected, removeOwnedClaim, reconcileNewClaims).
Territory(d) ==
  UNION {ClaimsOf[c] : c \in (Repo[d] \cup {Installed[d]}) \cap (Commits \ Rejected)}

StaysInTerritory ==
  [][\A d \in Deployments : Acts(d) =>
       \A p \in PublicPaths :
         (node'[p] # node[p] \/ tmp'[p] # tmp[p]) =>
           \/ \E q \in Territory(d) : AtOrBelow(q, p)
           \/ /\ node[p] = "none" /\ node'[p] = "bare" /\ tmp'[p] = tmp[p]
              /\ \E q \in Territory(d) : Ancestor(p, q)]_vars

\* What the site has at a path that no accepted commit claims stays there: the
\* shared containers and protected paths are not replaced, whoever publishes
\* below them (claims.Compute, reconcileNewClaims).
ContainersSurvive ==
  \A p \in PublicPaths :
    (/\ SiteNode[p] \in Dirs
     /\ \A c \in Commits \ Rejected : \A q \in ClaimsOf[c] : ~ AtOrBelow(q, p))
      => node[p] = SiteNode[p]

\* Where cron deploys one commit again and again, the docroot settles: that
\* commit is active and documented, its claims are published and lead to it,
\* and nothing is left of what failed or was killed on the way.
Settled(d) ==
  /\ pc[d] = "idle" => /\ Active(d) \in Repo[d] /\ current[d] \in meta[d]
                       /\ marker # d /\ incoming[d] = {} /\ log[d] = {}
  /\ Links(d) = OldClaims(d)
  /\ \A p \in PublicPaths : tmp[p] = Nothing /\ (p \in Links(d) => Leads(p))

CronConverges == \A d \in Deployments : <>[]Settled(d)
-----------------------------------------------------------------------------
\* What the documents and comments say and the code does not do.

\* A directory that was exchanged away is recorded until it is deleted, so that
\* the next command can clean up (invariants.md, "recorded durably before they
\* are deleted"; reconcileNewClaims exchanges first and records next).
DisplacedIsRecorded ==
  \A p \in PublicPaths :
    tmp[p][p] \in Dirs =>
      \E d \in Deployments :
        p \in log[d] \/ (pc[d] = "record" /\ First(job[d].todo) = p)

\* A directory that is replaced holds no link of another deployment
\* (rejectForeignDescendant, checked before the exchange).
NoEngulfing ==
  [][\A d \in Deployments : Acts(d) =>
       \A p \in PublicPaths \ NewClaims(d) :
         node[p] \in Foreign(d) => node'[p] = node[p]]_vars

\* A command neither removes nor overwrites the maintenance file of another
\* deployment or of WordPress (invariants.md, "removes only maintenance files it
\* owns"; maintenanceFileIsToolOwned looks for the id as a part of the text).
MarkersRespected ==
  [][\A d \in Deployments :
       Acts(d) /\ marker \notin {d, NoMarker} => marker' = marker]_vars

\* A deploy that ends as a no-op has removed its own marker and retried the
\* clean-up of exchanged paths, as a successful deploy does (invariants.md).
NoOpLeavesNoResidue ==
  [][\A d \in Deployments :
       pc[d] = "idle" /\ verdict[d] # "no_op" /\ verdict'[d] = "no_op"
         => marker' # d /\ log'[d] = {}]_vars
=============================================================================
