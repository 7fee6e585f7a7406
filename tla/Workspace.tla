----------------------------- MODULE Workspace -----------------------------
(***************************************************************************)
(* What the commands for one deployment name share: the tool's directory   *)
(* in $HOME, the deployment's namespaces in the docroots it is deployed    *)
(* to, and the remote branch.  Settings, Reports and Pipeline are the      *)
(* commands.                                                               *)
(*                                                                         *)
(* A layout stands for a pair of docroot and deployment id (state.         *)
(* NewDocroot): the lock, the staging and the releases belong to the       *)
(* layout, everything in $HOME to the name, and "config --set" can change  *)
(* the layout of a name while its commands run.                            *)
(***************************************************************************)
EXTENDS Releases, Sequences, Functions

CONSTANTS
  Procs, Nobody,   \* processes that run commands of this deployment name
  Layouts,
  NoConfig, NoRun, \* there is no config.json, no latest-run.json
  Kinds,           \* the commands in use
  Keep,            \* keep_releases
  Retain,          \* retainRuns
  MaxTip,          \* bound on the commits of the branch
  MaxCommands,     \* bound on commands
  MaxFaults        \* bound on kills and failing calls

ASSUME WorkspaceAssumption ==
  /\ Nobody \notin Procs
  /\ NoConfig \notin [layout : Layouts, key : {"managed", "other"}]
  /\ Keep \in Nat \ {0} /\ Retain \in Nat \ {0}
  /\ {MaxTip, MaxCommands, MaxFaults} \subseteq Nat /\ MaxTip > 0
  /\ Kinds \subseteq {"deploy", "rollback", "inspect", "init", "config", "auth", "destroy"}

VARIABLES
  \* In $HOME.
  dir,        \* whether deployments/<name> exists
  config,     \* config.json: the layout, and whether it names the managed key
  key,        \* whether the managed key exists
  repo,       \* the tip of the branch in the bare repository, 0 without one
  worktrees,  \* the release ids that have a worktree in tmp/<name>
  runs,       \* runs.jsonl
  latest,     \* latest-run.json, or NoRun
  \* In the docroots.
  lock,       \* lock[l]: the process that holds the lock, or Nobody
  incoming,   \* incoming[l]: staged releases
  stored,     \* stored[l][r]: the commit in releases/r, or 0
  torn,       \* releases of which something was not copied
  meta,       \* meta[l]: releases with metadata
  current,    \* current[l]: the active release, or 0
  sidecars,   \* sidecars[l]: releases with a stats file
  \* The world.
  tip,        \* the newest commit of the branch; commits are numbered
  nextId,     \* the next release id, in the order in which ids are made
  started,    \* commands so far
  faults,     \* kills and failing calls so far
  lost,       \* worktrees that a command took from a deploy of another layout
  \* The processes.
  pc, job

home    == <<dir, config, key, repo, worktrees>>
reports == <<runs, latest, sidecars>>
site    == <<incoming, stored, torn, meta, current>>
world   == <<tip, nextId, started, faults, lost>>
vars    == <<home, reports, lock, site, world, pc, job>>

Ids     == 1..MaxCommands
Configs == [layout : Layouts, key : {"managed", "other"}]
Records == [attempt : 1..MaxCommands, layout : Layouts, locked : BOOLEAN]

\* The local variables of a command.
\*   conf    the configuration it has loaded, and changes
\*   run     releaseID
\*   commit  what the ref resolved to
\*   lines   what AppendBoundedJSONL has read
\* and, for the properties: the number of the command, the tip when it started,
\* the next id when it swept, and whether no other command ran meanwhile.
NoJob == [kind |-> "none", conf |-> NoConfig, run |-> 0, commit |-> 0,
          status |-> "failed", lines |-> <<>>, attempt |-> 0, since |-> 0,
          mark |-> 0, alone |-> TRUE]

Layout(p)  == job[p].conf.layout
Running    == {p \in Procs : pc[p] # "idle"}
Stored(l)  == {r \in Ids : stored[l][r] # 0}

Goto(p, label, j) ==
  /\ pc' = [pc EXCEPT ![p] = label]
  /\ job' = [job EXCEPT ![p] = j]

Move(p, from, label) == pc[p] = from /\ Goto(p, label, job[p])

\* The process ends; flock is released with it.
End(p) ==
  /\ Goto(p, "idle", NoJob)
  /\ lock' = [l \in Layouts |-> IF lock[l] = p THEN Nobody ELSE lock[l]]

\* What was pushed to the branch since a command last looked at it.  A commit
\* that no command sees yet changes nothing, so it is added when one looks.
Pushes == tip' \in tip..MaxTip

\* A command starts at a label with the configuration c, and the commands that
\* run are no longer alone.
Begin(p, kind, label, c, run) ==
  /\ kind \in Kinds
  /\ pc[p] = "idle"
  /\ started < MaxCommands
  /\ started' = started + 1
  /\ IF kind = "deploy" THEN Pushes ELSE tip' = tip
  /\ pc' = [pc EXCEPT ![p] = label]
  /\ job' = [q \in Procs |->
               IF q = p
               THEN [NoJob EXCEPT !.kind = kind, !.conf = c, !.run = run,
                                  !.attempt = started', !.since = tip',
                                  !.alone = (Running = {})]
               ELSE [job[q] EXCEPT !.alone = (pc[q] = "idle")]]
  /\ UNCHANGED <<home, reports, lock, site, nextId, faults, lost>>
=============================================================================
