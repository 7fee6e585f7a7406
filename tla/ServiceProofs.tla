---------------------------- MODULE ServiceProofs ----------------------------
(***************************************************************************)
(* What deploys of one name promise while other commands of the name run.  *)
(***************************************************************************)
EXTENDS PipelineProofs

\* Ids and commits come from counters that only grow.
CountersInv ==
  /\ \A l \in Layouts :
       /\ \A r \in Stored(l) \cup meta[l] : r < nextId
       /\ current[l] < nextId
       /\ sidecars[l] \subseteq meta[l]
  /\ \A w \in worktrees : w < nextId
  /\ latest # NoRun => latest.run < nextId
  /\ torn \subseteq lost

Deploying(p) == job[p].kind = "deploy"

JobCounters(p) == Deploying(p) =>
  /\ job[p].run < nextId
  /\ job[p].mark <= nextId
  /\ job[p].since <= tip
  /\ \A q \in Procs \ {p} : Deploying(q) /\ job[p].run # 0 => job[q].run # job[p].run

StagingOf(p) == Deploying(p) /\ job[p].mark # 0 =>
  /\ incoming[Layout(p)] \subseteq
       IF pc[p] \in {"copying", "adopt", "clean"} THEN {job[p].run} ELSE {}
  /\ \A w \in worktrees : w >= job[p].mark
  /\ pc[p] \in Reporting => job[p].run \notin worktrees

FreshOf(p) == Deploying(p) => 
  /\ pc[p] = "resolve" => repo = 0 \/ repo >= job[p].since
  /\ pc[p] \in {"lock", "sweep", "check", "worktree"} \cup Builds =>
       job[p].commit >= job[p].since
  /\ pc[p] \in {"copy", "copying"} => job[p].run \in worktrees \cup lost
  /\ pc[p] \in {"validate", "switch", "prune", "document"} =>
       stored[Layout(p)][job[p].run] = job[p].commit
  /\ pc[p] \in {"prune", "document"} => current[Layout(p)] = job[p].run
  /\ job[p].status = "success" => current[Layout(p)] = job[p].run
  /\ job[p].status # "failed" =>
       /\ current[Layout(p)] \in meta[Layout(p)]
       /\ stored[Layout(p)][current[Layout(p)]] >= job[p].since

OrderOf(p) == Deploying(p) =>
  /\ pc[p] \in {"copy", "copying", "adopt"} =>
       /\ \A r \in Stored(Layout(p)) \cup meta[Layout(p)] : r < job[p].run
       /\ current[Layout(p)] < job[p].run
  /\ pc[p] = "validate" =>
       /\ \A r \in Stored(Layout(p)) : r <= job[p].run
       /\ job[p].run \notin meta[Layout(p)]
       /\ current[Layout(p)] # job[p].run
  /\ job[p].run # 0 /\ pc[p] # "unlock" /\ latest # NoRun =>
       (latest.layout = Layout(p) => latest.run < job[p].run)
  /\ pc[p] = "latest" => job[p].run \in sidecars[Layout(p)]

LinesOf(p) == pc[p] = "append" /\ Locked(p) =>
  \/ runs = <<>> \/ runs = job[p].lines
  \/ Outside(runs[Len(runs)], p)

ProcessInv(p) == JobCounters(p) /\ StagingOf(p) /\ FreshOf(p) /\ OrderOf(p) /\ LinesOf(p)

AllProcesses == \A p \in Procs : ProcessInv(p)
-----------------------------------------------------------------------------
Step(p) == CommandStep(p) \/ StartPipeline(p) \/ StartSettings(p)

\* Which actions write what.
WritesSite(p) ==
  Sweep(p) \/ Copy(p) \/ Copied(p) \/ Adopt(p) \/ Refuse(p) \/ Switch(p) \/ Prune(p)
    \/ Document(p) \/ Clean(p)
WritesTrees(p)   == Sweep(p) \/ AddWorktree(p) \/ Clean(p) \/ RemoveTmp(p)
WritesRepo(p)    == EnsureRepo(p) \/ Fetch(p) \/ RemoveRepo(p)
WritesReports(p) == RemoveDir(p) \/ AppendRun(p) \/ WriteSidecar(p) \/ WriteLatest(p)

Writers(p) ==
  /\ UNCHANGED site \/ WritesSite(p)
  /\ UNCHANGED <<worktrees, lost>> \/ WritesTrees(p)
  /\ UNCHANGED repo \/ WritesRepo(p)
  /\ UNCHANGED reports \/ WritesReports(p)
  /\ nextId' = nextId \/ AddWorktree(p)
  /\ tip <= tip'

LEMMA OnlyWriters ==
  ASSUME TypeInv, NEW p \in Procs, Step(p)
  PROVE  Writers(p)
<1>t. tip \in Nat /\ MaxTip \in Nat
  BY Known, Bounds DEF WorldOK
<1>u. tip' = tip => tip <= tip'
  BY <1>t
<1>1. CASE PipelineStep(p)
  <2> USE <1>1 DEF PipelineStep, EnsureRepo, Fetch, Resolve, CannotGit, Acquire, Busy,
     Sweep, Check, AddWorktree, Copy, Copied, CannotStage, Adopt, Validate, Refuse, Switch,
     NoSuchRelease, Prune, Pruned, Document, Clean, Unlock
  <2>1. UNCHANGED site \/ WritesSite(p)
    BY DEF WritesSite, site
  <2>2. UNCHANGED <<worktrees, lost>> \/ WritesTrees(p)
    BY DEF WritesTrees, home, world
  <2>3. UNCHANGED repo \/ WritesRepo(p)
    BY DEF WritesRepo, home
  <2>4. UNCHANGED reports
    BY DEF reports
  <2>5. nextId' = nextId \/ AddWorktree(p)
    BY DEF world
  <2>6. tip <= tip'
    BY <1>t DEF world, Pushes
  <2> QED BY <2>1, <2>2, <2>3, <2>4, <2>5, <2>6 DEF Writers
<1>2. CASE SettingsStep(p)
  <2> USE <1>2 DEF SettingsStep, PurgeKey, RenewKey, MakeKey, CannotMakeKey, Save,
     RemoveDir, RemoveRepo, RemoveTmp, RemoveKey
  <2>1. UNCHANGED site /\ nextId' = nextId /\ tip' = tip
    BY DEF site, world
  <2>2. UNCHANGED <<worktrees, lost>> \/ WritesTrees(p)
    BY DEF WritesTrees, home, world
  <2>3. UNCHANGED repo \/ WritesRepo(p)
    BY DEF WritesRepo, home
  <2>4. UNCHANGED reports \/ WritesReports(p)
    BY DEF WritesReports, reports
  <2> QED BY <1>u, <2>1, <2>2, <2>3, <2>4 DEF Writers
<1>3. CASE ReportStep(p)
  BY <1>3, <1>t DEF ReportStep, ReadRuns, AppendRun, CannotReport, WriteSidecar,
     WriteLatest, Writers, WritesReports, home, reports, site, world
<1>4. CASE Fault(p) \/ Kill(p)
  BY <1>4, <1>t DEF Fault, Kill, Writers, home, reports, site, world
<1>5. CASE StartPipeline(p) \/ StartSettings(p)
  <2>1. PICK kind, l, c, r : Begin(p, kind, l, c, r)
    BY <1>5, StartKind DEF Starts
  <2>2. UNCHANGED <<home, reports, site, nextId, lost>>
    BY <2>1 DEF Begin
  <2>3. tip <= tip'
    <3>1. tip' = tip \/ tip' \in tip..MaxTip
      BY <2>1 DEF Begin, Pushes
    <3> QED BY <1>t, <3>1
  <2> QED BY <2>2, <2>3 DEF Writers, home
<1> QED BY <1>1, <1>2, <1>3, <1>4, <1>5 DEF Step, CommandStep
-----------------------------------------------------------------------------
Inv == BaseInv /\ CountersInv /\ AllProcesses

\* What every process knows of its own.
LEMMA KnownOwn ==
  ASSUME BaseInv, NEW p \in Procs
  PROVE  /\ job[p] \in Job /\ Shape(pc[p], job[p])
         /\ job[p].run \in Nat /\ job[p].commit \in Nat /\ job[p].since \in Nat
         /\ job[p].mark \in Nat /\ job[p].run \in Ids \cup {0}
         /\ job[p].kind \notin {"none", "destroy"} => Layout(p) \in Layouts
         /\ Holds(pc[p], job[p]) => lock[Layout(p)] = p /\ Layout(p) \in Layouts
<1>1. job[p] \in Job /\ Shape(pc[p], job[p])
  BY Known DEF BaseInv
<1>2. /\ job[p].run \in 0..MaxCommands /\ job[p].commit \in 0..MaxTip
      /\ job[p].since \in 0..MaxTip /\ job[p].mark \in 0..MaxCommands + 1
      /\ MaxCommands \in Nat /\ MaxTip \in Nat
  BY <1>1, Bounds DEF Job
<1>3. job[p].kind \notin {"none", "destroy"} => Layout(p) \in Layouts
  BY <1>1 DEF Shape, Layout, Configs
<1>4. Holds(pc[p], job[p]) => job[p].kind \notin {"none", "destroy"}
  BY <1>1 DEF Job, Shape, Holds, Builds
<1> QED BY <1>1, <1>2, <1>3, <1>4 DEF BaseInv, LockInv, Ids

\* What is published for a layout changes under its lock alone.
SiteApart(p) ==
  \A l \in Layouts : lock[l] # p =>
    /\ incoming'[l] = incoming[l] /\ stored'[l] = stored[l] /\ meta'[l] = meta[l]
    /\ current'[l] = current[l] /\ sidecars'[l] = sidecars[l]

LEMMA WriterHolds ==
  ASSUME BaseInv, NEW p \in Procs, WritesSite(p) \/ WriteSidecar(p) \/ WriteLatest(p)
  PROVE  lock[Layout(p)] = p /\ Layout(p) \in Layouts
<1>1. CASE WritesSite(p)
  <2>1. Holds(pc[p], job[p])
    BY <1>1 DEF WritesSite, Holds, Builds, Move, Sweep, Copy, Copied, Adopt, Refuse, Switch,
       Prune, Document, Clean
  <2> QED BY <2>1, KnownOwn
<1>2. CASE WriteSidecar(p) \/ WriteLatest(p)
  <2>1. pc[p] \in {"sidecar", "latest"}
    BY <1>2 DEF WriteSidecar, WriteLatest, Move
  <2>2. job[p].mark # 0
    BY <2>1, KnownOwn DEF Job, Shape, DeployShape
  <2> QED BY <2>1, <2>2, KnownOwn DEF Holds
<1> QED BY <1>1, <1>2

LEMMA SiteEffect ==
  ASSUME BaseInv, NEW p \in Procs, Step(p)
  PROVE  SiteApart(p)
<1>k. /\ incoming \in [Layouts -> SUBSET Ids] /\ stored \in [Layouts -> [Ids -> 0..MaxTip]]
      /\ meta \in [Layouts -> SUBSET Ids] /\ current \in [Layouts -> 0..MaxCommands]
      /\ sidecars \in [Layouts -> SUBSET Ids]
  BY Known DEF BaseInv, SiteOK, ReportsOK
<1>w. Writers(p)
  BY OnlyWriters DEF BaseInv
<1>1. ASSUME NEW l \in Layouts, lock[l] # p
      PROVE  /\ incoming'[l] = incoming[l] /\ stored'[l] = stored[l] /\ meta'[l] = meta[l]
             /\ current'[l] = current[l]
  <2>1. CASE UNCHANGED site
    BY <2>1 DEF site
  <2>2. CASE WritesSite(p)
    <3>1. l # Layout(p)
      BY <1>1, <2>2, WriterHolds
    <3> QED BY <1>k, <2>2, <3>1 DEF WritesSite, Sweep, Copy, Copied, Adopt, Refuse, Switch,
       Prune, Document, Clean
  <2> QED BY <1>w, <2>1, <2>2 DEF Writers
<1>2. ASSUME NEW l \in Layouts, lock[l] # p PROVE sidecars'[l] = sidecars[l]
  <2>1. CASE UNCHANGED reports
    BY <2>1 DEF reports
  <2>2. CASE WriteSidecar(p)
    <3>1. l # Layout(p)
      BY <1>2, <2>2, WriterHolds
    <3> QED BY <1>k, <2>2, <3>1 DEF WriteSidecar
  <2>3. CASE RemoveDir(p) \/ AppendRun(p) \/ WriteLatest(p)
    BY <2>3 DEF RemoveDir, AppendRun, WriteLatest
  <2> QED BY <1>w, <2>1, <2>2, <2>3 DEF Writers, WritesReports
<1> QED BY <1>1, <1>2 DEF SiteApart

\* A worktree that a deploy copies from stays, or it is lost; only a deploy that
\* takes an id makes one.
TreesApart(p) ==
  /\ lost \subseteq lost'
  /\ \A w \in worktrees' : w \in worktrees \/ w = nextId
  /\ \A q \in Procs \ {p} :
       Deploying(q) /\ pc[q] \in {"copy", "copying"} /\ job[q].run \in worktrees
         => job[q].run \in worktrees' \cup lost'

LEMMA TreesEffect ==
  ASSUME Inv, NEW p \in Procs, Step(p)
  PROVE  TreesApart(p)
<1>w. Writers(p)
  BY OnlyWriters DEF Inv, BaseInv
<1>1. CASE UNCHANGED <<worktrees, lost>>
  BY <1>1 DEF TreesApart
<1>2. CASE Sweep(p)
  <2>1. worktrees' = {} /\ lost' = lost \cup {w \in worktrees : \E q \in Running :
                                               job[q].run = w /\ Layout(q) # Layout(p)}
    BY <1>2 DEF Sweep, SweptWorktrees
  <2>2. lock[Layout(p)] = p
    BY <1>2, WriterHolds DEF Inv, WritesSite
  <2>3. ASSUME NEW q \in Procs \ {p}, pc[q] \in {"copy", "copying"}
        PROVE  q \in Running /\ Layout(q) # Layout(p)
    <3>1. Holds(pc[q], job[q])
      BY <2>3 DEF Holds, Builds
    <3>2. lock[Layout(q)] = q
      BY <3>1, KnownOwn DEF Inv
    <3> QED BY <2>2, <2>3, <3>2 DEF Running
  <2> QED BY <2>1, <2>3 DEF TreesApart
<1>3. CASE AddWorktree(p)
  BY <1>3 DEF AddWorktree, TreesApart
<1>4. CASE Clean(p)
  <2>1. worktrees' = worktrees \ {job[p].run} /\ lost' = lost /\ pc[p] = "clean"
    BY <1>4 DEF Clean, Move, world
  <2>2. Deploying(p) /\ job[p].run # 0
    BY <2>1, KnownOwn DEF Inv, Deploying, Job, Shape, DeployShape, Builds
  <2>3. \A q \in Procs \ {p} : Deploying(q) => job[q].run # job[p].run
    BY <2>2 DEF Inv, AllProcesses, ProcessInv, JobCounters
  <2> QED BY <2>1, <2>3 DEF TreesApart
<1>5. CASE RemoveTmp(p)
  BY <1>5 DEF RemoveTmp, RemovedWorktrees, TreesApart
<1> QED BY <1>w, <1>1, <1>2, <1>3, <1>4, <1>5 DEF Writers, WritesTrees

\* An append ends the history with the record, and keeps what was read or fills
\* the file.
LEMMA LastAppended ==
  ASSUME BaseInv, NEW p \in Procs, AppendRun(p)
  PROVE  /\ runs' # <<>> /\ runs'[Len(runs')] = Record(p)
         /\ Record(p) \in Range(runs')
         /\ Range(job[p].lines) \subseteq Range(runs') \/ Len(runs') = Retain
<1> DEFINE s == Append(job[p].lines, Record(p))
<1>1. job[p].lines \in Seq(Records) /\ Retain \in Nat \ {0}
  BY Known, Bounds DEF BaseInv, Job
<1>2. /\ s \in Seq(Records \cup {Record(p)}) /\ Len(s) = Len(job[p].lines) + 1
      /\ Len(s) \in Nat /\ s[Len(s)] = Record(p)
      /\ \A i \in 1..Len(job[p].lines) : s[i] = job[p].lines[i] /\ i \in 1..Len(s)
  <2>1. job[p].lines \in Seq(Records \cup {Record(p)})
    BY <1>1
  <2> QED BY <2>1, AppendProperties
<1>3. runs' = IF Len(s) > Retain THEN SubSeq(s, Len(s) - Retain + 1, Len(s)) ELSE s
  BY DEF AppendRun, LastLines
<1> HIDE DEF s
<1>4. CASE Len(s) > Retain
  <2>1. /\ runs' \in Seq(Records \cup {Record(p)}) /\ Len(runs') = Retain
        /\ \A i \in 1..Retain : runs'[i] = s[Len(s) - Retain + 1 + i - 1]
    BY <1>1, <1>2, <1>3, <1>4, SubSeqProperties
  <2>2. runs'[Retain] = Record(p) /\ Retain \in 1..Len(runs')
    BY <1>1, <1>2, <2>1
  <2> QED BY <1>1, <2>1, <2>2 DEF Range
<1>5. CASE ~ (Len(s) > Retain)
  <2>1. runs' = s /\ Len(s) \in 1..Len(s) /\ runs' # <<>>
    <3>1. runs' = s
      BY <1>3, <1>5
    <3>2. Len(s) \in 1..Len(s) /\ Len(s) # 0
      BY <1>1, <1>2, LenProperties
    <3>3. s # <<>>
      BY <3>2
    <3> QED BY <3>1, <3>2, <3>3
  <2>2. DOMAIN s = 1..Len(s) /\ DOMAIN job[p].lines = 1..Len(job[p].lines)
    BY <1>1, <1>2
  <2>3. Range(job[p].lines) \subseteq Range(s)
    BY <1>2, <2>2 DEF Range
  <2> QED BY <1>2, <2>1, <2>2, <2>3 DEF Range
<1> QED BY <1>4, <1>5

\* The latest run is replaced under the lock of its layout; the history ends with
\* the record of the one who wrote it last.
ReportsApart(p) ==
  /\ \/ latest' \in {latest, NoRun}
     \/ lock[Layout(p)] = p /\ latest'.layout = Layout(p)
  /\ \/ runs' \in {runs, <<>>}
     \/ runs' # <<>> /\ runs'[Len(runs')] = Record(p)

LEMMA ReportsEffect ==
  ASSUME Inv, NEW p \in Procs, Step(p)
  PROVE  ReportsApart(p)
<1>w. Writers(p)
  BY OnlyWriters DEF Inv, BaseInv
<1>1. CASE UNCHANGED reports
  BY <1>1 DEF reports, ReportsApart
<1>2. CASE RemoveDir(p) \/ WriteSidecar(p)
  BY <1>2 DEF RemoveDir, WriteSidecar, ReportsApart
<1>3. CASE AppendRun(p)
  BY <1>3, LastAppended DEF Inv, ReportsApart, AppendRun
<1>4. CASE WriteLatest(p)
  BY <1>4, WriterHolds DEF Inv, WriteLatest, ReportsApart
<1> QED BY <1>w, <1>1, <1>2, <1>3, <1>4 DEF Writers, WritesReports

\* A repository that is there is no older than the branch was.
LEMMA RepoEffect ==
  ASSUME BaseInv, NEW p \in Procs, Step(p)
  PROVE  repo' \in {repo, 0} \/ repo' >= tip
<1>w. Writers(p)
  BY OnlyWriters DEF BaseInv
<1>t. tip \in Nat /\ MaxTip \in Nat
  BY Known, Bounds DEF BaseInv, WorldOK
<1>1. CASE EnsureRepo(p)
  BY <1>1, <1>t DEF EnsureRepo, Pushes
<1>2. CASE Fetch(p)
  BY <1>2, <1>t DEF Fetch, Pushes
<1>3. CASE RemoveRepo(p)
  BY <1>3 DEF RemoveRepo
<1> QED BY <1>w, <1>1, <1>2, <1>3 DEF Writers, WritesRepo
-----------------------------------------------------------------------------
LEMMA StepIsNext == ASSUME NEW p \in Procs, Step(p) PROVE Next
BY DEF Step, CommandStep, Next

\* What a step of p leaves true of another process.
LEMMA OthersKept ==
  ASSUME Inv, NEW p \in Procs, Step(p), NEW q \in Procs \ {p}
  PROVE  StagingOf(q)' /\ FreshOf(q)' /\ OrderOf(q)' /\ LinesOf(q)'
<1>i. BaseInv /\ CountersInv /\ ProcessInv(q) /\ TypeInv /\ q \in Procs
  BY DEF Inv, AllProcesses, BaseInv
<1>k. /\ job[q] \in Job /\ Shape(pc[q], job[q])
      /\ job[q].run \in Nat /\ job[q].commit \in Nat /\ job[q].since \in Nat
      /\ job[q].mark \in Nat /\ job[q].run \in Ids \cup {0}
      /\ Deploying(q) => Layout(q) \in Layouts
      /\ Holds(pc[q], job[q]) => lock[Layout(q)] = q /\ Layout(q) \in Layouts
  BY <1>i, KnownOwn DEF Deploying
<1>f. Frame(p)
  BY <1>i, StepKinds, TypeStep, Framed, StepIsNext DEF Step
<1>j. /\ pc'[q] = pc[q] /\ Deploying(q)' = Deploying(q) /\ Layout(q)' = Layout(q)
      /\ Locked(q)' = Locked(q)
      /\ job'[q].run = job[q].run /\ job'[q].commit = job[q].commit
      /\ job'[q].status = job[q].status /\ job'[q].lines = job[q].lines
      /\ job'[q].since = job[q].since /\ job'[q].mark = job[q].mark
  BY <1>f DEF Frame, Alike, Deploying, Layout, Locked
<1>s. Holds(pc[q], job[q]) =>
        LET l == Layout(q) IN
          /\ incoming'[l] = incoming[l] /\ stored'[l] = stored[l] /\ meta'[l] = meta[l]
          /\ current'[l] = current[l] /\ sidecars'[l] = sidecars[l]
  BY <1>i, <1>k, SiteEffect DEF SiteApart
<1>t. TreesApart(p) /\ ReportsApart(p) /\ (repo' \in {repo, 0} \/ repo' >= tip)
  BY <1>i, TreesEffect, ReportsEffect, RepoEffect
<1>n. /\ nextId \in Nat /\ tip \in Nat /\ worktrees \subseteq Nat /\ MaxTip \in Nat
      /\ repo \in Nat /\ repo' \in Nat
  <2>1. TypeInv'
    BY <1>i, StepIsNext, TypeStep
  <2> QED BY <1>i, <2>1, Known, Bounds, TypePartsNext DEF TypeInv, WorldOK, HomeOK, Ids
<1>d. Deploying(q) => DeployShape(pc[q], job[q])
  BY <1>k DEF Deploying, Shape
<1>m. Deploying(q) /\ (job[q].run # 0 \/ job[q].status # "failed" \/ job[q].mark # 0
                       \/ pc[q] \in Builds)
        => Holds(pc[q], job[q]) /\ job[q].mark # 0
  BY <1>k, <1>d DEF Deploying, DeployShape, Holds, Shape, Job
<1>1. StagingOf(q)'
  <2> SUFFICES ASSUME Deploying(q), job[q].mark # 0 PROVE StagingOf(q)'
    BY <1>j DEF StagingOf
  <2>1. StagingOf(q) /\ job[q].mark <= nextId /\ job[q].run < nextId
    BY <1>i DEF ProcessInv, JobCounters
  <2>2. incoming'[Layout(q)] = incoming[Layout(q)]
    BY <1>m, <1>s
  <2>3. \A w \in worktrees' : w >= job[q].mark /\ (pc[q] \in Reporting => w # job[q].run)
    <3>1. \A w \in worktrees : w >= job[q].mark /\ (pc[q] \in Reporting => w # job[q].run)
      BY <2>1 DEF StagingOf
    <3>2. nextId >= job[q].mark /\ nextId # job[q].run
      BY <1>k, <1>n, <2>1
    <3> QED BY <1>t, <3>1, <3>2 DEF TreesApart
  <2> QED BY <1>j, <2>1, <2>2, <2>3 DEF StagingOf
<1>2. FreshOf(q)'
  <2> SUFFICES ASSUME Deploying(q) PROVE FreshOf(q)'
    BY <1>j DEF FreshOf
  <2>1. FreshOf(q) /\ job[q].since <= tip
    BY <1>i DEF ProcessInv, JobCounters
  <2>2. pc[q] = "resolve" => repo' = 0 \/ repo' >= job[q].since
    BY <1>k, <1>n, <1>t, <2>1 DEF FreshOf
  <2>3. pc[q] \in {"copy", "copying"} => job[q].run \in worktrees' \cup lost'
    BY <1>t, <2>1 DEF FreshOf, TreesApart
  <2>4. pc[q] \in Builds \/ job[q].status # "failed" =>
          LET l == Layout(q) IN
            stored'[l] = stored[l] /\ meta'[l] = meta[l] /\ current'[l] = current[l]
    BY <1>m, <1>s
  <2> QED BY <1>j, <1>k, <2>1, <2>2, <2>3, <2>4 DEF FreshOf, Builds
<1>3. OrderOf(q)'
  <2> SUFFICES ASSUME Deploying(q) PROVE OrderOf(q)'
    BY <1>j DEF OrderOf
  <2>1. OrderOf(q)
    BY <1>i DEF ProcessInv
  <2>2. job[q].run # 0 /\ pc[q] # "unlock" /\ latest' # NoRun =>
          (latest'.layout = Layout(q) => latest'.run < job[q].run)
    BY <1>k, <1>m, <1>t, <2>1 DEF OrderOf, ReportsApart
  <2>3. pc[q] \in Builds \/ job[q].run # 0 =>
          LET l == Layout(q) IN
            /\ stored'[l] = stored[l] /\ meta'[l] = meta[l] /\ current'[l] = current[l]
            /\ sidecars'[l] = sidecars[l]
    BY <1>m, <1>s
  <2>4. pc[q] \in Builds => Stored(Layout(q))' = Stored(Layout(q))
    BY <1>j, <2>3 DEF Stored
  <2>5. pc[q] = "latest" => job[q].run # 0
    BY <1>d DEF DeployShape
  <2> QED BY <1>j, <2>1, <2>2, <2>3, <2>4, <2>5 DEF OrderOf, Builds
<1>4. LinesOf(q)'
  <2> SUFFICES ASSUME pc[q] = "append", Locked(q) PROVE LinesOf(q)'
    BY <1>j DEF LinesOf
  <2>1. LinesOf(q)
    BY <1>i DEF ProcessInv
  <2>2. ASSUME runs' # <<>>, runs'[Len(runs')] = Record(p)
        PROVE  Outside(runs'[Len(runs')], q)
    <3>1. Locked(p) => lock[Layout(p)] = p
      BY <1>i, KnownOwn DEF Locked, Holds, Job, Shape
    <3>2. lock[Layout(q)] = q
      BY <1>k, <2>2 DEF Locked, Holds
    <3> QED BY <2>2, <3>1, <3>2 DEF Outside, Record
  <2> QED BY <1>j, <1>t, <2>1, <2>2 DEF LinesOf, ReportsApart, Outside
<1> QED BY <1>1, <1>2, <1>3, <1>4

\* Ids, marks and commits of the deploys stay behind the counters, and no two
\* deploys have the same id.
LEMMA JobCountersKept ==
  ASSUME Inv, NEW p \in Procs, Step(p)
  PROVE  \A q \in Procs : JobCounters(q)'
<1>i. BaseInv /\ TypeInv /\ TypeInv' /\ \A q \in Procs : JobCounters(q)
  BY StepIsNext, TypeStep DEF Inv, AllProcesses, ProcessInv, BaseInv
<1>k. /\ pc \in [Procs -> Labels] /\ job \in [Procs -> Job]
      /\ nextId \in Nat /\ tip \in Nat /\ nextId # 0 /\ tip' \in Nat
  <2>1. MaxTip \in Nat /\ tip' \in 1..MaxTip
    BY <1>i, Bounds DEF TypeInv, TypeOK
  <2> QED BY <1>i, <2>1, Known DEF ControlOK, TypeInv, JobsOK, WorldOK
<1>n. \A q \in Procs : job[q].run \in Nat /\ job[q].mark \in Nat /\ job[q].since \in Nat
  BY <1>i, KnownOwn
<1>w. tip <= tip' /\ (nextId' = nextId \/ nextId' = nextId + 1)
  <2>1. Writers(p)
    BY <1>i, OnlyWriters
  <2> QED BY <2>1 DEF Writers, AddWorktree
<1>f. Frame(p)
  BY <1>i, StepKinds, Framed DEF Step
<1>o. \A q \in Procs \ {p} : /\ Deploying(q)' = Deploying(q) /\ job'[q].run = job[q].run
                            /\ job'[q].mark = job[q].mark /\ job'[q].since = job[q].since
  BY <1>f DEF Frame, Alike, Deploying
<1>p. Deploying(p)' =>
        /\ job'[p].since <= tip' /\ job'[p].mark <= nextId' /\ job'[p].run < nextId'
        /\ job'[p].run \in {0, nextId} \/ (Deploying(p) /\ job'[p].run = job[p].run)
  <2>1. CASE StartPipeline(p) \/ StartSettings(p)
    <3>1. PICK kind, l, c, r : Starts(p, kind, l, c, r)
      BY <1>i, <2>1, StartKind
    <3>2. Deploying(p)' => job'[p].run = 0 /\ job'[p].mark = 0 /\ job'[p].since = tip'
      BY <1>k, <3>1 DEF Starts, Begin, NoJob, Deploying
    <3> QED BY <1>k, <1>w, <3>2
  <2>2. CASE Proceeds(p)
    <3>1. PICK l \in Labels, j \in Job :
            /\ Goto(p, l, j) /\ j.kind = job[p].kind /\ j.since = job[p].since
            /\ j.run = job[p].run \/ AddWorktree(p)
            /\ j.mark = job[p].mark \/ Sweep(p)
      BY <2>2 DEF Proceeds
    <3>2. job'[p] = j
      BY <1>k, <3>1 DEF Goto
    <3>3. AddWorktree(p) => job'[p].run = nextId /\ nextId' = nextId + 1
      BY <1>k DEF AddWorktree, Goto, Job
    <3>4. Sweep(p) => job'[p].mark = nextId /\ nextId' = nextId
      BY <1>k DEF Sweep, Goto, Job
    <3>5. JobCounters(p)
      BY <1>i
    <3>6. Deploying(p)' = Deploying(p) /\ job'[p].since = job[p].since
      BY <3>1, <3>2 DEF Deploying
    <3>7. /\ job'[p].run = job[p].run \/ (job'[p].run = nextId /\ nextId' = nextId + 1)
          /\ job'[p].mark = job[p].mark \/ (job'[p].mark = nextId /\ nextId' = nextId)
      BY <3>1, <3>2, <3>3, <3>4
    <3> QED BY <1>k, <1>n, <1>w, <3>5, <3>6, <3>7 DEF JobCounters
  <2>3. CASE Acquire(p)
    <3>1. job'[p] = job[p]
      BY <1>k, <2>3 DEF Acquire, Goto
    <3> QED BY <1>i, <1>k, <1>n, <1>w, <3>1 DEF JobCounters, Deploying
  <2>4. CASE End(p)
    <3>1. ~ Deploying(p)'
      BY <1>k, <2>4 DEF End, Goto, NoJob, Deploying
    <3> QED BY <3>1
  <2> QED BY <1>i, <2>1, <2>2, <2>3, <2>4, StepKinds DEF Step, StepKind
<1> SUFFICES ASSUME NEW q \in Procs, Deploying(q)' PROVE JobCounters(q)'
  BY DEF JobCounters
<1>1. job'[q].run < nextId' /\ job'[q].mark <= nextId' /\ job'[q].since <= tip'
  <2>1. CASE q = p
    BY <1>p, <2>1
  <2>2. CASE q # p
    BY <1>i, <1>k, <1>n, <1>o, <1>w, <2>2 DEF JobCounters
  <2> QED BY <2>1, <2>2
<1>2. ASSUME NEW r \in Procs \ {q}, Deploying(r)', job'[q].run # 0
      PROVE  job'[r].run # job'[q].run
  <2>1. CASE q # p /\ r # p
    BY <1>i, <1>o, <1>2, <2>1 DEF JobCounters
  <2>2. CASE q = p
    <3>1. job'[r].run = job[r].run /\ Deploying(r) /\ job[r].run < nextId
      BY <1>i, <1>o, <1>2, <2>2 DEF JobCounters
    <3> QED BY <1>i, <1>k, <1>n, <1>p, <1>2, <2>2, <3>1 DEF JobCounters
  <2>3. CASE r = p
    <3>1. job'[q].run = job[q].run /\ Deploying(q) /\ job[q].run < nextId
      BY <1>i, <1>o, <1>2, <2>3 DEF JobCounters
    <3> QED BY <1>i, <1>k, <1>n, <1>p, <1>2, <2>3, <3>1 DEF JobCounters
  <2> QED BY <2>1, <2>2, <2>3
<1> QED BY <1>1, <1>2 DEF JobCounters, Deploying
-----------------------------------------------------------------------------
\* How a step of a deploy changes its place and its local variables.
Moves(p, l, run, commit, status, mark) ==
  /\ pc'[p] = l
  /\ job'[p].kind = job[p].kind /\ Layout(p)' = Layout(p)
  /\ job'[p].since = job[p].since
  /\ job'[p].run = run /\ job'[p].commit = commit
  /\ job'[p].status = status /\ job'[p].mark = mark

\* The shared state that the invariant of a process is about.
shared == <<worktrees, lost, repo, reports, site>>

LEMMA StoredNext ==
  \A l : stored' = stored => Stored(l)' = Stored(l)
BY DEF Stored

\* A deploy keeps its part of the invariant.
LEMMA DeployKept ==
  ASSUME Inv, TypeInv', NEW p \in Procs, Deploying(p), Deploying(p)',
         PipelineStep(p) \/ ReportStep(p) \/ Fault(p)
  PROVE  StagingOf(p)' /\ FreshOf(p)' /\ OrderOf(p)' /\ LinesOf(p)'
<1> DEFINE L == Layout(p)
           R == job[p].run
           J == job[p]
<1>i. BaseInv /\ TypeInv /\ CountersInv /\ ProcessInv(p)
  BY DEF Inv, AllProcesses, BaseInv
<1>k. /\ J \in Job /\ DeployShape(pc[p], J) /\ L \in Layouts
      /\ R \in Nat /\ J.commit \in Nat /\ J.since \in Nat /\ J.mark \in Nat
      /\ R \in Ids \cup {0}
  BY <1>i, KnownOwn DEF Deploying, Shape
<1>o. JobCounters(p) /\ StagingOf(p) /\ FreshOf(p) /\ OrderOf(p)
  BY <1>i DEF ProcessInv
<1>c. pc \in [Procs -> Labels] /\ job \in [Procs -> Job]
  BY <1>i, Known DEF ControlOK, TypeInv, JobsOK
<1>g. \A l : Goto(p, l, J) => Moves(p, l, R, J.commit, J.status, J.mark)
  BY <1>c DEF Goto, Moves, Layout
<1>s. /\ incoming \in [Layouts -> SUBSET Ids] /\ stored \in [Layouts -> [Ids -> 0..MaxTip]]
      /\ meta \in [Layouts -> SUBSET Ids] /\ current \in [Layouts -> 0..MaxCommands]
      /\ sidecars \in [Layouts -> SUBSET Ids] /\ worktrees \subseteq Ids
      /\ nextId \in Nat /\ tip \in Nat /\ Ids \subseteq Nat \ {0} /\ repo \in Nat
      /\ MaxTip \in Nat /\ MaxCommands \in Nat
  <2>1. SiteOK /\ ReportsOK /\ HomeOK /\ WorldOK /\ MaxTip \in Nat /\ MaxCommands \in Nat
    BY <1>i, Known, Bounds
  <2>2. Ids \subseteq Nat \ {0}
    BY <2>1 DEF Ids
  <2>3. nextId \in Nat /\ tip \in Nat /\ repo \in Nat
    BY <2>1 DEF HomeOK, WorldOK
  <2> QED BY <2>1, <2>2, <2>3 DEF SiteOK, ReportsOK, HomeOK
<1>e. ASSUME End(p) PROVE FALSE
  BY <1>c, <1>e DEF End, Goto, NoJob, Deploying
<1> USE DEF Deploying, Moves, Builds, Reporting, Waits, DeployShape, Stored, shared,
   reports, site
<1>1. CASE EnsureRepo(p)
  <2>1. pc[p] = "repo" /\ Moves(p, "fetch", R, J.commit, J.status, J.mark)
    BY <1>1, <1>c, <1>e, <1>g, <1>k DEF EnsureRepo, Move, Goto, Layout, Job
  <2>2. UNCHANGED <<worktrees, lost, reports, site>>
    BY <1>1, <1>k, <1>s, <2>1 DEF EnsureRepo, home, world
  <2> QED BY <1>k, <1>o, <1>s, <2>1, <2>2
      DEF StagingOf, FreshOf, OrderOf, LinesOf
<1>2. CASE Fetch(p)
  <2>1. pc[p] = "fetch" /\ Moves(p, "resolve", R, J.commit, J.status, J.mark)
    BY <1>2, <1>c, <1>e, <1>g, <1>k DEF Fetch, Move, Goto, Layout, Job
  <2>2. UNCHANGED <<worktrees, lost, reports, site>>
    BY <1>2, <1>k, <1>s, <2>1 DEF Fetch, home, world
  <2>3. repo' >= J.since
    <3>1. repo' \in tip..MaxTip
      BY <1>2 DEF Fetch, Pushes
    <3> QED BY <1>k, <1>o, <1>s, <3>1 DEF JobCounters
  <2> QED BY <1>k, <1>o, <1>s, <2>1, <2>2, <2>3
      DEF StagingOf, FreshOf, OrderOf, LinesOf
<1>3. CASE Resolve(p)
  <2>1. pc[p] = "resolve" /\ repo # 0 /\ Moves(p, "lock", R, repo, J.status, J.mark)
    BY <1>3, <1>c, <1>g, <1>k DEF Resolve, Move, Goto, Layout, Job
  <2>2. UNCHANGED shared
    BY <1>3 DEF Resolve, home, world
  <2> QED BY <1>k, <1>o, <1>s, <2>1, <2>2
      DEF StagingOf, FreshOf, OrderOf, LinesOf
<1>4. CASE CannotGit(p) \/ Busy(p) \/ CannotStage(p) \/ Fault(p)
  <2> DEFINE l == IF R = 0 THEN "read" ELSE "clean"
  <2>1. Moves(p, l, R, J.commit, J.status, J.mark) /\ pc[p] \notin Reporting \cup {"clean"}
    <3>1. Goto(p, l, J)
      BY <1>4 DEF CannotGit, Busy, CannotStage, Fault, Failed
    <3> QED BY <1>4, <1>g, <3>1 DEF CannotGit, Busy, CannotStage, Fault
  <2>2. UNCHANGED shared
    BY <1>4 DEF CannotGit, Busy, CannotStage, Fault, home, world
  <2> QED BY <1>k, <1>o, <1>s, <2>1, <2>2
      DEF StagingOf, FreshOf, OrderOf, LinesOf
<1>5. CASE Acquire(p)
  <2>1. pc[p] = "lock" /\ Moves(p, "sweep", R, J.commit, J.status, J.mark)
    BY <1>5, <1>c, <1>g, <1>k DEF Acquire, Move, Goto, Layout, Job
  <2>2. UNCHANGED shared
    BY <1>5 DEF Acquire, home, world
  <2> QED BY <1>k, <1>o, <1>s, <2>1, <2>2
      DEF StagingOf, FreshOf, OrderOf, LinesOf
<1>6. CASE Sweep(p)
  <2>1. pc[p] = "sweep" /\ Moves(p, "check", R, J.commit, J.status, nextId)
    BY <1>6, <1>c, <1>e, <1>g, <1>k DEF Sweep, Move, Goto, Layout, Job, SweptWorktrees
  <2>2. /\ worktrees' = {} /\ incoming'[L] = {} /\ lost \subseteq lost'
        /\ UNCHANGED <<repo, reports, stored, torn, meta, current>>
    BY <1>6, <1>k, <1>s, <2>1 DEF Sweep, home, world, SweptWorktrees
  <2> QED BY <1>k, <1>o, <1>s, <2>1, <2>2
      DEF StagingOf, FreshOf, OrderOf, LinesOf
<1>7. CASE Check(p)
  <2>1. /\ pc[p] = "check"
        /\ \/ /\ Moves(p, "read", R, J.commit, "no_op", J.mark)
              /\ CurrentMatches(L, J.commit)
           \/ Moves(p, "worktree", R, J.commit, J.status, J.mark)
    <3>1. \/ /\ Goto(p, "read", [J EXCEPT !.status = "no_op"])
             /\ CurrentMatches(L, J.commit)
          \/ Goto(p, "worktree", J)
      BY <1>7 DEF Check
    <3>2. Goto(p, "read", [J EXCEPT !.status = "no_op"])
            => Moves(p, "read", R, J.commit, "no_op", J.mark)
      BY <1>c, <1>k DEF Goto, Layout, Job
    <3> QED BY <1>7, <1>g, <3>1, <3>2 DEF Check
  <2>2. UNCHANGED shared
    BY <1>7 DEF Check, home, world
  <2>3. CurrentMatches(L, J.commit) =>
          current[L] \in meta[L] /\ stored[L][current[L]] = J.commit
    BY DEF CurrentMatches
  <2> QED BY <1>k, <1>o, <1>s, <2>1, <2>2, <2>3
      DEF StagingOf, FreshOf, OrderOf, LinesOf
<1>8. CASE AddWorktree(p)
  <2>1. pc[p] = "worktree" /\ Moves(p, "copy", nextId, J.commit, J.status, J.mark)
    BY <1>8, <1>c, <1>e, <1>g, <1>k DEF AddWorktree, Move, Goto, Layout, Job
  <2>2. worktrees' = worktrees \cup {nextId} /\ UNCHANGED <<repo, reports, site, lost>>
    BY <1>8, <1>k, <1>s, <2>1 DEF AddWorktree, home, world
  <2>3. /\ \A r \in Stored(L) \cup meta[L] : r < nextId
        /\ current[L] < nextId /\ (latest # NoRun => latest.run < nextId)
        /\ J.mark <= nextId
    BY <1>i, <1>k, <1>o DEF CountersInv, JobCounters
  <2> QED BY <1>k, <1>o, <1>s, <2>1, <2>2, <2>3
      DEF StagingOf, FreshOf, OrderOf, LinesOf
<1>9. CASE Copy(p)
  <2>1. pc[p] = "copy" /\ Moves(p, "copying", R, J.commit, J.status, J.mark)
    BY <1>9, <1>c, <1>e, <1>g, <1>k DEF Copy, Move, Goto, Layout, Job
  <2>2. /\ incoming'[L] = incoming[L] \cup {R}
        /\ UNCHANGED <<worktrees, lost, repo, reports, stored, torn, meta, current>>
    BY <1>9, <1>k, <1>s, <2>1 DEF Copy, home, world
  <2> QED BY <1>k, <1>o, <1>s, <2>1, <2>2
      DEF StagingOf, FreshOf, OrderOf, LinesOf
<1>10. CASE Copied(p)
  <2>1. pc[p] = "copying" /\ Moves(p, "adopt", R, J.commit, J.status, J.mark)
    BY <1>10, <1>c, <1>e, <1>g, <1>k DEF Copied, Move, Goto, Layout, Job
  <2>2. UNCHANGED <<worktrees, lost, repo, reports, incoming, stored, meta, current>>
    BY <1>10, <1>k, <1>s, <2>1 DEF Copied, home, world
  <2> QED BY <1>k, <1>o, <1>s, <2>1, <2>2
      DEF StagingOf, FreshOf, OrderOf, LinesOf
<1>11. CASE Adopt(p)
  <2>1. pc[p] = "adopt" /\ Moves(p, "validate", R, J.commit, J.status, J.mark)
    BY <1>11, <1>c, <1>e, <1>g, <1>k DEF Adopt, Move, Goto, Layout, Job
  <2>2. /\ incoming'[L] = incoming[L] \ {R} /\ R \in Ids
        /\ stored'[L][R] = J.commit /\ \A r \in Ids \ {R} : stored'[L][r] = stored[L][r]
        /\ UNCHANGED <<worktrees, lost, repo, reports, torn, meta, current>>
    BY <1>11, <1>k, <1>s, <2>1 DEF Adopt, home, world
  <2>s. StagingOf(p)'
    BY <1>k, <1>o, <1>s, <2>1, <2>2 DEF StagingOf
  <2>f. FreshOf(p)'
    BY <1>k, <1>o, <1>s, <2>1, <2>2 DEF FreshOf
  <2>o. OrderOf(p)'
    <3>1. Layout(p)' = L /\ pc'[p] = "validate" /\ job'[p].run = R /\ meta' = meta
          /\ current' = current /\ latest' = latest
          /\ (latest # NoRun /\ latest.layout = L => latest.run < R)
      BY <1>k, <1>o, <2>1, <2>2 DEF OrderOf, Ids
    <3>2. /\ \A r \in Stored(L) \cup meta[L] : r < R
          /\ current[L] < R
      BY <1>o, <2>1 DEF OrderOf
    <3>3. Stored(L)' \subseteq Stored(L) \cup {R}
      BY <2>2, <3>1
    <3>4. \A r \in Stored(L) \cup {R} : r <= R
      BY <1>k, <1>s, <3>2
    <3>5. R \notin meta[L] /\ current[L] # R
      BY <1>k, <3>2
    <3> QED BY <3>1, <3>3, <3>4, <3>5 DEF OrderOf
  <2>l. LinesOf(p)'
    BY <2>1 DEF LinesOf
  <2> QED BY <2>s, <2>f, <2>o, <2>l
<1>12. CASE Validate(p)
  <2>1. pc[p] = "validate" /\ Moves(p, "switch", R, J.commit, J.status, J.mark)
    BY <1>12, <1>c, <1>g, <1>k DEF Validate, Move, Goto, Layout, Job
  <2>2. UNCHANGED shared
    BY <1>12 DEF Validate, home, world
  <2> QED BY <1>k, <1>o, <1>s, <2>1, <2>2
      DEF StagingOf, FreshOf, OrderOf, LinesOf
<1>13. CASE Refuse(p)
  <2>1. pc[p] = "validate" /\ Moves(p, "clean", R, J.commit, J.status, J.mark)
    BY <1>13, <1>g, <1>k DEF Refuse, Failed
  <2>2. UNCHANGED <<worktrees, lost, repo, reports, incoming, torn, meta, current>>
    BY <1>13 DEF Refuse, home, world
  <2> QED BY <1>k, <1>o, <1>s, <2>1, <2>2
      DEF StagingOf, FreshOf, OrderOf, LinesOf
<1>14. CASE Switch(p)
  <2>1. pc[p] = "switch" /\ Moves(p, "prune", R, J.commit, J.status, J.mark)
    BY <1>14, <1>c, <1>e, <1>g, <1>k DEF Switch, Move, Goto, Layout, Job
  <2>2. /\ current'[L] = R /\ R \in Ids
        /\ UNCHANGED <<worktrees, lost, repo, reports, incoming, stored, torn, meta>>
    BY <1>14, <1>k, <1>s, <2>1 DEF Switch, home, world
  <2> QED BY <1>k, <1>o, <1>s, <2>1, <2>2
      DEF StagingOf, FreshOf, OrderOf, LinesOf
<1>15. CASE Prune(p)
  <2>1. pc[p] = "prune" /\ Moves(p, "prune", R, J.commit, J.status, J.mark)
    BY <1>15 DEF Prune, Layout
  <2>2. PICK r \in Prunable(p) : stored' = [stored EXCEPT ![L][r] = 0]
    BY <1>15 DEF Prune
  <2>3. /\ stored'[L][R] = stored[L][R]
        /\ UNCHANGED <<worktrees, lost, repo, reports, incoming, torn, meta, current>>
    <3>1. r \in Ids /\ r # R
      BY DEF Prunable, PruneSet, KeepSet
    <3> QED BY <1>15, <1>s, <1>k, <2>2, <3>1 DEF Prune, home, world
  <2> QED BY <1>k, <1>o, <1>s, <2>1, <2>3
      DEF StagingOf, FreshOf, OrderOf, LinesOf
<1>16. CASE Pruned(p)
  <2>1. pc[p] = "prune" /\ Moves(p, "document", R, J.commit, J.status, J.mark)
    BY <1>16, <1>c, <1>g, <1>k DEF Pruned, Move, Goto, Layout, Job
  <2>2. UNCHANGED shared
    BY <1>16 DEF Pruned, home, world
  <2> QED BY <1>k, <1>o, <1>s, <2>1, <2>2
      DEF StagingOf, FreshOf, OrderOf, LinesOf
<1>17. CASE Document(p)
  <2>1. pc[p] = "document" /\ Moves(p, "clean", R, J.commit, "success", J.mark)
    BY <1>17, <1>c, <1>e, <1>g, <1>k DEF Document, Move, Goto, Layout, Job
  <2>2. /\ meta'[L] = meta[L] \cup {R}
        /\ UNCHANGED <<worktrees, lost, repo, reports, incoming, stored, torn, current>>
    BY <1>17, <1>k, <1>s, <2>1 DEF Document, home, world
  <2> QED BY <1>k, <1>o, <1>s, <2>1, <2>2
      DEF StagingOf, FreshOf, OrderOf, LinesOf
<1>18. CASE Clean(p)
  <2>1. pc[p] = "clean" /\ Moves(p, "read", R, J.commit, J.status, J.mark)
    BY <1>18, <1>c, <1>e, <1>g, <1>k DEF Clean, Move, Goto, Layout, Job
  <2>2. /\ incoming'[L] = incoming[L] \ {R} /\ worktrees' = worktrees \ {R}
        /\ UNCHANGED <<lost, repo, reports, stored, torn, meta, current>>
    BY <1>18, <1>k, <1>s, <2>1 DEF Clean, home, world
  <2> QED BY <1>k, <1>o, <1>s, <2>1, <2>2
      DEF StagingOf, FreshOf, OrderOf, LinesOf
<1>19. CASE ReadRuns(p)
  <2>1. /\ pc[p] = "read" /\ job'[p].lines = runs
        /\ Moves(p, "append", R, J.commit, J.status, J.mark)
    BY <1>19, <1>c, <1>k DEF ReadRuns, Goto, Layout, Job
  <2>2. UNCHANGED shared
    BY <1>19 DEF ReadRuns, world
  <2> QED BY <1>k, <1>o, <1>s, <2>1, <2>2
      DEF StagingOf, FreshOf, OrderOf, LinesOf
<1>20. CASE AppendRun(p)
  <2>1. /\ pc[p] = "append"
        /\ Moves(p, IF J.status = "success" THEN "sidecar" ELSE "unlock",
                 R, J.commit, J.status, J.mark)
    BY <1>20, <1>c, <1>k DEF AppendRun, HasSidecar, Goto, Layout, Job
  <2>2. UNCHANGED <<worktrees, lost, repo, latest, sidecars, site>>
    BY <1>20 DEF AppendRun, home, world
  <2> QED BY <1>k, <1>o, <1>s, <2>1, <2>2
      DEF StagingOf, FreshOf, OrderOf, LinesOf
<1>21. CASE CannotReport(p)
  <2>1. /\ pc[p] \in {"read", "append", "sidecar", "latest"}
        /\ Moves(p, "unlock", R, J.commit, J.status, J.mark)
    BY <1>21, <1>c, <1>k DEF CannotReport, Goto, Layout, Job
  <2>2. UNCHANGED shared
    BY <1>21 DEF CannotReport, home
  <2> QED BY <1>k, <1>o, <1>s, <2>1, <2>2
      DEF StagingOf, FreshOf, OrderOf, LinesOf
<1>22. CASE WriteSidecar(p)
  <2>1. pc[p] = "sidecar" /\ Moves(p, "latest", R, J.commit, J.status, J.mark)
    BY <1>22, <1>c, <1>e, <1>g, <1>k DEF WriteSidecar, Move, Goto, Layout, Job
  <2>2. /\ sidecars'[L] = sidecars[L] \cup {R}
        /\ UNCHANGED <<worktrees, lost, repo, latest, site>>
    BY <1>22, <1>k, <1>s, <2>1 DEF WriteSidecar, home, world
  <2> QED BY <1>k, <1>o, <1>s, <2>1, <2>2
      DEF StagingOf, FreshOf, OrderOf, LinesOf
<1>23. CASE WriteLatest(p)
  <2>1. pc[p] = "latest" /\ Moves(p, "unlock", R, J.commit, J.status, J.mark)
    BY <1>23, <1>c, <1>e, <1>g, <1>k DEF WriteLatest, Move, Goto, Layout, Job
  <2>2. UNCHANGED <<worktrees, lost, repo, sidecars, site>>
    BY <1>23, <1>k, <1>s, <2>1 DEF WriteLatest, home, world
  <2> QED BY <1>k, <1>o, <1>s, <2>1, <2>2
      DEF StagingOf, FreshOf, OrderOf, LinesOf
<1>24. CASE NoSuchRelease(p) \/ Unlock(p)
  BY <1>24, <1>e DEF NoSuchRelease, Unlock
<1> QED BY <1>1, <1>2, <1>3, <1>4, <1>5, <1>6, <1>7, <1>8, <1>9, <1>10, <1>11, <1>12,
   <1>13, <1>14, <1>15, <1>16, <1>17, <1>18, <1>19, <1>20, <1>21, <1>22, <1>23, <1>24
  DEF PipelineStep, ReportStep
-----------------------------------------------------------------------------
LEMMA CountersKept ==
  ASSUME Inv, NEW p \in Procs, Step(p)
  PROVE  CountersInv'
<1> DEFINE R == job[p].run
           L == Layout(p)
<1>i. BaseInv /\ TypeInv /\ CountersInv /\ ProcessInv(p)
  BY DEF Inv, AllProcesses, BaseInv
<1>w. Writers(p)
  BY <1>i, OnlyWriters
<1>s. /\ incoming \in [Layouts -> SUBSET Ids] /\ stored \in [Layouts -> [Ids -> 0..MaxTip]]
      /\ meta \in [Layouts -> SUBSET Ids] /\ current \in [Layouts -> 0..MaxCommands]
      /\ sidecars \in [Layouts -> SUBSET Ids] /\ worktrees \subseteq Ids
  BY <1>i, Known DEF SiteOK, ReportsOK, HomeOK
<1>n. /\ nextId \in Nat /\ nextId' \in Nat /\ R \in Nat /\ Ids \subseteq Nat
      /\ \A l \in Layouts : current[l] \in Nat
      /\ nextId' = nextId \/ (nextId' = nextId + 1 /\ AddWorktree(p))
  <2>1. MaxCommands \in Nat
    BY Bounds
  <2>2. nextId' = nextId \/ (nextId' = nextId + 1 /\ AddWorktree(p))
    BY <1>w DEF Writers, AddWorktree
  <2> QED BY <1>i, <1>s, <2>1, <2>2, Known, KnownOwn DEF WorldOK, Ids
<1>k. /\ job[p] \in Job /\ Shape(pc[p], job[p])
      /\ Deploying(p) => R < nextId
      /\ JobCounters(p) /\ FreshOf(p)
  BY <1>i, KnownOwn DEF ProcessInv, JobCounters
<1>r. WritesSite(p) => R < nextId
  <2>1. WritesSite(p) /\ ~ Deploying(p) => R \in Stored(L) /\ L \in Layouts
    BY <1>i, <1>k, WriterHolds DEF WritesSite, Deploying, Shape, Job, Move, Sweep, Copy,
       Copied, Adopt, Refuse, Switch, Prune, Document, Clean
  <2> QED BY <1>i, <1>k, <2>1 DEF CountersInv
<1>1. ASSUME NEW l \in Layouts
      PROVE  /\ \A r \in Stored(l)' \cup meta'[l] : r < nextId'
             /\ current'[l] < nextId' /\ meta[l] \subseteq meta'[l]
  <2>1. CASE UNCHANGED site
    <3>1. Stored(l)' = Stored(l) /\ meta'[l] = meta[l] /\ current'[l] = current[l]
      BY <2>1 DEF site, Stored
    <3>2. /\ \A r \in Stored(l) \cup meta[l] : r < nextId
          /\ current[l] < nextId
      BY <1>i DEF CountersInv
    <3>3. Stored(l) \subseteq Nat /\ meta[l] \subseteq Nat
      BY <1>s, <1>n DEF Stored
    <3> QED BY <1>n, <3>1, <3>2, <3>3
  <2>2. CASE WritesSite(p)
    <3>1. /\ Stored(l)' \subseteq Stored(l) \cup {R}
          /\ meta'[l] \in {meta[l], meta[l] \cup {R}}
          /\ current'[l] \in {current[l], R} /\ nextId' = nextId
      <4>1. CASE Sweep(p) \/ Copy(p) \/ Copied(p) \/ Clean(p)
        BY <4>1 DEF Sweep, Copy, Copied, Clean, Stored, world
      <4>2. CASE Adopt(p)
        BY <1>s, <4>2 DEF Adopt, Stored, world
      <4>3. CASE Refuse(p)
        BY <1>s, <4>3 DEF Refuse, Stored, world
      <4>4. CASE Switch(p)
        BY <1>s, <4>4 DEF Switch, Stored, world
      <4>5. CASE Prune(p)
        <5>1. PICK r : stored' = [stored EXCEPT ![L][r] = 0]
          BY <4>5 DEF Prune
        <5>2. Stored(l)' \subseteq Stored(l)
          BY <1>s, <5>1 DEF Stored
        <5> QED BY <4>5, <5>2 DEF Prune, world
      <4>6. CASE Document(p)
        BY <1>s, <4>6 DEF Document, Stored, world
      <4> QED BY <2>2, <4>1, <4>2, <4>3, <4>4, <4>5, <4>6 DEF WritesSite
    <3>2. /\ \A r \in Stored(l) \cup meta[l] : r < nextId
          /\ current[l] < nextId /\ R < nextId
      BY <1>i, <1>r, <2>2 DEF CountersInv
    <3> QED BY <3>1, <3>2
  <2> QED BY <1>w, <2>1, <2>2 DEF Writers
<1>2. ASSUME NEW l \in Layouts PROVE sidecars'[l] \subseteq meta'[l]
  <2>1. sidecars[l] \subseteq meta[l] /\ meta[l] \subseteq meta'[l]
    BY <1>i, <1>1 DEF CountersInv
  <2>2. CASE UNCHANGED sidecars
    BY <2>1, <2>2
  <2>3. CASE WriteSidecar(p)
    <3>1. pc[p] = "sidecar"
      BY <2>3 DEF WriteSidecar, Move
    <3>2. Deploying(p) /\ job[p].status = "success"
      BY <1>k, <3>1 DEF Deploying, Shape, DeployShape, Job
    <3>3. R \in meta[L]
      BY <1>k, <3>2 DEF FreshOf
    <3>4. sidecars'[l] \subseteq sidecars[l] \cup (IF l = L THEN {R} ELSE {})
      BY <1>s, <2>3 DEF WriteSidecar
    <3> QED BY <2>1, <3>3, <3>4
  <2> QED BY <1>w, <2>2, <2>3 DEF Writers, WritesReports, RemoveDir, AppendRun, WriteLatest,
     reports
<1>3. \A x \in worktrees' : x < nextId'
  <2>1. \A x \in worktrees : x < nextId
    BY <1>i DEF CountersInv
  <2>2. worktrees' \subseteq worktrees \/ AddWorktree(p)
    BY <1>w DEF Writers, WritesTrees, Sweep, Clean, RemoveTmp, SweptWorktrees,
       RemovedWorktrees
  <2>3. AddWorktree(p) => worktrees' = worktrees \cup {nextId} /\ nextId' = nextId + 1
    BY DEF AddWorktree
  <2>4. worktrees \subseteq Nat
    BY <1>n, <1>s
  <2>5. \A x \in worktrees \cup {nextId} : x \in Nat /\ x < nextId + 1
    BY <1>n, <2>1, <2>4
  <2>6. CASE AddWorktree(p)
    BY <2>3, <2>5, <2>6
  <2>7. CASE worktrees' \subseteq worktrees /\ ~ AddWorktree(p)
    BY <1>n, <2>1, <2>7
  <2> QED BY <2>2, <2>6, <2>7
<1>4. latest' # NoRun => latest'.run < nextId'
  <2>1. CASE latest' \in {latest, NoRun}
    <3>1. latest # NoRun => latest.run < nextId /\ latest.run \in Nat
      BY <1>i, <1>n, Known DEF CountersInv, ReportsOK
    <3> QED BY <1>n, <2>1, <3>1
  <2>2. CASE WriteLatest(p)
    <3>1. pc[p] = "latest" /\ latest'.run = R
      BY <2>2 DEF WriteLatest, Move
    <3>2. Deploying(p)
      BY <1>k, <3>1 DEF Deploying, Shape, Job
    <3> QED BY <1>k, <1>n, <3>1, <3>2
  <2> QED BY <1>w, <2>1, <2>2 DEF Writers, WritesReports, RemoveDir, AppendRun,
     WriteSidecar, reports
<1>5. torn' \subseteq lost'
  <2>1. torn \subseteq lost /\ lost \subseteq lost'
    BY <1>i, TreesEffect DEF CountersInv, TreesApart
  <2>2. CASE Copied(p)
    <3>1. pc[p] = "copying" /\ torn' = IF R \in worktrees THEN torn ELSE torn \cup {R}
      BY <2>2 DEF Copied, HasWorktree
    <3>2. Deploying(p)
      BY <1>k, <3>1 DEF Deploying, Shape, Job
    <3>3. R \in worktrees \cup lost
      BY <1>k, <3>1, <3>2 DEF FreshOf
    <3> QED BY <2>1, <3>1, <3>3
  <2>3. CASE torn' = torn
    BY <2>1, <2>3
  <2> QED BY <1>w, <2>2, <2>3 DEF Writers, WritesSite, site, Sweep, Copy, Adopt, Refuse,
     Switch, Prune, Document, Clean
<1> QED BY <1>1, <1>2, <1>3, <1>4, <1>5 DEF CountersInv
-----------------------------------------------------------------------------
\* What a step of p leaves true of p itself.
LEMMA OwnKept ==
  ASSUME Inv, NEW p \in Procs, Step(p)
  PROVE  StagingOf(p)' /\ FreshOf(p)' /\ OrderOf(p)' /\ LinesOf(p)'
<1>i. BaseInv /\ TypeInv /\ TypeInv'
  BY StepIsNext, TypeStep DEF Inv, BaseInv
<1>c. pc \in [Procs -> Labels] /\ job \in [Procs -> Job]
  BY <1>i, Known DEF ControlOK, TypeInv, JobsOK
<1>1. CASE ~ Deploying(p)'
  <2>1. Shape(pc[p], job[p])'
    BY <1>i DEF TypeInv, JobsOK
  <2>2. ~ Locked(p)'
    BY <1>1, <2>1 DEF Shape, Deploying, Locked
  <2> QED BY <1>1, <2>2 DEF StagingOf, FreshOf, OrderOf, LinesOf, Deploying
<1>2. CASE Deploying(p)' /\ (StartPipeline(p) \/ StartSettings(p))
  <2>1. PICK kind, l, c, r : Starts(p, kind, l, c, r)
    BY <1>i, <1>2, StartKind
  <2>2. /\ pc'[p] = "repo" /\ job'[p].run = 0 /\ job'[p].mark = 0
        /\ job'[p].status = "failed"
    <3>1. job'[p].kind = kind /\ job'[p].run = r /\ pc'[p] = l /\ job'[p].mark = 0
          /\ job'[p].status = "failed"
      BY <1>c, <2>1 DEF Starts, Begin, NoJob
    <3> QED BY <1>2, <2>1, <3>1 DEF Starts, Deploying
  <2> QED BY <2>2 DEF StagingOf, FreshOf, OrderOf, LinesOf, Builds
<1>3. CASE Deploying(p)' /\ CommandStep(p)
  <2>1. Deploying(p) /\ ~ End(p)
    <3>1. StepKind(p)
      BY <1>i, <1>3, StepKinds
    <3>2. End(p) => ~ Deploying(p)'
      BY <1>c DEF End, Goto, NoJob, Deploying
    <3>3. Proceeds(p) \/ Acquire(p) => job'[p].kind = job[p].kind
      BY <1>c DEF Proceeds, Acquire, Goto
    <3> QED BY <1>3, <3>1, <3>2, <3>3 DEF StepKind, Deploying
  <2>2. ~ SettingsStep(p)
    <3>1. DeployShape(pc[p], job[p])
      BY <1>i, <2>1, KnownOwn DEF Deploying, Shape
    <3> QED BY <3>1 DEF DeployShape, Waits, Builds, Reporting, Move, SettingsStep, PurgeKey,
       RenewKey, MakeKey, CannotMakeKey, Save, RemoveDir, RemoveRepo, RemoveTmp, RemoveKey
  <2>3. ~ Kill(p)
    BY <2>1 DEF Kill
  <2> QED BY <1>i, <1>3, <2>1, <2>2, <2>3, DeployKept DEF CommandStep
<1> QED BY <1>1, <1>2, <1>3 DEF Step

LEMMA InvInit == Init => Inv
<1> SUFFICES ASSUME Init PROVE CountersInv /\ AllProcesses
  BY TypeInit, LockInit, AloneInit DEF Inv, BaseInv
<1>1. CountersInv
  BY DEF Init, CountersInv, Stored
<1>2. \A p \in Procs : pc[p] = "idle" /\ ~ Deploying(p)
  BY DEF Init, NoJob, Deploying
<1>3. AllProcesses
  BY <1>2 DEF AllProcesses, ProcessInv, JobCounters, StagingOf, FreshOf, OrderOf, LinesOf
<1> QED BY <1>1, <1>3

LEMMA InvStep == Inv /\ [Next]_vars => Inv'
<1> SUFFICES ASSUME Inv, [Next]_vars PROVE CountersInv' /\ AllProcesses'
  BY BaseStep DEF Inv
<1>1. CASE Next
  <2>1. PICK p \in Procs : Step(p)
    BY <1>1, NextSteps DEF Step
  <2>2. CountersInv'
    BY <2>1, CountersKept
  <2>3. ASSUME NEW q \in Procs PROVE ProcessInv(q)'
    <3>1. JobCounters(q)'
      BY <2>1, JobCountersKept
    <3>2. StagingOf(q)' /\ FreshOf(q)' /\ OrderOf(q)' /\ LinesOf(q)'
      BY <2>1, OwnKept, OthersKept
    <3> QED BY <3>1, <3>2 DEF ProcessInv
  <2> QED BY <2>2, <2>3 DEF AllProcesses
<1>2. CASE UNCHANGED vars
  <2>1. CountersInv'
    BY <1>2 DEF Inv, vars, home, reports, site, world, CountersInv, Stored
  <2>2. ASSUME NEW q \in Procs PROVE ProcessInv(q)'
    <3>1. UNCHANGED <<home, reports, site, world, pc, job>>
      BY <1>2 DEF vars
    <3>2. Deploying(q)' = Deploying(q) /\ Layout(q)' = Layout(q) /\ Locked(q)' = Locked(q)
          /\ \A r \in Procs : Deploying(r)' = Deploying(r)
      BY <3>1 DEF Deploying, Layout, Locked
    <3>3. ProcessInv(q)
      BY DEF Inv, AllProcesses
    <3>4. JobCounters(q)' /\ LinesOf(q)'
      BY <3>1, <3>2, <3>3 DEF ProcessInv, JobCounters, LinesOf, Outside, world, reports
    <3>5. StagingOf(q)' /\ FreshOf(q)'
      BY <3>1, <3>2, <3>3 DEF ProcessInv, StagingOf, FreshOf, home, site, world
    <3>6. OrderOf(q)'
      BY <3>1, <3>2, <3>3 DEF ProcessInv, OrderOf, Stored, site, reports
    <3> QED BY <3>4, <3>5, <3>6 DEF ProcessInv
  <2> QED BY <2>1, <2>2 DEF AllProcesses
<1> QED BY <1>1, <1>2

LEMMA InvCorrect == Spec => []Inv
BY InvInit, InvStep, PTL DEF Spec
-----------------------------------------------------------------------------
\* A deploy that is not killed ends with the release of its lock, and that changes
\* nothing but the lock.
LEMMA DeployEnds ==
  ASSUME BaseInv, BaseInv', [Next]_vars, NEW p \in Procs, Completes(p), Deploying(p)
  PROVE  pc[p] = "unlock" /\ UNCHANGED <<home, reports, site, world>>
<1>c. pc \in [Procs -> Labels] /\ job \in [Procs -> Job] /\ faults \in Nat
  BY Known DEF BaseInv, ControlOK, TypeInv, JobsOK, WorldOK
<1>d. DeployShape(pc[p], job[p])
  BY KnownOwn DEF Deploying, Shape
<1>n. CommandStep(p)
  BY Ending DEF Completes, vars
<1>e. pc'[p] = "idle" /\ ~ CountFault
  BY <1>c DEF Completes, CountFault
<1>1. ~ Fault(p) /\ ~ Kill(p)
  BY <1>e DEF Fault, Kill
<1>2. ~ SettingsStep(p)
  BY <1>d DEF DeployShape, Waits, Builds, Reporting, Move, SettingsStep, PurgeKey, RenewKey,
     MakeKey, CannotMakeKey, Save, RemoveDir, RemoveRepo, RemoveTmp, RemoveKey
<1>3. ~ ReportStep(p)
  BY <1>c, <1>e DEF ReportStep, ReadRuns, AppendRun, CannotReport, WriteSidecar,
     WriteLatest, Move, Goto
<1>4. ~ Failed(p)
  BY <1>c, <1>e DEF Failed, Goto, Deploying
<1>5. ~ NoSuchRelease(p) /\ (Prune(p) => pc' = pc /\ pc[p] # "idle")
  BY <1>d DEF NoSuchRelease, DeployShape, Waits, Builds, Reporting, Prune
<1>6. Unlock(p)
  BY <1>c, <1>e, <1>n, <1>1, <1>2, <1>3, <1>4, <1>5 DEF CommandStep, PipelineStep,
     EnsureRepo, Fetch, Resolve, CannotGit, Acquire, Busy, Sweep, Check, AddWorktree, Copy,
     Copied, CannotStage, Adopt, Validate, Refuse, Switch, Pruned, Document, Clean, Move,
     Goto, Deploying
<1> QED BY <1>6 DEF Unlock

\* A deploy that got the lock and is not killed leaves no staging of its layout and
\* no worktree of its own or of an earlier deploy, for any number of commands.
THEOREM StagingRemoved == Spec => NoStagingLeft
<1>1. ASSUME Inv, Inv', [Next]_vars, NEW p \in Procs,
             Completes(p), Deploying(p), job[p].mark # 0
      PROVE  /\ incoming'[Layout(p)] = {}
             /\ \A w \in worktrees' : w >= job[p].mark /\ w # job[p].run
  <2>1. pc[p] = "unlock" /\ incoming' = incoming /\ worktrees' = worktrees
    BY <1>1, DeployEnds DEF Inv, home, site
  <2>2. StagingOf(p)
    BY <1>1 DEF Inv, AllProcesses, ProcessInv
  <2> QED BY <1>1, <2>1, <2>2 DEF StagingOf, Reporting
<1>2. Inv /\ Inv' /\ [Next]_vars => [\A p \in Procs :
        Completes(p) /\ job[p].kind = "deploy" /\ job[p].mark # 0 =>
          /\ incoming'[Layout(p)] = {}
          /\ \A w \in worktrees' : w >= job[p].mark /\ w # job[p].run]_vars
  BY <1>1 DEF Deploying
<1> QED BY <1>2, InvCorrect, PTL DEF Spec, NoStagingLeft

\* What a deploy serves when it reports success, or that there is nothing to do, is
\* documented, no older than the branch was when it started, and whole unless
\* another command took its worktree.
THEOREM ServesFresh == Spec => SuccessServesFresh
<1>1. ASSUME Inv, Inv', [Next]_vars, NEW p \in Procs,
             Completes(p), Deploying(p), job[p].status \in {"success", "no_op"}
      PROVE  LET l == Layout(p) IN
               /\ current[l] \in meta[l]
               /\ stored[l][current[l]] >= job[p].since
               /\ current[l] \in torn => current[l] \in lost
  <2>1. FreshOf(p) /\ torn \subseteq lost
    BY <1>1 DEF Inv, AllProcesses, ProcessInv, CountersInv
  <2> QED BY <1>1, <2>1 DEF FreshOf
<1>2. Inv /\ Inv' /\ [Next]_vars => [\A p \in Procs :
       Completes(p) /\ job[p].kind = "deploy" /\ job[p].status \in {"success", "no_op"} =>
         LET l == Layout(p) IN
           /\ current[l] \in meta[l]
           /\ stored[l][current[l]] >= job[p].since
           /\ current[l] \in torn => current[l] \in lost]_vars
  BY <1>1 DEF Deploying
<1> QED BY <1>2, InvCorrect, PTL DEF Spec, SuccessServesFresh

\* A deploy that holds the lock appends its record and loses none, but for a full
\* file or a last line that was appended without the lock.
THEOREM AttemptsRecorded == Spec => LockedAttemptsRecorded
<1>1. ASSUME Inv, Inv', [Next]_vars, NEW p \in Procs,
             pc[p] = "append", pc'[p] # "append", runs' # runs, Locked(p)
      PROVE  /\ Record(p) \in Range(runs')
             /\ \/ Range(runs) \subseteq Range(runs')
                \/ Len(runs') = Retain
                \/ runs # <<>> /\ Outside(runs[Len(runs)], p)
  <2>1. PICK q \in Procs : Step(q)
    BY <1>1, NextSteps DEF Step, vars
  <2>2. Frame(q) /\ Writers(q)
    BY <1>1, <2>1, StepKinds, Framed, OnlyWriters DEF Step, Inv, BaseInv
  <2>3. q = p
    BY <1>1, <2>2 DEF Frame
  <2>4. AppendRun(p)
    BY <1>1, <2>2, <2>3 DEF Writers, WritesReports, reports, RemoveDir, WriteSidecar,
       WriteLatest, Move
  <2>5. /\ Record(p) \in Range(runs')
        /\ Range(job[p].lines) \subseteq Range(runs') \/ Len(runs') = Retain
    BY <1>1, <2>4, LastAppended DEF Inv
  <2>6. LinesOf(p)
    BY <1>1 DEF Inv, AllProcesses, ProcessInv
  <2>7. runs = <<>> => Range(runs) = {}
    BY DEF Range
  <2> QED BY <1>1, <2>5, <2>6, <2>7 DEF LinesOf
<1>2. Inv /\ Inv' /\ [Next]_vars => [\A p \in Procs :
        pc[p] = "append" /\ pc'[p] # "append" /\ runs' # runs /\ Locked(p) =>
          /\ Record(p) \in Range(runs')
          /\ \/ Range(runs) \subseteq Range(runs')
             \/ Len(runs') = Retain
             \/ runs # <<>> /\ Outside(runs[Len(runs)], p)]_vars
  BY <1>1
<1> QED BY <1>2, InvCorrect, PTL DEF Spec, LockedAttemptsRecorded

\* The latest run of a layout only moves to newer releases, and what it names is
\* documented and has its stats file.
THEOREM LatestAdvances == Spec => LatestNeverOlder
<1>1. ASSUME Inv, Inv', [Next]_vars, latest' # latest, latest' # NoRun
      PROVE  /\ latest'.run \in (sidecars[latest'.layout] \cap meta[latest'.layout])
             /\ latest # NoRun /\ latest.layout = latest'.layout
                  => latest'.run > latest.run
  <2>1. PICK q \in Procs : Step(q)
    BY <1>1, NextSteps DEF Step, vars, reports
  <2>2. WriteLatest(q)
    <3>1. Writers(q)
      BY <1>1, <2>1, OnlyWriters DEF Inv, BaseInv
    <3> QED BY <1>1, <3>1 DEF Writers, WritesReports, reports, RemoveDir, WriteSidecar,
       AppendRun
  <2>3. pc[q] = "latest" /\ latest'.run = job[q].run /\ latest'.layout = Layout(q)
    BY <2>2 DEF WriteLatest, Move
  <2>4. Deploying(q) /\ job[q].run # 0 /\ job[q].run \in Nat /\ Layout(q) \in Layouts
    BY <1>1, <2>3, KnownOwn DEF Inv, Deploying, Job, Shape, DeployShape
  <2>5. OrderOf(q) /\ CountersInv
    BY <1>1 DEF Inv, AllProcesses, ProcessInv
  <2>6. latest # NoRun => latest.run \in Nat
    BY <1>1, Known, Bounds DEF Inv, BaseInv, ReportsOK, Ids
  <2> QED BY <2>3, <2>4, <2>5, <2>6 DEF OrderOf, CountersInv
<1>2. Inv' => \A l \in Layouts : sidecars'[l] \subseteq meta'[l]
  BY DEF Inv, CountersInv
<1>3. Inv /\ Inv' /\ [Next]_vars =>
        [/\ latest' # latest /\ latest' # NoRun =>
              /\ latest'.run \in (sidecars[latest'.layout] \cap meta[latest'.layout])
              /\ latest # NoRun /\ latest.layout = latest'.layout
                   => latest'.run > latest.run
         /\ \A l \in Layouts : sidecars'[l] \subseteq meta'[l]]_vars
  BY <1>1, <1>2
<1> QED BY <1>3, InvCorrect, PTL DEF Spec, LatestNeverOlder
-----------------------------------------------------------------------------
\* The instance has its own copies of the operators on finite sets.
LEMMA SameCardinality ==
  ASSUME NEW S PROVE AbstractStore!Cardinality(S) = Cardinality(S)
<1>1. AbstractStore!IsFiniteSet(S) = IsFiniteSet(S)
  BY DEF AbstractStore!IsFiniteSet, IsFiniteSet
<1> QED BY <1>1 DEF AbstractStore!Cardinality, Cardinality

LEMMA SameStored ==
  ASSUME NEW l PROVE AbstractStore!Stored(l) = Stored(l)
BY DEF AbstractStore!Stored, Stored

\* Sets of releases are finite.
LEMMA FewReleases ==
  ASSUME NEW S \in SUBSET (Ids \cup {0})
  PROVE  IsFiniteSet(S) /\ Cardinality(S) \in Nat
<1>1. 0 \in Int /\ MaxCommands \in Int /\ Ids \cup {0} \subseteq 0..MaxCommands
  BY Bounds DEF Ids
<1>2. IsFiniteSet(0..MaxCommands)
  BY <1>1, FS_Interval
<1>3. IsFiniteSet(S)
  BY <1>1, <1>2, FS_Subset
<1> QED BY <1>3, FS_CardinalityType

LEMMA StepRefines ==
  ASSUME Inv, NEW p \in Procs, Step(p)
  PROVE  [AbstractStore!Next]_(AbstractStore!vars)
<1> DEFINE R == job[p].run
           L == Layout(p)
<1>i. BaseInv /\ TypeInv /\ CountersInv /\ ProcessInv(p) /\ Writers(p)
  BY OnlyWriters DEF Inv, AllProcesses, BaseInv
<1>k. /\ job[p] \in Job /\ Shape(pc[p], job[p]) /\ R \in Ids \cup {0}
      /\ FreshOf(p) /\ OrderOf(p) /\ Ids \subseteq Nat \ {0}
  BY <1>i, KnownOwn, Bounds DEF ProcessInv, Ids
<1>b. ASSUME pc[p] \in {"adopt", "validate", "switch", "prune", "document"}
      PROVE  /\ Deploying(p) /\ L \in Layouts /\ R \in Ids /\ job[p].commit \in 1..MaxTip
             /\ pc[p] # "adopt" => R \in Stored(L)
  <2>1. Deploying(p) /\ DeployShape(pc[p], job[p]) /\ R \in Ids
    BY <1>b, <1>k DEF Deploying, Shape, DeployShape, Job, Builds
  <2>2. job[p].commit # 0 /\ job[p].commit \in 0..MaxTip
    BY <1>b, <1>k, <2>1 DEF DeployShape, Builds, Job
  <2>3. L \in Layouts
    BY <1>i, <2>1, KnownOwn DEF Deploying
  <2>4. job[p].commit \in 1..MaxTip
    BY <2>2, Bounds
  <2>5. pc[p] # "adopt" => stored[L][R] = job[p].commit
    BY <1>b, <1>k, <2>1 DEF FreshOf
  <2> QED BY <2>1, <2>2, <2>3, <2>4, <2>5 DEF Stored
<1>1. CASE UNCHANGED site \/ Sweep(p) \/ Copy(p) \/ Copied(p) \/ Clean(p)
  BY <1>1 DEF site, Sweep, Copy, Copied, Clean, AbstractStore!vars
<1>2. CASE Adopt(p)
  <2>1. pc[p] = "adopt"
    BY <1>2 DEF Adopt
  <2>2. \A s \in Stored(L) : s < R
    BY <1>b, <1>k, <2>1 DEF OrderOf
  <2>3. AbstractStore!Adopt(L)
    BY <1>2, <1>b, <2>1, <2>2, SameStored DEF Adopt, AbstractStore!Adopt
  <2> QED BY <1>b, <2>1, <2>3 DEF AbstractStore!Next
<1>3. CASE Refuse(p)
  <2>1. pc[p] = "validate"
    BY <1>3 DEF Refuse
  <2>2. /\ R \in Stored(L) \ (meta[L] \cup {current[L]})
        /\ \A s \in Stored(L) : s <= R
    BY <1>b, <1>k, <2>1 DEF OrderOf
  <2>3. AbstractStore!Discard(L)
    BY <1>3, <2>2, SameStored DEF Refuse, AbstractStore!Discard
  <2> QED BY <1>b, <2>1, <2>3 DEF AbstractStore!Next
<1>4. CASE Switch(p)
  <2>1. R \in Stored(L) /\ L \in Layouts
    <3>1. CASE pc[p] = "switch"
      BY <1>b, <3>1
    <3>2. CASE pc[p] # "switch"
      BY <1>4, <1>i, <3>2, WriterHolds DEF Switch, Move, WritesSite
    <3> QED BY <3>1, <3>2
  <2>2. AbstractStore!Activate(L)
    BY <1>4, <2>1, SameStored DEF Switch, AbstractStore!Activate
  <2> QED BY <2>1, <2>2 DEF AbstractStore!Next
<1>5. CASE Prune(p)
  <2>1. pc[p] = "prune"
    BY <1>5 DEF Prune
  <2>2. current[L] = R
    BY <1>b, <1>k, <2>1 DEF FreshOf
  <2>3. PICK r \in Prunable(p) : stored' = [stored EXCEPT ![L][r] = 0]
    BY <1>5 DEF Prune
  <2> DEFINE newer == {current[L]} \cup {s \in Stored(L) : s > r}
  <2>4. r \in Stored(L) \ {current[L]} /\ ~ (Cardinality(newer) < Keep)
    BY <2>2 DEF Prunable, PruneSet, KeepSet
  <2>5. Cardinality(newer) \in Nat
    BY <1>k, <2>2, FewReleases DEF Stored
  <2>6. Cardinality(newer) >= Keep
    BY <2>4, <2>5, Bounds
  <2>7. AbstractStore!Prune(L)
    BY <1>5, <2>3, <2>4, <2>6, SameStored, SameCardinality DEF Prune, AbstractStore!Prune
  <2> QED BY <1>b, <2>1, <2>7 DEF AbstractStore!Next
<1>6. CASE Document(p)
  <2>1. pc[p] = "document"
    BY <1>6 DEF Document
  <2>2. current[L] = R /\ R # 0 /\ L \in Layouts
    BY <1>b, <1>k, <2>1 DEF FreshOf
  <2>3. AbstractStore!Document(L)
    BY <1>6, <2>2 DEF Document, AbstractStore!Document
  <2> QED BY <2>2, <2>3 DEF AbstractStore!Next
<1> QED BY <1>i, <1>1, <1>2, <1>3, <1>4, <1>5, <1>6 DEF Writers, WritesSite

LEMMA InitRefines == Init => AbstractStore!Init
<1> SUFFICES ASSUME Init PROVE AbstractStore!Init
  OBVIOUS
<1>1. /\ stored = [l \in Layouts |-> [r \in Ids |-> 0]] /\ current = [l \in Layouts |-> 0]
      /\ meta = [l \in Layouts |-> {}]
  BY DEF Init
<1>2. \A l \in Layouts : AbstractStore!Stored(l) = {}
  BY <1>1 DEF AbstractStore!Stored
<1> QED BY <1>1, <1>2 DEF AbstractStore!Init

\* The releases of every layout go only through what ReleaseStore allows, for any
\* number of processes, commands and layouts.
THEOREM PipelineImplementsStore == Spec => ReleaseStoreSpec
<1>1. Inv /\ [Next]_vars => [AbstractStore!Next]_(AbstractStore!vars)
  <2> SUFFICES ASSUME Inv, [Next]_vars PROVE [AbstractStore!Next]_(AbstractStore!vars)
    OBVIOUS
  <2>1. CASE Next
    <3>1. PICK p \in Procs : Step(p)
      BY <2>1, NextSteps DEF Step
    <3> QED BY <3>1, StepRefines
  <2>2. CASE UNCHANGED vars
    BY <2>2 DEF vars, site, AbstractStore!vars
  <2> QED BY <2>1, <2>2
<1> QED BY <1>1, InvCorrect, InitRefines, PTL DEF Spec, ReleaseStoreSpec, AbstractStore!Spec
=============================================================================
