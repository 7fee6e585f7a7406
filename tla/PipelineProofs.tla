--------------------------- MODULE PipelineProofs ---------------------------
(***************************************************************************)
(* The commands of one name: types, what a step of one process may do to   *)
(* the others, and the commands that run alone.                            *)
(***************************************************************************)
EXTENDS Pipeline, TLAPS, FiniteSetTheorems, SequenceTheorems

\* The places of a deploy: before it has a release id, with one, reporting.
Waits     == {"repo", "fetch", "resolve", "lock", "sweep", "check", "worktree"}
Builds    == {"copy", "copying", "adopt", "validate", "switch", "prune", "document", "clean"}
Reporting == {"read", "append", "sidecar", "latest", "unlock"}

Job == [kind : {"none", "deploy", "rollback", "inspect", "init", "config", "auth", "destroy"},
        conf : Configs \cup {NoConfig}, run : 0..MaxCommands, commit : 0..MaxTip,
        status : {"failed", "no_op", "success"}, lines : Seq(Records),
        attempt : 0..MaxCommands, since : 0..MaxTip, mark : 0..MaxCommands + 1,
        alone : BOOLEAN]

\* What the point a deploy has reached says about its local variables.
DeployShape(l, j) ==
  /\ l \in Waits \cup Builds \cup Reporting
  /\ l \in Waits => j.run = 0 /\ j.status = "failed"
  /\ l \in Builds => j.run # 0
  /\ l \in Builds \ {"clean"} => j.status = "failed"
  /\ l \in {"sidecar", "latest"} => j.status = "success"
  /\ l \in {"lock", "sweep", "check", "worktree"} \cup Builds => j.commit # 0
  /\ l \in {"repo", "fetch", "resolve", "lock", "sweep"} => j.mark = 0
  /\ l \in {"check", "worktree"} => j.mark # 0
  /\ j.run # 0 => j.mark # 0
  /\ j.status = "success" => j.run # 0
  /\ j.status = "no_op" => j.mark # 0

\* The same for every command.
Shape(l, j) ==
  /\ j.kind = "none" <=> l = "idle"
  /\ l # "idle" => j.attempt # 0
  /\ j.kind \notin {"none", "destroy"} => j.conf \in Configs
  /\ j.kind # "deploy" => j.mark = 0
  /\ j.kind = "deploy" => DeployShape(l, j)
  /\ j.kind = "rollback" => l \in {"lock", "return", "unlock"} /\ j.run # 0
  /\ j.kind = "inspect" => l \in {"repo", "fetch"}
  /\ j.kind \in {"init", "config"} => l = "save"
  /\ j.kind = "auth" =>
       l \in {"save", "purge", "renew", "keygen", "generate", "import", "import --force"}
  /\ l = "purge" => j.conf.key = "other"
  /\ j.kind = "destroy" => l \in {"dir", "cache", "tmp", "key"}

\* The deploys that will take an id.  Every one is a command that has started, so
\* there are ids enough.
Waiting == {p \in Procs : job[p].kind = "deploy" /\ pc[p] \in Waits}

IdsSuffice ==
  /\ IsFiniteSet(Waiting)
  /\ nextId + Cardinality(Waiting) <= started + 1

JobsOK == job \in [Procs -> Job] /\ \A p \in Procs : Shape(pc[p], job[p])

TypeInv == TypeOK /\ JobsOK /\ IdsSuffice

HomeOK ==
  /\ dir \in BOOLEAN /\ config \in Configs \cup {NoConfig} /\ key \in BOOLEAN
  /\ repo \in 0..MaxTip /\ worktrees \subseteq Ids
ReportsOK ==
  /\ runs \in Seq(Records) /\ Len(runs) <= Retain
  /\ latest \in [run : Ids, layout : Layouts] \cup {NoRun}
  /\ sidecars \in [Layouts -> SUBSET Ids]
SiteOK ==
  /\ incoming \in [Layouts -> SUBSET Ids]
  /\ stored \in [Layouts -> [Ids -> 0..MaxTip]]
  /\ torn \subseteq Ids /\ meta \in [Layouts -> SUBSET Ids]
  /\ current \in [Layouts -> 0..MaxCommands]
WorldOK ==
  /\ tip \in 1..MaxTip /\ nextId \in 1..MaxCommands + 1
  /\ started \in 0..MaxCommands /\ faults \in 0..MaxFaults /\ lost \subseteq Ids
LockOK == lock \in [Layouts -> Procs \cup {Nobody}]
ControlOK == pc \in [Procs -> Labels]

LEMMA Bounds ==
  /\ MaxTip \in Nat /\ MaxCommands \in Nat /\ MaxFaults \in Nat
  /\ Keep \in Nat \ {0} /\ Retain \in Nat \ {0} /\ MaxTip > 0
BY WorkspaceAssumption

LEMMA TypeParts ==
  TypeOK <=> HomeOK /\ ReportsOK /\ SiteOK /\ WorldOK /\ LockOK /\ ControlOK
BY DEF TypeOK, HomeOK, ReportsOK, SiteOK, WorldOK, LockOK, ControlOK

LEMMA TypePartsNext ==
  TypeOK' <=> HomeOK' /\ ReportsOK' /\ SiteOK' /\ WorldOK' /\ LockOK' /\ ControlOK'
BY DEF TypeOK, HomeOK, ReportsOK, SiteOK, WorldOK, LockOK, ControlOK

\* What every process knows of the state.
LEMMA Known ==
  ASSUME TypeInv, NEW p \in Procs
  PROVE  /\ job[p] \in Job /\ Shape(pc[p], job[p]) /\ pc[p] \in Labels
         /\ HomeOK /\ ReportsOK /\ SiteOK /\ WorldOK /\ LockOK /\ ControlOK
BY TypeParts DEF TypeInv, JobsOK, ControlOK

\* Fewer deploys that wait need fewer ids.
LEMMA FewerWait ==
  ASSUME TypeInv, nextId' = nextId, started' = started, Waiting' \subseteq Waiting
  PROVE  IdsSuffice'
<1>1. IsFiniteSet(Waiting) /\ nextId + Cardinality(Waiting) <= started + 1
  BY DEF TypeInv, IdsSuffice
<1>2. IsFiniteSet(Waiting') /\ Cardinality(Waiting') <= Cardinality(Waiting)
  BY <1>1, FS_Subset
<1>3. Cardinality(Waiting) \in Nat /\ Cardinality(Waiting') \in Nat
  BY <1>1, <1>2, FS_CardinalityType
<1>4. nextId \in Nat /\ started \in Nat
  BY WorkspaceAssumption DEF TypeInv, TypeOK
<1> QED BY <1>1, <1>2, <1>3, <1>4 DEF IdsSuffice

\* A command that goes on keeps the types if its new place and its local variables
\* agree and it does not begin to wait.
LEMMA GotoType ==
  ASSUME TypeInv, NEW p \in Procs, NEW l \in Labels, NEW j \in Job, Goto(p, l, j),
         Shape(l, j), j.kind = "deploy" /\ l \in Waits => p \in Waiting,
         nextId' = nextId, started' = started,
         HomeOK', ReportsOK', SiteOK', WorldOK', LockOK'
  PROVE  TypeInv'
<1>1. ControlOK' /\ JobsOK'
  BY DEF Goto, TypeInv, TypeOK, ControlOK, JobsOK
<1>2. Waiting' \subseteq Waiting
  BY DEF Goto, TypeInv, TypeOK, JobsOK, Waiting
<1> QED BY <1>1, <1>2, FewerWait, TypePartsNext DEF TypeInv

LEMMA NoJobShape == NoJob \in Job /\ Shape("idle", NoJob)
BY WorkspaceAssumption DEF NoJob, Job, Shape

\* A command that ends keeps the types.
LEMMA EndType ==
  ASSUME TypeInv, NEW p \in Procs, End(p), nextId' = nextId, started' = started,
         HomeOK', ReportsOK', SiteOK', WorldOK'
  PROVE  TypeInv'
<1>1. LockOK'
  BY DEF End, TypeInv, TypeOK, LockOK
<1>2. "idle" \in Labels /\ NoJob.kind # "deploy"
  BY DEF Labels, NoJob
<1>3. Goto(p, "idle", NoJob)
  BY DEF End
<1> HIDE DEF NoJob, Labels, End
<1> QED BY <1>1, <1>2, <1>3, NoJobShape, GotoType

\* An error return keeps the types.
LEMMA FailedType ==
  ASSUME TypeInv, NEW p \in Procs, Failed(p), pc[p] \notin Reporting \cup {"idle", "clean"},
         nextId' = nextId, started' = started, HomeOK', ReportsOK', SiteOK', WorldOK'
  PROVE  TypeInv'
<1>k. job[p] \in Job /\ Shape(pc[p], job[p]) /\ LockOK
  BY Known
<1>1. CASE job[p].kind = "deploy"
  <2> DEFINE l == IF job[p].run = 0 THEN "read" ELSE "clean"
  <2>1. Goto(p, l, job[p]) /\ LockOK'
    BY <1>1, <1>k DEF Failed, LockOK
  <2>2. l \in Labels /\ l \notin Waits
    BY DEF Labels, Waits
  <2>3. Shape(l, job[p])
    BY <1>1, <1>k DEF Shape, DeployShape, Waits, Builds, Reporting
  <2> HIDE DEF l
  <2> QED BY <1>k, <2>1, <2>2, <2>3, GotoType
<1>2. CASE job[p].kind # "deploy"
  BY <1>2, EndType DEF Failed
<1> QED BY <1>1, <1>2

\* That a command is no longer alone changes nothing else about it.
LEMMA AloneApart ==
  ASSUME NEW j \in Job, NEW b \in BOOLEAN
  PROVE  LET k == [j EXCEPT !.alone = b] IN
           /\ k \in Job /\ k.alone = b
           /\ k.kind = j.kind /\ k.conf = j.conf /\ k.run = j.run /\ k.commit = j.commit
           /\ k.status = j.status /\ k.lines = j.lines /\ k.attempt = j.attempt
           /\ k.since = j.since /\ k.mark = j.mark
           /\ \A l : Shape(l, j) => Shape(l, k)
<1> DEFINE k == [j EXCEPT !.alone = b]
<1>1. /\ k.kind = j.kind /\ k.conf = j.conf /\ k.run = j.run /\ k.commit = j.commit
      /\ k.status = j.status /\ k.lines = j.lines /\ k.attempt = j.attempt
      /\ k.since = j.since /\ k.mark = j.mark /\ k.alone = b
  BY DEF Job
<1>2. k \in Job
  BY DEF Job
<1> HIDE DEF k
<1>3. \A l : Shape(l, j) => Shape(l, k)
  <2> TAKE l
  <2>1. DeployShape(l, j) => DeployShape(l, k)
    BY <1>1 DEF DeployShape
  <2> QED BY <1>1, <2>1 DEF Shape
<1> QED BY <1>1, <1>2, <1>3 DEF k

\* The local variables of a command that begins.
Begun(j, kind, c, r) ==
  /\ j.kind = kind /\ j.conf = c /\ j.run = r
  /\ j.attempt # 0 /\ j.mark = 0 /\ j.status = "failed"

\* A command that begins: one more deploy waits, or none, and one more started.
LEMMA BeginType ==
  ASSUME TypeInv, NEW p \in Procs, NEW kind, NEW l \in Labels \ {"idle"},
         NEW c \in Configs \cup {NoConfig}, NEW r \in 0..MaxCommands,
         Begin(p, kind, l, c, r),
         \A j \in Job : Begun(j, kind, c, r) => Shape(l, j)
  PROVE  TypeInv'
<1> DEFINE new == [NoJob EXCEPT !.kind = kind, !.conf = c, !.run = r,
                                !.attempt = started', !.since = tip',
                                !.alone = (Running = {})]
<1>k. WorldOK /\ ControlOK /\ job \in [Procs -> Job]
  BY Known DEF TypeInv, JobsOK
<1>1. WorldOK' /\ started' = started + 1 /\ started \in Nat /\ nextId' = nextId
  <2>1. /\ started' = started + 1 /\ started < MaxCommands
        /\ tip' = tip \/ tip' \in tip..MaxTip
        /\ nextId' = nextId /\ faults' = faults /\ lost' = lost
    BY DEF Begin, Pushes
  <2> QED BY <1>k, <2>1, Bounds DEF WorldOK
<1>2. HomeOK' /\ ReportsOK' /\ SiteOK' /\ LockOK'
  BY Known DEF Begin, home, reports, site, HomeOK, ReportsOK, SiteOK, LockOK
<1>3. ControlOK'
  BY <1>k DEF Begin, ControlOK
<1>4. new \in Job
  <2>1. NoJob \in Job /\ kind \in Kinds /\ started' \in 0..MaxCommands /\ tip' \in 0..MaxTip
    <3>1. kind \in Kinds
      BY DEF Begin
    <3> QED BY <1>1, <3>1, NoJobShape, Bounds DEF WorldOK
  <2>2. (Running = {}) \in BOOLEAN
    OBVIOUS
  <2> QED BY <2>1, <2>2, WorkspaceAssumption DEF Job
<1>5. Begun(new, kind, c, r)
  BY <1>1 DEF NoJob, Begun
<1>6. Shape(l, new)
  BY <1>4, <1>5
<1>7. job'[p] = new /\ pc'[p] = l /\ pc[p] = "idle"
  BY <1>k DEF Begin, ControlOK
<1>8. \A q \in Procs \ {p} : /\ pc'[q] = pc[q]
                            /\ job'[q] = [job[q] EXCEPT !.alone = (pc[q] = "idle")]
  BY <1>k DEF Begin, ControlOK
<1> HIDE DEF new
<1>9. JobsOK'
  <2>1. \A q \in Procs \ {p} : job'[q] \in Job /\ Shape(pc'[q], job'[q])
    <3> TAKE q \in Procs \ {p}
    <3>1. job[q] \in Job /\ Shape(pc[q], job[q]) /\ (pc[q] = "idle") \in BOOLEAN
      BY Known
    <3> DEFINE k == [job[q] EXCEPT !.alone = (pc[q] = "idle")]
    <3>2. k \in Job /\ Shape(pc[q], k)
      BY <3>1, AloneApart
    <3> QED BY <3>2, <1>8
  <2>2. DOMAIN job' = Procs /\ job' = [q \in Procs |-> job'[q]]
    BY DEF Begin
  <2> QED BY <1>4, <1>6, <1>7, <2>1, <2>2 DEF JobsOK
<1>10. IdsSuffice'
  <2>1. IsFiniteSet(Waiting) /\ nextId + Cardinality(Waiting) <= started + 1
    BY DEF TypeInv, IdsSuffice
  <2>2. Waiting' \subseteq Waiting \cup {p}
    <3> SUFFICES ASSUME NEW q \in Procs \ {p} PROVE q \in Waiting' => q \in Waiting
      BY DEF Waiting
    <3>1. job[q] \in Job /\ Shape(pc[q], job[q]) /\ (pc[q] = "idle") \in BOOLEAN
      BY Known
    <3> DEFINE k == [job[q] EXCEPT !.alone = (pc[q] = "idle")]
    <3>2. k.kind = job[q].kind
      BY <3>1, AloneApart
    <3> QED BY <3>2, <1>8 DEF Waiting
  <2>3. /\ IsFiniteSet(Waiting \cup {p})
        /\ Cardinality(Waiting \cup {p}) <= Cardinality(Waiting) + 1
    <3> HIDE DEF Waiting
    <3>1. Cardinality(Waiting) \in Nat
      BY <2>1, FS_CardinalityType
    <3>2. /\ IsFiniteSet(Waiting \cup {p})
          /\ Cardinality(Waiting \cup {p})
               = IF p \in Waiting THEN Cardinality(Waiting) ELSE Cardinality(Waiting) + 1
      BY <2>1, FS_AddElement
    <3> QED BY <3>1, <3>2
  <2>4. IsFiniteSet(Waiting') /\ Cardinality(Waiting') <= Cardinality(Waiting \cup {p})
    BY <2>2, <2>3, FS_Subset
  <2>5. /\ Cardinality(Waiting) \in Nat /\ Cardinality(Waiting \cup {p}) \in Nat
        /\ Cardinality(Waiting') \in Nat /\ nextId \in Nat
    BY <2>1, <2>3, <2>4, <1>k, WorkspaceAssumption, FS_CardinalityType DEF WorldOK
  <2> QED BY <1>1, <2>1, <2>3, <2>4, <2>5 DEF IdsSuffice
<1> QED BY <1>1, <1>2, <1>3, <1>9, <1>10, TypePartsNext DEF TypeInv
-----------------------------------------------------------------------------
\* Every command that begins keeps the types.
LEMMA StartType ==
  ASSUME TypeInv, NEW p \in Procs, StartPipeline(p) \/ StartSettings(p)
  PROVE  TypeInv'
<1>k. /\ config \in Configs \cup {NoConfig} /\ 0 \in 0..MaxCommands
      /\ Ids \subseteq 0..MaxCommands /\ NoConfig \in Configs \cup {NoConfig}
  BY Known, Bounds DEF HomeOK, Ids
<1>c. config # NoConfig =>
        /\ \A k \in {"managed", "other"} : [config EXCEPT !.key = k] \in Configs
        /\ \A l \in Layouts : [config EXCEPT !.layout = l] \in Configs
  BY <1>k DEF Configs
<1>l. /\ {"repo", "lock", "save", "purge", "import", "import --force", "generate", "renew",
          "dir"} \subseteq Labels \ {"idle"}
  BY DEF Labels
<1>1. CASE StartPipeline(p)
  <2>1. PICK kind \in {"deploy", "inspect", "rollback"}, r \in Ids \cup {0} :
          /\ Begin(p, kind, IF kind = "rollback" THEN "lock" ELSE "repo", config, r)
          /\ config # NoConfig /\ (kind = "rollback" => r \in Ids) /\ (kind # "rollback" => r = 0)
    BY <1>1 DEF StartPipeline
  <2>2. \A j \in Job : Begun(j, kind, config, r)
                         => Shape(IF kind = "rollback" THEN "lock" ELSE "repo", j)
    BY <1>k, <2>1 DEF Begun, Shape, DeployShape, Waits, Builds, Reporting, Ids
  <2> QED BY <1>k, <1>l, <2>1, <2>2, BeginType
<1>2. CASE Initialize(p)
  <2>1. PICK c \in Configs : Begin(p, "init", "save", c, 0)
    BY <1>2 DEF Initialize, Configs
  <2>2. \A j \in Job : Begun(j, "init", c, 0) => Shape("save", j)
    BY <2>1 DEF Shape, Begun
  <2> QED BY <1>k, <1>l, <2>1, <2>2, BeginType
<1>3. CASE Configure(p)
  <2>1. PICK c \in Configs : Begin(p, "config", "save", c, 0)
    BY <1>3, <1>c DEF Configure
  <2>2. \A j \in Job : Begun(j, "config", c, 0) => Shape("save", j)
    BY <2>1 DEF Shape, Begun
  <2> QED BY <1>k, <1>l, <2>1, <2>2, BeginType
<1>4. CASE Authorize(p)
  <2>1. PICK c \in Configs,
             l \in {"save", "purge", "import", "import --force", "generate", "renew"} :
          Begin(p, "auth", l, c, 0) /\ (l = "purge" => c.key = "other")
    <3>1. config # NoConfig => [config EXCEPT !.key = "other"].key = "other"
      BY <1>k DEF Configs
    <3> QED BY <1>4, <1>c, <3>1 DEF Authorize
  <2>2. \A j \in Job : Begun(j, "auth", c, 0) => Shape(l, j)
    BY <2>1 DEF Shape, Begun
  <2> QED BY <1>k, <1>l, <2>1, <2>2, BeginType
<1>5. CASE Destroy(p)
  <2>2. \A j \in Job : Begun(j, "destroy", NoConfig, 0) => Shape("dir", j)
    BY DEF Shape, Begun
  <2> QED BY <1>k, <1>l, <1>5, <2>2, BeginType DEF Destroy
<1> QED BY <1>1, <1>2, <1>3, <1>4, <1>5 DEF StartSettings

\* What is not written keeps its type.
LEMMA Unwritten ==
  ASSUME TypeInv
  PROVE  /\ UNCHANGED home => HomeOK'
         /\ UNCHANGED reports => ReportsOK'
         /\ UNCHANGED site => SiteOK'
         /\ UNCHANGED lock => LockOK'
         /\ UNCHANGED world => WorldOK' /\ nextId' = nextId /\ started' = started
BY TypeParts DEF TypeInv, home, reports, site, world, HomeOK, ReportsOK, SiteOK, LockOK,
   WorldOK

\* The types after every step of a deploy, a rollback or an inspection.
LEMMA PipelineType ==
  ASSUME TypeInv, NEW p \in Procs, PipelineStep(p)
  PROVE  TypeInv'
<1>k. /\ job[p] \in Job /\ Shape(pc[p], job[p]) /\ pc[p] \in Labels
      /\ HomeOK /\ ReportsOK /\ SiteOK /\ WorldOK /\ LockOK
  BY Known
<1>b. /\ MaxTip \in Nat /\ MaxCommands \in Nat /\ MaxFaults \in Nat /\ MaxTip > 0
      /\ Nobody \notin Procs /\ Ids = 1..MaxCommands /\ Retain \in Nat \ {0}
  BY Bounds, WorkspaceAssumption DEF Ids
<1>w. /\ repo \in 0..MaxTip /\ nextId \in 0..MaxCommands + 1 /\ nextId # 0
      /\ tip \in Nat /\ tip <= MaxTip
      /\ runs \in Seq(Records) /\ <<>> \in Seq(Records) /\ Len(<<>>) = 0
  BY <1>k, <1>b DEF HomeOK, WorldOK, ReportsOK
<1>c. job[p].kind \notin {"none", "destroy"} => Layout(p) \in Layouts
  BY <1>k DEF Shape, Layout, Configs
<1>l. /\ job[p].run \in 0..MaxCommands /\ (job[p].run # 0 => job[p].run \in Ids)
      /\ job[p].commit \in 0..MaxTip
  BY <1>k, <1>b DEF Job
<1>1. CASE EnsureRepo(p)
  <2>1. HomeOK' /\ WorldOK' /\ nextId' = nextId /\ started' = started
    BY <1>1, <1>k, <1>b DEF EnsureRepo, Pushes, HomeOK, WorldOK
  <2>2. ReportsOK' /\ SiteOK' /\ (UNCHANGED lock => LockOK')
    BY <1>1, <1>k DEF EnsureRepo, reports, site, ReportsOK, SiteOK, LockOK
  <2>3. CASE Goto(p, "fetch", job[p]) /\ UNCHANGED lock
    <3>1. Shape("fetch", job[p]) /\ "fetch" \in Labels
          /\ (job[p].kind = "deploy" => p \in Waiting)
      BY <1>1, <1>k DEF EnsureRepo, Waiting, Labels, Shape, DeployShape, Waits, Builds,
         Reporting
    <3> QED BY <1>k, <2>1, <2>2, <2>3, <3>1, GotoType
  <2>4. CASE End(p)
    BY <2>1, <2>2, <2>4, EndType
  <2> QED BY <1>1, <2>3, <2>4 DEF EnsureRepo
<1>2. CASE Fetch(p)
  <2>1. HomeOK' /\ WorldOK' /\ nextId' = nextId /\ started' = started
    BY <1>2, <1>k, <1>b DEF Fetch, Pushes, HomeOK, WorldOK
  <2>2. ReportsOK' /\ SiteOK' /\ (UNCHANGED lock => LockOK')
    BY <1>2, <1>k DEF Fetch, reports, site, ReportsOK, SiteOK, LockOK
  <2>3. CASE job[p].kind # "inspect"
    <3>1. /\ Shape("resolve", job[p]) /\ "resolve" \in Labels
          /\ job[p].kind = "deploy" => p \in Waiting
      BY <1>2, <1>k, <2>3 DEF Fetch, Waiting, Labels, Shape, DeployShape, Waits, Builds,
         Reporting
    <3>2. Goto(p, "resolve", job[p]) /\ UNCHANGED lock
      BY <1>2, <2>3 DEF Fetch
    <3> QED BY <1>k, <2>1, <2>2, <3>1, <3>2, GotoType
  <2>4. CASE job[p].kind = "inspect"
    BY <1>2, <2>1, <2>2, <2>4, EndType DEF Fetch
  <2> QED BY <2>3, <2>4
<1>3. CASE Resolve(p)
  <2>1. Goto(p, "lock", [job[p] EXCEPT !.commit = repo]) /\ pc[p] = "resolve" /\ repo # 0
    BY <1>3 DEF Resolve
  <2>2. [job[p] EXCEPT !.commit = repo] \in Job
    BY <1>k, <1>w, <2>1 DEF Job
  <2>3. Shape("lock", [job[p] EXCEPT !.commit = repo]) /\ "lock" \in Labels
        /\ ("lock" \in Waits => p \in Waiting)
    BY <1>k, <1>w, <2>1, <2>2 DEF Waiting, Labels, Job, Shape, DeployShape, Waits, Builds,
       Reporting
  <2>4. /\ HomeOK' /\ ReportsOK' /\ SiteOK' /\ WorldOK' /\ LockOK'
        /\ nextId' = nextId /\ started' = started
    BY <1>3, <1>k, <1>b DEF Resolve, home, reports, site, world, HomeOK, ReportsOK, SiteOK,
       WorldOK, LockOK
  <2> QED BY <1>k, <2>1, <2>2, <2>3, <2>4, GotoType
<1>4. CASE CannotGit(p)
  <2>1. Failed(p) /\ pc[p] \in {"repo", "fetch", "resolve", "worktree"}
    BY <1>4 DEF CannotGit
  <2>4. /\ HomeOK' /\ ReportsOK' /\ SiteOK' /\ WorldOK'
        /\ nextId' = nextId /\ started' = started
    BY <1>4, <1>k, <1>b DEF CannotGit, home, reports, site, world, HomeOK, ReportsOK,
       SiteOK, WorldOK
  <2> QED BY <2>1, <2>4, FailedType DEF Reporting
<1>5. CASE Acquire(p)
  <2> DEFINE l == IF job[p].kind = "deploy" THEN "sweep" ELSE "return"
  <2>1. Goto(p, l, job[p]) /\ pc[p] = "lock"
    BY <1>5 DEF Acquire
  <2>3. Shape(l, job[p]) /\ l \in Labels /\ (l \in Waits => p \in Waiting)
    BY <1>k, <1>w, <2>1 DEF Waiting, Labels, Job, Shape, DeployShape, Waits, Builds,
       Reporting
  <2>4. /\ HomeOK' /\ ReportsOK' /\ SiteOK' /\ WorldOK' /\ LockOK'
        /\ nextId' = nextId /\ started' = started
    BY <1>5, <1>k, <1>b DEF Acquire, home, reports, site, world, HomeOK, ReportsOK, SiteOK,
       WorldOK, LockOK
  <2> HIDE DEF l
  <2> QED BY <1>k, <2>1, <2>3, <2>4, GotoType
<1>6. CASE Busy(p)
  <2>1. Failed(p) /\ pc[p] = "lock"
    BY <1>6 DEF Busy
  <2>4. /\ HomeOK' /\ ReportsOK' /\ SiteOK' /\ WorldOK'
        /\ nextId' = nextId /\ started' = started
    BY <1>6, <1>k, <1>b DEF Busy, home, reports, site, world, HomeOK, ReportsOK, SiteOK,
       WorldOK
  <2> QED BY <2>1, <2>4, FailedType DEF Reporting
<1>7. CASE Sweep(p)
  <2>1. Goto(p, "check", [job[p] EXCEPT !.mark = nextId]) /\ pc[p] = "sweep"
    BY <1>7 DEF Sweep
  <2>2. [job[p] EXCEPT !.mark = nextId] \in Job
    BY <1>k, <1>w, <2>1 DEF Job
  <2>3. Shape("check", [job[p] EXCEPT !.mark = nextId]) /\ "check" \in Labels
        /\ ("check" \in Waits => p \in Waiting)
    BY <1>k, <1>w, <2>1, <2>2 DEF Waiting, Labels, Job, Shape, DeployShape, Waits, Builds,
       Reporting
  <2>4. HomeOK'
    BY <1>7, <1>k, <1>b, <1>w, <1>l DEF Sweep, home, reports, site, world, HomeOK,
       SweptWorktrees
  <2>5. SiteOK'
    BY <1>7, <1>k, <1>b, <1>w, <1>l DEF Sweep, home, reports, site, world, SiteOK,
       SweptWorktrees
  <2>6. WorldOK'
    BY <1>7, <1>k, <1>b, <1>w, <1>l DEF Sweep, home, reports, site, world, WorldOK,
       SweptWorktrees, HomeOK
  <2>7. /\ ReportsOK' /\ LockOK'
        /\ nextId' = nextId /\ started' = started
    BY <1>7, <1>k, <1>b DEF Sweep, home, reports, site, world, ReportsOK, LockOK,
       SweptWorktrees
  <2> QED BY <1>k, <2>1, <2>2, <2>3, <2>4, <2>5, <2>6, <2>7, GotoType
<1>8. CASE Check(p)
  <2>1. PICK force \in BOOLEAN :
          IF ~ force /\ CurrentMatches(Layout(p), job[p].commit)
          THEN Goto(p, "read", [job[p] EXCEPT !.status = "no_op"])
          ELSE Goto(p, "worktree", job[p])
    BY <1>8 DEF Check
  <2>2. /\ HomeOK' /\ ReportsOK' /\ SiteOK' /\ LockOK' /\ WorldOK'
        /\ nextId' = nextId /\ started' = started
    BY <1>8, Unwritten DEF Check
  <2>3. pc[p] = "check"
    BY <1>8 DEF Check
  <2>4. [job[p] EXCEPT !.status = "no_op"] \in Job
    BY <1>k DEF Job
  <2>5. /\ Shape("read", [job[p] EXCEPT !.status = "no_op"]) /\ Shape("worktree", job[p])
        /\ {"read", "worktree"} \subseteq Labels /\ "read" \notin Waits /\ p \in Waiting
    BY <1>k, <2>3, <2>4 DEF Waiting, Labels, Job, Shape, DeployShape, Waits, Builds,
       Reporting
  <2> QED BY <1>k, <2>1, <2>2, <2>4, <2>5, GotoType
<1>9. CASE AddWorktree(p)
  <2> DEFINE j == [job[p] EXCEPT !.run = nextId]
  <2>1. /\ pc[p] = "worktree" /\ Goto(p, "copy", j) /\ nextId' = nextId + 1
        /\ started' = started /\ worktrees' = worktrees \cup {nextId}
        /\ UNCHANGED <<dir, config, key, repo, reports, lock, site, tip, faults, lost>>
    BY <1>9 DEF AddWorktree
  <2>2. p \in Waiting
    BY <1>k, <2>1 DEF Waiting, Job, Shape, DeployShape, Waits, Builds, Reporting
  <2>3. Waiting' = Waiting \ {p}
    <3>1. pc'[p] = "copy" /\ \A q \in Procs \ {p} : pc'[q] = pc[q] /\ job'[q] = job[q]
      BY <2>1 DEF Goto, TypeInv, TypeOK, JobsOK
    <3> QED BY <3>1 DEF Waiting, Waits
  <2>4. IsFiniteSet(Waiting) /\ nextId + Cardinality(Waiting) <= started + 1
    BY DEF TypeInv, IdsSuffice
  <2>5. Cardinality(Waiting) \in Nat /\ Cardinality(Waiting) # 0
    BY <2>2, <2>4, FS_CardinalityType, FS_EmptySet
  <2>6. IsFiniteSet(Waiting') /\ Cardinality(Waiting') = Cardinality(Waiting) - 1
    BY <2>2, <2>3, <2>4, FS_RemoveElement
  <2>7. started \in 0..MaxCommands /\ nextId \in Nat
    BY <1>k, <1>b DEF WorldOK
  <2>8. IdsSuffice' /\ nextId \in 1..MaxCommands
    <3>1. nextId' + Cardinality(Waiting)' <= started' + 1
      BY <2>1, <2>4, <2>5, <2>6, <2>7
    <3>2. nextId <= started
      BY <2>4, <2>5, <2>7
    <3> QED BY <1>w, <1>b, <2>6, <2>7, <3>1, <3>2 DEF IdsSuffice
  <2>9. j \in Job
    <3>1. nextId \in 0..MaxCommands
      BY <1>b, <2>8
    <3> QED BY <1>k, <3>1 DEF Job
  <2>10. Shape("copy", j) /\ "copy" \in Labels
    BY <1>k, <1>w, <2>1, <2>9 DEF Labels, Job, Shape, DeployShape, Waits, Builds, Reporting
  <2>11. ControlOK' /\ JobsOK'
    BY <2>1, <2>9, <2>10 DEF Goto, TypeInv, TypeOK, ControlOK, JobsOK
  <2>12. HomeOK' /\ WorldOK'
    BY <1>k, <1>b, <2>1, <2>8 DEF HomeOK, WorldOK
  <2>13. ReportsOK' /\ SiteOK' /\ LockOK'
    BY <2>1, Unwritten
  <2> QED BY <2>8, <2>11, <2>12, <2>13, TypePartsNext DEF TypeInv
<1>10. CASE Copy(p)
  <2>1. Goto(p, "copying", job[p]) /\ pc[p] = "copy"
    BY <1>10 DEF Copy
  <2>3. Shape("copying", job[p]) /\ "copying" \in Labels
        /\ ("copying" \in Waits => p \in Waiting)
    BY <1>k, <1>w, <2>1 DEF Waiting, Labels, Job, Shape, DeployShape, Waits, Builds,
       Reporting
  <2>own. Layout(p) \in Layouts /\ job[p].run \in Ids
    BY <1>k, <1>c, <1>l, <2>1 DEF Job, Shape, DeployShape, Waits, Builds, Reporting
  <2>4. SiteOK'
    BY <1>10, <1>k, <1>b, <1>w, <1>l, <2>own DEF Copy, home, reports, site, world, SiteOK
  <2>5. /\ HomeOK' /\ ReportsOK' /\ WorldOK' /\ LockOK'
        /\ nextId' = nextId /\ started' = started
    BY <1>10, <1>k, <1>b DEF Copy, home, reports, site, world, HomeOK, ReportsOK, WorldOK,
       LockOK
  <2> QED BY <1>k, <2>1, <2>3, <2>4, <2>5, GotoType
<1>11. CASE Copied(p)
  <2>1. Goto(p, "adopt", job[p]) /\ pc[p] = "copying"
    BY <1>11 DEF Copied
  <2>3. Shape("adopt", job[p]) /\ "adopt" \in Labels
        /\ ("adopt" \in Waits => p \in Waiting)
    BY <1>k, <1>w, <2>1 DEF Waiting, Labels, Job, Shape, DeployShape, Waits, Builds,
       Reporting
  <2>own. Layout(p) \in Layouts /\ job[p].run \in Ids
    BY <1>k, <1>c, <1>l, <2>1 DEF Job, Shape, DeployShape, Waits, Builds, Reporting
  <2>4. SiteOK'
    BY <1>11, <1>k, <1>b, <1>w, <1>l, <2>own DEF Copied, home, reports, site, world, SiteOK
  <2>5. /\ HomeOK' /\ ReportsOK' /\ WorldOK' /\ LockOK'
        /\ nextId' = nextId /\ started' = started
    BY <1>11, <1>k, <1>b DEF Copied, home, reports, site, world, HomeOK, ReportsOK, WorldOK,
       LockOK
  <2> QED BY <1>k, <2>1, <2>3, <2>4, <2>5, GotoType
<1>12. CASE CannotStage(p)
  <2>1. Failed(p) /\ pc[p] \in {"copy", "copying", "adopt"}
    BY <1>12 DEF CannotStage
  <2>4. /\ HomeOK' /\ ReportsOK' /\ SiteOK' /\ WorldOK'
        /\ nextId' = nextId /\ started' = started
    BY <1>12, <1>k, <1>b DEF CannotStage, home, reports, site, world, HomeOK, ReportsOK,
       SiteOK, WorldOK
  <2> QED BY <2>1, <2>4, FailedType DEF Reporting
<1>13. CASE Adopt(p)
  <2>1. Goto(p, "validate", job[p]) /\ pc[p] = "adopt"
    BY <1>13 DEF Adopt
  <2>3. Shape("validate", job[p]) /\ "validate" \in Labels
        /\ ("validate" \in Waits => p \in Waiting)
    BY <1>k, <1>w, <2>1 DEF Waiting, Labels, Job, Shape, DeployShape, Waits, Builds,
       Reporting
  <2>own. Layout(p) \in Layouts /\ job[p].run \in Ids
    BY <1>k, <1>c, <1>l, <2>1 DEF Job, Shape, DeployShape, Waits, Builds, Reporting
  <2>4. SiteOK'
    BY <1>13, <1>k, <1>b, <1>w, <1>l, <2>own DEF Adopt, home, reports, site, world, SiteOK
  <2>5. /\ HomeOK' /\ ReportsOK' /\ WorldOK' /\ LockOK'
        /\ nextId' = nextId /\ started' = started
    BY <1>13, <1>k, <1>b DEF Adopt, home, reports, site, world, HomeOK, ReportsOK, WorldOK,
       LockOK
  <2> QED BY <1>k, <2>1, <2>3, <2>4, <2>5, GotoType
<1>14. CASE Validate(p)
  <2>1. Goto(p, "switch", job[p]) /\ pc[p] = "validate"
    BY <1>14 DEF Validate, Move
  <2>3. Shape("switch", job[p]) /\ "switch" \in Labels /\ ("switch" \in Waits => p \in Waiting)
    BY <1>k, <1>w, <2>1 DEF Waiting, Labels, Job, Shape, DeployShape, Waits, Builds,
       Reporting
  <2>4. /\ HomeOK' /\ ReportsOK' /\ SiteOK' /\ WorldOK' /\ LockOK'
        /\ nextId' = nextId /\ started' = started
    BY <1>14, <1>k, <1>b DEF Validate, Move, home, reports, site, world, HomeOK, ReportsOK,
       SiteOK, WorldOK, LockOK
  <2> QED BY <1>k, <2>1, <2>3, <2>4, GotoType
<1>15. CASE Refuse(p)
  <2>1. Failed(p) /\ pc[p] = "validate"
    BY <1>15 DEF Refuse
  <2>own. Layout(p) \in Layouts /\ job[p].run \in Ids
    BY <1>k, <1>c, <1>l, <2>1 DEF Job, Shape, DeployShape, Waits, Builds, Reporting
  <2>4. SiteOK'
    BY <1>15, <1>k, <1>b, <1>w, <1>l, <2>own DEF Refuse, home, reports, site, world, SiteOK
  <2>5. /\ HomeOK' /\ ReportsOK' /\ WorldOK'
        /\ nextId' = nextId /\ started' = started
    BY <1>15, <1>k, <1>b DEF Refuse, home, reports, site, world, HomeOK, ReportsOK, WorldOK
  <2> QED BY <2>1, <2>4, <2>5, FailedType DEF Reporting
<1>16. CASE Switch(p)
  <2> DEFINE j == [job[p] EXCEPT !.status = "success"]
  <2>1. /\ \/ pc[p] = "switch" /\ Goto(p, "prune", job[p])
           \/ pc[p] = "return" /\ job[p].run # 0 /\ Goto(p, "unlock", j)
        /\ current' = [current EXCEPT ![Layout(p)] = job[p].run]
        /\ UNCHANGED <<home, reports, lock, incoming, stored, torn, meta, world>>
    BY <1>16, <1>b DEF Switch, Move, Stored
  <2>2. HomeOK' /\ ReportsOK' /\ LockOK' /\ WorldOK' /\ nextId' = nextId /\ started' = started
    BY <2>1, Unwritten
  <2>3. SiteOK'
    BY <1>k, <1>l, <2>1 DEF SiteOK
  <2>4. CASE pc[p] = "switch"
    <3>1. Shape("prune", job[p]) /\ "prune" \in Labels /\ "prune" \notin Waits
      BY <1>k, <2>4 DEF Labels, Shape, DeployShape, Waits, Builds, Reporting
    <3> QED BY <1>k, <2>1, <2>2, <2>3, <2>4, <3>1, GotoType
  <2>5. CASE pc[p] = "return"
    <3>1. j \in Job /\ "unlock" \in Labels /\ "unlock" \notin Waits
      BY <1>k DEF Job, Labels, Waits
    <3>2. Shape("unlock", j)
      BY <1>k, <2>5, <3>1 DEF Job, Shape, DeployShape, Waits, Builds, Reporting
    <3> QED BY <1>k, <2>1, <2>2, <2>3, <2>5, <3>1, <3>2, GotoType
  <2> QED BY <2>1, <2>4, <2>5
<1>17. CASE NoSuchRelease(p)
  <2>4. /\ HomeOK' /\ ReportsOK' /\ SiteOK' /\ WorldOK'
        /\ nextId' = nextId /\ started' = started
    BY <1>17, <1>k, <1>b DEF NoSuchRelease, home, reports, site, world, HomeOK, ReportsOK,
       SiteOK, WorldOK
  <2> QED BY <1>17, <2>4, EndType DEF NoSuchRelease
<1>18. CASE Prune(p)
  <2>1. PICK r \in Prunable(p) :
          /\ stored' = [stored EXCEPT ![Layout(p)][r] = 0]
          /\ UNCHANGED <<home, reports, lock, incoming, torn, meta, current, world, pc, job>>
    BY <1>18 DEF Prune
  <2>2. r \in Ids
    BY DEF Prunable, PruneSet, Stored
  <2>3. SiteOK'
    <3>1. Layout(p) \in Layouts
      BY <1>18, <1>k, <1>c DEF Prune, Job, Shape, DeployShape, Waits, Builds, Reporting
    <3> QED BY <1>k, <1>b, <2>1, <2>2, <3>1 DEF SiteOK
  <2>4. HomeOK' /\ ReportsOK' /\ LockOK' /\ WorldOK' /\ nextId' = nextId /\ started' = started
    BY <2>1, Unwritten
  <2>5. ControlOK' /\ JobsOK' /\ Waiting' = Waiting
    BY <1>k, <2>1, Known DEF ControlOK, TypeInv, JobsOK, Waiting
  <2> QED BY <2>3, <2>4, <2>5, FewerWait, TypePartsNext DEF TypeInv
<1>19. CASE Pruned(p)
  <2>1. Goto(p, "document", job[p]) /\ pc[p] = "prune"
    BY <1>19 DEF Pruned, Move
  <2>3. Shape("document", job[p]) /\ "document" \in Labels
        /\ ("document" \in Waits => p \in Waiting)
    BY <1>k, <1>w, <2>1 DEF Waiting, Labels, Job, Shape, DeployShape, Waits, Builds,
       Reporting
  <2>4. /\ HomeOK' /\ ReportsOK' /\ SiteOK' /\ WorldOK' /\ LockOK'
        /\ nextId' = nextId /\ started' = started
    BY <1>19, <1>k, <1>b DEF Pruned, Move, home, reports, site, world, HomeOK, ReportsOK,
       SiteOK, WorldOK, LockOK
  <2> QED BY <1>k, <2>1, <2>3, <2>4, GotoType
<1>20. CASE Document(p)
  <2>1. Goto(p, "clean", [job[p] EXCEPT !.status = "success"]) /\ pc[p] = "document"
    BY <1>20 DEF Document
  <2>2. [job[p] EXCEPT !.status = "success"] \in Job
    BY <1>k, <1>w, <2>1 DEF Job
  <2>3. Shape("clean", [job[p] EXCEPT !.status = "success"]) /\ "clean" \in Labels
        /\ ("clean" \in Waits => p \in Waiting)
    BY <1>k, <1>w, <2>1, <2>2 DEF Waiting, Labels, Job, Shape, DeployShape, Waits, Builds,
       Reporting
  <2>own. Layout(p) \in Layouts /\ job[p].run \in Ids
    BY <1>k, <1>c, <1>l, <2>1 DEF Job, Shape, DeployShape, Waits, Builds, Reporting
  <2>4. SiteOK'
    BY <1>20, <1>k, <1>b, <1>w, <1>l, <2>own DEF Document, home, reports, site, world,
       SiteOK
  <2>5. /\ HomeOK' /\ ReportsOK' /\ WorldOK' /\ LockOK'
        /\ nextId' = nextId /\ started' = started
    BY <1>20, <1>k, <1>b DEF Document, home, reports, site, world, HomeOK, ReportsOK,
       WorldOK, LockOK
  <2> QED BY <1>k, <2>1, <2>2, <2>3, <2>4, <2>5, GotoType
<1>21. CASE Clean(p)
  <2>1. Goto(p, "read", job[p]) /\ pc[p] = "clean"
    BY <1>21 DEF Clean, Move
  <2>3. Shape("read", job[p]) /\ "read" \in Labels /\ ("read" \in Waits => p \in Waiting)
    BY <1>k, <1>w, <2>1 DEF Waiting, Labels, Job, Shape, DeployShape, Waits, Builds,
       Reporting
  <2>4. HomeOK'
    BY <1>21, <1>k, <1>b, <1>w, <1>l DEF Clean, Move, home, reports, site, world, HomeOK,
       DuringReport
  <2>5. SiteOK'
    BY <1>21, <1>k, <1>b, <1>w, <1>l DEF Clean, Move, home, reports, site, world, SiteOK,
       DuringReport
  <2>6. /\ ReportsOK' /\ WorldOK' /\ LockOK'
        /\ nextId' = nextId /\ started' = started
    BY <1>21, <1>k, <1>b DEF Clean, Move, home, reports, site, world, ReportsOK, WorldOK,
       LockOK, DuringReport
  <2> QED BY <1>k, <2>1, <2>3, <2>4, <2>5, <2>6, GotoType
<1>22. CASE Unlock(p)
  <2>4. /\ HomeOK' /\ ReportsOK' /\ SiteOK' /\ WorldOK'
        /\ nextId' = nextId /\ started' = started
    BY <1>22, <1>k, <1>b DEF Unlock, home, reports, site, world, HomeOK, ReportsOK, SiteOK,
       WorldOK
  <2> QED BY <1>22, <2>4, EndType DEF Unlock
<1> QED BY <1>1, <1>2, <1>3, <1>4, <1>5, <1>6, <1>7, <1>8, <1>9, <1>10, <1>11, <1>12,
   <1>13, <1>14, <1>15, <1>16, <1>17, <1>18, <1>19, <1>20, <1>21, <1>22
  DEF PipelineStep

\* The types after every step of init, config, auth and destroy.
LEMMA SettingsType ==
  ASSUME TypeInv, NEW p \in Procs, SettingsStep(p)
  PROVE  TypeInv'
<1>k. /\ job[p] \in Job /\ Shape(pc[p], job[p]) /\ pc[p] \in Labels
      /\ HomeOK /\ ReportsOK /\ SiteOK /\ WorldOK /\ LockOK
  BY Known
<1>b. /\ MaxTip \in Nat /\ MaxCommands \in Nat /\ MaxFaults \in Nat /\ MaxTip > 0
      /\ Nobody \notin Procs /\ Ids = 1..MaxCommands /\ Retain \in Nat \ {0}
  BY Bounds, WorkspaceAssumption DEF Ids
<1>w. /\ repo \in 0..MaxTip /\ nextId \in 0..MaxCommands + 1 /\ nextId # 0
      /\ tip \in Nat /\ tip <= MaxTip
      /\ runs \in Seq(Records) /\ <<>> \in Seq(Records) /\ Len(<<>>) = 0
  BY <1>k, <1>b DEF HomeOK, WorldOK, ReportsOK
<1>c. job[p].kind \notin {"none", "destroy"} => Layout(p) \in Layouts
  BY <1>k DEF Shape, Layout, Configs
<1>l. /\ job[p].run \in 0..MaxCommands /\ (job[p].run # 0 => job[p].run \in Ids)
      /\ job[p].commit \in 0..MaxTip
  BY <1>k, <1>b DEF Job
<1>1. CASE PurgeKey(p)
  <2>1. Goto(p, "save", job[p]) /\ pc[p] = "purge"
    BY <1>1 DEF PurgeKey, Move
  <2>3. Shape("save", job[p]) /\ "save" \in Labels /\ ("save" \in Waits => p \in Waiting)
    BY <1>k, <1>w, <2>1 DEF Waiting, Labels, Job, Shape, DeployShape, Waits, Builds,
       Reporting
  <2>4. HomeOK'
    BY <1>1, <1>k, <1>b, <1>w, <1>l DEF PurgeKey, Move, home, reports, site, world, HomeOK
  <2>5. /\ ReportsOK' /\ SiteOK' /\ WorldOK' /\ LockOK'
        /\ nextId' = nextId /\ started' = started
    BY <1>1, <1>k, <1>b DEF PurgeKey, Move, home, reports, site, world, ReportsOK, SiteOK,
       WorldOK, LockOK
  <2> QED BY <1>k, <2>1, <2>3, <2>4, <2>5, GotoType
<1>2. CASE RenewKey(p)
  <2>1. Goto(p, "keygen", job[p]) /\ pc[p] = "renew"
    BY <1>2 DEF RenewKey, Move
  <2>3. Shape("keygen", job[p]) /\ "keygen" \in Labels /\ ("keygen" \in Waits => p \in Waiting)
    BY <1>k, <1>w, <2>1 DEF Waiting, Labels, Job, Shape, DeployShape, Waits, Builds,
       Reporting
  <2>4. HomeOK'
    BY <1>2, <1>k, <1>b, <1>w, <1>l DEF RenewKey, Move, home, reports, site, world, HomeOK
  <2>5. /\ ReportsOK' /\ SiteOK' /\ WorldOK' /\ LockOK'
        /\ nextId' = nextId /\ started' = started
    BY <1>2, <1>k, <1>b DEF RenewKey, Move, home, reports, site, world, ReportsOK, SiteOK,
       WorldOK, LockOK
  <2> QED BY <1>k, <2>1, <2>3, <2>4, <2>5, GotoType
<1>3. CASE MakeKey(p)
  <2>1. Goto(p, "save", job[p]) /\ pc[p] \in {"generate", "import --force", "import", "keygen"}
    BY <1>3 DEF MakeKey, Move
  <2>3. Shape("save", job[p]) /\ "save" \in Labels /\ ("save" \in Waits => p \in Waiting)
    BY <1>k, <1>w, <2>1 DEF Waiting, Labels, Job, Shape, DeployShape, Waits, Builds,
       Reporting
  <2>4. HomeOK'
    BY <1>3, <1>k, <1>b, <1>w, <1>l DEF MakeKey, Move, home, reports, site, world, HomeOK
  <2>5. /\ ReportsOK' /\ SiteOK' /\ WorldOK' /\ LockOK'
        /\ nextId' = nextId /\ started' = started
    BY <1>3, <1>k, <1>b DEF MakeKey, Move, home, reports, site, world, ReportsOK, SiteOK,
       WorldOK, LockOK
  <2> QED BY <1>k, <2>1, <2>3, <2>4, <2>5, GotoType
<1>4. CASE CannotMakeKey(p)
  <2>4. /\ HomeOK' /\ ReportsOK' /\ SiteOK' /\ WorldOK'
        /\ nextId' = nextId /\ started' = started
    BY <1>4, <1>k, <1>b DEF CannotMakeKey, home, reports, site, world, HomeOK, ReportsOK,
       SiteOK, WorldOK
  <2> QED BY <1>4, <2>4, EndType DEF CannotMakeKey
<1>5. CASE Save(p)
  <2>1. pc[p] = "save"
    BY <1>5 DEF Save
  <2>own. job[p].conf \in Configs
    BY <1>k, <2>1 DEF Job, Shape, DeployShape, Waits, Builds, Reporting
  <2>4. HomeOK'
    BY <1>5, <1>k, <1>b, <1>w, <1>l, <2>own DEF Save, home, reports, site, world, HomeOK
  <2>5. /\ ReportsOK' /\ SiteOK' /\ WorldOK'
        /\ nextId' = nextId /\ started' = started
    BY <1>5, <1>k, <1>b DEF Save, home, reports, site, world, ReportsOK, SiteOK, WorldOK
  <2> QED BY <1>5, <2>4, <2>5, EndType DEF Save
<1>6. CASE RemoveDir(p)
  <2>1. Goto(p, "cache", job[p]) /\ pc[p] = "dir"
    BY <1>6 DEF RemoveDir, Move
  <2>3. Shape("cache", job[p]) /\ "cache" \in Labels /\ ("cache" \in Waits => p \in Waiting)
    BY <1>k, <1>w, <2>1 DEF Waiting, Labels, Job, Shape, DeployShape, Waits, Builds,
       Reporting
  <2>4. HomeOK'
    BY <1>6, <1>k, <1>b, <1>w, <1>l DEF RemoveDir, Move, home, reports, site, world, HomeOK
  <2>5. ReportsOK'
    BY <1>6, <1>k, <1>b, <1>w, <1>l DEF RemoveDir, Move, home, reports, site, world,
       ReportsOK
  <2>6. /\ SiteOK' /\ WorldOK' /\ LockOK'
        /\ nextId' = nextId /\ started' = started
    BY <1>6, <1>k, <1>b DEF RemoveDir, Move, home, reports, site, world, SiteOK, WorldOK,
       LockOK
  <2> QED BY <1>k, <2>1, <2>3, <2>4, <2>5, <2>6, GotoType
<1>7. CASE RemoveRepo(p)
  <2>1. Goto(p, "tmp", job[p]) /\ pc[p] = "cache"
    BY <1>7 DEF RemoveRepo, Move
  <2>3. Shape("tmp", job[p]) /\ "tmp" \in Labels /\ ("tmp" \in Waits => p \in Waiting)
    BY <1>k, <1>w, <2>1 DEF Waiting, Labels, Job, Shape, DeployShape, Waits, Builds,
       Reporting
  <2>4. HomeOK'
    BY <1>7, <1>k, <1>b, <1>w, <1>l DEF RemoveRepo, Move, home, reports, site, world, HomeOK
  <2>5. /\ ReportsOK' /\ SiteOK' /\ WorldOK' /\ LockOK'
        /\ nextId' = nextId /\ started' = started
    BY <1>7, <1>k, <1>b DEF RemoveRepo, Move, home, reports, site, world, ReportsOK, SiteOK,
       WorldOK, LockOK
  <2> QED BY <1>k, <2>1, <2>3, <2>4, <2>5, GotoType
<1>8. CASE RemoveTmp(p)
  <2>1. Goto(p, "key", job[p]) /\ pc[p] = "tmp"
    BY <1>8 DEF RemoveTmp, Move
  <2>3. Shape("key", job[p]) /\ "key" \in Labels /\ ("key" \in Waits => p \in Waiting)
    BY <1>k, <1>w, <2>1 DEF Waiting, Labels, Job, Shape, DeployShape, Waits, Builds,
       Reporting
  <2>4. HomeOK'
    BY <1>8, <1>k, <1>b, <1>w, <1>l DEF RemoveTmp, Move, home, reports, site, world, HomeOK,
       RemovedWorktrees
  <2>5. WorldOK'
    BY <1>8, <1>k, <1>b, <1>w, <1>l DEF RemoveTmp, Move, home, reports, site, world,
       WorldOK, RemovedWorktrees, HomeOK
  <2>6. /\ ReportsOK' /\ SiteOK' /\ LockOK'
        /\ nextId' = nextId /\ started' = started
    BY <1>8, <1>k, <1>b DEF RemoveTmp, Move, home, reports, site, world, ReportsOK, SiteOK,
       LockOK, RemovedWorktrees
  <2> QED BY <1>k, <2>1, <2>3, <2>4, <2>5, <2>6, GotoType
<1>9. CASE RemoveKey(p)
  <2>4. HomeOK'
    BY <1>9, <1>k, <1>b, <1>w, <1>l DEF RemoveKey, home, reports, site, world, HomeOK
  <2>5. /\ ReportsOK' /\ SiteOK' /\ WorldOK'
        /\ nextId' = nextId /\ started' = started
    BY <1>9, <1>k, <1>b DEF RemoveKey, home, reports, site, world, ReportsOK, SiteOK,
       WorldOK
  <2> QED BY <1>9, <2>4, <2>5, EndType DEF RemoveKey
<1> QED BY <1>1, <1>2, <1>3, <1>4, <1>5, <1>6, <1>7, <1>8, <1>9 DEF SettingsStep

\* What is written to runs.jsonl are records, and not too many.
LEMMA LastLinesType ==
  ASSUME NEW s \in Seq(Records)
  PROVE  LastLines(s) \in Seq(Records) /\ Len(LastLines(s)) <= Retain
<1>b. Retain \in Nat \ {0} /\ Len(s) \in Nat
  BY Bounds
<1>1. CASE Len(s) > Retain
  <2>1. Len(s) - Retain + 1 \in 1..Len(s)
    BY <1>1, <1>b
  <2>2. /\ SubSeq(s, Len(s) - Retain + 1, Len(s)) \in Seq(Records)
        /\ Len(SubSeq(s, Len(s) - Retain + 1, Len(s))) = Retain
    BY <1>1, <1>b, <2>1, SubSeqProperties
  <2> QED BY <1>1, <1>b, <2>2 DEF LastLines
<1>2. CASE ~ (Len(s) > Retain)
  BY <1>2, <1>b DEF LastLines
<1> QED BY <1>1, <1>2

\* The types after every step of Finish.
LEMMA ReportType ==
  ASSUME TypeInv, NEW p \in Procs, ReportStep(p)
  PROVE  TypeInv'
<1>k. /\ job[p] \in Job /\ Shape(pc[p], job[p]) /\ pc[p] \in Labels
      /\ HomeOK /\ ReportsOK /\ SiteOK /\ WorldOK /\ LockOK
  BY Known
<1>b. /\ MaxTip \in Nat /\ MaxCommands \in Nat /\ MaxFaults \in Nat /\ MaxTip > 0
      /\ Nobody \notin Procs /\ Ids = 1..MaxCommands /\ Retain \in Nat \ {0}
  BY Bounds, WorkspaceAssumption DEF Ids
<1>w. /\ repo \in 0..MaxTip /\ nextId \in 0..MaxCommands + 1 /\ nextId # 0
      /\ tip \in Nat /\ tip <= MaxTip
      /\ runs \in Seq(Records) /\ <<>> \in Seq(Records) /\ Len(<<>>) = 0
  BY <1>k, <1>b DEF HomeOK, WorldOK, ReportsOK
<1>c. job[p].kind \notin {"none", "destroy"} => Layout(p) \in Layouts
  BY <1>k DEF Shape, Layout, Configs
<1>l. /\ job[p].run \in 0..MaxCommands /\ (job[p].run # 0 => job[p].run \in Ids)
      /\ job[p].commit \in 0..MaxTip
  BY <1>k, <1>b DEF Job
<1>1. CASE ReadRuns(p)
  <2>1. Goto(p, "append", [job[p] EXCEPT !.lines = runs]) /\ pc[p] = "read"
    BY <1>1 DEF ReadRuns
  <2>2. [job[p] EXCEPT !.lines = runs] \in Job
    BY <1>k, <1>w, <2>1 DEF Job
  <2>3. Shape("append", [job[p] EXCEPT !.lines = runs]) /\ "append" \in Labels
        /\ ("append" \in Waits => p \in Waiting)
    BY <1>k, <1>w, <2>1, <2>2 DEF Waiting, Labels, Job, Shape, DeployShape, Waits, Builds,
       Reporting
  <2>4. HomeOK'
    BY <1>1, <1>k, <1>b, <1>w, <1>l DEF ReadRuns, home, reports, site, world, HomeOK
  <2>5. /\ ReportsOK' /\ SiteOK' /\ WorldOK' /\ LockOK'
        /\ nextId' = nextId /\ started' = started
    BY <1>1, <1>k, <1>b DEF ReadRuns, home, reports, site, world, ReportsOK, SiteOK,
       WorldOK, LockOK
  <2> QED BY <1>k, <2>1, <2>2, <2>3, <2>4, <2>5, GotoType
<1>2. CASE AppendRun(p)
  <2> DEFINE l == IF job[p].status = "success" THEN "sidecar" ELSE "unlock"
             j == [job[p] EXCEPT !.lines = <<>>]
  <2>1. /\ pc[p] = "append" /\ Goto(p, l, j)
        /\ runs' = LastLines(Append(job[p].lines, Record(p)))
        /\ UNCHANGED <<home, latest, sidecars, lock, site, world>>
    BY <1>2 DEF AppendRun, HasSidecar
  <2>2. j \in Job /\ job[p].lines \in Seq(Records)
    BY <1>k, <1>w DEF Job
  <2>3. Shape(l, j) /\ l \in Labels /\ l \notin Waits
    BY <1>k, <2>1, <2>2 DEF Labels, Job, Shape, DeployShape, Waits, Builds, Reporting
  <2>4. Record(p) \in Records
    <3>1. job[p].conf \in Configs /\ job[p].attempt \in 1..MaxCommands
      BY <1>k, <1>b, <2>1 DEF Job, Shape, DeployShape, Waits, Builds, Reporting
    <3>2. Layout(p) \in Layouts /\ Locked(p) \in BOOLEAN
      BY <3>1 DEF Layout, Configs, Locked
    <3> QED BY <3>1, <3>2 DEF Record, Records
  <2>5. ReportsOK'
    <3>1. Append(job[p].lines, Record(p)) \in Seq(Records)
      BY <2>2, <2>4
    <3>2. runs' \in Seq(Records) /\ Len(runs') <= Retain
      BY <2>1, <3>1, LastLinesType
    <3> QED BY <1>k, <2>1, <3>2 DEF ReportsOK
  <2>6. HomeOK' /\ SiteOK' /\ LockOK' /\ WorldOK' /\ nextId' = nextId /\ started' = started
    BY <2>1, Unwritten
  <2> HIDE DEF l, j
  <2> QED BY <1>k, <2>1, <2>2, <2>3, <2>5, <2>6, GotoType
<1>3. CASE CannotReport(p)
  <2> DEFINE j == [job[p] EXCEPT !.lines = <<>>]
  <2>1. pc[p] \in {"read", "append", "sidecar", "latest"} /\ Goto(p, "unlock", j)
    BY <1>3 DEF CannotReport
  <2>2. j \in Job
    BY <1>k, <1>w DEF Job
  <2>3. Shape("unlock", j) /\ "unlock" \in Labels /\ "unlock" \notin Waits
    BY <1>k, <2>1, <2>2 DEF Labels, Job, Shape, DeployShape, Waits, Builds, Reporting
  <2>4. HomeOK' /\ ReportsOK' /\ SiteOK' /\ LockOK'
    BY <1>3, Unwritten DEF CannotReport
  <2>5. WorldOK' /\ nextId' = nextId /\ started' = started
    BY <1>3, <1>k, <1>b DEF CannotReport, WorldOK
  <2> HIDE DEF j
  <2> QED BY <1>k, <2>1, <2>2, <2>3, <2>4, <2>5, GotoType
<1>4. CASE WriteSidecar(p)
  <2>1. Goto(p, "latest", job[p]) /\ pc[p] = "sidecar"
    BY <1>4 DEF WriteSidecar, Move
  <2>3. Shape("latest", job[p]) /\ "latest" \in Labels /\ ("latest" \in Waits => p \in Waiting)
    BY <1>k, <1>w, <2>1 DEF Waiting, Labels, Job, Shape, DeployShape, Waits, Builds,
       Reporting
  <2>own. Layout(p) \in Layouts /\ job[p].run \in Ids
    BY <1>k, <1>c, <1>l, <2>1 DEF Job, Shape, DeployShape, Waits, Builds, Reporting
  <2>4. ReportsOK'
    BY <1>4, <1>k, <1>b, <1>w, <1>l, <2>own DEF WriteSidecar, Move, home, reports, site,
       world, ReportsOK
  <2>5. /\ HomeOK' /\ SiteOK' /\ WorldOK' /\ LockOK'
        /\ nextId' = nextId /\ started' = started
    BY <1>4, <1>k, <1>b DEF WriteSidecar, Move, home, reports, site, world, HomeOK, SiteOK,
       WorldOK, LockOK
  <2> QED BY <1>k, <2>1, <2>3, <2>4, <2>5, GotoType
<1>5. CASE WriteLatest(p)
  <2>1. Goto(p, "unlock", job[p]) /\ pc[p] = "latest"
    BY <1>5 DEF WriteLatest, Move
  <2>3. Shape("unlock", job[p]) /\ "unlock" \in Labels /\ ("unlock" \in Waits => p \in Waiting)
    BY <1>k, <1>w, <2>1 DEF Waiting, Labels, Job, Shape, DeployShape, Waits, Builds,
       Reporting
  <2>own. Layout(p) \in Layouts /\ job[p].run \in Ids
    BY <1>k, <1>c, <1>l, <2>1 DEF Job, Shape, DeployShape, Waits, Builds, Reporting
  <2>4. HomeOK'
    BY <1>5, <1>k, <1>b, <1>w, <1>l, <2>own DEF WriteLatest, Move, home, reports, site,
       world, HomeOK
  <2>5. ReportsOK'
    BY <1>5, <1>k, <1>b, <1>w, <1>l, <2>own DEF WriteLatest, Move, home, reports, site,
       world, ReportsOK
  <2>6. /\ SiteOK' /\ WorldOK' /\ LockOK'
        /\ nextId' = nextId /\ started' = started
    BY <1>5, <1>k, <1>b DEF WriteLatest, Move, home, reports, site, world, SiteOK, WorldOK,
       LockOK
  <2> QED BY <1>k, <2>1, <2>3, <2>4, <2>5, <2>6, GotoType
<1> QED BY <1>1, <1>2, <1>3, <1>4, <1>5 DEF ReportStep

\* A failing call or a kill keeps the types.
LEMMA FaultType ==
  ASSUME TypeInv, NEW p \in Procs, Fault(p) \/ Kill(p)
  PROVE  TypeInv'
<1>1. HomeOK' /\ ReportsOK' /\ SiteOK'
  BY Unwritten DEF Fault, Kill
<1>2. WorldOK' /\ nextId' = nextId /\ started' = started
  BY Known, Bounds DEF Fault, Kill, CountFault, WorldOK
<1>3. CASE Kill(p)
  BY <1>1, <1>2, <1>3, EndType DEF Kill
<1>4. CASE Fault(p)
  BY <1>1, <1>2, <1>4, FailedType DEF Fault, Reporting
<1> QED BY <1>3, <1>4

LEMMA TypeInit == Init => TypeInv
<1> SUFFICES ASSUME Init PROVE TypeInv
  OBVIOUS
<1>b. /\ MaxTip \in Nat /\ MaxCommands \in Nat /\ MaxFaults \in Nat /\ MaxTip > 0
      /\ Retain \in Nat \ {0}
  BY Bounds
<1>1. HomeOK /\ WorldOK /\ LockOK
  <2>1. HomeOK
    <3>1. \A l \in Layouts : [layout |-> l, key |-> "other"] \in Configs
      BY DEF Configs
    <3>2. config \in Configs
      BY <3>1 DEF Init
    <3>3. dir \in BOOLEAN /\ key \in BOOLEAN /\ repo = 0 /\ worktrees = {}
      BY DEF Init
    <3> QED BY <1>b, <3>2, <3>3 DEF HomeOK
  <2>2. WorldOK
    BY <1>b DEF Init, WorldOK
  <2>3. LockOK
    BY DEF Init, LockOK
  <2> QED BY <2>1, <2>2, <2>3
<1>2. SiteOK /\ ControlOK
  BY <1>b DEF Init, SiteOK, ControlOK, Labels
<1>3. ReportsOK
  BY <1>b DEF Init, ReportsOK
<1>4. JobsOK
  <2>1. pc = [p \in Procs |-> "idle"] /\ job = [p \in Procs |-> NoJob]
    BY DEF Init
  <2> HIDE DEF NoJob
  <2> QED BY <2>1, NoJobShape DEF JobsOK
<1>5. IdsSuffice
  <2>1. Waiting = {} /\ nextId = 1 /\ started = 0
    BY DEF Init, Waiting, Waits
  <2> QED BY <2>1, FS_EmptySet DEF IdsSuffice
<1> QED BY <1>1, <1>2, <1>3, <1>4, <1>5, TypeParts DEF TypeInv

LEMMA TypeStep == TypeInv /\ [Next]_vars => TypeInv'
<1> SUFFICES ASSUME TypeInv, [Next]_vars PROVE TypeInv'
  OBVIOUS
<1>1. CASE UNCHANGED vars
  <2>1. HomeOK' /\ ReportsOK' /\ SiteOK' /\ LockOK' /\ WorldOK'
    BY <1>1, Unwritten DEF vars
  <2>2. ControlOK' /\ JobsOK' /\ IdsSuffice'
    BY <1>1, TypeParts DEF vars, world, TypeInv, ControlOK, JobsOK, IdsSuffice, Waiting
  <2> QED BY <2>1, <2>2, TypePartsNext DEF TypeInv
<1>2. CASE Next
  BY <1>2, StartType, PipelineType, SettingsType, ReportType, FaultType DEF Next
<1> QED BY <1>1, <1>2

\* Every variable has its type: there are ids enough for all deploys, the history
\* stays within its bound, and a command is where its kind can be.
THEOREM TypeCorrect == Spec => []TypeOK
<1>1. TypeInv => TypeOK
  BY DEF TypeInv
<1> QED BY <1>1, TypeInit, TypeStep, PTL DEF Spec
-----------------------------------------------------------------------------
\* A command has its lock from the acquisition to the end.
Holds(l, j) ==
  \/ l \in {"sweep", "check", "worktree", "return"} \cup Builds
  \/ l # "idle" /\ j.mark # 0

LockInv == \A p \in Procs : Holds(pc[p], job[p]) => lock[Layout(p)] = p

\* A command that is alone: no other runs, and destroy has removed what it has
\* come past, and auth has a key when it is about to save that there is one.
AloneOf(p) ==
  /\ \A q \in Procs \ {p} : pc[q] = "idle"
  /\ pc[p] \in {"cache", "tmp", "key"} =>
       ~ dir /\ config = NoConfig /\ runs = <<>> /\ latest = NoRun
  /\ pc[p] \in {"tmp", "key"} => repo = 0
  /\ pc[p] = "key" => worktrees = {}
  /\ pc[p] = "save" /\ job[p].kind = "auth" => (job[p].conf.key = "managed" => key)

AloneInv == \A p \in Procs : pc[p] # "idle" /\ job[p].alone => AloneOf(p)
-----------------------------------------------------------------------------
\* A command that goes on keeps its lock, its configuration and its kind.
Proceeds(p) ==
  /\ \E l \in Labels, j \in Job :
       /\ Goto(p, l, j)
       /\ j.conf = job[p].conf /\ j.alone = job[p].alone /\ j.kind = job[p].kind
       /\ j.since = job[p].since
       /\ j.run = job[p].run \/ AddWorktree(p)
       /\ j.mark = job[p].mark \/ Sweep(p)
       /\ Holds(l, j) => Holds(pc[p], job[p])
  /\ UNCHANGED lock

\* Three kinds of steps, and which of them matter to a command that is alone.
StepKind(p) ==
  /\ pc[p] # "idle"
  /\ Proceeds(p) \/ Acquire(p) \/ End(p)
  /\ pc'[p] \in {"cache", "tmp", "key", "save"} =>
       RemoveDir(p) \/ RemoveRepo(p) \/ RemoveTmp(p) \/ PurgeKey(p) \/ MakeKey(p)

CommandStep(p) ==
  PipelineStep(p) \/ SettingsStep(p) \/ ReportStep(p) \/ Fault(p) \/ Kill(p)

LEMMA FailedKind ==
  ASSUME TypeInv, NEW p \in Procs, Failed(p), pc[p] # "idle"
  PROVE  StepKind(p)
<1>k. job[p] \in Job /\ Shape(pc[p], job[p]) /\ pc \in [Procs -> Labels]
  BY Known DEF ControlOK
<1>1. CASE job[p].kind = "deploy"
  <2> DEFINE l == IF job[p].run = 0 THEN "read" ELSE "clean"
  <2>1. Goto(p, l, job[p]) /\ UNCHANGED lock
    BY <1>1 DEF Failed
  <2>2. pc'[p] = l /\ l \in Labels
    BY <1>k, <2>1 DEF Goto, Labels
  <2>3. Holds(l, job[p]) => Holds(pc[p], job[p])
    BY <1>k, <1>1 DEF Holds, Builds, Shape, DeployShape
  <2>4. Proceeds(p)
    BY <1>k, <2>1, <2>2, <2>3 DEF Proceeds
  <2> QED BY <2>2, <2>4 DEF StepKind
<1>2. CASE job[p].kind # "deploy"
  BY <1>k, <1>2 DEF Failed, StepKind, End, Goto
<1> QED BY <1>1, <1>2

LEMMA EndKind ==
  ASSUME TypeInv, NEW p \in Procs, End(p), pc[p] # "idle"
  PROVE  StepKind(p)
BY Known DEF ControlOK, StepKind, End, Goto

LEMMA GotoKind ==
  ASSUME TypeInv, NEW p \in Procs, NEW l \in Labels, NEW j \in Job, Goto(p, l, j),
         pc[p] # "idle", l \notin {"cache", "tmp", "key", "save"}, UNCHANGED lock,
         j.conf = job[p].conf, j.alone = job[p].alone, j.kind = job[p].kind,
         j.since = job[p].since, j.run = job[p].run \/ AddWorktree(p),
         j.mark = job[p].mark \/ Sweep(p),
         Holds(l, j) => Holds(pc[p], job[p])
  PROVE  StepKind(p)
<1>1. pc'[p] = l
  BY Known DEF ControlOK, Goto
<1> QED BY <1>1 DEF StepKind, Proceeds

LEMMA StepKinds ==
  ASSUME TypeInv, TypeInv', NEW p \in Procs, CommandStep(p)
  PROVE  StepKind(p)
<1>k. /\ job[p] \in Job /\ job'[p] \in Job /\ Shape(pc[p], job[p]) /\ pc[p] \in Labels
      /\ pc'[p] \in Labels
      /\ pc \in [Procs -> Labels] /\ job \in [Procs -> Job]
  BY Known DEF TypeInv, JobsOK, TypeOK
<1>g. ASSUME NEW l, NEW j, Goto(p, l, j) PROVE l \in Labels /\ j \in Job /\ pc'[p] = l
  BY <1>k, <1>g DEF Goto
<1>1. CASE EnsureRepo(p)
  <2>1. CASE Goto(p, "fetch", job[p]) /\ UNCHANGED lock
    <3>1. Holds("fetch", job[p]) => Holds(pc[p], job[p])
      BY <1>1 DEF EnsureRepo, Holds, Builds
    <3> QED BY <1>1, <1>g, <2>1, <3>1, GotoKind DEF EnsureRepo
  <2>2. CASE End(p)
    BY <1>1, <2>2, EndKind DEF EnsureRepo
  <2> QED BY <1>1, <2>1, <2>2 DEF EnsureRepo
<1>2. CASE Fetch(p)
  <2>1. CASE Goto(p, "resolve", job[p]) /\ UNCHANGED lock
    <3>1. Holds("resolve", job[p]) => Holds(pc[p], job[p])
      BY <1>2 DEF Fetch, Holds, Builds
    <3> QED BY <1>2, <1>g, <2>1, <3>1, GotoKind DEF Fetch
  <2>2. CASE End(p)
    BY <1>2, <2>2, EndKind DEF Fetch
  <2> QED BY <1>2, <2>1, <2>2 DEF Fetch
<1>3. CASE Resolve(p)
  <2>1. Goto(p, "lock", [job[p] EXCEPT !.commit = repo]) /\ UNCHANGED lock /\ pc[p] = "resolve"
    BY <1>3 DEF Resolve
  <2>2. LET j == [job[p] EXCEPT !.commit = repo] IN
          /\ j.conf = job[p].conf /\ j.alone = job[p].alone /\ j.kind = job[p].kind
          /\ j.since = job[p].since /\ (j.run = job[p].run \/ AddWorktree(p))
          /\ j.mark = job[p].mark \/ Sweep(p)
    BY <1>3, <1>k DEF Job
  <2>3. Holds("lock", [job[p] EXCEPT !.commit = repo]) => Holds(pc[p], job[p])
    BY <1>k, <2>1 DEF Holds, Builds, Job
  <2> QED BY <1>g, <2>1, <2>2, <2>3, GotoKind
<1>4. CASE CannotGit(p) \/ Busy(p) \/ CannotStage(p) \/ Refuse(p) \/ Fault(p)
  BY <1>4, FailedKind DEF CannotGit, Busy, CannotStage, Refuse, Fault
<1>5. CASE Acquire(p)
  <2>1. pc'[p] \in {"sweep", "return"} /\ pc[p] = "lock"
    BY <1>5, <1>k DEF Acquire, Goto
  <2> QED BY <1>5, <2>1 DEF StepKind
<1>6. CASE Sweep(p)
  <2>1. Goto(p, "check", [job[p] EXCEPT !.mark = nextId]) /\ UNCHANGED lock /\ pc[p] = "sweep"
    BY <1>6 DEF Sweep
  <2>2. LET j == [job[p] EXCEPT !.mark = nextId] IN
          /\ j.conf = job[p].conf /\ j.alone = job[p].alone /\ j.kind = job[p].kind
          /\ j.since = job[p].since /\ (j.run = job[p].run \/ AddWorktree(p))
          /\ j.mark = job[p].mark \/ Sweep(p)
    BY <1>6, <1>k DEF Job
  <2>3. Holds("check", [job[p] EXCEPT !.mark = nextId]) => Holds(pc[p], job[p])
    BY <1>k, <2>1 DEF Holds, Builds, Job
  <2> QED BY <1>g, <2>1, <2>2, <2>3, GotoKind
<1>7. CASE Check(p)
  <2> DEFINE j == [job[p] EXCEPT !.status = "no_op"]
  <2>1. /\ Goto(p, "read", j) \/ Goto(p, "worktree", job[p])
        /\ UNCHANGED lock /\ pc[p] = "check"
    BY <1>7 DEF Check
  <2>2. /\ j.conf = job[p].conf /\ j.alone = job[p].alone /\ j.kind = job[p].kind
        /\ j.since = job[p].since /\ j.run = job[p].run /\ j.mark = job[p].mark
    BY <1>k DEF Job
  <2>3. Holds(pc[p], job[p])
    BY <2>1 DEF Holds
  <2> HIDE DEF j
  <2> QED BY <1>g, <2>1, <2>2, <2>3, GotoKind
<1>8. CASE AddWorktree(p)
  <2>1. Goto(p, "copy", [job[p] EXCEPT !.run = nextId]) /\ UNCHANGED lock /\ pc[p] = "worktree"
    BY <1>8 DEF AddWorktree
  <2>2. LET j == [job[p] EXCEPT !.run = nextId] IN
          /\ j.conf = job[p].conf /\ j.alone = job[p].alone /\ j.kind = job[p].kind
          /\ j.since = job[p].since /\ (j.run = job[p].run \/ AddWorktree(p))
          /\ j.mark = job[p].mark \/ Sweep(p)
    BY <1>8, <1>k DEF Job
  <2>3. Holds("copy", [job[p] EXCEPT !.run = nextId]) => Holds(pc[p], job[p])
    BY <1>k, <2>1 DEF Holds, Builds, Job
  <2> QED BY <1>g, <2>1, <2>2, <2>3, GotoKind
<1>9. CASE Copy(p)
  <2>1. Goto(p, "copying", job[p]) /\ UNCHANGED lock /\ pc[p] = "copy"
    BY <1>9 DEF Copy
  <2>2. Holds("copying", job[p]) => Holds(pc[p], job[p])
    BY <2>1 DEF Holds, Builds
  <2> QED BY <1>g, <2>1, <2>2, GotoKind
<1>10. CASE Copied(p)
  <2>1. Goto(p, "adopt", job[p]) /\ UNCHANGED lock /\ pc[p] = "copying"
    BY <1>10 DEF Copied
  <2>2. Holds("adopt", job[p]) => Holds(pc[p], job[p])
    BY <2>1 DEF Holds, Builds
  <2> QED BY <1>g, <2>1, <2>2, GotoKind
<1>11. CASE Adopt(p)
  <2>1. Goto(p, "validate", job[p]) /\ UNCHANGED lock /\ pc[p] = "adopt"
    BY <1>11 DEF Adopt
  <2>2. Holds("validate", job[p]) => Holds(pc[p], job[p])
    BY <2>1 DEF Holds, Builds
  <2> QED BY <1>g, <2>1, <2>2, GotoKind
<1>12. CASE Validate(p)
  <2>1. Goto(p, "switch", job[p]) /\ UNCHANGED lock /\ pc[p] = "validate"
    BY <1>12 DEF Validate, Move
  <2>2. Holds("switch", job[p]) => Holds(pc[p], job[p])
    BY <2>1 DEF Holds, Builds
  <2> QED BY <1>g, <2>1, <2>2, GotoKind
<1>13. CASE Switch(p)
  <2> DEFINE j == [job[p] EXCEPT !.status = "success"]
  <2>1. /\ \/ pc[p] = "switch" /\ Goto(p, "prune", job[p])
           \/ pc[p] = "return" /\ Goto(p, "unlock", j)
        /\ UNCHANGED lock
    BY <1>13 DEF Switch, Move
  <2>2. /\ j.conf = job[p].conf /\ j.alone = job[p].alone /\ j.kind = job[p].kind
        /\ j.since = job[p].since /\ j.run = job[p].run /\ j.mark = job[p].mark
    BY <1>k DEF Job
  <2>3. Holds(pc[p], job[p])
    BY <2>1 DEF Holds, Builds
  <2> HIDE DEF j
  <2> QED BY <1>g, <2>1, <2>2, <2>3, GotoKind
<1>14. CASE NoSuchRelease(p) \/ Unlock(p) \/ CannotMakeKey(p) \/ Save(p) \/ RemoveKey(p) \/ Kill(p)
  BY <1>14, EndKind DEF NoSuchRelease, Unlock, CannotMakeKey, Save, RemoveKey, Kill
<1>15. CASE Prune(p)
  <2>1. pc[p] = "prune" /\ UNCHANGED <<lock, pc, job>>
    BY <1>15 DEF Prune
  <2>2. Goto(p, pc[p], job[p])
    BY <1>k, <2>1 DEF Goto
  <2> QED BY <1>k, <2>1, <2>2, GotoKind
<1>16. CASE Pruned(p)
  <2>1. Goto(p, "document", job[p]) /\ UNCHANGED lock /\ pc[p] = "prune"
    BY <1>16 DEF Pruned, Move
  <2>2. Holds("document", job[p]) => Holds(pc[p], job[p])
    BY <2>1 DEF Holds, Builds
  <2> QED BY <1>g, <2>1, <2>2, GotoKind
<1>17. CASE Document(p)
  <2>1. /\ Goto(p, "clean", [job[p] EXCEPT !.status = "success"])
        /\ UNCHANGED lock /\ pc[p] = "document"
    BY <1>17 DEF Document
  <2>2. LET j == [job[p] EXCEPT !.status = "success"] IN
          /\ j.conf = job[p].conf /\ j.alone = job[p].alone /\ j.kind = job[p].kind
          /\ j.since = job[p].since /\ (j.run = job[p].run \/ AddWorktree(p))
          /\ j.mark = job[p].mark \/ Sweep(p)
    BY <1>17, <1>k DEF Job
  <2>3. Holds("clean", [job[p] EXCEPT !.status = "success"]) => Holds(pc[p], job[p])
    BY <1>k, <2>1 DEF Holds, Builds, Job
  <2> QED BY <1>g, <2>1, <2>2, <2>3, GotoKind
<1>18. CASE Clean(p)
  <2>1. Goto(p, "read", job[p]) /\ UNCHANGED lock /\ pc[p] = "clean"
    BY <1>18 DEF Clean, Move, DuringReport
  <2>2. Holds("read", job[p]) => Holds(pc[p], job[p])
    BY <2>1 DEF Holds, Builds
  <2> QED BY <1>g, <2>1, <2>2, GotoKind
<1>19. CASE RenewKey(p)
  <2>1. Goto(p, "keygen", job[p]) /\ UNCHANGED lock /\ pc[p] = "renew"
    BY <1>19 DEF RenewKey, Move
  <2>2. Holds("keygen", job[p]) => Holds(pc[p], job[p])
    BY <2>1 DEF Holds, Builds
  <2> QED BY <1>g, <2>1, <2>2, GotoKind
<1>20. CASE \/ PurgeKey(p) \/ MakeKey(p) \/ RemoveDir(p) \/ RemoveRepo(p) \/ RemoveTmp(p)
  <2>1. PICK l \in {"save", "cache", "tmp", "key"} : Goto(p, l, job[p]) /\ UNCHANGED lock
    BY <1>20 DEF PurgeKey, MakeKey, RemoveDir, RemoveRepo, RemoveTmp, Move
  <2>2. pc[p] # "idle" /\ (Holds(l, job[p]) => Holds(pc[p], job[p]))
    BY <1>20, <2>1 DEF PurgeKey, MakeKey, RemoveDir, RemoveRepo, RemoveTmp, Move, Holds,
       Builds
  <2>3. Proceeds(p)
    BY <1>k, <1>g, <2>1, <2>2 DEF Proceeds
  <2> QED BY <1>20, <2>2, <2>3 DEF StepKind
<1>21. CASE ReadRuns(p)
  <2>1. Goto(p, "append", [job[p] EXCEPT !.lines = runs]) /\ UNCHANGED lock /\ pc[p] = "read"
    BY <1>21 DEF ReadRuns
  <2>2. LET j == [job[p] EXCEPT !.lines = runs] IN
          /\ j.conf = job[p].conf /\ j.alone = job[p].alone /\ j.kind = job[p].kind
          /\ j.since = job[p].since /\ (j.run = job[p].run \/ AddWorktree(p))
          /\ j.mark = job[p].mark \/ Sweep(p)
    BY <1>21, <1>k DEF Job
  <2>3. Holds("append", [job[p] EXCEPT !.lines = runs]) => Holds(pc[p], job[p])
    BY <1>k, <2>1 DEF Holds, Builds, Job
  <2> QED BY <1>g, <2>1, <2>2, <2>3, GotoKind
<1>22. CASE AppendRun(p) \/ CannotReport(p)
  <2> DEFINE j == [job[p] EXCEPT !.lines = <<>>]
  <2>1. PICK l \in {"sidecar", "unlock"} : Goto(p, l, j) /\ UNCHANGED lock
    BY <1>22 DEF AppendRun, CannotReport
  <2>2. pc[p] \in {"read", "append", "sidecar", "latest"}
    BY <1>22 DEF AppendRun, CannotReport
  <2>3. /\ j.conf = job[p].conf /\ j.alone = job[p].alone /\ j.kind = job[p].kind
        /\ j.since = job[p].since /\ j.run = job[p].run /\ j.mark = job[p].mark
    BY <1>k DEF Job
  <2>4. Holds(l, j) => Holds(pc[p], job[p])
    BY <2>1, <2>2, <2>3 DEF Holds, Builds
  <2> HIDE DEF j
  <2> QED BY <1>g, <2>1, <2>2, <2>3, <2>4, GotoKind
<1>23. CASE WriteSidecar(p)
  <2>1. Goto(p, "latest", job[p]) /\ UNCHANGED lock /\ pc[p] = "sidecar"
    BY <1>23 DEF WriteSidecar, Move
  <2>2. Holds("latest", job[p]) => Holds(pc[p], job[p])
    BY <2>1 DEF Holds, Builds
  <2> QED BY <1>g, <2>1, <2>2, GotoKind
<1>24. CASE WriteLatest(p)
  <2>1. Goto(p, "unlock", job[p]) /\ UNCHANGED lock /\ pc[p] = "latest"
    BY <1>24 DEF WriteLatest, Move
  <2>2. Holds("unlock", job[p]) => Holds(pc[p], job[p])
    BY <2>1 DEF Holds, Builds
  <2> QED BY <1>g, <2>1, <2>2, GotoKind
<1> QED BY <1>1, <1>2, <1>3, <1>4, <1>5, <1>6, <1>7, <1>8, <1>9, <1>10, <1>11, <1>12,
   <1>13, <1>14, <1>15, <1>16, <1>17, <1>18, <1>19, <1>20, <1>21, <1>22, <1>23, <1>24
  DEF CommandStep, PipelineStep, SettingsStep, ReportStep

\* How a command may begin.
Starts(p, kind, l, c, r) ==
  /\ Begin(p, kind, l, c, r)
  /\ l \in {"repo", "lock", "save", "purge", "import", "import --force", "generate", "renew",
            "dir"}
  /\ kind = "auth" /\ l = "save" => (c.key = "managed" => key)
  /\ kind = "deploy" => l = "repo" /\ r = 0

LEMMA StartKind ==
  ASSUME TypeInv, NEW p \in Procs, StartPipeline(p) \/ StartSettings(p)
  PROVE  \E kind, l, c, r : Starts(p, kind, l, c, r)
<1>1. CASE StartPipeline(p)
  <2>1. PICK kind, r :
          /\ kind \in {"deploy", "inspect", "rollback"}
          /\ Begin(p, kind, IF kind = "rollback" THEN "lock" ELSE "repo", config, r)
          /\ kind # "rollback" => r = 0
    BY <1>1 DEF StartPipeline
  <2>2. Starts(p, kind, IF kind = "rollback" THEN "lock" ELSE "repo", config, r)
    BY <2>1 DEF Starts
  <2> QED BY <2>2
<1>2. CASE Initialize(p)
  <2>1. PICK c : Begin(p, "init", "save", c, 0)
    BY <1>2 DEF Initialize
  <2>2. Starts(p, "init", "save", c, 0)
    BY <2>1 DEF Starts
  <2> QED BY <2>2
<1>3. CASE Configure(p)
  <2>1. PICK c : Begin(p, "config", "save", c, 0)
    BY <1>3 DEF Configure
  <2>2. Starts(p, "config", "save", c, 0)
    BY <2>1 DEF Starts
  <2> QED BY <2>2
<1>4. CASE Destroy(p)
  <2>1. Starts(p, "destroy", "dir", NoConfig, 0)
    BY <1>4 DEF Destroy, Starts
  <2> QED BY <2>1
<1>5. CASE Authorize(p)
  <2>1. config \in Configs
    BY <1>5, Known DEF Authorize, HomeOK
  <2>2. [config EXCEPT !.key = "other"].key # "managed"
    BY <2>1 DEF Configs
  <2>3. PICK l \in {"save", "purge", "import", "import --force", "generate", "renew"} :
          \E c : /\ Begin(p, "auth", l, c, 0)
                 /\ l = "save" => (c.key = "managed" => key)
    BY <1>5, <2>2 DEF Authorize, UsableKey
  <2>4. PICK c : /\ Begin(p, "auth", l, c, 0)
                 /\ l = "save" => (c.key = "managed" => key)
    BY <2>3
  <2>5. Starts(p, "auth", l, c, 0)
    BY <2>4 DEF Starts
  <2> QED BY <2>5
<1> QED BY <1>1, <1>2, <1>3, <1>4, <1>5 DEF StartSettings
-----------------------------------------------------------------------------
\* Two values of a command's local variables, but for whether it is alone.
Alike(k, j) ==
  /\ k.kind = j.kind /\ k.conf = j.conf /\ k.run = j.run /\ k.commit = j.commit
  /\ k.status = j.status /\ k.lines = j.lines /\ k.attempt = j.attempt
  /\ k.since = j.since /\ k.mark = j.mark

\* What every step of p leaves to the others: their control, and their locks.
Frame(p) ==
  /\ \A q \in Procs \ {p} : pc'[q] = pc[q] /\ Alike(job'[q], job[q])
  /\ \A l \in Layouts : \/ lock'[l] = lock[l]
                        \/ lock[l] = Nobody /\ lock'[l] = p
                        \/ lock[l] = p /\ lock'[l] = Nobody

LEMMA Framed ==
  ASSUME TypeInv, NEW p \in Procs,
         StepKind(p) \/ StartPipeline(p) \/ StartSettings(p)
  PROVE  Frame(p)
<1>k. /\ pc \in [Procs -> Labels] /\ job \in [Procs -> Job]
      /\ lock \in [Layouts -> Procs \cup {Nobody}]
  BY Known DEF ControlOK, LockOK, TypeInv, JobsOK
<1>1. CASE StepKind(p)
  <2>1. \A q \in Procs \ {p} : pc'[q] = pc[q] /\ job'[q] = job[q]
    BY <1>k, <1>1 DEF StepKind, Proceeds, Acquire, End, Goto
  <2>2. \A l \in Layouts : \/ lock'[l] = lock[l]
                           \/ lock[l] = Nobody /\ lock'[l] = p
                           \/ lock[l] = p /\ lock'[l] = Nobody
    BY <1>k, <1>1 DEF StepKind, Proceeds, Acquire, End, Free
  <2> QED BY <2>1, <2>2 DEF Frame, Alike
<1>2. CASE StartPipeline(p) \/ StartSettings(p)
  <2>1. PICK kind, l, c, r : Begin(p, kind, l, c, r)
    BY <1>2, StartKind DEF Starts
  <2>2. UNCHANGED lock /\ \A q \in Procs \ {p} :
          pc'[q] = pc[q] /\ job'[q] = [job[q] EXCEPT !.alone = (pc[q] = "idle")]
    BY <1>k, <2>1 DEF Begin
  <2>3. ASSUME NEW q \in Procs \ {p} PROVE Alike(job'[q], job[q])
    <3>1. job[q] \in Job /\ (pc[q] = "idle") \in BOOLEAN
      BY <1>k
    <3>2. Alike([job[q] EXCEPT !.alone = (pc[q] = "idle")], job[q])
      BY <3>1, AloneApart DEF Alike
    <3> QED BY <2>2, <3>2
  <2> QED BY <2>2, <2>3 DEF Frame
<1> QED BY <1>1, <1>2

LEMMA LockInit == Init => LockInv
BY DEF Init, LockInv, Holds, NoJob, Builds

\* What p holds stays with p, and p holds what its new place says.
LEMMA LockStep ==
  ASSUME TypeInv, LockInv, TypeInv', NEW p \in Procs,
         CommandStep(p) \/ StartPipeline(p) \/ StartSettings(p)
  PROVE  LockInv'
<1>k. /\ pc \in [Procs -> Labels] /\ job \in [Procs -> Job]
      /\ lock \in [Layouts -> Procs \cup {Nobody}] /\ Nobody \notin Procs
  BY Known, WorkspaceAssumption DEF ControlOK, LockOK, TypeInv, JobsOK
<1>l. ASSUME NEW q \in Procs, Holds(pc[q], job[q]) PROVE Layout(q) \in Layouts
  <2>1. job[q] \in Job /\ Shape(pc[q], job[q])
    BY Known
  <2>2. job[q].conf \in Configs
    BY <1>l, <2>1 DEF Job, Holds, Shape, Builds
  <2> QED BY <2>2 DEF Layout, Configs
<1>f. Frame(p)
  BY StepKinds, Framed
<1>1. ASSUME NEW q \in Procs \ {p}, Holds(pc'[q], job'[q]) PROVE lock'[Layout(q)'] = q
  <2>1. Holds(pc[q], job[q]) /\ Layout(q)' = Layout(q)
    BY <1>1, <1>f DEF Frame, Alike, Holds, Layout
  <2>2. lock[Layout(q)] = q /\ Layout(q) \in Layouts
    BY <1>l, <2>1 DEF LockInv
  <2> QED BY <1>k, <1>f, <2>1, <2>2 DEF Frame
<1>2. ASSUME Holds(pc'[p], job'[p]) PROVE lock'[Layout(p)'] = p
  <2>1. CASE StartPipeline(p) \/ StartSettings(p)
    <3>1. PICK kind, l, c, r : Starts(p, kind, l, c, r)
      BY <2>1, StartKind
    <3>2. pc'[p] = l /\ job'[p].mark = 0
      BY <1>k, <3>1 DEF Starts, Begin, NoJob
    <3> QED BY <1>2, <3>1, <3>2 DEF Starts, Holds, Builds
  <2>2. CASE Proceeds(p)
    <3>1. PICK l \in Labels, j \in Job :
            /\ Goto(p, l, j) /\ j.conf = job[p].conf
            /\ Holds(l, j) => Holds(pc[p], job[p])
      BY <2>2 DEF Proceeds
    <3>2. pc'[p] = l /\ job'[p] = j
      BY <1>k, <3>1 DEF Goto
    <3> QED BY <1>2, <2>2, <3>1, <3>2 DEF LockInv, Layout, Proceeds
  <2>3. CASE Acquire(p)
    <3>1. job'[p] = job[p] /\ lock' = [lock EXCEPT ![Layout(p)] = p] /\ pc[p] = "lock"
      BY <1>k, <2>3 DEF Acquire, Goto
    <3>2. job[p] \in Job /\ Shape(pc[p], job[p])
      BY Known
    <3>3. job[p].conf \in Configs
      BY <3>1, <3>2 DEF Job, Shape
    <3>4. Layout(p) \in Layouts
      BY <3>3 DEF Layout, Configs
    <3> QED BY <1>k, <3>1, <3>4 DEF Layout
  <2>4. CASE End(p)
    <3>1. pc'[p] = "idle"
      BY <1>k, <2>4 DEF End, Goto
    <3> QED BY <1>2, <3>1 DEF Holds, Builds
  <2> QED BY <2>1, <2>2, <2>3, <2>4, StepKinds DEF StepKind
<1> QED BY <1>1, <1>2 DEF LockInv
-----------------------------------------------------------------------------
LEMMA AloneInit == Init => AloneInv
BY DEF Init, AloneInv

\* Where one command is alone no other takes a step, and one that begins ends
\* that.
LEMMA AloneStep ==
  ASSUME TypeInv, AloneInv, TypeInv', NEW p \in Procs,
         CommandStep(p) \/ StartPipeline(p) \/ StartSettings(p)
  PROVE  AloneInv'
<1>k. /\ pc \in [Procs -> Labels] /\ job \in [Procs -> Job]
      /\ job[p] \in Job /\ Shape(pc[p], job[p])
  BY Known DEF ControlOK, TypeInv, JobsOK
<1>f. Frame(p)
  BY StepKinds, Framed
<1> SUFFICES ASSUME NEW e \in Procs, pc'[e] # "idle", job'[e].alone
             PROVE  AloneOf(e)'
  BY DEF AloneInv
<1>1. CASE StartPipeline(p) \/ StartSettings(p)
  <2>1. PICK kind, l, c, r : Starts(p, kind, l, c, r)
    BY <1>1, StartKind
  <2>2. CASE e = p
    <3>1. /\ pc'[p] = l /\ job'[p].conf = c /\ job'[p].kind = kind
          /\ job'[p].alone = (Running = {}) /\ key' = key
      BY <1>k, <2>1 DEF Starts, Begin, NoJob, home
    <3>2. \A q \in Procs \ {p} : pc'[q] = "idle"
      BY <1>f, <2>2, <3>1 DEF Frame, Running
    <3> QED BY <2>1, <2>2, <3>1, <3>2 DEF Starts, AloneOf
  <2>3. CASE e # p
    <3>1. job'[e].alone = (pc[e] = "idle") /\ pc'[e] = pc[e]
      <4>1. pc'[e] = pc[e] /\ job'[e] = [job[e] EXCEPT !.alone = (pc[e] = "idle")]
        BY <1>k, <2>1, <2>3 DEF Starts, Begin
      <4>2. job[e] \in Job /\ (pc[e] = "idle") \in BOOLEAN
        BY <1>k
      <4> QED BY <4>1, <4>2, AloneApart
    <3> QED BY <3>1
  <2> QED BY <2>2, <2>3
<1>2. CASE CommandStep(p)
  <2>1. StepKind(p) /\ pc[p] # "idle"
    BY <1>2, StepKinds DEF StepKind
  <2>2. e = p
    <3> SUFFICES ASSUME e # p PROVE FALSE
      OBVIOUS
    <3>1. pc[e] # "idle" /\ job[e].alone
      BY <1>k, <2>1 DEF StepKind, Proceeds, Acquire, End, Goto
    <3> QED BY <2>1, <3>1 DEF AloneInv, AloneOf
  <2>3. job[p].alone /\ AloneOf(p)
    <3>1. job[p].alone
      BY <1>k, <2>1, <2>2 DEF StepKind, Proceeds, Acquire, End, Goto
    <3> QED BY <2>1, <3>1 DEF AloneInv
  <2>4. \A q \in Procs \ {p} : pc'[q] = "idle"
    BY <1>f, <2>3 DEF Frame, AloneOf
  <2>5. CASE pc'[p] \notin {"cache", "tmp", "key", "save"}
    BY <2>2, <2>4, <2>5 DEF AloneOf
  <2>6. CASE RemoveDir(p)
    <3>1. pc'[p] = "cache" /\ ~ dir' /\ config' = NoConfig /\ runs' = <<>> /\ latest' = NoRun
      BY <1>k, <2>6 DEF RemoveDir, Move, Goto
    <3> QED BY <2>2, <2>4, <3>1 DEF AloneOf
  <2>7. CASE RemoveRepo(p)
    <3>1. /\ pc'[p] = "tmp" /\ pc[p] = "cache" /\ repo' = 0
          /\ UNCHANGED <<dir, config, runs, latest>>
      BY <1>k, <2>7 DEF RemoveRepo, Move, Goto, reports
    <3> QED BY <2>2, <2>3, <2>4, <3>1 DEF AloneOf
  <2>8. CASE RemoveTmp(p)
    <3>1. /\ pc'[p] = "key" /\ pc[p] = "tmp" /\ worktrees' = {}
          /\ UNCHANGED <<dir, config, runs, latest, repo>>
      BY <1>k, <2>8 DEF RemoveTmp, RemovedWorktrees, Move, Goto, reports
    <3> QED BY <2>2, <2>3, <2>4, <3>1 DEF AloneOf
  <2>9. CASE PurgeKey(p)
    <3>1. pc'[p] = "save" /\ pc[p] = "purge" /\ job'[p] = job[p]
      BY <1>k, <2>9 DEF PurgeKey, Move, Goto
    <3>2. job[p].conf.key = "other"
      BY <1>k, <3>1 DEF Shape
    <3> QED BY <2>2, <2>4, <3>1, <3>2 DEF AloneOf
  <2>10. CASE MakeKey(p)
    <3>1. pc'[p] = "save" /\ key'
      BY <1>k, <2>10 DEF MakeKey, Move, Goto
    <3> QED BY <2>2, <2>4, <3>1 DEF AloneOf
  <2> QED BY <2>1, <2>5, <2>6, <2>7, <2>8, <2>9, <2>10 DEF StepKind
<1> QED BY <1>1, <1>2
-----------------------------------------------------------------------------
\* Types, locks and what a command that is alone has done.
BaseInv == TypeInv /\ LockInv /\ AloneInv

LEMMA NextSteps ==
  Next => \E p \in Procs : CommandStep(p) \/ StartPipeline(p) \/ StartSettings(p)
BY DEF Next, CommandStep

LEMMA BaseStep == BaseInv /\ [Next]_vars => BaseInv'
<1> SUFFICES ASSUME BaseInv, [Next]_vars PROVE BaseInv'
  OBVIOUS
<1>1. TypeInv'
  BY TypeStep DEF BaseInv
<1>2. CASE Next
  <2>1. PICK p \in Procs : CommandStep(p) \/ StartPipeline(p) \/ StartSettings(p)
    BY <1>2, NextSteps
  <2> QED BY <1>1, <2>1, LockStep, AloneStep DEF BaseInv
<1>3. CASE UNCHANGED vars
  <2>1. LockInv'
    BY <1>3 DEF BaseInv, vars, LockInv, Holds, Layout
  <2>2. AloneInv'
    BY <1>3 DEF BaseInv, vars, home, reports, AloneInv, AloneOf
  <2> QED BY <1>1, <2>1, <2>2 DEF BaseInv
<1> QED BY <1>2, <1>3

LEMMA BaseCorrect == Spec => []BaseInv
<1>1. Init => BaseInv
  BY TypeInit, LockInit, AloneInit DEF BaseInv
<1> QED BY <1>1, BaseStep, PTL DEF Spec

\* A step in which a command ends is a step of that command.
LEMMA Ending ==
  ASSUME BaseInv, BaseInv', Next, NEW p \in Procs, pc[p] # "idle", pc'[p] = "idle"
  PROVE  CommandStep(p)
<1>1. PICK q \in Procs : CommandStep(q) \/ StartPipeline(q) \/ StartSettings(q)
  BY NextSteps
<1>2. Frame(q)
  BY <1>1, StepKinds, Framed DEF BaseInv
<1>3. q = p
  BY <1>2 DEF Frame
<1>4. ~ (StartPipeline(q) \/ StartSettings(q))
  BY <1>3, StartKind DEF BaseInv, Starts, Begin
<1> QED BY <1>1, <1>3, <1>4

\* Where settings are changed, the last step of a command that is not killed.
LEMMA LastStep ==
  ASSUME TypeInv, NEW p \in Procs, CommandStep(p), Completes(p), pc[p] \in {"key", "save"}
  PROVE  IF pc[p] = "key" THEN RemoveKey(p) ELSE Save(p)
<1>1. ~ Fault(p) /\ ~ Kill(p)
  BY Known DEF Fault, Kill, CountFault, Completes, WorldOK
<1>2. ~ ReportStep(p)
  BY DEF ReportStep, ReadRuns, AppendRun, CannotReport, WriteSidecar, WriteLatest, Move
<1>3. ~ PipelineStep(p)
  BY DEF PipelineStep, EnsureRepo, Fetch, Resolve, CannotGit, Acquire, Busy, Sweep, Check,
     AddWorktree, Copy, Copied, CannotStage, Adopt, Validate, Refuse, Switch, NoSuchRelease,
     Prune, Pruned, Document, Clean, Unlock, Move
<1>4. SettingsStep(p)
  BY <1>1, <1>2, <1>3 DEF CommandStep
<1> QED BY <1>4 DEF SettingsStep, PurgeKey, RenewKey, MakeKey, CannotMakeKey, Save,
   RemoveDir, RemoveRepo, RemoveTmp, RemoveKey, Move

\* destroy, run alone, leaves nothing of the deployment, whatever was killed
\* before: what it has removed stays removed until it ends.
THEOREM DestroyRemovesAll == Spec => DestroyLeavesNothing
<1>1. ASSUME BaseInv, BaseInv', [Next]_vars, NEW p \in Procs,
             Completes(p), pc[p] = "key", job[p].alone
      PROVE  /\ ~ dir' /\ config' = NoConfig /\ ~ key' /\ repo' = 0 /\ worktrees' = {}
             /\ runs' = <<>> /\ latest' = NoRun
  <2>1. CommandStep(p)
    BY <1>1, Ending DEF Completes, vars
  <2>2. RemoveKey(p)
    BY <1>1, <2>1, LastStep DEF BaseInv
  <2>3. AloneOf(p)
    BY <1>1 DEF BaseInv, AloneInv
  <2> QED BY <1>1, <2>2, <2>3 DEF RemoveKey, AloneOf, reports
<1>2. BaseInv /\ BaseInv' /\ [Next]_vars => [\A p \in Procs : Completes(p) /\ pc[p] = "key"
        /\ job[p].alone =>
          /\ ~ dir' /\ config' = NoConfig /\ ~ key' /\ repo' = 0 /\ worktrees' = {}
          /\ runs' = <<>> /\ latest' = NoRun]_vars
  BY <1>1
<1> QED BY <1>2, BaseCorrect, PTL DEF Spec, DestroyLeavesNothing

\* auth, run alone, leaves a configuration that names the managed key only with the
\* key there.
THEOREM AuthKeyUsable == Spec => AuthLeavesUsableKey
<1>1. ASSUME BaseInv, BaseInv', [Next]_vars, NEW p \in Procs,
             Completes(p), pc[p] = "save", job[p].kind = "auth", job[p].alone,
             config'.key = "managed"
      PROVE  key'
  <2>1. CommandStep(p)
    BY <1>1, Ending DEF Completes, vars
  <2>2. Save(p)
    BY <1>1, <2>1, LastStep DEF BaseInv
  <2>3. AloneOf(p)
    BY <1>1 DEF BaseInv, AloneInv
  <2> QED BY <1>1, <2>2, <2>3 DEF Save, AloneOf
<1>2. BaseInv /\ BaseInv' /\ [Next]_vars => [\A p \in Procs : Completes(p) /\ pc[p] = "save"
        /\ job[p].kind = "auth" /\ job[p].alone => (config'.key = "managed" => key')]_vars
  BY <1>1
<1> QED BY <1>2, BaseCorrect, PTL DEF Spec, AuthLeavesUsableKey
=============================================================================
