------------------------------ MODULE Reports ------------------------------
(***************************************************************************)
(* Collector.Finish, with which every deploy ends once its configuration   *)
(* is loaded: the attempt is appended to runs.jsonl by reading the file,   *)
(* adding a line and renaming a new file over it; a success then writes    *)
(* the stats file beside the metadata and replaces latest-run.json.        *)
(*                                                                         *)
(* A deploy that got the lock still holds it; one that found it taken      *)
(* reports all the same.  An error in here is only a warning.              *)
(***************************************************************************)
EXTENDS Workspace

\* A mutant: nothing is cut.
AllLines(s) == s

\* lines[len(lines)-retain:].
LastLines(s) == IF Len(s) > Retain THEN SubSeq(s, Len(s) - Retain + 1, Len(s)) ELSE s

\* The lines of the report that matter: whose attempt, for which deployment id,
\* and whether it failed before it had swept, in or before lock_acquire.
Locked(p) == job[p].mark # 0
Record(p) == [attempt |-> job[p].attempt, layout |-> Layout(p), locked |-> Locked(p)]

\* AppendBoundedJSONL makes the directory and reads the lines.
ReadRuns(p) ==
  /\ pc[p] = "read"
  /\ dir' = TRUE
  /\ Goto(p, "append", [job[p] EXCEPT !.lines = runs])
  /\ UNCHANGED <<config, key, repo, worktrees, reports, lock, site, world>>

\* A mutant: the stats file of any attempt that has a release.
SidecarIfAny(p) == job[p].run # 0

\* Only a success has a stats file and becomes the latest run.
HasSidecar(p) == job[p].status = "success"

AppendRun(p) ==
  /\ pc[p] = "append"
  /\ dir
  /\ runs' = LastLines(Append(job[p].lines, Record(p)))
  /\ Goto(p, IF HasSidecar(p) THEN "sidecar" ELSE "unlock", [job[p] EXCEPT !.lines = <<>>])
  /\ UNCHANGED <<home, latest, sidecars, lock, site, world>>

\* The directory is gone, or a write fails: Finish returns, the deploy goes on.
CannotReport(p) ==
  /\ \/ pc[p] = "append" /\ ~ dir /\ UNCHANGED faults
     \/ /\ pc[p] \in {"read", "append", "sidecar", "latest"}
        /\ faults < MaxFaults /\ faults' = faults + 1
  /\ Goto(p, "unlock", [job[p] EXCEPT !.lines = <<>>])
  /\ UNCHANGED <<home, reports, lock, site, tip, nextId, started, lost>>

WriteSidecar(p) ==
  /\ Move(p, "sidecar", "latest")
  /\ sidecars' = [sidecars EXCEPT ![Layout(p)] = @ \cup {job[p].run}]
  /\ UNCHANGED <<home, runs, latest, lock, site, world>>

WriteLatest(p) ==
  /\ Move(p, "latest", "unlock")
  /\ dir' = TRUE
  /\ latest' = [run |-> job[p].run, layout |-> Layout(p)]
  /\ UNCHANGED <<config, key, repo, worktrees, runs, sidecars, lock, site, world>>

ReportStep(p) ==
  ReadRuns(p) \/ AppendRun(p) \/ CannotReport(p) \/ WriteSidecar(p) \/ WriteLatest(p)
-----------------------------------------------------------------------------
\* A line that an attempt appended without the lock that p holds.
Outside(r, p) == ~ (r.locked /\ r.layout = Layout(p))

\* The append of a deploy that got the lock adds its record, and loses none that
\* is in the file: Finish runs before the lock is released.  Exceptions are a full
\* file and, as the file belongs to the name, a last line that was appended
\* without this lock, by a deploy that found it taken or of another layout.
LockedAttemptsRecorded ==
  [][\A p \in Procs : pc[p] = "append" /\ pc'[p] # "append" /\ runs' # runs
                       /\ Locked(p) =>
       /\ Record(p) \in Range(runs')
       /\ \/ Range(runs) \subseteq Range(runs')
          \/ Len(runs') = Retain
          \/ runs # <<>> /\ Outside(runs[Len(runs)], p)]_vars

\* latest-run.json never goes back to an older release of the same layout, and
\* names a release whose metadata and stats file are written; a stats file is
\* there only for a release that succeeded.
LatestNeverOlder ==
  [][/\ latest' # latest /\ latest' # NoRun =>
          /\ latest'.run \in (sidecars[latest'.layout] \cap meta[latest'.layout])
          /\ latest # NoRun /\ latest.layout = latest'.layout
               => latest'.run > latest.run
     /\ \A l \in Layouts : sidecars'[l] \subseteq meta'[l]]_vars
=============================================================================
