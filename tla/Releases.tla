------------------------------ MODULE Releases ------------------------------
(***************************************************************************)
(* Retention of releases: releases.List and releases.Prune.  Releases are  *)
(* numbered in the order in which they were adopted, which is the order of *)
(* the modification times the engine sets on them (os.Chtimes), so List's  *)
(* order, newest first, is the decreasing order of the numbers.            *)
(***************************************************************************)
EXTENDS Integers, FiniteSets

\* Mutants: one release too few is kept, or one too many.
KeepSetShort(rs, keepReleases, active) ==
  {r \in rs : \/ r = active
              \/ Cardinality({active} \cup {n \in rs : n > r}) < keepReleases - 1}

KeepSetLong(rs, keepReleases, active) ==
  {r \in rs : \/ r = active
              \/ Cardinality({active} \cup {n \in rs : n > r}) <= keepReleases}

\* Prune walks List and adds releases to keep = {active} until keep has
\* keepReleases members: at r's turn keep holds active and all newer ones.
KeepSet(rs, keepReleases, active) ==
  {r \in rs : \/ r = active
              \/ Cardinality({active} \cup {n \in rs : n > r}) < keepReleases}

PruneSet(rs, keepReleases, active) == rs \ KeepSet(rs, keepReleases, active)
=============================================================================
