--------------------------- MODULE ReleaseStore ----------------------------
(***************************************************************************)
(* What deploys and rollbacks promise about the releases of a deployment,  *)
(* however they fail: the directory releases/, the metadata files, and the *)
(* symlink "current".                                                      *)
(***************************************************************************)
EXTENDS Integers, FiniteSets

CONSTANTS Deployments, Commits, NoCommit, Ids, Keep

VARIABLES stored,    \* stored[d][r]: the commit in releases/r, or NoCommit
          meta,      \* meta[d]: the releases with a metadata file
          current    \* current[d]: the release "current" points to, or 0

vars == <<stored, meta, current>>

Stored(d) == {r \in Ids : stored[d][r] # NoCommit}

\* Nothing is deployed yet, or one documented release is.
Init ==
  /\ stored \in [Deployments -> [Ids -> Commits \cup {NoCommit}]]
  /\ meta = [d \in Deployments |-> Stored(d)]
  /\ current \in [Deployments -> {0, 1}]
  /\ \A d \in Deployments : Stored(d) = IF current[d] = 0 THEN {} ELSE {1}

\* A new release is newer than all there are.
Adopt(d) ==
  /\ \E r \in Ids, c \in Commits :
       /\ \A s \in Stored(d) : s < r
       /\ stored' = [stored EXCEPT ![d][r] = c]
  /\ UNCHANGED <<meta, current>>

\* The newest release is given up before it was ever active.
Discard(d) ==
  /\ \E r \in Stored(d) \ (meta[d] \cup {current[d]}) :
       /\ \A s \in Stored(d) : s <= r
       /\ stored' = [stored EXCEPT ![d][r] = NoCommit]
  /\ UNCHANGED <<meta, current>>

\* One release is active and then the other: "current" is never missing.
Activate(d) ==
  /\ \E r \in Stored(d) : current' = [current EXCEPT ![d] = r]
  /\ UNCHANGED <<stored, meta>>

\* Only a release with Keep others that are active or newer is pruned.
Prune(d) ==
  /\ \E r \in Stored(d) \ {current[d]} :
       /\ Cardinality({current[d]} \cup {s \in Stored(d) : s > r}) >= Keep
       /\ stored' = [stored EXCEPT ![d][r] = NoCommit]
  /\ UNCHANGED <<meta, current>>

\* Metadata is written for the release that is active.
Document(d) ==
  /\ meta' = [meta EXCEPT ![d] = @ \cup {current[d]}]
  /\ current[d] # 0
  /\ UNCHANGED <<stored, current>>

Next ==
  \E d \in Deployments :
    Adopt(d) \/ Discard(d) \/ Activate(d) \/ Prune(d) \/ Document(d)

Spec == Init /\ [][Next]_vars
=============================================================================
