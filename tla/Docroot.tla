------------------------------ MODULE Docroot ------------------------------
(***************************************************************************)
(* The part of the file system under the docroot that deployments touch,   *)
(* as the effect of the system calls the engine makes on it.               *)
(*                                                                         *)
(* A file system maps each path of PublicPaths to what Lstat finds there:  *)
(*   "none"  nothing;                                                      *)
(*   "file"  a regular file, or a symlink no deployment made;              *)
(*   "full"  a real directory that also holds entries of the site's own;   *)
(*   "bare"  a real directory with no entries but those in PublicPaths;    *)
(*   d       the symlink PublicSymlinkTarget(d, p) of deployment d.        *)
(* The temporary link of a claim p (".<base>.wpcloud-site-git-deploy.tmp") *)
(* stands beside p.  What it holds is a subtree: a file system that is     *)
(* "none" outside p and the paths below p.                                 *)
(***************************************************************************)
EXTENDS Paths

CONSTANTS
  Deployments,   \* deployment ids that publish into this docroot
  PublicPaths    \* the public paths the model distinguishes

Plain == {"none", "file", "full", "bare"}
Dirs  == {"full", "bare"}
Nodes == Plain \cup Deployments

ASSUME DocrootAssumption ==
  /\ Deployments \cap Plain = {}
  /\ \A p \in PublicPaths : p \in Seq(STRING) /\ Len(p) > 0
  /\ PrefixClosed(PublicPaths)

Below(p)     == {q \in PublicPaths : Ancestor(p, q)}
Ancestors(p) == {q \in PublicPaths : Ancestor(q, p)}

Nothing == [q \in PublicPaths |-> "none"]

\* The file system after the subtree t has been put at p.
Graft(fs, p, t) == [q \in PublicPaths |-> IF AtOrBelow(p, q) THEN t[q] ELSE fs[q]]

\* A mutant: the target does not name the deployment.
UnownedLinkAt(p, d) == [Nothing EXCEPT ![p] = "link"]

\* What os.Symlink puts at p: a symlink whose target is that of d for p.
LinkAt(p, d) == [Nothing EXCEPT ![p] = d]

\* os.MkdirAll of the parent of p, when no ancestor is in the way.
MkdirParents(fs, p) ==
  [q \in PublicPaths |-> IF Ancestor(q, p) /\ fs[q] = "none" THEN "bare" ELSE fs[q]]

\* os.Remove succeeds on anything but a directory with entries.
Removable(t, p) ==
  \/ t[p] \notin Dirs
  \/ t[p] = "bare" /\ \A q \in Below(p) : t[q] = "none"

\* Entries exist only inside real directories.
WellFormed(fs) ==
  \A p \in PublicPaths : fs[p] # "none" => \A a \in Ancestors(p) : fs[a] \in Dirs
=============================================================================
