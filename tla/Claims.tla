------------------------------- MODULE Claims -------------------------------
(***************************************************************************)
(* The claims package: which public paths a release tree claims, and which *)
(* trees are refused.  A repository gains and loses files; a deploy        *)
(* computes the claims of the tree and replaces the ones published before. *)
(* The platform changes which directories of the docroot are boundaries,   *)
(* and a deploy goes by those it finds.                                    *)
(*                                                                         *)
(* A tree is a set of entries, its regular files and symlinks.  Paths that *)
(* contain a newline, and entries of other types, are left out.            *)
(***************************************************************************)
EXTENDS Paths, FiniteSets

CONSTANTS
  TreePaths,            \* where a repository may have an entry
  LinkPaths,            \* where that entry may be a symlink
  BoundarySets,         \* what the sticky directories of the docroot may be
  RejectedSharedPaths,  \* rejectedSharedPaths
  SharedContainers,     \* sharedContainerPaths
  Hidden                \* .git and the docroot namespace

ASSUME ClaimsAssumption ==
  TreePaths \cup (UNION BoundarySets) \cup RejectedSharedPaths \cup SharedContainers
    \cup Hidden \subseteq Seq(STRING) \ {<<>>}

Entries == [path : TreePaths, link : BOOLEAN]

VARIABLES
  boundaries, \* discoverDocrootFacts: the sticky directories of the docroot
  tree,       \* the entries of the commit that is next to be deployed
  served,     \* the entries of the release that is current
  found,      \* the boundaries when it was deployed
  published   \* the claims that are public

vars == <<boundaries, tree, served, found, published>>

Within(S, p) == \E q \in S : AtOrBelow(q, p)

\* Compute skips .git and the docroot namespace.
Visible(e) == ~ Within(Hidden, e.path)

\* A mutant: only a file at the container itself is shared.
SharedAt(p) == p \in SharedContainers

\* sharedContainerFor.
Shared(p) == Within(SharedContainers, p)

\* Compute returns an error for the entry: a runtime path, a file in the place
\* of a shared container, a symlink inside one.
Refused(e) ==
  /\ Visible(e)
  /\ \/ Within(RejectedSharedPaths, e.path)
     \/ e.path \in SharedContainers
     \/ Shared(e.path) /\ e.link

\* The length of the deepest boundary above p, 0 when there is none.
DeepestBoundary(p) ==
  LET above == {Len(b) : b \in {c \in boundaries : Ancestor(c, p)}}
  IN  CHOOSE n \in above \cup {0} : \A m \in above : n >= m

\* A mutant: the boundary is not put back in front.
WithoutBoundary(p) == <<p[DeepestBoundary(p) + 1]>>

\* A mutant: only the directory that holds the file is looked at.
ClaimInDirectory(p) ==
  IF \E b \in boundaries : Ancestor(b, p) /\ Len(b) = Len(p) - 1 THEN p ELSE <<p[1]>>

\* claimForPath: the first component of p below its deepest boundary.
ClaimForPath(p) == SubSeq(p, 1, DeepestBoundary(p) + 1)

\* A file in a shared container is claimed by itself.
Claim(e) == IF Shared(e.path) THEN e.path ELSE ClaimForPath(e.path)

Compute(t) == {Claim(e) : e \in {f \in t : Visible(f)}}

\* A mutant: the claims both have are taken for removed.
RemovedBoth(old, new) == old \cap new

Removed(old, new) == old \ new
-----------------------------------------------------------------------------
Init ==
  /\ boundaries \in BoundarySets
  /\ tree = {} /\ served = {} /\ published = {} /\ found = {}

\* The platform makes directories of the docroot boundaries, or no longer; a
\* path that is a link is no directory.
Restructure ==
  /\ boundaries' \in BoundarySets
  /\ \A b \in boundaries', c \in published : ~ AtOrBelow(c, b)
  /\ UNCHANGED <<tree, served, found, published>>

\* The repository gains an entry where it has none above or below.
Add(p, link) ==
  /\ link => p \in LinkPaths
  /\ ~ OverlapsAny({e.path : e \in tree}, p)
  /\ tree' = tree \cup {[path |-> p, link |-> link]}
  /\ UNCHANGED <<boundaries, served, found, published>>

Delete(e) ==
  /\ e \in tree
  /\ tree' = tree \ {e}
  /\ UNCHANGED <<boundaries, served, found, published>>

\* A mutant: the links in the docroot are not looked at.
OldOfTree == Compute(served)

\* The claims of the release that is current, by the boundaries of now, and
\* the links that are there.
Old == Compute(served) \cup published

\* The new claims are reconciled and those that are removed are deleted.  A
\* claim takes the boundaries at and below it away with the directory there.
\* Claims that overlap, as a boundary or a shared container makes them where no
\* boundary is above it, would be placed inside a release: left out.
Deploy ==
  /\ \A e \in tree : ~ Refused(e)
  /\ \A c, d \in Compute(tree) : c # d => ~ Overlap(c, d)
  /\ published' = (published \cup Compute(tree)) \ Removed(Old, Compute(tree))
  /\ served' = tree
  /\ found' = boundaries
  /\ boundaries' = {b \in boundaries : ~ \E c \in Compute(tree) : AtOrBelow(c, b)}
  /\ UNCHANGED tree

Next ==
  \/ \E p \in TreePaths, link \in BOOLEAN : Add(p, link)
  \/ \E e \in Entries : Delete(e)
  \/ Deploy
  \/ Restructure

Spec == Init /\ [][Next]_vars
-----------------------------------------------------------------------------
\* Trees are sets of entries, and what is public is a path of the tree or a
\* directory above it.
TypeOK ==
  /\ boundaries \cup found \subseteq UNION BoundarySets
  /\ tree \subseteq Entries /\ served \subseteq Entries
  /\ \A c \in published : \E p \in TreePaths : AtOrBelow(c, p)

\* Every file of the release is reached through exactly one claim, and every
\* claim is needed by a file: no link inside another one, none left over, also
\* where the boundaries of before grouped the files differently.
EveryFilePublishedOnce ==
  /\ \A e \in served : Visible(e) =>
       Cardinality({c \in published : AtOrBelow(c, e.path)}) = 1
  /\ \A c \in published : \E e \in served : Visible(e) /\ AtOrBelow(c, e.path)

\* Every directory above p is a boundary.
Enclosed(p) == \A n \in 1..Len(p) - 1 : SubSeq(p, 1, n) \in boundaries

\* Where boundaries and shared containers have only boundaries above them, the
\* claims of a tree do not overlap, and Deploy leaves nothing out.
ClaimsApart ==
  (\A p \in boundaries \cup SharedContainers : Enclosed(p)) => Antichain(Compute(tree))

\* When the release was deployed, every directory above p was a boundary, and
\* the release has no file in the place of one.
Kept(p) ==
  \A n \in 1..Len(p) - 1 :
    LET q == SubSeq(p, 1, n) IN q \in found /\ \A e \in served : e.path # q

\* No link is put at, above or inside what the platform owns: a runtime path, a
\* shared container, a boundary, the namespace.  This depends on boundaries at
\* the directories of the path, without which a claim takes the whole directory;
\* a file in the place of a boundary claims that.  Inside a shared container the
\* only links are those of single regular files.
PlatformPathsKept ==
  \A c \in published :
    /\ \A s \in RejectedSharedPaths \cup Hidden : Kept(s) => ~ Overlap(c, s)
    /\ \A s \in SharedContainers : Kept(s) => ~ AtOrBelow(c, s)
    /\ \A b \in found : Kept(b) /\ (\A e \in served : e.path # b) => ~ AtOrBelow(c, b)
    /\ Shared(c) => [path |-> c, link |-> FALSE] \in served
=============================================================================
