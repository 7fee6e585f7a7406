------------------------------- MODULE Paths -------------------------------
(***************************************************************************)
(* Public paths of the docroot.  A path is the sequence of its components, *)
(* so <<"wp-content", "uploads">> stands for "wp-content/uploads"; the     *)
(* prefix tests on slash-separated strings of the Go code become prefix    *)
(* tests on sequences.                                                     *)
(***************************************************************************)
EXTENDS Integers, Sequences

\* strings.HasPrefix(q, p + "/"): q lies strictly below p.
Ancestor(p, q) ==
  /\ Len(p) < Len(q)
  /\ SubSeq(q, 1, Len(p)) = p

AtOrBelow(p, q) == q = p \/ Ancestor(p, q)

\* The relation decided by pathOverlapIndex.overlaps: the same path, an
\* ancestor, or a descendant.
Overlap(p, q) == p = q \/ Ancestor(p, q) \/ Ancestor(q, p)

OverlapsAny(S, p) == \E q \in S : Overlap(q, p)

\* No two distinct members overlap.
Antichain(S) == \A p, q \in S : Overlap(p, q) => p = q

\* Every non-empty prefix of a member is a member.
PrefixClosed(S) ==
  \A p \in S : \A n \in 1..Len(p) : SubSeq(p, 1, n) \in S
=============================================================================
