----------------------------- MODULE PathIndex -----------------------------
(***************************************************************************)
(* pathOverlapIndex of promote.go, and validateClaimsNotProtected which is *)
(* built on it.  Unlike the other modules this one looks at the bytes: a   *)
(* path is a sequence of names, a name is a sequence of bytes, and the     *)
(* index sorts and searches the text of paths, where "a-b" sorts between   *)
(* "a" and "a/b".                                                          *)
(***************************************************************************)
EXTENDS Paths, FiniteSets, SequencesExt

CONSTANTS
  Slash,       \* the byte that separates names
  IndexPaths,  \* paths, as sequences of names; <<>> is the docroot itself
  IndexSize    \* bound on the number of indexed paths

ASSUME PathIndexAssumption ==
  /\ Slash \in Nat /\ IndexSize \in Nat
  /\ IndexPaths \subseteq Seq(Seq(Nat \ {Slash}) \ {<<>>})

\* The text of a path: its names with slashes between them.
Text(p) ==
  LET to[i \in 0..Len(p)] ==
        IF i = 0 THEN <<>> ELSE IF i = 1 THEN p[1] ELSE to[i - 1] \o <<Slash>> \o p[i]
  IN  to[Len(p)]

\* The order of Go strings, byte by byte.
LessOrEqual(s, t) ==
  \/ IsPrefix(s, t)
  \/ \E i \in 1..Len(s) :
       i <= Len(t) /\ SubSeq(s, 1, i - 1) = SubSeq(t, 1, i - 1) /\ s[i] < t[i]

\* newPathOverlapIndex: sort.Strings puts each text at its rank.
Sorted(texts) ==
  [i \in 1..Cardinality(texts) |->
     CHOOSE t \in texts : Cardinality({s \in texts : LessOrEqual(s, t)}) = i]

\* sort.SearchStrings: binary search for the first position of t or more, from
\* 1; Len(sorted) + 1 when there is none.  The window is a pair of bounds.
SearchStrings(sorted, t) ==
  LET search[w \in (0..Len(sorted)) \X (0..Len(sorted))] ==
        LET h == (w[1] + w[2]) \div 2
        IN  IF w[1] >= w[2] THEN w[1]
            ELSE IF LessOrEqual(t, sorted[h + 1]) THEN search[<<w[1], h>>]
            ELSE search[<<h + 1, w[2]>>]
  IN  search[<<0, Len(sorted)>>] + 1

\* The walk from "a/b/c" to "a/b" to "a", one LastIndex of "/" at a time.
TextAncestors(t) ==
  {SubSeq(t, 1, i - 1) : i \in {j \in 2..Len(t) : t[j] = Slash}}

\* A mutant: the search is for the path itself.
BarePrefix(t) == t

\* descendantPrefix.
DescendantPrefix(t) == Append(t, Slash)

\* overlaps.
Overlaps(texts, t) ==
  \/ t \in texts
  \/ TextAncestors(t) \cap texts # {}
  \/ LET sorted == Sorted(texts)
         position == SearchStrings(sorted, DescendantPrefix(t))
     IN  position <= Len(sorted) /\ IsPrefix(DescendantPrefix(t), sorted[position])

\* validateClaimsNotProtected returns an error.
Refuses(claims, anchors) ==
  IF <<>> \in anchors
  THEN claims # {}
  ELSE \E c \in claims : Overlaps({Text(a) : a \in anchors}, Text(c))
-----------------------------------------------------------------------------
VARIABLES
  indexed,  \* the protected anchors of the docroot
  claims,   \* the claims that are validated
  refused   \* the result of the last validation

vars == <<indexed, claims, refused>>

Init == indexed = {} /\ claims = {} /\ refused = FALSE

Protect(p) ==
  /\ Cardinality(indexed) < IndexSize
  /\ indexed' = indexed \cup {p}
  /\ refused' = Refuses(claims, indexed')
  /\ UNCHANGED claims

Validate(S) ==
  /\ claims' = S
  /\ refused' = Refuses(S, indexed)
  /\ UNCHANGED indexed

Next ==
  \/ \E p \in IndexPaths : Protect(p)
  \/ \E p \in IndexPaths \ {<<>>} : Validate({p})

Spec == Init /\ [][Next]_vars
-----------------------------------------------------------------------------
\* The binary search over text refuses exactly the claims that are, contain or
\* lie below a protected anchor; the docroot contains every claim.
RefusedExactlyOnOverlap ==
  refused <=> \E c \in claims, a \in indexed : a = <<>> \/ Overlap(c, a)
=============================================================================
