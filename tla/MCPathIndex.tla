---------------------------- MODULE MCPathIndex ----------------------------
(***************************************************************************)
(* Names that sort around the slash: "-" is less than it, a letter more.   *)
(***************************************************************************)
EXTENDS PathIndex

Dash   == 45
Letter == 97
Short  == <<Letter>>
Dashed == <<Letter, Dash>>
Names  == {Short, Dashed, <<Letter, Letter>>}

ShortPaths ==
  {<<>>} \cup {<<n>> : n \in Names} \cup {<<Short, n>> : n \in Names}
    \cup {<<Dashed, n>> : n \in Names} \cup {<<Short, Short, n>> : n \in Names}
=============================================================================
