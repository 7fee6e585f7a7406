----------------------------- MODULE MCPipeline -----------------------------
(***************************************************************************)
(* Pipeline with processes, and with layouts, that are alike.              *)
(***************************************************************************)
EXTENDS Pipeline, TLC

Alike == Permutations(Procs) \cup Permutations(Layouts)
=============================================================================
