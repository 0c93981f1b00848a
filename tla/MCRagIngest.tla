---------------------------- MODULE MCRagIngest ----------------------------
(***************************************************************************)
(* RagIngest for model checking: workers and models are interchangeable,   *)
(* and no property of the run is about one of them.                        *)
(***************************************************************************)
EXTENDS RagIngest, TLC

Symmetry == Permutations(Workers) \cup Permutations(Models)
=============================================================================
