---------------------------- MODULE MCMemoryFacts ----------------------------
(***************************************************************************)
(* MemoryFacts for TLC.                                                    *)
(***************************************************************************)
EXTENDS MemoryFacts, TLC

\* Tasks and sources are interchangeable.
Symmetry == Permutations(Tasks) \cup Permutations(Sources)
===============================================================================
