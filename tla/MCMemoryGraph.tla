--------------------------- MODULE MCMemoryGraph ---------------------------
(***************************************************************************)
(* Small instances of MemoryGraph for TLC.                                 *)
(***************************************************************************)
EXTENDS MemoryGraph, TLC

\* Workers and facts are only ever compared for equality.
Symmetry == Permutations(Facts) \cup Permutations(Workers)
=============================================================================
