----------------------------- MODULE MCSandbox -----------------------------
(* One run with two commands.                                              *)
EXTENDS Sandbox, TLC

CONSTANTS r1

MCRunOf == [o \in Ops |-> r1]

Symmetry == Permutations(Ops)
=============================================================================
