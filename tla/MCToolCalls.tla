---------------------------- MODULE MCToolCalls ----------------------------
(* ToolCalls on a small instance: a call that needs an approval, then a    *)
(* safe one, then a blocked one.                                           *)
EXTENDS ToolCalls, TLC

MCRiskOf == [c \in Calls |->
    CASE c = 1 -> "warn"
      [] c = 2 -> "safe"
      [] OTHER -> "block"]

MCSymmetry == Permutations(Slots)
=============================================================================
