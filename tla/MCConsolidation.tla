-------------------------- MODULE MCConsolidation --------------------------
(* Consolidation on a small instance.                                      *)
EXTENDS Consolidation

CONSTANTS a, b

MCContents ==
    {[kind |-> "correction", value |-> b], [kind |-> "remember", value |-> a],
     [kind |-> "secret"]}
============================================================================
