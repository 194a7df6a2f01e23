---------------------------- MODULE MCAgentRuns ----------------------------
(* AgentRuns on a small instance: one owner with all the conversations.    *)
EXTENDS AgentRuns, TLC

CONSTANTS o1

MCOwnerOf == [c \in Conversations |-> o1]

\* Run ids, request ids and slots are interchangeable.
MCSymmetry ==
    Permutations(Runs) \cup Permutations(RequestIds) \cup Permutations(Slots)
=============================================================================
