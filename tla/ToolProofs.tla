----------------------------- MODULE ToolProofs -----------------------------
(***************************************************************************)
(* Proofs about the tools: first about ToolCalls, for every number of      *)
(* calls, every assignment of risks, every set of slots and every bound on *)
(* faults; then about Mcp, for any servers, tools, threads and tasks, any  *)
(* configurations an administrator may send, and any number of operations. *)
(***************************************************************************)
EXTENDS ToolCalls, Mcp, FiniteSetTheorems, TLAPS

-----------------------------------------------------------------------------
(***************************************************************************)
(* ToolCalls.                                                              *)
(***************************************************************************)

USE DEF Terminal, OpenOperations, Places

\* A task inside ToolGateway.invoke, or just behind it, is in a tool node, and
\* one that commits an answer is at the end of the graph.
TaskInNode ==
    \A w \in Slots :
        /\ pc[w] \in {"announcing", "starting", "executing", "observing"} =>
               at[w].node = "tool"
        /\ pc[w] = "committing" => at[w].node = "final"

TypeInv == TypeOK /\ TaskInNode

LEMMA StartPosition == Start \in Position /\ Start.node = "decide" /\ Start.call = 0
BY DEF Start, Position

LEMMA Positions ==
    /\ \A p \in Position : p.node \in {"tool", "finalize"} => p.call \in Calls
    /\ \A c \in Calls, n \in {"tool", "finalize"} :
           [call |-> c, node |-> n] \in Position
    /\ \A c \in {0, CallCount} :
           /\ [call |-> c, node |-> "final"] \in Position
           /\ [call |-> c, node |-> "final"].node = "final"
BY DEF Position

LEMMA TypeInit == Init => TypeInv
<1> SUFFICES ASSUME Init PROVE TypeInv
    OBVIOUS
<1>1. TypeOK
    BY StartPosition DEF Init, TypeOK
<1>2. TaskInNode
    BY DEF Init, TaskInNode
<1> QED BY <1>1, <1>2 DEF TypeInv

LEMMA TypeStep == TypeInv /\ [Next]_vars => TypeInv'
<1> SUFFICES ASSUME TypeInv, [Next]_vars PROVE TypeInv'
    OBVIOUS
<1> USE ToolConstants, StartPosition, Positions
    DEF TypeInv, TypeOK, TaskInNode, vars, rowVars, storeVars, taskVars
<1>1. ASSUME NEW w \in Slots, Claim(w) PROVE TypeInv'
    BY <1>1 DEF Claim
<1>2. ASSUME NEW w \in Slots, AnswerDirectly(w) PROVE TypeInv'
    BY <1>2 DEF AnswerDirectly, Leaving, Reach, InNode
<1>3. ASSUME NEW w \in Slots, StageCalls(w) PROVE TypeInv'
    <2> DEFINE next == [call |-> 1, node |-> "tool"]
    <2>1. next \in Position /\ next.node = "tool"
        BY DEF Position, Calls
    <2>2. checkpoint' = next /\ at' = [at EXCEPT ![w] = next]
        BY <1>3 DEF StageCalls, Reach
    <2> HIDE DEF next
    <2> QED BY <1>3, <2>1, <2>2 DEF StageCalls, Reach, InNode
<1>4. ASSUME NEW w \in Slots, NodeRaises(w) PROVE TypeInv'
    BY <1>4 DEF NodeRaises, MoveTo, Leaving
<1>5. ASSUME NEW w \in Slots, StopGraph(w) PROVE TypeInv'
    BY <1>5 DEF StopGraph, MoveTo, Leaving
<1>6. ASSUME NEW w \in Slots, ReturnDuplicate(w) PROVE TypeInv'
    BY <1>6 DEF ReturnDuplicate, MoveTo, Invoking, Settled, InNode
<1>7. ASSUME NEW w \in Slots, RefuseTool(w) PROVE TypeInv'
    BY <1>7 DEF RefuseTool, MoveTo, Invoking, Settled, Record, SavePayload, InNode
<1>8. ASSUME NEW w \in Slots, AskApproval(w) PROVE TypeInv'
    BY <1>8 DEF AskApproval, CreateApproval, MoveTo, Invoking, Settled, InNode
<1>9. ASSUME NEW w \in Slots, AwaitApproval(w) PROVE TypeInv'
    BY <1>9 DEF AwaitApproval, MoveTo, Invoking, Settled, InNode
<1>10. ASSUME NEW w \in Slots, StartTool(w) PROVE TypeInv'
    BY <1>10 DEF StartTool, MoveTo, Invoking, Settled, Cleared, InNode
<1>11. ASSUME NEW w \in Slots, CallExecutor(w) PROVE TypeInv'
    BY <1>11 DEF CallExecutor
<1>12. ASSUME NEW w \in Slots, RetryTool(w) PROVE TypeInv'
    BY <1>12 DEF RetryTool, MayRetry
<1>13. ASSUME NEW w \in Slots, FinishTool(w) PROVE TypeInv'
    BY <1>13 DEF FinishTool, MoveTo, Record, SavePayload
<1>14. ASSUME NEW w \in Slots, ToolRaises(w) PROVE TypeInv'
    BY <1>14 DEF ToolRaises, MoveTo, Leaving
<1>15. ASSUME NEW w \in Slots, CancelTool(w) PROVE TypeInv'
    BY <1>15 DEF CancelTool, MoveTo, Leaving, Record, SavePayload
<1>16. ASSUME NEW w \in Slots, Announce(w) PROVE TypeInv'
    BY <1>16 DEF Announce, SavePayload, MoveTo, Leaving
<1>17. ASSUME NEW w \in Slots, Observe(w) PROVE TypeInv'
    BY <1>17 DEF Observe, Reach
<1>18. ASSUME NEW w \in Slots, FinalizeNode(w) PROVE TypeInv'
    <2>1. at[w].call \in Calls
        BY <1>18 DEF FinalizeNode, InNode
    <2>2. CASE at[w].call < CallCount
        <3>1. at[w].call + 1 \in Calls
            BY <2>1, <2>2 DEF Calls
        <3> DEFINE next == [call |-> at[w].call + 1, node |-> "tool"]
        <3>2. next \in Position /\ next.node = "tool"
            BY <3>1
        <3>3. checkpoint' = next /\ at' = [at EXCEPT ![w] = next]
            BY <1>18, <2>2 DEF FinalizeNode, Reach
        <3> HIDE DEF next
        <3> QED BY <1>18, <2>2, <3>2, <3>3 DEF FinalizeNode, Reach, InNode
    <2>3. CASE ~(at[w].call < CallCount)
        <3>1. at[w].call = CallCount
            BY <2>1, <2>3 DEF Calls
        <3> QED BY <1>18, <2>3, <3>1 DEF FinalizeNode, Reach, Leaving, InNode
    <2> QED BY <2>2, <2>3
<1>19. ASSUME NEW w \in Slots, Pause(w) PROVE TypeInv'
    BY <1>19 DEF Pause, EndTask
<1>20. ASSUME NEW w \in Slots, CommitAnswer(w) PROVE TypeInv'
    BY <1>20 DEF CommitAnswer, MoveTo, Finish
<1>21. ASSUME NEW w \in Slots, FailRun(w) PROVE TypeInv'
    BY <1>21 DEF FailRun, MoveTo, Finish
<1>22. ASSUME NEW w \in Slots, CancelRun(w) PROVE TypeInv'
    BY <1>22 DEF CancelRun, MoveTo, Finish
<1>23. ASSUME NEW w \in Slots, AbortAtClaim(w) PROVE TypeInv'
    BY <1>23 DEF AbortAtClaim, EndTask, Finish
<1>24. ASSUME NEW w \in Slots, StopTools(w) PROVE TypeInv'
    BY <1>24 DEF StopTools, DeletePayloads, EndTask
<1>25. ASSUME NEW w \in Slots, ObserveCancel(w) PROVE TypeInv'
    BY <1>25 DEF ObserveCancel, InGraph
<1>26. ASSUME NEW w \in Slots, LoseClaim(w) PROVE TypeInv'
    BY <1>26 DEF LoseClaim, InGraph
<1>27. ASSUME NEW w \in Slots, Heartbeat(w) PROVE TypeInv'
    BY <1>27 DEF Heartbeat, InGraph
<1>28. ASSUME NEW w \in Slots, PauseFails(w) PROVE TypeInv'
    BY <1>28 DEF PauseFails, MoveTo
<1>29. ASSUME NEW w \in Slots, LoseContact(w) PROVE TypeInv'
    BY <1>29 DEF LoseContact, InGraph
<1>30. ASSUME NEW w \in Slots, CrashWhileAsking(w) PROVE TypeInv'
    BY <1>30 DEF CrashWhileAsking, CreateApproval, Invoking, Settled, Die, InNode
<1>31. ASSUME NEW w \in Slots, CrashWhileRecording(w) PROVE TypeInv'
    BY <1>31 DEF CrashWhileRecording, Die
<1>32. ASSUME NEW c \in Calls, NEW d \in {"approved", "rejected"},
             Decide(c, d)
      PROVE  TypeInv'
    BY <1>32 DEF Decide
<1>33. ASSUME NEW c \in Calls, NEW d \in {"approved", "rejected"},
             CrashWhileDeciding(c, d)
      PROVE  TypeInv'
    BY <1>33 DEF CrashWhileDeciding, Die
<1>34. ASSUME NEW c \in Calls, DecideTooLate(c) PROVE TypeInv'
    BY <1>34 DEF DecideTooLate
<1>35. CASE Crash
    BY <1>35 DEF Crash, Die
<1>36. CASE ExpireLease
    BY <1>36 DEF ExpireLease, Tended
<1>37. CASE RequestCancel
    BY <1>37 DEF RequestCancel
<1>38. CASE CancelWaiting
    BY <1>38 DEF CancelWaiting, DeletePayloads, Withdrawn
<1>39. CASE CrashWhileCancelling
    BY <1>39 DEF CrashWhileCancelling, Die
<1>40. CASE UNCHANGED vars
    BY <1>40
<1> QED BY <1>1, <1>2, <1>3, <1>4, <1>5, <1>6, <1>7, <1>8, <1>9, <1>10, <1>11,
   <1>12, <1>13, <1>14, <1>15, <1>16, <1>17, <1>18, <1>19, <1>20, <1>21,
   <1>22, <1>23, <1>24, <1>25, <1>26, <1>27, <1>28, <1>29, <1>30, <1>31,
   <1>32, <1>33, <1>34, <1>35, <1>36, <1>37, <1>38, <1>39, <1>40
        DEF Next, GraphStep, EndStep, MonitorStep, FaultStep, RouteStep

\* Every call that was executed, and every call a task is about to execute, is
\* still cleared: an approval that was approved is never replaced or withdrawn.
ClearedRuns ==
    /\ \A c \in Calls : executions[c] > 0 => Cleared(c)
    /\ \A w \in Slots : pc[w] \in {"starting", "executing"} => Cleared(at[w].call)

\* Every call behind a position of the graph has its result.
Behind(p, b) == b < p.call \/ (b = p.call /\ p.node # "tool")

ResultsBehind ==
    /\ \A b \in Calls : Behind(checkpoint, b) => result[b] # "none"
    /\ \A w \in Slots, b \in Calls : Behind(at[w], b) => result[b] # "none"
    /\ \A w \in Slots : pc[w] = "observing" => result[at[w].call] # "none"
    /\ CallsRunInOrder

Inv == TypeInv /\ ClearedRuns /\ ResultsBehind

LEMMA CallNumbers == \A b \in Calls : b \in Nat /\ b > 0
BY ToolConstants DEF Calls

LEMMA NothingBehindStart == \A b \in Calls : ~Behind(Start, b)
BY StartPosition, CallNumbers DEF Behind

LEMMA InvInit == Init => Inv
<1> SUFFICES ASSUME Init PROVE Inv
    OBVIOUS
<1>1. ClearedRuns
    BY DEF Init, ClearedRuns
<1>2. ResultsBehind
    BY NothingBehindStart DEF Init, ResultsBehind, CallsRunInOrder
<1> QED BY <1>1, <1>2, TypeInit DEF Inv

LEMMA ClearedStep == TypeInv /\ ClearedRuns /\ [Next]_vars => ClearedRuns'
<1> SUFFICES ASSUME TypeInv, ClearedRuns, [Next]_vars PROVE ClearedRuns'
    OBVIOUS
<1> USE Positions
    DEF TypeInv, TypeOK, TaskInNode, ClearedRuns, Cleared,
        vars, rowVars, storeVars, taskVars
<1>1. ASSUME NEW w \in Slots, Claim(w) PROVE ClearedRuns'
    BY <1>1 DEF Claim
<1>2. ASSUME NEW w \in Slots, AnswerDirectly(w) PROVE ClearedRuns'
    BY <1>2 DEF AnswerDirectly, Leaving, Reach, InNode
<1>3. ASSUME NEW w \in Slots, StageCalls(w) PROVE ClearedRuns'
    BY <1>3 DEF StageCalls, Reach, InNode
<1>4. ASSUME NEW w \in Slots, NodeRaises(w) PROVE ClearedRuns'
    BY <1>4 DEF NodeRaises, MoveTo, Leaving
<1>5. ASSUME NEW w \in Slots, StopGraph(w) PROVE ClearedRuns'
    BY <1>5 DEF StopGraph, MoveTo, Leaving
<1>6. ASSUME NEW w \in Slots, ReturnDuplicate(w) PROVE ClearedRuns'
    BY <1>6 DEF ReturnDuplicate, MoveTo, Invoking, Settled, InNode
<1>7. ASSUME NEW w \in Slots, RefuseTool(w) PROVE ClearedRuns'
    BY <1>7 DEF RefuseTool, MoveTo, Invoking, Settled, Record, SavePayload, InNode
<1>8. ASSUME NEW w \in Slots, AskApproval(w) PROVE ClearedRuns'
    BY <1>8 DEF AskApproval, CreateApproval, MoveTo, Invoking, Settled, InNode
<1>9. ASSUME NEW w \in Slots, AwaitApproval(w) PROVE ClearedRuns'
    BY <1>9 DEF AwaitApproval, MoveTo, Invoking, Settled, InNode
<1>10. ASSUME NEW w \in Slots, StartTool(w) PROVE ClearedRuns'
    BY <1>10 DEF StartTool, MoveTo, Invoking, Settled, Cleared, InNode
<1>11. ASSUME NEW w \in Slots, CallExecutor(w) PROVE ClearedRuns'
    BY <1>11 DEF CallExecutor
<1>12. ASSUME NEW w \in Slots, RetryTool(w) PROVE ClearedRuns'
    BY <1>12 DEF RetryTool, MayRetry
<1>13. ASSUME NEW w \in Slots, FinishTool(w) PROVE ClearedRuns'
    BY <1>13 DEF FinishTool, MoveTo, Record, SavePayload
<1>14. ASSUME NEW w \in Slots, ToolRaises(w) PROVE ClearedRuns'
    BY <1>14 DEF ToolRaises, MoveTo, Leaving
<1>15. ASSUME NEW w \in Slots, CancelTool(w) PROVE ClearedRuns'
    BY <1>15 DEF CancelTool, MoveTo, Leaving, Record, SavePayload
<1>16. ASSUME NEW w \in Slots, Announce(w) PROVE ClearedRuns'
    BY <1>16 DEF Announce, SavePayload, MoveTo, Leaving
<1>17. ASSUME NEW w \in Slots, Observe(w) PROVE ClearedRuns'
    BY <1>17 DEF Observe, Reach
<1>18. ASSUME NEW w \in Slots, FinalizeNode(w) PROVE ClearedRuns'
    BY <1>18 DEF FinalizeNode, Leaving, Reach, InNode
<1>19. ASSUME NEW w \in Slots, Pause(w) PROVE ClearedRuns'
    BY <1>19 DEF Pause, EndTask
<1>20. ASSUME NEW w \in Slots, CommitAnswer(w) PROVE ClearedRuns'
    BY <1>20 DEF CommitAnswer, MoveTo, Finish
<1>21. ASSUME NEW w \in Slots, FailRun(w) PROVE ClearedRuns'
    BY <1>21 DEF FailRun, MoveTo, Finish
<1>22. ASSUME NEW w \in Slots, CancelRun(w) PROVE ClearedRuns'
    BY <1>22 DEF CancelRun, MoveTo, Finish
<1>23. ASSUME NEW w \in Slots, AbortAtClaim(w) PROVE ClearedRuns'
    BY <1>23 DEF AbortAtClaim, EndTask, Finish
<1>24. ASSUME NEW w \in Slots, StopTools(w) PROVE ClearedRuns'
    BY <1>24 DEF StopTools, DeletePayloads, EndTask
<1>25. ASSUME NEW w \in Slots, ObserveCancel(w) PROVE ClearedRuns'
    BY <1>25 DEF ObserveCancel, InGraph
<1>26. ASSUME NEW w \in Slots, LoseClaim(w) PROVE ClearedRuns'
    BY <1>26 DEF LoseClaim, InGraph
<1>27. ASSUME NEW w \in Slots, Heartbeat(w) PROVE ClearedRuns'
    BY <1>27 DEF Heartbeat, InGraph
<1>28. ASSUME NEW w \in Slots, PauseFails(w) PROVE ClearedRuns'
    BY <1>28 DEF PauseFails, MoveTo
<1>29. ASSUME NEW w \in Slots, LoseContact(w) PROVE ClearedRuns'
    BY <1>29 DEF LoseContact, InGraph
<1>30. ASSUME NEW w \in Slots, CrashWhileAsking(w) PROVE ClearedRuns'
    BY <1>30 DEF CrashWhileAsking, CreateApproval, Invoking, Settled, Die, InNode
<1>31. ASSUME NEW w \in Slots, CrashWhileRecording(w) PROVE ClearedRuns'
    BY <1>31 DEF CrashWhileRecording, Die
<1>32. ASSUME NEW c \in Calls, NEW d \in {"approved", "rejected"},
             Decide(c, d)
      PROVE  ClearedRuns'
    BY <1>32 DEF Decide
<1>33. ASSUME NEW c \in Calls, NEW d \in {"approved", "rejected"},
             CrashWhileDeciding(c, d)
      PROVE  ClearedRuns'
    BY <1>33 DEF CrashWhileDeciding, Die
<1>34. ASSUME NEW c \in Calls, DecideTooLate(c) PROVE ClearedRuns'
    BY <1>34 DEF DecideTooLate
<1>35. CASE Crash
    BY <1>35 DEF Crash, Die
<1>36. CASE ExpireLease
    BY <1>36 DEF ExpireLease, Tended
<1>37. CASE RequestCancel
    BY <1>37 DEF RequestCancel
<1>38. CASE CancelWaiting
    BY <1>38 DEF CancelWaiting, DeletePayloads, Withdrawn
<1>39. CASE CrashWhileCancelling
    BY <1>39 DEF CrashWhileCancelling, Die
<1>40. CASE UNCHANGED vars
    BY <1>40
<1> QED BY <1>1, <1>2, <1>3, <1>4, <1>5, <1>6, <1>7, <1>8, <1>9, <1>10, <1>11,
   <1>12, <1>13, <1>14, <1>15, <1>16, <1>17, <1>18, <1>19, <1>20, <1>21,
   <1>22, <1>23, <1>24, <1>25, <1>26, <1>27, <1>28, <1>29, <1>30, <1>31,
   <1>32, <1>33, <1>34, <1>35, <1>36, <1>37, <1>38, <1>39, <1>40
        DEF Next, GraphStep, EndStep, MonitorStep, FaultStep, RouteStep

LEMMA ResultsStep == TypeInv /\ ResultsBehind /\ [Next]_vars => ResultsBehind'
<1> SUFFICES ASSUME TypeInv, ResultsBehind, [Next]_vars PROVE ResultsBehind'
    OBVIOUS
<1> USE Positions, CallNumbers
    DEF TypeInv, TypeOK, TaskInNode, ResultsBehind, CallsRunInOrder,
        vars, rowVars, storeVars, taskVars
<1>1. ASSUME NEW w \in Slots, Claim(w) PROVE ResultsBehind'
    BY <1>1 DEF Claim
<1>2. ASSUME NEW w \in Slots, AnswerDirectly(w) PROVE ResultsBehind'
    <2>1. \A b \in Calls : ~Behind([call |-> 0, node |-> "final"], b)
        BY DEF Behind
    <2> QED BY <1>2, <2>1 DEF AnswerDirectly, Reach, Leaving, InNode
<1>3. ASSUME NEW w \in Slots, StageCalls(w) PROVE ResultsBehind'
    <2>1. \A b \in Calls : ~Behind([call |-> 1, node |-> "tool"], b)
        BY DEF Behind
    <2> QED BY <1>3, <2>1 DEF StageCalls, Reach, InNode
<1>4. ASSUME NEW w \in Slots, NodeRaises(w) PROVE ResultsBehind'
    BY <1>4 DEF NodeRaises, MoveTo, Leaving
<1>5. ASSUME NEW w \in Slots, StopGraph(w) PROVE ResultsBehind'
    BY <1>5 DEF StopGraph, MoveTo, Leaving
<1>6. ASSUME NEW w \in Slots, ReturnDuplicate(w) PROVE ResultsBehind'
    BY <1>6 DEF ReturnDuplicate, MoveTo, Invoking, Settled, InNode
<1>7. ASSUME NEW w \in Slots, RefuseTool(w) PROVE ResultsBehind'
    BY <1>7 DEF RefuseTool, MoveTo, Invoking, Settled, Record, SavePayload, InNode
<1>8. ASSUME NEW w \in Slots, AskApproval(w) PROVE ResultsBehind'
    BY <1>8 DEF AskApproval, CreateApproval, MoveTo, Invoking, Settled, InNode
<1>9. ASSUME NEW w \in Slots, AwaitApproval(w) PROVE ResultsBehind'
    BY <1>9 DEF AwaitApproval, MoveTo, Invoking, Settled, InNode
<1>10. ASSUME NEW w \in Slots, StartTool(w) PROVE ResultsBehind'
    BY <1>10 DEF StartTool, MoveTo, Invoking, Settled, Cleared, InNode
<1>11. ASSUME NEW w \in Slots, CallExecutor(w) PROVE ResultsBehind'
    BY <1>11 DEF CallExecutor, Behind
<1>12. ASSUME NEW w \in Slots, RetryTool(w) PROVE ResultsBehind'
    BY <1>12 DEF RetryTool, Behind
<1>13. ASSUME NEW w \in Slots, FinishTool(w) PROVE ResultsBehind'
    BY <1>13 DEF FinishTool, MoveTo, Record, SavePayload
<1>14. ASSUME NEW w \in Slots, ToolRaises(w) PROVE ResultsBehind'
    BY <1>14 DEF ToolRaises, MoveTo, Leaving
<1>15. ASSUME NEW w \in Slots, CancelTool(w) PROVE ResultsBehind'
    BY <1>15 DEF CancelTool, MoveTo, Leaving, Record, SavePayload
<1>16. ASSUME NEW w \in Slots, Announce(w) PROVE ResultsBehind'
    BY <1>16 DEF Announce, SavePayload, MoveTo, Leaving
<1>17. ASSUME NEW w \in Slots, Observe(w) PROVE ResultsBehind'
    <2> DEFINE next == [call |-> at[w].call, node |-> "finalize"]
    <2>1. \A b \in Calls : Behind(next, b) => Behind(at[w], b) \/ b = at[w].call
        BY <1>17 DEF Behind, Observe
    <2>2. checkpoint' = next /\ at' = [at EXCEPT ![w] = next]
        BY <1>17 DEF Observe, Reach
    <2> HIDE DEF next
    <2> QED BY <1>17, <2>1, <2>2 DEF Observe, Reach
<1>18. ASSUME NEW w \in Slots, FinalizeNode(w) PROVE ResultsBehind'
    <2>1. at[w].call \in Calls /\ at[w].node = "finalize"
        BY <1>18 DEF FinalizeNode, InNode
    <2>2. PICK p \in {[call |-> at[w].call + 1, node |-> "tool"],
                      [call |-> at[w].call, node |-> "final"]} :
              /\ checkpoint' = p
              /\ at' = [at EXCEPT ![w] = p]
        BY <1>18 DEF FinalizeNode, Reach
    <2>3. ASSUME NEW b \in Calls, Behind(p, b) PROVE Behind(at[w], b)
        <3>1. p.call = at[w].call \/ (p.call = at[w].call + 1 /\ p.node = "tool")
            BY <2>2
        <3>2. b \in Nat /\ at[w].call \in Nat
            BY <2>1
        <3>3. b < at[w].call \/ b = at[w].call
            <4>1. CASE p.call = at[w].call
                BY <2>3, <4>1 DEF Behind
            <4>2. CASE p.call = at[w].call + 1 /\ p.node = "tool"
                <5>1. b < at[w].call + 1
                    BY <2>3, <4>2 DEF Behind
                <5> QED BY <3>2, <5>1
            <4> QED BY <3>1, <4>1, <4>2
        <3> QED BY <2>1, <3>3 DEF Behind
    <2>4. pc'[w] # "observing"
        BY <1>18 DEF FinalizeNode, Reach, Leaving
    <2> QED BY <1>18, <2>2, <2>3, <2>4 DEF FinalizeNode, Reach, InNode
<1>19. ASSUME NEW w \in Slots, Pause(w) PROVE ResultsBehind'
    BY <1>19, NothingBehindStart DEF Pause, EndTask
<1>20. ASSUME NEW w \in Slots, CommitAnswer(w) PROVE ResultsBehind'
    BY <1>20 DEF CommitAnswer, MoveTo, Finish
<1>21. ASSUME NEW w \in Slots, FailRun(w) PROVE ResultsBehind'
    BY <1>21 DEF FailRun, MoveTo, Finish
<1>22. ASSUME NEW w \in Slots, CancelRun(w) PROVE ResultsBehind'
    BY <1>22 DEF CancelRun, MoveTo, Finish
<1>23. ASSUME NEW w \in Slots, AbortAtClaim(w) PROVE ResultsBehind'
    BY <1>23, NothingBehindStart DEF AbortAtClaim, EndTask, Finish
<1>24. ASSUME NEW w \in Slots, StopTools(w) PROVE ResultsBehind'
    BY <1>24, NothingBehindStart DEF StopTools, DeletePayloads, EndTask
<1>25. ASSUME NEW w \in Slots, ObserveCancel(w) PROVE ResultsBehind'
    BY <1>25 DEF ObserveCancel, InGraph
<1>26. ASSUME NEW w \in Slots, LoseClaim(w) PROVE ResultsBehind'
    BY <1>26 DEF LoseClaim, InGraph
<1>27. ASSUME NEW w \in Slots, Heartbeat(w) PROVE ResultsBehind'
    BY <1>27 DEF Heartbeat, InGraph
<1>28. ASSUME NEW w \in Slots, PauseFails(w) PROVE ResultsBehind'
    BY <1>28 DEF PauseFails, MoveTo
<1>29. ASSUME NEW w \in Slots, LoseContact(w) PROVE ResultsBehind'
    BY <1>29 DEF LoseContact, InGraph
<1>30. ASSUME NEW w \in Slots, CrashWhileAsking(w) PROVE ResultsBehind'
    BY <1>30, NothingBehindStart DEF CrashWhileAsking, CreateApproval, Invoking, Settled, Die,
       InNode
<1>31. ASSUME NEW w \in Slots, CrashWhileRecording(w) PROVE ResultsBehind'
    BY <1>31, NothingBehindStart DEF CrashWhileRecording, Die
<1>32. ASSUME NEW c \in Calls, NEW d \in {"approved", "rejected"},
             Decide(c, d)
      PROVE  ResultsBehind'
    BY <1>32 DEF Decide
<1>33. ASSUME NEW c \in Calls, NEW d \in {"approved", "rejected"},
             CrashWhileDeciding(c, d)
      PROVE  ResultsBehind'
    BY <1>33, NothingBehindStart DEF CrashWhileDeciding, Die
<1>34. ASSUME NEW c \in Calls, DecideTooLate(c) PROVE ResultsBehind'
    BY <1>34 DEF DecideTooLate
<1>35. CASE Crash
    BY <1>35, NothingBehindStart DEF Crash, Die
<1>36. CASE ExpireLease
    BY <1>36 DEF ExpireLease, Tended
<1>37. CASE RequestCancel
    BY <1>37 DEF RequestCancel
<1>38. CASE CancelWaiting
    BY <1>38 DEF CancelWaiting, DeletePayloads, Withdrawn
<1>39. CASE CrashWhileCancelling
    BY <1>39, NothingBehindStart DEF CrashWhileCancelling, Die
<1>40. CASE UNCHANGED vars
    BY <1>40
<1> QED BY <1>1, <1>2, <1>3, <1>4, <1>5, <1>6, <1>7, <1>8, <1>9, <1>10, <1>11,
   <1>12, <1>13, <1>14, <1>15, <1>16, <1>17, <1>18, <1>19, <1>20, <1>21,
   <1>22, <1>23, <1>24, <1>25, <1>26, <1>27, <1>28, <1>29, <1>30, <1>31,
   <1>32, <1>33, <1>34, <1>35, <1>36, <1>37, <1>38, <1>39, <1>40
        DEF Next, GraphStep, EndStep, MonitorStep, FaultStep, RouteStep

LEMMA InvAlways == Spec => []Inv
<1>1. Inv /\ [Next]_vars => Inv'
    BY TypeStep, ClearedStep, ResultsStep DEF Inv
<1> QED BY <1>1, InvInit, PTL DEF Spec

\* Type correctness of the tool calls, the stores they use and their tasks.
THEOREM TypeCorrect == Spec => []TypeOK
<1>1. Inv => TypeOK
    BY DEF Inv, TypeInv
<1> QED BY <1>1, InvAlways, PTL

\* ToolGateway.invoke never calls an executor for a blocked tool or without an
\* approval that was approved and still is.
THEOREM NoUnapprovedEffect == Spec => []NothingRunsUnapproved
<1>1. Inv => NothingRunsUnapproved
    BY DEF Inv, ClearedRuns, Cleared, NothingRunsUnapproved
<1> QED BY <1>1, InvAlways, PTL

\* The queue of staged calls is worked through in order by model_finalize and
\* execute_tool, whatever takeovers and resumes happen in between.
THEOREM QueueInOrder == Spec => []CallsRunInOrder
<1>1. Inv => CallsRunInOrder
    BY DEF Inv, ResultsBehind
<1> QED BY <1>1, InvAlways, PTL

\* A task reaches succeed_run only with the result of every call on its way.
THEOREM CompleteAnswers == Spec => []AnswersAreComplete
<1>1. Inv => AnswersAreComplete
    <2> SUFFICES ASSUME Inv, NEW w \in Slots, pc[w] = "committing",
                        NEW c \in 1..at[w].call
                 PROVE  result[c] # "none"
        BY DEF AnswersAreComplete
    <2>1. at[w] \in Position /\ at[w].node = "final"
        BY DEF Inv, TypeInv, TypeOK, TaskInNode
    <2>2. c \in Calls /\ Behind(at[w], c)
        BY <2>1, ToolConstants DEF Position, Calls, Behind
    <2> QED BY <2>2 DEF Inv, ResultsBehind
<1> QED BY <1>1, InvAlways, PTL

-----------------------------------------------------------------------------
(* EffectsBounded.  The calls a task may still make are counted as credits, *)
(* pairs of the task's slot and a number; a run that can be claimed without *)
(* another fault holds the credits of its next task under NoSlot.  A call   *)
(* of the executor spends a credit, a claim and a pause hand all of them    *)
(* over, and only a fault brings new ones.                                  *)

\* An idle slot keeps no cancel token of an earlier task.
IdleClean == \A w \in Slots : pc[w] = "idle" => signal[w] = "none"

\* How often one task may call the executor of c.
Allowance(c) == IF RiskOf[c] = "safe" THEN RetryAttempts + 1 ELSE 1

\* The run goes to another task without any further fault.  A claim that finds
\* a cancel request calls nothing.
UpForClaim ==
    /\ ~cancelRequested
    /\ \/ status \in {"queued", "waiting_approval"}
       \/ status = "running" /\ (lease = "expired" \/ ~Tended)

\* The task of w may call the executor of c another n times.
MayYetCall(w, c, n) ==
    \/ at[w].call = c /\ pc[w] = "starting"
    \/ at[w].call = c /\ pc[w] = "executing" /\ tries[w] + 1 + n <= Allowance(c)
    \/ /\ pc[w] \in {"graph", "announcing", "observing", "pausing"}
                    \cup (IF at[w].call = c THEN {} ELSE {"starting", "executing"})
       /\ result[c] = "none"

CreditsOf(x, c) == {x} \X (1..Allowance(c))

Credits(c) ==
    {x \in (Slots \cup {NoSlot}) \X (1..Allowance(c)) :
        IF x[1] = NoSlot THEN UpForClaim /\ result[c] = "none"
        ELSE MayYetCall(x[1], c, x[2])}

Covered(c) ==
    /\ IsFiniteSet(Credits(c))
    /\ executions[c] + Cardinality(Credits(c)) <= (faults + 1) * Allowance(c)

LEMMA AllowanceType == \A c \in Calls : Allowance(c) \in Nat \ {0}
BY ToolConstants DEF Allowance

LEMMA CreditsOfOne ==
    ASSUME NEW x, NEW c \in Calls
    PROVE  /\ IsFiniteSet(CreditsOf(x, c))
           /\ Cardinality(CreditsOf(x, c)) = Allowance(c)
<1>1. IsFiniteSet({x}) /\ Cardinality({x}) = 1
    BY FS_Singleton
<1>2. /\ IsFiniteSet(1..Allowance(c))
      /\ Cardinality(1..Allowance(c)) = Allowance(c)
    BY AllowanceType, FS_Interval
<1> QED BY <1>1, <1>2, AllowanceType, FS_Product DEF CreditsOf

\* Sets of credits that grow by at most the credits of one task.
LEMMA CreditsGrow ==
    ASSUME NEW c \in Calls, NEW S, IsFiniteSet(S), NEW x, NEW T,
           T \subseteq S \cup CreditsOf(x, c)
    PROVE  /\ IsFiniteSet(T)
           /\ Cardinality(S) \in Nat
           /\ Cardinality(T) \in Nat
           /\ Cardinality(T) <= Cardinality(S) + Allowance(c)
<1>1. /\ IsFiniteSet(CreditsOf(x, c))
      /\ Cardinality(CreditsOf(x, c)) = Allowance(c)
    BY CreditsOfOne
<1>2. /\ IsFiniteSet(S \cup CreditsOf(x, c))
      /\ Cardinality(S \cup CreditsOf(x, c)) =
             Cardinality(S) + Allowance(c) - Cardinality(S \cap CreditsOf(x, c))
    BY <1>1, FS_Union
<1>3. /\ IsFiniteSet(T)
      /\ Cardinality(T) <= Cardinality(S \cup CreditsOf(x, c))
    BY <1>2, FS_Subset
<1>4. IsFiniteSet(S \cap CreditsOf(x, c))
    BY <1>1, FS_Intersection
<1> QED BY <1>2, <1>3, <1>4, FS_CardinalityType, AllowanceType

\* Sets of credits in which one task's credits replace another's.
LEMMA CreditsHandedOver ==
    ASSUME NEW c \in Calls, NEW S, IsFiniteSet(S), NEW x, NEW y,
           CreditsOf(x, c) \subseteq S,
           NEW T, T \subseteq (S \ CreditsOf(x, c)) \cup CreditsOf(y, c)
    PROVE  IsFiniteSet(T) /\ Cardinality(T) <= Cardinality(S)
<1> DEFINE R == S \ CreditsOf(x, c)
<1>1. IsFiniteSet(R) /\ R \subseteq S
    BY FS_Subset
<1>2. Cardinality(R) = Cardinality(S) - Cardinality(S \cap CreditsOf(x, c))
    BY CreditsOfOne, FS_Difference
<1>3. S \cap CreditsOf(x, c) = CreditsOf(x, c)
    OBVIOUS
<1>4. Cardinality(R) = Cardinality(S) - Allowance(c)
    BY <1>2, <1>3, CreditsOfOne
<1>5. /\ IsFiniteSet(T) /\ Cardinality(T) \in Nat /\ Cardinality(R) \in Nat
      /\ Cardinality(T) <= Cardinality(R) + Allowance(c)
    <2> HIDE DEF R
    <2>1. T \subseteq R \cup CreditsOf(y, c)
        BY DEF R
    <2> QED BY <1>1, <2>1, CreditsGrow
<1>6. Cardinality(S) \in Nat
    BY FS_CardinalityType
<1> HIDE DEF R
<1> QED BY <1>4, <1>5, <1>6, AllowanceType

\* A step that makes no call and brings no credit.
LEMMA QuietCredits ==
    ASSUME TypeInv, NEW c \in Calls, Covered(c),
           UNCHANGED faults, executions'[c] = executions[c],
           result'[c] = "none" => result[c] = "none" /\ (UpForClaim' => UpForClaim),
           \A v \in Slots, n \in 1..Allowance(c) :
               MayYetCall(v, c, n)' => MayYetCall(v, c, n)
    PROVE  Covered(c)'
<1>1. Credits(c)' \subseteq Credits(c)
    BY ToolConstants DEF Credits
<1>2. /\ IsFiniteSet(Credits(c)')
      /\ Cardinality(Credits(c)') <= Cardinality(Credits(c))
    BY <1>1, FS_Subset DEF Covered
<1>3. Cardinality(Credits(c)) \in Nat /\ Cardinality(Credits(c)') \in Nat
    BY <1>2, FS_CardinalityType DEF Covered
<1>4. executions[c] \in Nat /\ (faults + 1) * Allowance(c) \in Nat
    BY AllowanceType DEF TypeInv, TypeOK
<1> QED BY <1>2, <1>3, <1>4 DEF Covered

\* A fault, which no call goes with.
LEMMA FaultCredits ==
    ASSUME TypeInv, NEW c \in Calls, Covered(c),
           faults' = faults + 1, executions'[c] = executions[c],
           result'[c] = "none" => result[c] = "none",
           \A v \in Slots, n \in 1..Allowance(c) :
               MayYetCall(v, c, n)' => MayYetCall(v, c, n)
    PROVE  Covered(c)'
<1>1. Credits(c)' \subseteq Credits(c) \cup CreditsOf(NoSlot, c)
    BY ToolConstants DEF Credits, CreditsOf
<1>2. /\ IsFiniteSet(Credits(c)')
      /\ Cardinality(Credits(c)) \in Nat
      /\ Cardinality(Credits(c)') \in Nat
      /\ Cardinality(Credits(c)') <= Cardinality(Credits(c)) + Allowance(c)
    BY <1>1, CreditsGrow DEF Covered
<1>3. /\ executions[c] \in Nat /\ faults \in Nat /\ Allowance(c) \in Nat
      /\ executions[c] + Cardinality(Credits(c)) <= (faults + 1) * Allowance(c)
    BY AllowanceType DEF TypeInv, TypeOK, Covered
<1>4. (faults' + 1) * Allowance(c) = (faults + 1) * Allowance(c) + Allowance(c)
    <2>1. \A f, a \in Nat : (f + 1 + 1) * a = (f + 1) * a + a
        OBVIOUS
    <2> QED BY <1>3, <2>1
<1>5. (faults + 1) * Allowance(c) \in Nat
    BY <1>3
<1> QED BY <1>2, <1>3, <1>4, <1>5 DEF Covered

\* A step that makes no call and hands credits over.
LEMMA CreditsPassOn ==
    ASSUME TypeInv, NEW c \in Calls, Covered(c), NEW x, NEW y,
           UNCHANGED <<faults, executions>>,
           CreditsOf(x, c) \subseteq Credits(c),
           Credits(c)' \subseteq (Credits(c) \ CreditsOf(x, c)) \cup CreditsOf(y, c)
    PROVE  Covered(c)'
<1>1. /\ IsFiniteSet(Credits(c)')
      /\ Cardinality(Credits(c)') <= Cardinality(Credits(c))
    BY CreditsHandedOver DEF Covered
<1>2. Cardinality(Credits(c)) \in Nat /\ Cardinality(Credits(c)') \in Nat
    BY <1>1, FS_CardinalityType DEF Covered
<1>3. executions[c] \in Nat /\ (faults + 1) * Allowance(c) \in Nat
    BY AllowanceType DEF TypeInv, TypeOK
<1> QED BY <1>1, <1>2, <1>3 DEF Covered

\* The steps of a task and its monitors that make no call and bring no credit.
QuietTaskStep(w) ==
    \/ AnswerDirectly(w)
    \/ StageCalls(w)
    \/ NodeRaises(w)
    \/ StopGraph(w)
    \/ ReturnDuplicate(w)
    \/ RefuseTool(w)
    \/ AskApproval(w)
    \/ AwaitApproval(w)
    \/ StartTool(w)
    \/ FinishTool(w)
    \/ ToolRaises(w)
    \/ CancelTool(w)
    \/ Announce(w)
    \/ Observe(w)
    \/ FinalizeNode(w)
    \/ CommitAnswer(w)
    \/ FailRun(w)
    \/ CancelRun(w)
    \/ AbortAtClaim(w)
    \/ StopTools(w)
    \/ ObserveCancel(w)
    \/ LoseClaim(w)
    \/ Heartbeat(w)

LEMMA QuietTaskSteps ==
    ASSUME TypeInv, IdleClean, NEW c \in Calls, Covered(c),
           NEW w \in Slots, QuietTaskStep(w)
    PROVE  Covered(c)'
<1> USE DEF TypeInv, TypeOK, TaskInNode, rowVars, storeVars, taskVars
<1> DEFINE Quiet ==
        /\ UNCHANGED faults /\ executions'[c] = executions[c]
        /\ result'[c] = "none" => result[c] = "none" /\ (UpForClaim' => UpForClaim)
        /\ \A v \in Slots, n \in 1..Allowance(c) :
               MayYetCall(v, c, n)' => MayYetCall(v, c, n)
<1>0. /\ Tended <=> /\ ~cancelRequested
                    /\ holder \in Slots
                    /\ pc[holder] \notin {"idle", "closing"}
                    /\ signal[holder] # "uncertain"
      /\ holder' \in Slots \cup {NoSlot} =>
            (Tended' <=> /\ ~cancelRequested'
                         /\ holder' \in Slots
                         /\ pc'[holder'] \notin {"idle", "closing"}
                         /\ signal'[holder'] # "uncertain")
    BY ToolConstants DEF Tended
<1>1. ASSUME AnswerDirectly(w) PROVE Quiet
    BY <1>0, <1>1, Positions DEF AnswerDirectly, Leaving, Reach, InNode, UpForClaim, MayYetCall
<1>2. ASSUME StageCalls(w) PROVE Quiet
    BY <1>0, <1>2, Positions DEF StageCalls, Reach, InNode, UpForClaim, MayYetCall
<1>3. ASSUME NodeRaises(w) PROVE Quiet
    BY <1>0, <1>3, Positions DEF NodeRaises, MoveTo, Leaving, UpForClaim, MayYetCall
<1>4. ASSUME StopGraph(w) PROVE Quiet
    BY <1>0, <1>4, Positions DEF StopGraph, MoveTo, Leaving, UpForClaim, MayYetCall
<1>5. ASSUME ReturnDuplicate(w) PROVE Quiet
    BY <1>0, <1>5, Positions
        DEF ReturnDuplicate, MoveTo, Invoking, Settled, InNode, UpForClaim, MayYetCall
<1>6. ASSUME RefuseTool(w) PROVE Quiet
    BY <1>0, <1>6, Positions
        DEF RefuseTool, MoveTo, Invoking, Settled, Record, InNode, UpForClaim, MayYetCall
<1>7. ASSUME AskApproval(w) PROVE Quiet
    BY <1>0, <1>7, Positions
        DEF AskApproval, MoveTo, Invoking, Settled, InNode, UpForClaim, MayYetCall
<1>8. ASSUME AwaitApproval(w) PROVE Quiet
    BY <1>0, <1>8, Positions
        DEF AwaitApproval, MoveTo, Invoking, Settled, InNode, UpForClaim, MayYetCall
<1>9. ASSUME StartTool(w) PROVE Quiet
    BY <1>0, <1>9, Positions
        DEF StartTool, MoveTo, Invoking, Settled, InNode, UpForClaim, MayYetCall
<1>10. ASSUME FinishTool(w) PROVE Quiet
    BY <1>0, <1>10, Positions DEF FinishTool, MoveTo, Record, UpForClaim, MayYetCall
<1>11. ASSUME ToolRaises(w) PROVE Quiet
    BY <1>0, <1>11, Positions DEF ToolRaises, MoveTo, Leaving, UpForClaim, MayYetCall
<1>12. ASSUME CancelTool(w) PROVE Quiet
    BY <1>0, <1>12, Positions DEF CancelTool, MoveTo, Leaving, Record, UpForClaim, MayYetCall
<1>13. ASSUME Announce(w) PROVE Quiet
    BY <1>0, <1>13, Positions DEF Announce, MoveTo, Leaving, UpForClaim, MayYetCall
<1>14. ASSUME Observe(w) PROVE Quiet
    BY <1>0, <1>14, Positions DEF Observe, Reach, UpForClaim, MayYetCall
<1>15. ASSUME FinalizeNode(w) PROVE Quiet
    BY <1>0, <1>15, Positions DEF FinalizeNode, Reach, Leaving, InNode, UpForClaim, MayYetCall
<1>16. ASSUME CommitAnswer(w) PROVE Quiet
    BY <1>0, <1>16, Positions DEF CommitAnswer, MoveTo, Finish, UpForClaim, MayYetCall
<1>17. ASSUME FailRun(w) PROVE Quiet
    BY <1>0, <1>17, Positions DEF FailRun, MoveTo, Finish, UpForClaim, MayYetCall
<1>18. ASSUME CancelRun(w) PROVE Quiet
    BY <1>0, <1>18, Positions DEF CancelRun, MoveTo, Finish, UpForClaim, MayYetCall
<1>19. ASSUME AbortAtClaim(w) PROVE Quiet
    BY <1>0, <1>19, Positions DEF AbortAtClaim, EndTask, Finish, UpForClaim, MayYetCall
<1>20. ASSUME StopTools(w) PROVE Quiet
    BY <1>0, <1>20, Positions DEF StopTools, EndTask, UpForClaim, MayYetCall
<1>21. ASSUME ObserveCancel(w) PROVE Quiet
    BY <1>0, <1>21, Positions DEF ObserveCancel, InGraph, UpForClaim, MayYetCall
<1>22. ASSUME LoseClaim(w) PROVE Quiet
    BY <1>0, <1>22, Positions DEF LoseClaim, InGraph, UpForClaim, MayYetCall
<1>23. ASSUME Heartbeat(w) PROVE Quiet
    BY <1>0, <1>23, Positions DEF Heartbeat, InGraph, UpForClaim, MayYetCall
<1>24. Quiet
    BY <1>1, <1>2, <1>3, <1>4, <1>5, <1>6, <1>7, <1>8, <1>9, <1>10, <1>11, <1>12,
       <1>13, <1>14, <1>15, <1>16, <1>17, <1>18, <1>19, <1>20, <1>21, <1>22, <1>23
    DEF QuietTaskStep
<1> QED BY <1>24, QuietCredits

\* A claim takes over the credits of the run.
LEMMA ClaimCredits ==
    ASSUME TypeInv, IdleClean, NEW c \in Calls, Covered(c),
           NEW w \in Slots, Claim(w)
    PROVE  Covered(c)'
<1> USE DEF TypeInv, TypeOK, rowVars, storeVars, taskVars
<1>1. /\ UNCHANGED <<faults, executions, result, signal, tries, cancelRequested>>
      /\ status' = "running" /\ holder' = w /\ lease' = "live"
      /\ pc' = [pc EXCEPT ![w] = pc'[w]]
      /\ pc'[w] \in {"aborting", "committing", "graph"}
      /\ signal[w] = "none" /\ pc[w] = "idle"
      /\ at' = [at EXCEPT ![w] = checkpoint]
    BY DEF Claim, IdleClean
<1>2. ASSUME ~cancelRequested PROVE UpForClaim /\ ~UpForClaim'
    <2>1. Tended'
        BY <1>1, <1>2 DEF Tended
    <2> QED BY <1>1, <1>2, <2>1 DEF Claim, UpForClaim
<1>3. \A v \in Slots, n \in 1..Allowance(c) :
          /\ v # w => (MayYetCall(v, c, n)' => MayYetCall(v, c, n))
          /\ MayYetCall(w, c, n)' => result[c] = "none"
    BY <1>1 DEF MayYetCall
<1>4. CASE cancelRequested
    <2>1. ~UpForClaim'
        BY <1>1, <1>4 DEF UpForClaim
    <2>2. pc'[w] = "aborting"
        BY <1>1, <1>4 DEF Claim
    <2>3. \A n \in 1..Allowance(c) : ~MayYetCall(w, c, n)'
        BY <2>2 DEF MayYetCall
    <2> QED BY <1>1, <1>3, <2>1, <2>3, QuietCredits
<1>5. CASE result[c] # "none"
    BY <1>1, <1>3, <1>5, QuietCredits
<1>6. CASE result[c] = "none" /\ ~cancelRequested
    <2>1. CreditsOf(NoSlot, c) \subseteq Credits(c)
        BY <1>2, <1>6 DEF Credits, CreditsOf
    <2>2. Credits(c)' \subseteq
              (Credits(c) \ CreditsOf(NoSlot, c)) \cup CreditsOf(w, c)
        BY <1>2, <1>3, <1>6, ToolConstants DEF Credits, CreditsOf
    <2> QED BY <1>1, <2>1, <2>2, CreditsPassOn
<1> QED BY <1>4, <1>5, <1>6

\* A pause hands the credits of its task to the run, which waits for them.
LEMMA PauseCredits ==
    ASSUME TypeInv, NEW c \in Calls, Covered(c), NEW w \in Slots, Pause(w)
    PROVE  Covered(c)'
<1> USE DEF TypeInv, TypeOK, storeVars
<1>1. /\ UNCHANGED <<faults, executions, result, lease, cancelRequested>>
      /\ pc[w] = "pausing"
      /\ pc' = [pc EXCEPT ![w] = "idle"]
      /\ at' = [at EXCEPT ![w] = Start]
      /\ signal' = [signal EXCEPT ![w] = "none"]
      /\ tries' = [tries EXCEPT ![w] = 0]
    BY DEF Pause, EndTask
<1>2. \A v \in Slots, n \in 1..Allowance(c) :
          /\ MayYetCall(v, c, n)' => MayYetCall(v, c, n)
          /\ ~MayYetCall(w, c, n)'
          /\ result[c] = "none" => MayYetCall(w, c, n)
    BY <1>1 DEF MayYetCall
<1>3. CASE holder # w
    <2>1. UNCHANGED <<status, holder>>
        BY <1>3 DEF Pause
    <2>2. Tended => Tended'
        BY <1>1, <1>3, <2>1 DEF Tended
    <2>3. UpForClaim' => UpForClaim
        BY <1>1, <2>1, <2>2 DEF UpForClaim
    <2> QED BY <1>1, <1>2, <2>3, QuietCredits
<1>4. CASE result[c] # "none"
    BY <1>1, <1>2, <1>4, QuietCredits
<1>5. CASE result[c] = "none"
    <2>1. CreditsOf(w, c) \subseteq Credits(c)
        BY <1>2, <1>5, ToolConstants DEF Credits, CreditsOf
    <2>2. Credits(c)' \subseteq
              (Credits(c) \ CreditsOf(w, c)) \cup CreditsOf(NoSlot, c)
        BY <1>2, ToolConstants DEF Credits, CreditsOf
    <2> QED BY <1>1, <2>1, <2>2, CreditsPassOn
<1> QED BY <1>3, <1>4, <1>5

\* A call of the executor spends a credit of its task.
LEMMA CallCredits ==
    ASSUME TypeInv, NEW c \in Calls, Covered(c),
           NEW w \in Slots, CallExecutor(w) \/ RetryTool(w)
    PROVE  Covered(c)'
<1> USE DEF TypeInv, TypeOK, TaskInNode, rowVars, storeVars
<1>1. /\ UNCHANGED <<faults, result, status, holder, lease, cancelRequested, signal, at>>
      /\ pc' = [pc EXCEPT ![w] = "executing"]
      /\ at[w].call \in Calls
      /\ executions' = [executions EXCEPT ![at[w].call] = executions[at[w].call] + 1]
      /\ pc[w] \in {"starting", "executing"}
    BY Positions DEF CallExecutor, RetryTool
<1>2. UpForClaim' => UpForClaim
    <2>1. Tended => Tended'
        BY <1>1 DEF Tended
    <2> QED BY <1>1, <2>1 DEF UpForClaim
<1>3. CASE at[w].call # c
    <2>1. \A v \in Slots, n \in 1..Allowance(c) :
              MayYetCall(v, c, n)' => MayYetCall(v, c, n)
        BY <1>1, <1>3 DEF MayYetCall, CallExecutor, RetryTool
    <2> QED BY <1>1, <1>2, <1>3, <2>1, QuietCredits
<1>4. CASE at[w].call = c
    <2>1. PICK n \in 1..Allowance(c) :
              /\ MayYetCall(w, c, n)
              /\ ~MayYetCall(w, c, n)'
              /\ \A m \in 1..Allowance(c) :
                     MayYetCall(w, c, m)' => MayYetCall(w, c, m)
        <3>1. CASE CallExecutor(w)
            <4>1. Allowance(c) \in 1..Allowance(c)
                BY AllowanceType
            <4>2. /\ \A m \in 1..Allowance(c) : MayYetCall(w, c, m)
                  /\ ~MayYetCall(w, c, Allowance(c))'
                BY <1>1, <1>4, <3>1, AllowanceType DEF CallExecutor, MayYetCall
            <4> QED BY <4>1, <4>2
        <3>2. CASE RetryTool(w)
            <4>1. /\ RiskOf[c] = "safe" /\ tries[w] < RetryAttempts
                  /\ tries'[w] = tries[w] + 1
                  /\ pc[w] = "executing"
                BY <1>4, <3>2 DEF RetryTool, MayRetry
            <4>2. /\ Allowance(c) = RetryAttempts + 1
                  /\ RetryAttempts - tries[w] \in 1..Allowance(c)
                BY <4>1, ToolConstants DEF Allowance
            <4>3. \A m \in 1..Allowance(c) :
                      /\ MayYetCall(w, c, m) <=> tries[w] + 1 + m <= Allowance(c)
                      /\ MayYetCall(w, c, m)' <=> tries[w] + 2 + m <= Allowance(c)
                BY <1>1, <1>4, <4>1, <4>2, ToolConstants DEF MayYetCall
            <4>4. PICK n \in 1..Allowance(c) : n = RetryAttempts - tries[w]
                BY <4>2
            <4>5. /\ tries[w] \in Nat /\ n \in Nat /\ RetryAttempts \in Nat
                  /\ tries[w] + 1 + n <= Allowance(c)
                  /\ ~(tries[w] + 2 + n <= Allowance(c))
                BY <4>2, <4>4, ToolConstants
            <4>6. MayYetCall(w, c, n) /\ ~MayYetCall(w, c, n)'
                BY <4>3, <4>5
            <4>7. \A m \in 1..Allowance(c) :
                      tries[w] + 2 + m <= Allowance(c) => tries[w] + 1 + m <= Allowance(c)
                BY <4>2, <4>5
            <4> QED BY <4>3, <4>6, <4>7
        <3> QED BY <3>1, <3>2
    <2>2. \A v \in Slots, m \in 1..Allowance(c) :
              v # w => (MayYetCall(v, c, m)' => MayYetCall(v, c, m))
        BY <1>1 DEF MayYetCall, CallExecutor, RetryTool
    <2>3. <<w, n>> \in Credits(c)
        BY <2>1, ToolConstants DEF Credits
    <2>4. Credits(c)' \subseteq Credits(c) \ {<<w, n>>}
        BY <1>1, <1>2, <2>1, <2>2, ToolConstants DEF Credits
    <2>5. /\ IsFiniteSet(Credits(c) \ {<<w, n>>})
          /\ Cardinality(Credits(c) \ {<<w, n>>}) = Cardinality(Credits(c)) - 1
        BY <2>3, FS_RemoveElement DEF Covered
    <2>6. /\ IsFiniteSet(Credits(c)')
          /\ Cardinality(Credits(c)') <= Cardinality(Credits(c)) - 1
        BY <2>4, <2>5, FS_Subset
    <2>7. /\ Cardinality(Credits(c)) \in Nat
          /\ Cardinality(Credits(c)') \in Nat
        BY <2>6, FS_CardinalityType DEF Covered
    <2>8. executions'[c] = executions[c] + 1 /\ executions[c] \in Nat
        BY <1>1, <1>4
    <2>9. (faults + 1) * Allowance(c) \in Nat
        BY AllowanceType
    <2> QED BY <1>1, <2>6, <2>7, <2>8, <2>9 DEF Covered
<1> QED BY <1>3, <1>4

\* A fault may leave a run whose task it ended to another task.
LEMMA FaultsCover ==
    ASSUME TypeInv, NEW c \in Calls, Covered(c),
           \/ FaultStep /\ faults' = faults + 1
           \/ \E d \in Calls, s \in {"approved", "rejected"} : CrashWhileDeciding(d, s)
           \/ CrashWhileCancelling
    PROVE  Covered(c)'
<1> USE DEF TypeInv, TypeOK, TaskInNode, rowVars, storeVars, taskVars
<1> DEFINE Fault ==
        /\ faults' = faults + 1 /\ executions'[c] = executions[c]
        /\ result'[c] = "none" => result[c] = "none"
        /\ \A v \in Slots, n \in 1..Allowance(c) :
               MayYetCall(v, c, n)' => MayYetCall(v, c, n)
<1>1. ASSUME Die, UNCHANGED <<executions, result>> PROVE Fault
    BY <1>1 DEF Die, MayYetCall
<1>2. Crash => Fault
    BY <1>1 DEF Crash
<1>3. ExpireLease /\ faults' = faults + 1 => Fault
    BY DEF ExpireLease, MayYetCall
<1>4. ASSUME NEW w \in Slots, PauseFails(w) PROVE Fault
    BY <1>4 DEF PauseFails, MoveTo, MayYetCall
<1>5. ASSUME NEW w \in Slots, LoseContact(w) PROVE Fault
    BY <1>5 DEF LoseContact, InGraph, MayYetCall
<1>6. ASSUME NEW w \in Slots, CrashWhileAsking(w) \/ CrashWhileRecording(w)
      PROVE  Fault
    BY <1>1, <1>6 DEF CrashWhileAsking, CrashWhileRecording
<1>7. ASSUME NEW d \in Calls, NEW s \in {"approved", "rejected"},
             CrashWhileDeciding(d, s)
      PROVE  Fault
    BY <1>1, <1>7 DEF CrashWhileDeciding
<1>8. CrashWhileCancelling => Fault
    BY <1>1 DEF CrashWhileCancelling
<1>9. Fault
    BY <1>2, <1>3, <1>4, <1>5, <1>6, <1>7, <1>8 DEF FaultStep
<1> QED BY <1>9, FaultCredits

\* Everything else: a lease nobody renewed, and the routes.
LEMMA RoutesCover ==
    ASSUME TypeInv, NEW c \in Calls, Covered(c),
           \/ ExpireLease /\ UNCHANGED faults /\ ~Tended
           \/ \E d \in Calls, s \in {"approved", "rejected"} : Decide(d, s)
           \/ \E d \in Calls : DecideTooLate(d)
           \/ RequestCancel
           \/ CancelWaiting
           \/ UNCHANGED vars
    PROVE  Covered(c)'
<1> USE DEF TypeInv, TypeOK, rowVars, storeVars, taskVars, vars
<1>1. /\ UNCHANGED <<faults, executions, result, pc, at, tries, signal, holder>>
      /\ cancelRequested' = FALSE => cancelRequested = FALSE
      /\ \/ UNCHANGED <<status, lease>>
         \/ status = "running" /\ ~Tended /\ UNCHANGED status
         \/ status = "waiting_approval" /\ status' \in {"queued", "cancelled"}
    BY DEF ExpireLease, Decide, DecideTooLate, RequestCancel, CancelWaiting
<1>2. \A v \in Slots, n \in 1..Allowance(c) :
          MayYetCall(v, c, n)' => MayYetCall(v, c, n)
    BY <1>1 DEF MayYetCall
<1>3. cancelRequested' = FALSE => (Tended' <=> Tended)
    BY <1>1 DEF Tended
<1>4. UpForClaim' => UpForClaim
    BY <1>1, <1>3 DEF UpForClaim
<1> QED BY <1>1, <1>2, <1>4, QuietCredits

LEMMA IdleStaysClean == TypeInv /\ IdleClean /\ [Next]_vars => IdleClean'
<1> SUFFICES ASSUME TypeInv, IdleClean, [Next]_vars PROVE IdleClean'
    OBVIOUS
<1> USE DEF TypeInv, TypeOK, IdleClean, taskVars
<1>1. ASSUME NEW w \in Slots, Claim(w) \/ GraphStep(w) PROVE IdleClean'
    BY <1>1 DEF Claim, GraphStep, AnswerDirectly, StageCalls, NodeRaises, StopGraph,
       ReturnDuplicate, RefuseTool, AskApproval, AwaitApproval, StartTool,
       CallExecutor, RetryTool, FinishTool, ToolRaises, CancelTool, Announce,
       Observe, FinalizeNode, MoveTo, Reach, Leaving
<1>2. ASSUME NEW w \in Slots, EndStep(w) PROVE IdleClean'
    BY <1>2 DEF EndStep, Pause, CommitAnswer, FailRun, CancelRun, AbortAtClaim,
       StopTools, MoveTo, EndTask
<1>3. ASSUME NEW w \in Slots, MonitorStep(w) PROVE IdleClean'
    BY <1>3 DEF MonitorStep, ObserveCancel, LoseClaim, Heartbeat, InGraph
<1>4. FaultStep => IdleClean'
    BY DEF FaultStep, Crash, ExpireLease, PauseFails, LoseContact, CrashWhileAsking,
       CrashWhileRecording, Die, MoveTo, InGraph
<1>5. RouteStep => IdleClean'
    BY DEF RouteStep, Decide, CrashWhileDeciding, DecideTooLate, RequestCancel,
       CancelWaiting, CrashWhileCancelling, Die
<1>6. UNCHANGED vars => IdleClean'
    BY DEF vars
<1> QED BY <1>1, <1>2, <1>3, <1>4, <1>5, <1>6 DEF Next

LEMMA CoveredInit == Init => IdleClean /\ \A c \in Calls : Covered(c)
<1> SUFFICES ASSUME Init, NEW c \in Calls PROVE IdleClean /\ Covered(c)
    BY DEF Init, IdleClean
<1>1. IdleClean
    BY DEF Init, IdleClean
<1>2. Credits(c) \subseteq CreditsOf(NoSlot, c)
    BY ToolConstants DEF Init, Credits, CreditsOf, MayYetCall
<1>3. IsFiniteSet(Credits(c)) /\ Cardinality(Credits(c)) <= Allowance(c)
    BY <1>2, CreditsOfOne, FS_Subset
<1>4. Cardinality(Credits(c)) \in Nat /\ Allowance(c) \in Nat
    BY <1>3, FS_CardinalityType, AllowanceType
<1>5. executions[c] = 0 /\ faults = 0
    BY DEF Init
<1> QED BY <1>1, <1>3, <1>4, <1>5 DEF Covered

LEMMA CoveredStep ==
    ASSUME TypeInv, IdleClean, [Next]_vars, NEW c \in Calls, Covered(c)
    PROVE  Covered(c)'
<1>1. ASSUME NEW w \in Slots, GraphStep(w) \/ EndStep(w) \/ MonitorStep(w)
      PROVE  \/ QuietTaskStep(w) \/ CallExecutor(w) \/ RetryTool(w) \/ Pause(w)
    BY <1>1 DEF GraphStep, EndStep, MonitorStep, QuietTaskStep
<1>2. FaultStep => \/ faults' = faults + 1
                   \/ ExpireLease /\ UNCHANGED faults /\ ~Tended
    BY DEF FaultStep, Crash, ExpireLease, PauseFails, LoseContact, CrashWhileAsking,
       CrashWhileRecording, Die
<1>3. FaultStep => Covered(c)'
    BY <1>2, FaultsCover, RoutesCover
<1>4. RouteStep => Covered(c)'
    BY FaultsCover, RoutesCover DEF RouteStep
<1>5. UNCHANGED vars => Covered(c)'
    BY RoutesCover
<1> QED BY <1>1, <1>3, <1>4, <1>5, ClaimCredits, CallCredits, PauseCredits,
           QuietTaskSteps DEF Next

\* A call reaches its executor more often than its retries allow only by as much
\* as the process failed: ToolGateway repeats nothing that has a result, and a
\* claim is lost only to a fault.
THEOREM BoundedEffects == Spec => []EffectsBounded
<1> DEFINE CInv == TypeInv /\ IdleClean /\ \A c \in Calls : Covered(c)
<1>1. Init => CInv
    BY TypeInit, CoveredInit
<1>2. CInv /\ [Next]_vars => CInv'
    BY TypeStep, IdleStaysClean, CoveredStep
<1>3. CInv => EffectsBounded
    <2> SUFFICES ASSUME CInv, NEW c \in Calls
                 PROVE  executions[c] <= (faults + 1) * Allowance(c)
        BY DEF EffectsBounded, Allowance
    <2>1. Covered(c) /\ executions[c] \in Nat /\ (faults + 1) * Allowance(c) \in Nat
        BY AllowanceType DEF TypeInv, TypeOK
    <2>2. Cardinality(Credits(c)) \in Nat
        BY <2>1, FS_CardinalityType DEF Covered
    <2> QED BY <2>1, <2>2 DEF Covered
<1> QED BY <1>1, <1>2, <1>3, PTL DEF Spec

-----------------------------------------------------------------------------
(***************************************************************************)
(* Mcp.                                                                    *)
(***************************************************************************)

(* The inductive invariant.                                                *)

ChangeLabels == {"load1", "load2", "save", "invalidate", "refresh", "remove", "clear",
                 "register"}

ConnectionLabels == {"build", "start", "initialize", "draining", "use", "stopping",
                     "terminating", "cleanup", "stopped"}

Labels == {"idle"} \cup ChangeLabels \cup ConnectionLabels

Operations ==
    {o \in [kind : {"upsert", "delete", "discover", "call"}, server : Servers,
            config : McpServerConfig \cup {NoOp}] :
        o.kind # "delete" => o.config \in McpServerConfig}

\* What McpTypeOK leaves out, and where an operation can stand.
WorkersOK ==
    /\ place \in [Workers -> Labels]
    /\ op \in [Workers -> Operations \cup {NoOp}]
    /\ DOMAIN seen = Workers
    /\ DOMAIN proc = Tasks /\ DOMAIN dir = Tasks /\ DOMAIN cut = Tasks
    /\ \A w \in Workers :
           /\ place[w] = "idle" <=> op[w] = NoOp
           /\ place[w] \in ConnectionLabels =>
                   w \in Tasks /\ op[w].kind \in {"discover", "call"}
           /\ place[w] \in ChangeLabels => Changes(w)
           /\ place[w] \in {"load1", "load2"} => op[w].kind # "delete"
           /\ place[w] = "load2" => op[w].server \in DOMAIN seen[w]

\* A child process or a directory is there only while its client is in use or being
\* stopped, and a client is cleaned up after its child has ended.
ConnectionOK(k) ==
    ~cut[k] =>
        /\ proc[k] # "none" \/ dir[k] =>
               /\ place[k] \in {"initialize", "draining", "use", "stopping", "terminating",
                             "cleanup"}
               /\ Stdio(k)
        /\ place[k] = "cleanup" => proc[k] # "running"

\* The servers in the hands of a worker are what it has saved, or what it loaded
\* before a discovery.
Holds(w) ==
    \/ place[w] \in ConnectionLabels \cup {"refresh", "clear", "register"}
    \/ place[w] = "invalidate" /\ op[w].kind = "upsert"

\* A change that overlaps with no other one publishes what is in the file.
LoneOK(w) ==
    lone[w] =>
        /\ \A x \in Workers \ {w} : ~Changes(x)
        /\ Changes(w) /\ Holds(w) => seen[w] = file
        /\ place[w] \in {"clear", "register"} => available \subseteq Enabled(file)
        /\ place[w] = "register" => catalog = {}

RepairedOK == repaired => \A w \in Workers : ~Changes(w)

McpInv ==
    /\ McpTypeOK
    /\ WorkersOK
    /\ \A k \in Tasks : ConnectionOK(k)
    /\ \A w \in Workers : LoneOK(w)
    /\ RepairedOK
    /\ LoneChangeRepairs

USE DEF ChangeLabels, ConnectionLabels, Labels, NoOp

LEMMA NoServersConfigured == Configured(NoServers)
BY DEF Configured, NoServers

LEMMA OperationFields ==
    ASSUME NEW o \in Operations \cup {NoOp}
    PROVE  /\ o # NoOp => o \in Operations /\ o.server \in Servers
           /\ o \in Operations /\ o.kind # "delete" => o.config \in McpServerConfig
           /\ o.kind \in {"upsert", "delete", "discover", "call"} <=> o # NoOp
           /\ NoOp.kind = "none"
BY DEF Operations

LEMMA Initially == McpInit => McpInv
<1> SUFFICES ASSUME McpInit PROVE McpInv
    OBVIOUS
<1> USE DEF McpInit
<1>1. McpTypeOK
    BY NoServersConfigured, OpsAreBounded DEF McpTypeOK
<1>2. WorkersOK
    BY DEF WorkersOK, Changes
<1>3. \A k \in Tasks : ConnectionOK(k)
    BY DEF ConnectionOK, Workers
<1>4. (\A w \in Workers : LoneOK(w)) /\ RepairedOK /\ LoneChangeRepairs
    BY DEF LoneOK, RepairedOK, LoneChangeRepairs
<1> QED BY <1>1, <1>2, <1>3, <1>4 DEF McpInv

-----------------------------------------------------------------------------
(* The shape of a step.                                                    *)

\* Only w moves.
Others(w) ==
    /\ \A x \in Workers \ {w} :
                  place'[x] = place[x] /\ op'[x] = op[x] /\ seen'[x] = seen[x]
    /\ \A k \in Tasks \ {w} : proc'[k] = proc[k] /\ dir'[k] = dir[k] /\ cut'[k] = cut[k]

\* w goes on at a label.
Goes(w, label) ==
    /\ place' = [place EXCEPT ![w] = label] /\ UNCHANGED <<op, seen>>

\* Its request ends.
Ends(w) ==
    /\ place' = [place EXCEPT ![w] = "idle"]
    /\ op' = [op EXCEPT ![w] = NoOp]
    /\ seen' = [seen EXCEPT ![w] = NoServers]

\* A step that neither changes nor publishes the servers.
Quiet(w) ==
    /\ Others(w)
    /\ UNCHANGED <<file, available, catalog, lone, repaired>>
    /\ Changes(w)' => Changes(w)
    /\ Changes(w)' /\ Holds(w)' => Holds(w) /\ seen'[w] = seen[w]
    /\ place'[w] \in {"clear", "register"} => place'[w] = place[w]

Domains == DOMAIN proc' = Tasks /\ DOMAIN dir' = Tasks /\ DOMAIN cut' = Tasks

LEMMA GoingOn ==
    ASSUME WorkersOK, NEW w \in Workers, NEW label \in Labels \ {"idle", "load2"},
           Goes(w, label),
           label \in ConnectionLabels => w \in Tasks /\ op[w].kind \in {"discover", "call"},
           label \in ChangeLabels => Changes(w),
           label = "load1" => op[w].kind # "delete",
           Domains
    PROVE  /\ WorkersOK' /\ place'[w] = label
           /\ \A x \in Workers \ {w} :
                  place'[x] = place[x] /\ op'[x] = op[x] /\ seen'[x] = seen[x]
<1>1. op[w] # NoOp
    BY DEF Changes
<1>2. /\ place' \in [Workers -> Labels]
      /\ \A x \in Workers : place'[x] = IF x = w THEN label ELSE place[x]
    BY DEF WorkersOK, Goes
<1>3. UNCHANGED <<op, seen>> /\ \A x \in Workers : Changes(x)' = Changes(x)
    BY DEF Goes, Changes
<1> QED BY <1>1, <1>2, <1>3 DEF WorkersOK, Domains

LEMMA Ending ==
    ASSUME WorkersOK, NEW w \in Workers, Ends(w), Domains
    PROVE  /\ WorkersOK' /\ place'[w] = "idle" /\ op'[w] = NoOp /\ seen'[w] = NoServers
           /\ \A x \in Workers \ {w} :
                  place'[x] = place[x] /\ op'[x] = op[x] /\ seen'[x] = seen[x]
<1>1. /\ place' \in [Workers -> Labels]
      /\ \A x \in Workers : place'[x] = IF x = w THEN "idle" ELSE place[x]
    BY DEF WorkersOK, Ends
<1>2. /\ op' \in [Workers -> Operations \cup {NoOp}]
      /\ \A x \in Workers : op'[x] = IF x = w THEN NoOp ELSE op[x]
    BY DEF WorkersOK, Ends
<1>3. /\ DOMAIN seen' = Workers
      /\ \A x \in Workers : seen'[x] = IF x = w THEN NoServers ELSE seen[x]
    BY DEF WorkersOK, Ends
<1>4. \A x \in Workers \ {w} : Changes(x)' = Changes(x)
    BY <1>2 DEF Changes
<1> HIDE DEF NoOp
<1> QED BY <1>1, <1>2, <1>3, <1>4 DEF WorkersOK, Domains

\* A quiet step keeps the invariant if it keeps that of its own connection.
LEMMA QuietKeepsInv ==
    ASSUME McpInv, NEW w \in Workers, Quiet(w), WorkersOK', McpTypeOK',
           w \in Tasks => ConnectionOK(w)'
    PROVE  McpInv'
<1>1. \A k \in Tasks : ConnectionOK(k)'
    <2> SUFFICES ASSUME NEW k \in Tasks, k # w PROVE ConnectionOK(k)'
        OBVIOUS
    <2>1. k \in Workers
        BY DEF Workers
    <2> QED BY <2>1 DEF McpInv, ConnectionOK, Quiet, Others, Stdio
<1>2. \A x \in Workers : Changes(x)' => Changes(x)
    BY DEF Quiet, Others, Changes
<1>3. ASSUME NEW x \in Workers PROVE LoneOK(x)'
    <2>1. CASE x = w
        BY <1>2, <2>1 DEF McpInv, LoneOK, Quiet
    <2>2. CASE x # w
        BY <1>2, <2>2 DEF McpInv, LoneOK, Quiet, Others, Holds, Changes
    <2> QED BY <2>1, <2>2
<1>4. RepairedOK'
    BY <1>2 DEF McpInv, RepairedOK, Quiet
<1>5. LoneChangeRepairs'
    BY DEF McpInv, LoneChangeRepairs, Quiet, Enabled, Descriptors
<1> QED BY <1>1, <1>3, <1>4, <1>5 DEF McpInv

-----------------------------------------------------------------------------
(* Connections.                                                            *)

\* Nothing but the ready servers and the discoveries changes.
LEMMA TypesKept ==
    ASSUME McpInv, WorkersOK', NEW w \in Workers, Quiet(w), UNCHANGED ops, Configured(seen[w])',
           \/ ready' \in {ready, ready \cup {op[w].server}, ready \ {op[w].server}}
           \/ ready' \subseteq ready,
           \/ cache' \in {cache, cache \cup {op[w].server}, cache \ {op[w].server}}
           \/ cache' \subseteq cache,
           place[w] # "idle" \/ UNCHANGED <<ready, cache>>,
           \A k \in Tasks : proc'[k] \in {"none", "running", "gone"}
    PROVE  McpTypeOK'
<1>1. place[w] # "idle" => op[w].server \in Servers
    BY OperationFields DEF McpInv, WorkersOK
<1>2. ready' \in SUBSET Servers /\ cache' \in SUBSET Servers
    BY <1>1 DEF McpInv, McpTypeOK
<1>3. \A x \in Workers : Configured(seen[x])'
    <2> SUFFICES ASSUME NEW x \in Workers, x # w PROVE Configured(seen[x])'
        OBVIOUS
    <2> QED BY DEF McpInv, McpTypeOK, Quiet, Others, Configured
<1>4. Configured(file)' /\ available' \in SUBSET Servers /\ ops' \in 0..MaxOps
    BY DEF McpInv, McpTypeOK, Quiet, Configured
<1> QED BY <1>2, <1>3, <1>4 DEF McpTypeOK

\* What a step of the connection of k leaves alone, and the sets it may change.
Connection(k) ==
    /\ UNCHANGED <<file, available, catalog, lone, repaired, ops>>
    /\ \A j \in Tasks \ {k} : proc'[j] = proc[j] /\ dir'[j] = dir[j] /\ cut'[j] = cut[j]
    /\ Domains
    /\ proc'[k] \in {"none", "running", "gone"}
    /\ ready' \in {ready, ready \cup {op[k].server}, ready \ {op[k].server}}
    /\ cache' \in {cache, cache \cup {op[k].server}, cache \ {op[k].server}}

LEMMA ConnectionGoes ==
    ASSUME McpInv, NEW k \in Tasks, place[k] \in ConnectionLabels, Connection(k),
           NEW label \in ConnectionLabels \cup {"refresh", "load1"}, Goes(k, label),
           label \notin ConnectionLabels => op[k].kind = "discover",
           ConnectionOK(k)'
    PROVE  McpInv'
<1>1. k \in Workers
    BY DEF Workers
<1>2. op[k].kind \in {"discover", "call"} /\ op[k] # NoOp
    BY <1>1, OperationFields DEF McpInv, WorkersOK
<1>3. /\ WorkersOK' /\ place'[k] = label
      /\ \A x \in Workers \ {k} : place'[x] = place[x] /\ op'[x] = op[x] /\ seen'[x] = seen[x]
    BY <1>1, <1>2, GoingOn DEF McpInv, Changes, Connection
<1>4. op'[k] = op[k] /\ seen'[k] = seen[k]
    BY DEF Goes
<1>5. Quiet(k)
    BY <1>2, <1>3, <1>4 DEF Quiet, Others, Connection, Changes, Holds
<1>6. Configured(seen[k])'
    BY <1>1, <1>4 DEF McpInv, McpTypeOK, Configured
<1>7. \A j \in Tasks : proc'[j] \in {"none", "running", "gone"}
    BY DEF McpInv, McpTypeOK, Connection
<1>8. McpTypeOK'
    BY <1>1, <1>3, <1>5, <1>6, <1>7, TypesKept DEF Connection
<1> QED BY <1>1, <1>3, <1>5, <1>8, QuietKeepsInv

LEMMA ConnectionEnds ==
    ASSUME McpInv, NEW k \in Tasks, place[k] \in ConnectionLabels, Connection(k), Ends(k),
           ConnectionOK(k)'
    PROVE  McpInv'
<1>1. k \in Workers
    BY DEF Workers
<1>2. /\ WorkersOK' /\ place'[k] = "idle" /\ op'[k] = NoOp /\ seen'[k] = NoServers
      /\ \A x \in Workers \ {k} : place'[x] = place[x] /\ op'[x] = op[x] /\ seen'[x] = seen[x]
    BY <1>1, Ending DEF McpInv, Connection
<1>3. Quiet(k)
    BY <1>2 DEF Quiet, Others, Connection, Changes, Holds
<1>4. Configured(seen[k])'
    BY <1>2, NoServersConfigured DEF Configured
<1>5. \A j \in Tasks : proc'[j] \in {"none", "running", "gone"}
    BY DEF McpInv, McpTypeOK, Connection
<1>6. McpTypeOK'
    BY <1>1, <1>2, <1>3, <1>4, <1>5, TypesKept DEF Connection
<1> QED BY <1>1, <1>2, <1>3, <1>6, QuietKeepsInv

\* The types of a task's connection.
LEMMA ConnectionTypes ==
    ASSUME McpInv, NEW k \in Tasks
    PROVE  /\ k \in Workers /\ ConnectionOK(k)
           /\ DOMAIN proc = Tasks /\ DOMAIN dir = Tasks /\ DOMAIN cut = Tasks
           /\ proc[k] \in {"none", "running", "gone"}
           /\ place[k] \in ConnectionLabels => op[k].kind \in {"discover", "call"}
           /\ place[k] \notin ConnectionLabels /\ ~cut[k] => proc[k] = "none" /\ ~dir[k]
BY DEF McpInv, Workers, WorkersOK, ConnectionOK, McpTypeOK

LEMMA ConnectionStepKeepsInv ==
    ASSUME McpInv, NEW k \in Tasks,
           \/ ConnectionStep(k) \/ initialized(k) \/ drained(k) \/ cancel(k)
    PROVE  McpInv'
<1> USE ConnectionTypes
<1> USE DEF goto, continue, finish, Domains, fileVars, connVars, history, Stdio
<1>1. CASE build_client(k)
    BY <1>1, ConnectionGoes, ConnectionEnds
       DEF build_client, Goes, Ends, Connection, ConnectionOK
<1>2. CASE start(k)
    <2>1. CASE /\ proc' = [proc EXCEPT ![k] = "running"]
               /\ dir' = [dir EXCEPT ![k] = TRUE]
               /\ goto(k, "initialize")
               /\ UNCHANGED <<ready, cache, outcome>>
        <3>1. Goes(k, "initialize") /\ Connection(k) /\ place[k] \in ConnectionLabels
            BY <1>2, <2>1 DEF start, Goes, Connection
        <3>2. ConnectionOK(k)'
            BY <1>2, <2>1, <3>1 DEF start, ConnectionOK, McpInv, WorkersOK
        <3> QED BY <3>1, <3>2, ConnectionGoes
    <2>2. CASE fail_start(k, "start_failed") /\ UNCHANGED <<proc, dir>>
        <3>1. Goes(k, "stopping") /\ Connection(k) /\ place[k] \in ConnectionLabels
            BY <1>2, <2>2 DEF start, fail_start, Goes, Connection
        <3>2. ConnectionOK(k)'
            BY <1>2, <2>2, <3>1 DEF start, fail_start, ConnectionOK, McpInv, WorkersOK
        <3> QED BY <3>1, <3>2, ConnectionGoes
    <2> QED BY <1>2, <2>1, <2>2 DEF start
<1>3. CASE http_start(k)
    <2>1. Goes(k, "initialize") /\ Connection(k) /\ place[k] \in ConnectionLabels
        BY <1>3 DEF http_start, Goes, Connection
    <2>2. ConnectionOK(k)'
        BY <1>3, <2>1 DEF http_start, ConnectionOK, Goes, McpInv, WorkersOK
    <2> QED BY <2>1, <2>2, ConnectionGoes
<1>4. CASE start_fails(k)
    <2>1. Goes(k, "stopping") /\ Connection(k) /\ place[k] \in ConnectionLabels
        BY <1>4 DEF start_fails, fail_start, Goes, Connection
    <2>2. ConnectionOK(k)'
        BY <1>4, <2>1 DEF start_fails, fail_start, ConnectionOK, Goes, McpInv, WorkersOK
    <2> QED BY <2>1, <2>2, ConnectionGoes
<1>5. CASE pipe_breaks(k)
    <2>1. Goes(k, "stopping") /\ Connection(k) /\ place[k] \in ConnectionLabels
        BY <1>5 DEF pipe_breaks, fail_start, Goes, Connection
    <2>2. ConnectionOK(k)'
        BY <1>5, <2>1 DEF pipe_breaks, fail_start, ConnectionOK, Goes, McpInv, WorkersOK
    <2> QED BY <2>1, <2>2, ConnectionGoes
<1>6. CASE request_fails(k)
    <2>1. Goes(k, "stopping") /\ Connection(k) /\ place[k] \in ConnectionLabels
        BY <1>6 DEF request_fails, fail_use, discard_ready, Goes, Connection
    <2>2. ConnectionOK(k)'
        BY <1>6, <2>1
            DEF request_fails, fail_use, discard_ready, ConnectionOK, Goes, McpInv, WorkersOK
    <2> QED BY <2>1, <2>2, ConnectionGoes
<1>7. CASE http_request_fails(k)
    <2>1. Goes(k, "stopping") /\ Connection(k) /\ place[k] \in ConnectionLabels
        BY <1>7 DEF http_request_fails, fail_use, discard_ready, Goes, Connection
    <2>2. ConnectionOK(k)'
        BY <1>7, <2>1
            DEF http_request_fails, fail_use, discard_ready, ConnectionOK, Goes, McpInv,
                WorkersOK
    <2> QED BY <2>1, <2>2, ConnectionGoes
<1>8. CASE stop(k)
    <2> DEFINE label == IF proc[k] = "running" THEN "terminating" ELSE "cleanup"
    <2>1. Goes(k, label) /\ Connection(k) /\ place[k] \in ConnectionLabels
        BY <1>8 DEF stop, Goes, Connection
    <2>2. ConnectionOK(k)'
        BY <1>8, <2>1 DEF stop, ConnectionOK, Goes, McpInv, WorkersOK
    <2>3. label \in ConnectionLabels
        OBVIOUS
    <2> HIDE DEF label
    <2> QED BY <2>1, <2>2, <2>3, ConnectionGoes
<1>9. CASE http_stop(k)
    <2>1. Goes(k, "stopped") /\ Connection(k) /\ place[k] \in ConnectionLabels
        BY <1>9 DEF http_stop, Goes, Connection
    <2>2. ConnectionOK(k)'
        BY <1>9, <2>1 DEF http_stop, ConnectionOK, Goes, McpInv, WorkersOK
    <2> QED BY <2>1, <2>2, ConnectionGoes
<1>10. CASE terminated(k)
    <2>1. Goes(k, "cleanup") /\ Connection(k) /\ place[k] \in ConnectionLabels
        BY <1>10 DEF terminated, Goes, Connection
    <2>2. ConnectionOK(k)'
        BY <1>10, <2>1 DEF terminated, ConnectionOK, Goes, McpInv, WorkersOK
    <2> QED BY <2>1, <2>2, ConnectionGoes
<1>11. CASE kill(k)
    <2>1. Goes(k, "terminating") /\ Connection(k) /\ place[k] \in ConnectionLabels
        BY <1>11 DEF kill, Goes, Connection, McpInv, WorkersOK
    <2>2. ConnectionOK(k)'
        BY <1>11, <2>1 DEF kill, ConnectionOK, Goes, McpInv, WorkersOK
    <2> QED BY <2>1, <2>2, ConnectionGoes
<1>12. CASE cleanup_working_directory(k)
    <2>1. Goes(k, "stopped") /\ Connection(k) /\ place[k] \in ConnectionLabels
        BY <1>12 DEF cleanup_working_directory, Goes, Connection
    <2>2. ConnectionOK(k)'
        BY <1>12, <2>1 DEF cleanup_working_directory, ConnectionOK, Goes, McpInv, WorkersOK
    <2> QED BY <2>1, <2>2, ConnectionGoes
<1>13. CASE stopped(k)
    BY <1>13, ConnectionGoes, ConnectionEnds
       DEF stopped, discard_ready, Goes, Ends, Connection, ConnectionOK
<1>14. CASE initialized(k)
    <2>1. PICK label \in {"use", "draining"} :
              goto(k, label) /\ (label = "draining" => Stdio(k))
        BY <1>14 DEF initialized
    <2>2. Goes(k, label) /\ Connection(k) /\ place[k] \in ConnectionLabels
        BY <1>14, <2>1 DEF initialized, Goes, Connection
    <2>3. ConnectionOK(k)'
        BY <1>14, <2>2 DEF initialized, ConnectionOK, Goes, McpInv, WorkersOK
    <2> QED BY <2>2, <2>3, ConnectionGoes
<1>15. CASE drained(k)
    <2>1. Goes(k, "use") /\ Connection(k) /\ place[k] \in ConnectionLabels
        BY <1>15 DEF drained, Goes, Connection
    <2>2. ConnectionOK(k)'
        BY <1>15, <2>1 DEF drained, ConnectionOK, Goes, McpInv, WorkersOK
    <2> QED BY <2>1, <2>2, ConnectionGoes
<1>16. CASE cancel(k)
    <2>1. PICK label \in {"cleanup", "stopped", "stopping"} :
              /\ goto(k, label)
              /\ label # "stopping" => cut' = [cut EXCEPT ![k] = TRUE]
              /\ label = "stopping" => cut' = cut
        BY <1>16 DEF cancel
    <2>2. Goes(k, label) /\ Connection(k) /\ place[k] \in ConnectionLabels
        BY <1>16, <2>1 DEF cancel, Goes, Connection
    <2>3. ConnectionOK(k)'
        BY <1>16, <2>1, <2>2 DEF cancel, ConnectionOK, Goes, McpInv, WorkersOK
    <2> QED BY <2>2, <2>3, ConnectionGoes
<1>17. CASE parse_http_message_fails(k)
    <2>1. Goes(k, "stopping") /\ Connection(k) /\ place[k] \in ConnectionLabels
        BY <1>17 DEF parse_http_message_fails, fail_start, Goes, Connection
    <2>2. ConnectionOK(k)'
        BY <1>17, <2>1
            DEF parse_http_message_fails, fail_start, ConnectionOK, Goes, McpInv, WorkersOK
    <2> QED BY <2>1, <2>2, ConnectionGoes
<1> QED BY <1>1, <1>2, <1>3, <1>4, <1>5, <1>6, <1>7, <1>8, <1>9, <1>10, <1>11, <1>12,
           <1>13, <1>14, <1>15, <1>16, <1>17 DEF ConnectionStep

\* A connection that was answered: a discovery keeps the tools in its configuration.
LEMMA AnsweredKeepsInv ==
    ASSUME McpInv, NEW k \in Tasks, answered(k) \/ http_answered(k)
    PROVE  McpInv'
<1>1. /\ k \in Workers /\ place[k] = "use" /\ goto(k, "stopping")
      /\ op' = op \/ \E tools \in SUBSET Tools : op' = [op EXCEPT ![k].config.declared = tools]
      /\ UNCHANGED seen /\ Connection(k) /\ UNCHANGED <<proc, dir, cut>>
    BY ConnectionTypes DEF answered, http_answered, succeed, Connection, Domains, history
<1>2. op[k] \in Operations /\ op[k].kind \in {"discover", "call"} /\ op[k] # NoOp
    BY <1>1, OperationFields DEF McpInv, WorkersOK
<1>3. PICK o \in Operations : /\ op' = [op EXCEPT ![k] = o]
                              /\ o.kind = op[k].kind
                              /\ o.config.transport = op[k].config.transport
    <2>1. CASE op' = op
        <3>1. op' = [op EXCEPT ![k] = op[k]]
            BY <1>1, <2>1 DEF McpInv, WorkersOK
        <3> QED BY <1>2, <3>1
    <2>2. CASE \E tools \in SUBSET Tools : op' = [op EXCEPT ![k].config.declared = tools]
        <3>1. PICK tools \in SUBSET Tools : op' = [op EXCEPT ![k].config.declared = tools]
            BY <2>2
        <3> DEFINE c == [op[k].config EXCEPT !.declared = tools]
                   o == [op[k] EXCEPT !.config = c]
        <3>2. op[k].config \in McpServerConfig
            BY <1>2 DEF Operations
        <3>3. c \in McpServerConfig /\ c.transport = op[k].config.transport
            BY <3>1, <3>2 DEF McpServerConfig
        <3>4. op' = [op EXCEPT ![k] = o]
            BY <3>1
        <3> HIDE DEF c
        <3>5. o \in Operations /\ o.kind = op[k].kind /\ o.config = c
            BY <1>2, <3>3 DEF Operations
        <3> QED BY <3>3, <3>4, <3>5
    <2> QED BY <1>1, <2>1, <2>2
<1>4. o # NoOp
    BY <1>2, <1>3, OperationFields
<1> HIDE DEF NoOp
<1>5. /\ place' \in [Workers -> Labels] /\ op' \in [Workers -> Operations \cup {NoOp}]
      /\ \A x \in Workers : /\ place'[x] = IF x = k THEN "stopping" ELSE place[x]
                            /\ op'[x] = IF x = k THEN o ELSE op[x]
    BY <1>1, <1>3 DEF McpInv, WorkersOK, goto
<1>6. \A x \in Workers : Changes(x)' = Changes(x)
    BY <1>3, <1>5 DEF Changes
<1>7. WorkersOK'
    BY <1>1, <1>2, <1>3, <1>4, <1>5, <1>6 DEF McpInv, WorkersOK, Connection, Domains
<1>8. Quiet(k)
    BY <1>1, <1>3, <1>5, <1>6 DEF Quiet, Others, Connection, Holds
<1>9. ConnectionOK(k)'
    <2>1. place'[k] = "stopping" /\ (Stdio(k)' <=> Stdio(k))
        BY <1>1, <1>3, <1>5 DEF Stdio
    <2> QED BY <1>1, <2>1, ConnectionTypes DEF ConnectionOK
<1>10. McpTypeOK'
    <2>1. Configured(seen[k])' /\ \A j \in Tasks : proc'[j] \in {"none", "running", "gone"}
        BY <1>1 DEF McpInv, McpTypeOK, Configured
    <2> QED BY <1>1, <1>7, <1>8, <2>1, TypesKept DEF Connection
<1> QED BY <1>1, <1>7, <1>8, <1>9, <1>10, QuietKeepsInv

\* The child of k ends.
LEMMA ExitKeepsInv ==
    ASSUME McpInv, NEW k \in Tasks, ServerExits(k)
    PROVE  McpInv'
<1>1. /\ k \in Workers /\ proc[k] = "running" /\ proc' = [proc EXCEPT ![k] = "gone"]
      /\ UNCHANGED <<fileVars, dir, cut, lone, repaired, place, op, seen, ops>>
    BY ConnectionTypes DEF ServerExits, history
<1>2. UNCHANGED <<file, ready, cache, available, catalog>>
    BY <1>1 DEF fileVars
<1>3. WorkersOK'
    BY <1>1 DEF McpInv, WorkersOK, Changes
<1>4. Quiet(k)
    BY <1>1, <1>2 DEF Quiet, Others, Changes, Holds, McpInv, WorkersOK
<1>5. ConnectionOK(k)'
    BY <1>1, ConnectionTypes DEF ConnectionOK, Stdio
<1>6. McpTypeOK'
    BY <1>1, <1>2, ConnectionTypes DEF McpTypeOK, McpInv, Configured
<1> QED BY <1>1, <1>3, <1>4, <1>5, <1>6, QuietKeepsInv

-----------------------------------------------------------------------------
(* Operations that begin, and changes.                                     *)

LEMMA BeginTypes ==
    ASSUME McpInv, NEW w \in Workers, NEW o \in Operations, NEW label,
           \/ o.kind = "upsert" /\ label = "load1"
           \/ o.kind = "delete" /\ label = "invalidate"
           \/ o.kind \in {"discover", "call"} /\ label = "build" /\ w \in Tasks,
           place[w] = "idle", ops < MaxOps, ops' = ops + 1,
           place' = [place EXCEPT ![w] = label], op' = [op EXCEPT ![w] = o],
           seen' \in {seen, [seen EXCEPT ![w] = file]},
           UNCHANGED <<fileVars, connVars>>
    PROVE  /\ WorkersOK' /\ McpTypeOK'
           /\ \A x \in Workers : /\ place'[x] = IF x = w THEN label ELSE place[x]
                                 /\ op'[x] = IF x = w THEN o ELSE op[x]
                                 /\ x # w => seen'[x] = seen[x]
<1>1. o # NoOp /\ label \in Labels \ {"idle", "load2"}
    BY OperationFields
<1> HIDE DEF NoOp
<1>2. UNCHANGED <<file, ready, cache, available, catalog, proc, dir, cut>>
    BY DEF fileVars, connVars
<1>3. /\ place' \in [Workers -> Labels] /\ op' \in [Workers -> Operations \cup {NoOp}]
      /\ \A x \in Workers : /\ place'[x] = IF x = w THEN label ELSE place[x]
                            /\ op'[x] = IF x = w THEN o ELSE op[x]
    BY <1>1 DEF McpInv, WorkersOK
<1>4. /\ DOMAIN seen' = Workers
      /\ \A x \in Workers \ {w} : seen'[x] = seen[x]
      /\ seen'[w] \in {seen[w], file}
    BY DEF McpInv, WorkersOK
<1>5. \A x \in Workers \ {w} : Changes(x)' = Changes(x)
    BY <1>3 DEF Changes
<1>6. WorkersOK'
    BY <1>1, <1>2, <1>3, <1>4, <1>5 DEF McpInv, WorkersOK, Changes
<1>7. McpTypeOK'
    <2>1. \A x \in Workers : Configured(seen[x])'
        BY <1>4 DEF McpInv, McpTypeOK, Configured
    <2>2. ops' \in 0..MaxOps
        BY OpsAreBounded DEF McpInv, McpTypeOK
    <2> QED BY <1>2, <2>1, <2>2 DEF McpInv, McpTypeOK, Configured
<1> QED BY <1>3, <1>4, <1>6, <1>7

\* A change begins: it is alone if no other one is under way, and then the others are
\* not.
LEMMA ChangeBegins ==
    ASSUME McpInv, NEW w \in Workers, NEW kind, NEW s \in Servers,
           NEW config \in McpServerConfig \cup {NoOp}, NEW label,
           Begin(w, kind, s, config, label),
           \/ kind = "upsert" /\ label = "load1" /\ config \in McpServerConfig /\ UNCHANGED seen
           \/ kind = "delete" /\ label = "invalidate" /\ UNCHANGED seen
           \/ /\ kind = "discover" /\ label = "build" /\ config \in McpServerConfig
              /\ w \in Tasks /\ ~cut[w] /\ seen' = [seen EXCEPT ![w] = file],
           UNCHANGED <<fileVars, connVars>>
    PROVE  McpInv'
<1> DEFINE o == [kind |-> kind, server |-> s, config |-> config]
<1>1. o \in Operations /\ o.kind = kind
    BY DEF Operations
<1>2. /\ place[w] = "idle" /\ ops < MaxOps /\ ops' = ops + 1 /\ goto(w, label)
      /\ op' = [op EXCEPT ![w] = o]
      /\ lone' = [x \in Workers |-> x = w /\ \A y \in Workers \ {w} : ~Changes(y)]
      /\ repaired' = FALSE
    BY DEF Begin
<1> HIDE DEF o
<1>3. /\ WorkersOK' /\ McpTypeOK'
      /\ \A x \in Workers : /\ place'[x] = IF x = w THEN label ELSE place[x]
                            /\ op'[x] = IF x = w THEN o ELSE op[x]
                            /\ x # w => seen'[x] = seen[x]
    BY <1>1, <1>2, BeginTypes DEF goto
<1>4. UNCHANGED <<file, available, catalog, proc, dir, cut>>
    BY DEF fileVars, connVars
<1>5. \A k \in Tasks : ConnectionOK(k)'
    <2> SUFFICES ASSUME NEW k \in Tasks PROVE ConnectionOK(k)'
        OBVIOUS
    <2>1. CASE k = w
        BY <1>1, <1>2, <1>3, <1>4, <2>1, ConnectionTypes DEF ConnectionOK
    <2>2. CASE k # w
        BY <1>3, <1>4, <2>2, ConnectionTypes DEF ConnectionOK, Stdio
    <2> QED BY <2>1, <2>2
<1>6. \A x \in Workers : LoneOK(x)'
    <2> SUFFICES ASSUME NEW x \in Workers, lone'[x] PROVE LoneOK(x)'
        BY DEF LoneOK
    <2>1. x = w /\ \A y \in Workers \ {w} : ~Changes(y)'
        BY <1>2, <1>3 DEF Changes
    <2>2. Holds(w)' => seen'[w] = file'
        BY <1>1, <1>3, <1>4 DEF Holds, McpInv, WorkersOK
    <2> QED BY <1>3, <2>1, <2>2 DEF LoneOK
<1> QED BY <1>2, <1>3, <1>5, <1>6 DEF McpInv, RepairedOK, LoneChangeRepairs

LEMMA CallBegins ==
    ASSUME McpInv, NEW k \in Tasks, NEW d, McpToolExecutor(k, d)
    PROVE  McpInv'
<1> DEFINE o == [kind |-> "call", server |-> d.server, config |-> file[d.server]]
<1>1. /\ ~cut[k] /\ d.server \in DOMAIN file /\ place[k] = "idle" /\ ops < MaxOps
      /\ ops' = ops + 1 /\ goto(k, "build") /\ op' = [op EXCEPT ![k] = o]
      /\ UNCHANGED <<fileVars, connVars, seen, lone, repaired>>
    BY DEF McpToolExecutor, Begin, Enabled, history
<1>2. o \in Operations /\ o.kind = "call"
    BY <1>1 DEF McpInv, McpTypeOK, Configured, Operations
<1> HIDE DEF o
<1>3. /\ k \in Workers /\ WorkersOK' /\ McpTypeOK'
      /\ \A x \in Workers : /\ place'[x] = IF x = k THEN "build" ELSE place[x]
                            /\ op'[x] = IF x = k THEN o ELSE op[x]
                            /\ x # k => seen'[x] = seen[x]
    <2>1. k \in Workers
        BY ConnectionTypes
    <2>2. UNCHANGED <<fileVars, connVars>> /\ seen' = seen
        BY <1>1
    <2>3. place' = [place EXCEPT ![k] = "build"]
        BY <1>1 DEF goto
    <2> QED BY <1>1, <1>2, <2>1, <2>2, <2>3, BeginTypes
<1>4. UNCHANGED <<file, available, catalog, proc, dir, cut>>
    BY <1>1 DEF fileVars, connVars
<1>5. Quiet(k)
    BY <1>1, <1>2, <1>3, <1>4 DEF Quiet, Others, Changes
<1>6. ConnectionOK(k)'
    BY <1>1, <1>3, <1>4, ConnectionTypes DEF ConnectionOK
<1> QED BY <1>3, <1>5, <1>6, QuietKeepsInv

\* A step of a change that goes on, with the servers it has read.
LEMMA ChangeGoes ==
    ASSUME McpInv, NEW w \in Workers, Changes(w), NEW label \in ChangeLabels,
           label \in {"load1", "load2"} => op[w].kind # "delete",
           place' = [place EXCEPT ![w] = label], UNCHANGED op,
           NEW f, Configured(f),
           seen' = [seen EXCEPT ![w] = f] \/ (seen' = seen /\ f = seen[w]),
           label = "load2" => op[w].server \in DOMAIN f,
           UNCHANGED <<connVars, ops>>
    PROVE  /\ WorkersOK' /\ Others(w)
           /\ place'[w] = label /\ seen'[w] = f /\ \A x \in Workers : Changes(x)' = Changes(x)
           /\ \A x \in Workers : Configured(seen[x])'
           /\ UNCHANGED <<proc, dir, cut>>
<1>1. /\ place' \in [Workers -> Labels]
      /\ \A x \in Workers : place'[x] = IF x = w THEN label ELSE place[x]
    BY DEF McpInv, WorkersOK
<1>2. /\ DOMAIN seen' = Workers
      /\ \A x \in Workers : seen'[x] = IF x = w THEN f ELSE seen[x]
    BY DEF McpInv, WorkersOK
<1>3. UNCHANGED <<proc, dir, cut>>
    BY DEF connVars
<1>4. \A x \in Workers : Changes(x)' = Changes(x)
    BY DEF Changes
<1>5. op[w] # NoOp
    BY DEF Changes
<1> HIDE DEF NoOp
<1>6. WorkersOK'
    BY <1>1, <1>2, <1>3, <1>4, <1>5 DEF McpInv, WorkersOK
<1>7. \A x \in Workers : Configured(seen[x])'
    BY <1>2 DEF McpInv, McpTypeOK, Configured
<1> QED BY <1>1, <1>2, <1>3, <1>4, <1>6, <1>7 DEF Others

\* The connections do not notice changes.
LEMMA ConnectionsKept ==
    ASSUME McpInv, NEW w \in Workers, place[w] \notin ConnectionLabels, Others(w),
           UNCHANGED <<proc, dir, cut>>, place'[w] \notin ConnectionLabels
    PROVE  \A k \in Tasks : ConnectionOK(k)'
<1> SUFFICES ASSUME NEW k \in Tasks PROVE ConnectionOK(k)'
    OBVIOUS
<1>1. CASE k = w
    BY <1>1, ConnectionTypes DEF ConnectionOK
<1>2. CASE k # w
    BY <1>2, ConnectionTypes DEF ConnectionOK, Stdio, Others
<1> QED BY <1>1, <1>2

\* Who changes keeps the others from being alone, and the catalog from being repaired.
LEMMA ChangeKeepsInv ==
    ASSUME McpInv, NEW w \in Workers, Changes(w), place[w] \notin ConnectionLabels,
           Others(w), UNCHANGED <<proc, dir, cut, lone>>, repaired' => repaired,
           place'[w] \notin ConnectionLabels, WorkersOK', McpTypeOK',
           \A x \in Workers : Changes(x)' => Changes(x),
           lone[w] => LoneOK(w)'
    PROVE  McpInv'
<1>1. ~repaired /\ ~repaired'
    BY DEF McpInv, RepairedOK
<1>2. ASSUME NEW x \in Workers, lone'[x] PROVE x = w
    BY <1>2 DEF McpInv, LoneOK
<1>3. \A x \in Workers : LoneOK(x)'
    BY <1>2 DEF LoneOK
<1> QED BY <1>1, <1>3, ConnectionsKept DEF McpInv, RepairedOK, LoneChangeRepairs

LEMMA ReadKeepsInv ==
    ASSUME McpInv, NEW w \in Workers, upsert_read(w) \/ upsert_order(w) \/ remove(w)
    PROVE  McpInv'
<1>1. /\ Changes(w) /\ place[w] \notin ConnectionLabels /\ op[w] \in Operations
      /\ place[w] \in {"load1", "load2"} => op[w].config \in McpServerConfig
      /\ op[w].server \in Servers /\ DOMAIN seen = Workers
      /\ place[w] = "load2" => op[w].server \in DOMAIN seen[w]
      /\ Configured(file) /\ Configured(seen[w])
    BY OperationFields DEF McpInv, WorkersOK, McpTypeOK, upsert_read, upsert_order, remove
<1>2. PICK f : /\ Configured(f) /\ seen' = [seen EXCEPT ![w] = f]
               /\ \/ /\ place[w] = "load1" /\ place' = [place EXCEPT ![w] = "load2"]
                     /\ op[w].server \in DOMAIN f
                  \/ place[w] \in {"load2", "remove"} /\ place' = [place EXCEPT ![w] = "save"]
               /\ UNCHANGED <<fileVars, connVars, history, op, ops>>
    <2>1. CASE upsert_read(w)
        <3> DEFINE f == [s \in DOMAIN file \cup {op[w].server} |->
                            IF s = op[w].server THEN op[w].config ELSE file[s]]
        <3>1. Configured(f)
            BY <1>1, <2>1 DEF Configured, upsert_read
        <3> HIDE DEF f
        <3> QED BY <2>1, <3>1 DEF upsert_read, goto, f
    <2>2. CASE upsert_order(w)
        <3> DEFINE f == [s \in (DOMAIN file \cap DOMAIN seen[w]) \cup {op[w].server} |->
                            seen[w][s]]
        <3>1. Configured(f)
            BY <1>1, <2>2 DEF Configured, upsert_order
        <3> QED BY <1>1, <2>2, <3>1 DEF upsert_order, goto
    <2>3. CASE remove(w)
        <3> DEFINE f == [s \in DOMAIN file \ {op[w].server} |-> file[s]]
        <3>1. Configured(f)
            BY <1>1, <2>3 DEF Configured, remove
        <3> HIDE DEF f
        <3> QED BY <2>3, <3>1 DEF remove, goto, f
    <2> QED BY <2>1, <2>2, <2>3
<1>3. UNCHANGED <<file, ready, cache, available, catalog, lone, repaired, op, ops, connVars>>
    BY <1>2 DEF fileVars, history
<1>4. PICK label \in {"load2", "save"} :
          /\ place' = [place EXCEPT ![w] = label]
          /\ label = "load2" => op[w].server \in DOMAIN f /\ op[w].kind # "delete"
    BY <1>2 DEF McpInv, WorkersOK
<1>5. /\ WorkersOK' /\ Others(w)
      /\ place'[w] = label /\ \A x \in Workers : Changes(x)' = Changes(x)
      /\ \A x \in Workers : Configured(seen[x])'
      /\ UNCHANGED <<proc, dir, cut>>
    <2>1. UNCHANGED op /\ UNCHANGED <<connVars, ops>> /\ seen' = [seen EXCEPT ![w] = f]
        BY <1>2, <1>3
    <2> QED BY <1>1, <1>2, <1>4, <2>1, ChangeGoes
<1>6. McpTypeOK'
    BY <1>3, <1>5 DEF McpInv, McpTypeOK, Configured
<1>7. lone[w] => LoneOK(w)'
    BY <1>4, <1>5, <1>3 DEF McpInv, LoneOK, Holds
<1> QED BY <1>1, <1>3, <1>4, <1>5, <1>6, <1>7, ChangeKeepsInv

LEMMA PublishKeepsInv ==
    ASSUME McpInv, NEW w \in Workers,
           save(w) \/ invalidate(w) \/ refresh_servers(w) \/ remove_by_source(w)
    PROVE  McpInv'
<1>1. /\ place[w] \in {"save", "invalidate", "refresh", "clear"} /\ Changes(w)
      /\ place[w] \notin ConnectionLabels /\ Configured(seen[w])
      /\ op[w].server \in Servers /\ UNCHANGED <<seen, op, ops, connVars, lone, repaired>>
    BY OperationFields DEF McpInv, WorkersOK, McpTypeOK, save, invalidate, refresh_servers,
       remove_by_source, history
<1>2. /\ op[w].kind \in {"upsert", "delete", "discover"}
      /\ LoneOK(w)
    BY <1>1 DEF Changes, McpInv
<1>3. PICK label \in {"invalidate", "refresh", "remove", "clear", "register"} :
          /\ place' = [place EXCEPT ![w] = label]
          /\ \/ /\ place[w] = "save" /\ label \in {"invalidate", "refresh"}
                /\ file' = seen[w] /\ UNCHANGED <<ready, cache, available, catalog>>
             \/ /\ place[w] = "invalidate"
                /\ label = IF op[w].kind = "upsert" THEN "refresh" ELSE "remove"
                /\ ready' = ready \ {op[w].server} /\ cache' = cache \ {op[w].server}
                /\ UNCHANGED <<file, available, catalog>>
             \/ /\ place[w] = "refresh" /\ label = "clear"
                /\ available' = Enabled(seen[w]) \cap ready
                /\ UNCHANGED <<file, ready, cache, catalog>>
             \/ /\ place[w] = "clear" /\ label = "register" /\ catalog' = {}
                /\ UNCHANGED <<file, ready, cache, available>>
    BY DEF save, invalidate, refresh_servers, remove_by_source, goto
<1>4. /\ WorkersOK' /\ Others(w)
      /\ place'[w] = label /\ \A x \in Workers : Changes(x)' = Changes(x)
      /\ \A x \in Workers : Configured(seen[x])'
      /\ UNCHANGED <<proc, dir, cut>>
    <2>1. UNCHANGED op /\ UNCHANGED <<connVars, ops>> /\ seen' = seen
        BY <1>1
    <2> QED BY <1>1, <1>3, <2>1, ChangeGoes
<1>5. McpTypeOK'
    BY <1>1, <1>3, <1>4 DEF McpInv, McpTypeOK, Configured
<1>6. lone[w] => LoneOK(w)'
    BY <1>1, <1>2, <1>3, <1>4 DEF LoneOK, Holds, Enabled
<1> QED BY <1>1, <1>3, <1>4, <1>5, <1>6, ChangeKeepsInv

\* The catalog is the file's when who registers was alone.
LEMMA RegisterKeepsInv ==
    ASSUME McpInv, NEW w \in Workers, register_all(w)
    PROVE  McpInv'
<1>1. /\ place[w] = "register" /\ Changes(w) /\ Ends(w) /\ repaired' = lone[w]
      /\ catalog' = register_many(catalog, Descriptors(seen[w]))
      /\ UNCHANGED <<file, ready, cache, available, connVars, lone, ops>>
    BY DEF register_all, finish, goto, Ends, McpInv, WorkersOK
<1>2. UNCHANGED <<proc, dir, cut>> /\ Domains
    BY <1>1 DEF connVars, Domains, McpInv, WorkersOK
<1>3. /\ WorkersOK' /\ place'[w] = "idle" /\ op'[w] = NoOp /\ seen'[w] = NoServers
      /\ \A x \in Workers \ {w} :
                  place'[x] = place[x] /\ op'[x] = op[x] /\ seen'[x] = seen[x]
    BY <1>1, <1>2, Ending DEF McpInv
<1>4. McpTypeOK'
    BY <1>1, <1>2, <1>3, NoServersConfigured DEF McpInv, McpTypeOK, Configured
<1>5. Others(w) /\ ~Changes(w)'
    BY <1>2, <1>3 DEF Others, Changes
<1>6. \A k \in Tasks : ConnectionOK(k)'
    BY <1>1, <1>2, <1>3, <1>5, ConnectionsKept
<1>7. \A x \in Workers \ {w} : ~lone[x]
    BY <1>1 DEF McpInv, LoneOK
<1>8. \A x \in Workers \ {w} : Changes(x)' = Changes(x)
    BY <1>3 DEF Changes
<1>9. lone[w] => \A x \in Workers : ~Changes(x)'
    BY <1>5, <1>8 DEF McpInv, LoneOK
<1>10. \A x \in Workers : LoneOK(x)'
    BY <1>1, <1>3, <1>5, <1>7, <1>9 DEF LoneOK
<1>11. RepairedOK'
    BY <1>1, <1>9 DEF RepairedOK
<1>12. LoneChangeRepairs'
    <2> SUFFICES ASSUME lone[w]
                 PROVE  available \subseteq Enabled(file) /\ catalog' = Descriptors(file)
        BY <1>1 DEF LoneChangeRepairs, Enabled, Descriptors
    <2>1. seen[w] = file /\ available \subseteq Enabled(file) /\ catalog = {}
        BY <1>1 DEF McpInv, LoneOK, Holds
    <2>2. register_many({}, Descriptors(file)) = Descriptors(file)
        BY DEF register_many
    <2> QED BY <1>1, <2>1, <2>2
<1> QED BY <1>3, <1>4, <1>6, <1>10, <1>11, <1>12 DEF McpInv

-----------------------------------------------------------------------------
(* The theorems.                                                           *)

LEMMA NextKeepsInv == ASSUME McpInv, [McpNext]_mcpVars PROVE McpInv'
<1>1. ASSUME NEW t \in Threads, Administer(t) PROVE McpInv'
    <2>1. t \in Workers
        BY DEF Workers
    <2>2. ASSUME NEW s \in Servers, NEW config \in Requests[s], upsert_mcp_server(t, s, config)
          PROVE  McpInv'
        <3>1. config \in McpServerConfig
            BY RequestsAreConfigs
        <3> QED BY <2>1, <2>2, <3>1, ChangeBegins DEF upsert_mcp_server
    <2>3. ASSUME NEW s \in Servers, delete_mcp_server(t, s)
          PROVE  McpInv'
        BY <2>1, <2>3, ChangeBegins DEF delete_mcp_server
    <2> QED BY <1>1, <2>2, <2>3 DEF Administer
<1>2. ASSUME NEW w \in Workers, ThreadStep(w) PROVE McpInv'
    BY <1>2, ReadKeepsInv, PublishKeepsInv, RegisterKeepsInv DEF ThreadStep
<1>3. ASSUME NEW k \in Tasks, NEW s \in Servers, discover_mcp_server(k, s) PROVE McpInv'
    <2>1. k \in Workers /\ file[s] \in McpServerConfig
        BY <1>3 DEF Workers, discover_mcp_server, McpInv, McpTypeOK, Configured
    <2> QED BY <1>3, <2>1, ChangeBegins DEF discover_mcp_server
<1>4. CASE start_run
    <2>1. UNCHANGED <<file, ready, cache, available, catalog, proc, dir, cut, lone, repaired,
                      place, op, seen, ops>>
        BY <1>4 DEF start_run, fileVars, connVars, history
    <2> QED BY <2>1 DEF McpInv, McpTypeOK, WorkersOK, ConnectionOK, LoneOK, RepairedOK,
               LoneChangeRepairs, Configured, Changes, Holds, Stdio, Enabled, Descriptors
<1>5. CASE UNCHANGED mcpVars
    <2>1. UNCHANGED <<file, ready, cache, available, catalog, proc, dir, cut, lone, repaired,
                      place, op, seen, ops>>
        BY <1>5 DEF mcpVars, fileVars, connVars, history
    <2> QED BY <2>1 DEF McpInv, McpTypeOK, WorkersOK, ConnectionOK, LoneOK, RepairedOK,
               LoneChangeRepairs, Configured, Changes, Holds, Stdio, Enabled, Descriptors
<1> QED BY <1>1, <1>2, <1>3, <1>4, <1>5, CallBegins, ConnectionStepKeepsInv, AnsweredKeepsInv,
           ExitKeepsInv DEF McpNext

\* The inductive invariant of routes, discoveries and calls (control.py, mcp/).
THEOREM Invariance == McpSpec => []McpInv
BY Initially, NextKeepsInv, PTL DEF McpSpec

\* The file, the catalog and the connections keep their types, whatever threads and
\* tasks read of each other's writes.
THEOREM McpTypeCorrect == McpSpec => []McpTypeOK
<1>1. McpInv => McpTypeOK
    BY DEF McpInv
<1> QED BY <1>1, Invariance, PTL

\* A task that is over has left neither child process nor directory, however its
\* connection ended, unless the cancellation came while the child had its SIGTERM.
THEOREM NothingLeft == McpSpec => []NothingLeftBehind
<1>1. McpInv => NothingLeftBehind
    BY DEF McpInv, ConnectionOK, NothingLeftBehind
<1> QED BY <1>1, Invariance, PTL

\* After any changes that overlapped, the next one that runs alone leaves the catalog
\* of the file (upsert, delete, discover and _refresh_mcp_tools).
THEOREM LoneChangesRepair == McpSpec => []LoneChangeRepairs
<1>1. McpInv => LoneChangeRepairs
    BY DEF McpInv
<1> QED BY <1>1, Invariance, PTL
=============================================================================
