----------------------------- MODULE ToolCalls -----------------------------
(***************************************************************************)
(* The tool calls of one agent run: the graph nodes that decide on them    *)
(* and execute them one by one (src/src/agent/runtime.py), the gateway     *)
(* that runs a call at most under an approval (src/src/tools/gateway.py),  *)
(* the approval and operation stores, the stored call arguments, and the   *)
(* routes that decide an approval or cancel the run.                       *)
(*                                                                         *)
(* Abstractions.                                                           *)
(*  - The model asks for tools once in a behaviour, for the calls 1 to     *)
(*    CallCount in this order.                                             *)
(*  - The run's row is its status, its cancel request and its claim;       *)
(*    module AgentRuns has the store in full.  A slot runs at most one     *)
(*    task, so the slot stands for the claim token.                        *)
(*  - The checkpoint of the thread is the last node boundary: the call and *)
(*    the node that comes next.  The checkpointer knows nothing of claims. *)
(*  - The stores of operations, approvals and arguments are files that one *)
(*    process holds (StateDirectoryLease) and a restart reads back; all    *)
(*    tasks live in that process, so a crash ends all of them.             *)
(*  - Code between two awaits is one step of the event loop; a crash cuts  *)
(*    it where a write has already been made.                              *)
(***************************************************************************)
EXTENDS Naturals, FiniteSets

CONSTANTS
    CallCount,      \* how many calls the model asks for
    RiskOf,         \* the risk of each call's tool
    RetryAttempts,  \* retries of a safe MCP call (1 in the code)
    Slots,          \* run-task slots
    NoSlot,         \* no claim
    MaxFaults       \* bound: crashes, stalls and lost connections

Calls == 1..CallCount

ASSUME ToolConstants ==
    /\ CallCount \in Nat \ {0}
    /\ RiskOf \in [Calls -> {"safe", "warn", "block"}]
    /\ RetryAttempts \in Nat
    /\ NoSlot \notin Slots
    /\ MaxFaults \in Nat

VARIABLES
    \* the run's row
    status, cancelRequested, holder, lease,
    \* the thread's checkpoint
    checkpoint,
    \* operation store: status, approval_id set, result
    operation, linked, result,
    \* approval store, invocation store
    approval, payload,
    \* how often each call's executor has been called
    executions,
    \* tasks: place, position in the graph, cancel token, retries of this call
    pc, at, signal, tries,
    faults

rowVars   == <<status, cancelRequested, holder, lease>>
storeVars == <<operation, linked, result, approval, payload>>
taskVars  == <<pc, at, signal, tries>>
vars == <<rowVars, checkpoint, storeVars, executions, taskVars, faults>>

Terminal == {"succeeded", "failed", "cancelled"}
OpenOperations == {"running", "awaiting_approval"}

\* A node of the graph and the call it is about, 0 when no call was staged.
Position ==
         [call : {0}, node : {"decide"}]
    \cup [call : Calls, node : {"tool", "finalize"}]
    \cup [call : {0, CallCount}, node : {"final"}]

Places == {"idle", "aborting", "graph", "announcing", "starting", "executing",
           "observing", "pausing", "committing", "failing", "cancelling", "closing"}

TypeOK ==
    /\ status \in {"queued", "running", "waiting_approval"} \cup Terminal
    /\ cancelRequested \in BOOLEAN
    /\ holder \in Slots \cup {NoSlot}
    /\ lease \in {"live", "expired"}
    /\ checkpoint \in Position
    /\ operation \in [Calls -> OpenOperations \cup
                               {"none", "succeeded", "failed", "cancelled"}]
    /\ linked \in [Calls -> BOOLEAN]
    /\ result \in [Calls -> {"none", "success", "error", "blocked", "cancelled"}]
    /\ approval \in [Calls -> {"none", "pending", "approved", "rejected",
                               "expired", "cancelled"}]
    /\ payload \subseteq Calls
    /\ executions \in [Calls -> Nat]
    /\ pc \in [Slots -> Places]
    /\ at \in [Slots -> Position]
    /\ signal \in [Slots -> {"none", "cancel", "uncertain"}]
    /\ tries \in [Slots -> Nat]
    /\ faults \in Nat

Start == [call |-> 0, node |-> "decide"]

Init ==
    /\ status = "queued"
    /\ cancelRequested = FALSE
    /\ holder = NoSlot
    /\ lease = "expired"
    /\ checkpoint = Start
    /\ operation = [c \in Calls |-> "none"]
    /\ linked = [c \in Calls |-> FALSE]
    /\ result = [c \in Calls |-> "none"]
    /\ approval = [c \in Calls |-> "none"]
    /\ payload = {}
    /\ executions = [c \in Calls |-> 0]
    /\ pc = [w \in Slots |-> "idle"]
    /\ at = [w \in Slots |-> Start]
    /\ signal = [w \in Slots |-> "none"]
    /\ tries = [w \in Slots |-> 0]
    /\ faults = 0

-----------------------------------------------------------------------------
(* The stores of arguments and approvals.                                  *)

\* EncryptedFileInvocationStore: the arguments of a call, by run and call.
SavePayload(c) == payload' = payload \cup {c}

HasPayload(c) == c \in payload

DeletePayloads == payload' = {}

\* ApprovalService.create: the id is the operation's, so that an item of the
\* same call is replaced.
CreateApproval(c) == approval' = [approval EXCEPT ![c] = "pending"]

-----------------------------------------------------------------------------
(* How a task moves.                                                       *)

MoveTo(w, place) ==
    /\ pc' = [pc EXCEPT ![w] = place]
    /\ UNCHANGED <<at, signal, tries>>

EndTask(w) ==
    /\ pc' = [pc EXCEPT ![w] = "idle"]
    /\ at' = [at EXCEPT ![w] = Start]
    /\ signal' = [signal EXCEPT ![w] = "none"]
    /\ tries' = [tries EXCEPT ![w] = 0]

\* Where a task goes when its graph returns or is cancelled: the cancel token
\* comes first, and with an uncertain lease nothing is left but the cleanup.
Leaving(w, place) ==
    IF signal[w] = "none" THEN place
    ELSE IF signal[w] = "cancel" THEN "cancelling" ELSE "closing"

\* A node ends and its successor is checkpointed.
Reach(w, position, place) ==
    /\ checkpoint' = position
    /\ at' = [at EXCEPT ![w] = position]
    /\ pc' = [pc EXCEPT ![w] = place]
    /\ UNCHANGED <<signal, tries>>

InNode(w, node) == pc[w] = "graph" /\ at[w].node = node

-----------------------------------------------------------------------------
(* Claim and the graph's nodes.                                            *)

\* claim_next and the start of _execute: go on from the checkpoint.
Claim(w) ==
    /\ pc[w] = "idle"
    /\ \/ status = "queued"
       \/ status = "running" /\ lease = "expired"
    /\ status' = "running"
    /\ holder' = w
    /\ lease' = "live"
    /\ at' = [at EXCEPT ![w] = checkpoint]
    /\ pc' = [pc EXCEPT ![w] = IF cancelRequested THEN "aborting"
                               ELSE IF checkpoint.node = "final" THEN "committing"
                               ELSE "graph"]
    /\ UNCHANGED <<cancelRequested, checkpoint, storeVars, executions, signal,
                   tries, faults>>

\* model_decision: the model answers at once.
AnswerDirectly(w) ==
    /\ InNode(w, "decide")
    /\ Reach(w, [call |-> 0, node |-> "final"], Leaving(w, "committing"))
    /\ UNCHANGED <<rowVars, storeVars, executions, faults>>

\* model_decision: the model asks for tools; every call is staged.
StageCalls(w) ==
    /\ InNode(w, "decide")
    /\ \A c \in Calls : operation[c] = "none"
    /\ operation' = [c \in Calls |->
           IF RiskOf[c] = "safe" THEN "running" ELSE "awaiting_approval"]
    /\ payload' = Calls
    /\ Reach(w, [call |-> 1, node |-> "tool"], "graph")
    /\ UNCHANGED <<rowVars, linked, result, approval, executions, faults>>

\* A node raises: the model fails, the gateway's authorizer refuses, or the
\* arguments of a call are gone.  The exception passes a cancel token, for only
\* a CancelledError of the graph task is suppressed.
NodeRaises(w) ==
    /\ pc[w] = "graph"
    /\ MoveTo(w, "failing")
    /\ UNCHANGED <<rowVars, checkpoint, storeVars, executions, faults>>

\* The graph task is cancelled by the token between two of its steps, or stops
\* by itself where the model streams.  It is cancelled only once: when a call of
\* a tool has swallowed that, the graph goes on (CancelTool).
StopGraph(w) ==
    /\ pc[w] \in {"graph", "announcing", "starting", "observing"}
    /\ signal[w] # "none"
    /\ MoveTo(w, Leaving(w, "closing"))
    /\ UNCHANGED <<rowVars, checkpoint, storeVars, executions, faults>>

-----------------------------------------------------------------------------
(* ToolGateway.invoke, through resume_tool of the node execute_tool.       *)

\* resume_tool needs the stored arguments of the call.
Invoking(w) == InNode(w, "tool") /\ HasPayload(at[w].call)

\* find_duplicate: the call already has a result, which is returned.
Settled(c) == result[c] # "none"

ReturnDuplicate(w) ==
    /\ Invoking(w)
    /\ Settled(at[w].call)
    /\ MoveTo(w, "observing")
    /\ UNCHANGED <<rowVars, checkpoint, storeVars, executions, faults>>

\* Mutant: the result's status is stored as the operation's.
RecordRaw(c, outcome) ==
    /\ result' = [result EXCEPT ![c] = outcome]
    /\ operation' = [operation EXCEPT ![c] = outcome]
    /\ SavePayload(c)

\* _record_terminal_result, and _bind_operation when the call returns.
Record(c, outcome) ==
    /\ result' = [result EXCEPT ![c] = outcome]
    /\ operation' = [operation EXCEPT ![c] =
           IF outcome = "success" THEN "succeeded"
           ELSE IF outcome = "cancelled" THEN "cancelled" ELSE "failed"]
    /\ SavePayload(c)

\* The policy blocks the tool, or its approval was rejected.
RefuseTool(w) ==
    /\ Invoking(w)
    /\ ~Settled(at[w].call)
    /\ \/ RiskOf[at[w].call] = "block"
       \/ /\ RiskOf[at[w].call] = "warn"
          /\ linked[at[w].call]
          /\ approval[at[w].call] = "rejected"
    /\ Record(at[w].call, "blocked")
    /\ MoveTo(w, "observing")
    /\ UNCHANGED <<rowVars, checkpoint, linked, approval, executions, faults>>

\* _resolve_approval creates the approval, then the operation remembers it.
AskApproval(w) ==
    /\ Invoking(w)
    /\ ~Settled(at[w].call)
    /\ RiskOf[at[w].call] = "warn"
    /\ ~linked[at[w].call]
    /\ CreateApproval(at[w].call)
    /\ linked' = [linked EXCEPT ![at[w].call] = TRUE]
    /\ MoveTo(w, "announcing")
    /\ UNCHANGED <<rowVars, checkpoint, operation, result, payload, executions,
                   faults>>

\* The approval is there and neither approved nor rejected.
AwaitApproval(w) ==
    /\ Invoking(w)
    /\ ~Settled(at[w].call)
    /\ RiskOf[at[w].call] = "warn"
    /\ linked[at[w].call]
    /\ approval[at[w].call] \notin {"approved", "rejected"}
    /\ MoveTo(w, "announcing")
    /\ UNCHANGED <<rowVars, checkpoint, storeVars, executions, faults>>

\* Mutant: anything but a rejection lets a call run.
ClearedUnlessRejected(c) ==
    \/ RiskOf[c] = "safe"
    \/ RiskOf[c] = "warn" /\ linked[c] /\ approval[c] # "rejected"

\* The call may run: its tool is safe or its approval was approved.
Cleared(c) ==
    \/ RiskOf[c] = "safe"
    \/ RiskOf[c] = "warn" /\ linked[c] /\ approval[c] = "approved"

\* invoke lets the call through and publishes that it starts.
StartTool(w) ==
    /\ Invoking(w)
    /\ ~Settled(at[w].call)
    /\ Cleared(at[w].call)
    /\ operation' = [operation EXCEPT ![at[w].call] =
           IF RiskOf[at[w].call] = "warn" THEN "running" ELSE @]
    /\ MoveTo(w, "starting")
    /\ UNCHANGED <<rowVars, checkpoint, linked, result, approval, payload,
                   executions, faults>>

\* The event is out: _execute calls the executor.
CallExecutor(w) ==
    /\ pc[w] = "starting"
    /\ executions' = [executions EXCEPT ![at[w].call] = @ + 1]
    /\ pc' = [pc EXCEPT ![w] = "executing"]
    /\ tries' = [tries EXCEPT ![w] = 0]
    /\ UNCHANGED <<rowVars, checkpoint, storeVars, at, signal, faults>>

\* Mutant: the retries of a call are not counted against the limit.
MayRetryAlways(w) == RiskOf[at[w].call] = "safe"

\* A retryable error of a safe MCP call.
MayRetry(w) == RiskOf[at[w].call] = "safe" /\ tries[w] < RetryAttempts

RetryTool(w) ==
    /\ pc[w] = "executing"
    /\ MayRetry(w)
    /\ executions' = [executions EXCEPT ![at[w].call] = @ + 1]
    /\ tries' = [tries EXCEPT ![w] = @ + 1]
    /\ UNCHANGED <<rowVars, checkpoint, storeVars, pc, at, signal, faults>>

\* The executor returns, or the call times out.
FinishTool(w) ==
    /\ pc[w] = "executing"
    /\ \E outcome \in {"success", "error"} : Record(at[w].call, outcome)
    /\ MoveTo(w, "observing")
    /\ UNCHANGED <<rowVars, checkpoint, linked, approval, executions, faults>>

\* Mutant: the gateway swallows the exception.
ToolRaisesSwallowed(w) ==
    /\ pc[w] = "executing"
    /\ operation' = [operation EXCEPT ![at[w].call] = "failed"]
    /\ MoveTo(w, "observing")
    /\ UNCHANGED <<rowVars, checkpoint, linked, result, approval, payload,
                   executions, faults>>

\* The executor raises: the operation failed, no result is kept, and the node
\* raises.
ToolRaises(w) ==
    /\ pc[w] = "executing"
    /\ operation' = [operation EXCEPT ![at[w].call] = "failed"]
    /\ MoveTo(w, "failing")
    /\ UNCHANGED <<rowVars, checkpoint, linked, result, approval, payload,
                   executions, faults>>

\* Mutant: the cancellation is swallowed and no result is kept.
CancelToolUnrecorded(w) ==
    /\ pc[w] = "executing"
    /\ signal[w] # "none"
    /\ MoveTo(w, "observing")
    /\ UNCHANGED <<rowVars, checkpoint, storeVars, executions, faults>>

\* The token or the cancellation of the graph task stops the executor.  The
\* gateway swallows it: the result is "cancelled" and the graph goes on, to the
\* next call even, while nobody but the runtime knows that the run is over.
\* Only a cancellation that hits the event which comes first ends the task.
CancelTool(w) ==
    /\ pc[w] = "executing"
    /\ signal[w] # "none"
    /\ \/ Record(at[w].call, "cancelled") /\ MoveTo(w, "observing")
       \/ /\ MoveTo(w, Leaving(w, "closing"))
          /\ UNCHANGED <<operation, result, payload>>
    /\ UNCHANGED <<rowVars, checkpoint, linked, approval, executions, faults>>

\* The event that tells the user has been published: the node interrupts.
Announce(w) ==
    /\ pc[w] = "announcing"
    /\ SavePayload(at[w].call)
    /\ MoveTo(w, Leaving(w, "pausing"))
    /\ UNCHANGED <<rowVars, checkpoint, operation, linked, result, approval,
                   executions, faults>>

\* execute_tool returns the observation.
Observe(w) ==
    /\ pc[w] = "observing"
    /\ Reach(w, [call |-> at[w].call, node |-> "finalize"], "graph")
    /\ UNCHANGED <<rowVars, storeVars, executions, faults>>

\* model_finalize: it needs the arguments of every call so far.  The next call
\* of the queue follows, or the model answers.
FinalizeNode(w) ==
    /\ InNode(w, "finalize")
    /\ \A c \in 1..at[w].call : HasPayload(c)
    /\ IF at[w].call < CallCount
       THEN Reach(w, [call |-> at[w].call + 1, node |-> "tool"], "graph")
       ELSE Reach(w, [call |-> at[w].call, node |-> "final"],
                  Leaving(w, "committing"))
    /\ UNCHANGED <<rowVars, storeVars, executions, faults>>

-----------------------------------------------------------------------------
(* The end of a task.                                                      *)

\* wait_approval of an interrupted task; a stale claim is swallowed.  The
\* tools are not stopped: the arguments stay for the resume.
Pause(w) ==
    /\ pc[w] = "pausing"
    /\ EndTask(w)
    /\ IF holder = w
       THEN status' = "waiting_approval" /\ holder' = NoSlot
       ELSE UNCHANGED <<status, holder>>
    /\ UNCHANGED <<cancelRequested, lease, checkpoint, storeVars, executions,
                   faults>>

\* The database is lost in wait_approval.
PauseFails(w) ==
    /\ pc[w] = "pausing"
    /\ faults < MaxFaults
    /\ faults' = faults + 1
    /\ MoveTo(w, "closing")
    /\ UNCHANGED <<rowVars, checkpoint, storeVars, executions>>

\* A terminal status under the claim; without it the task leaves the row alone.
Finish(w, s) ==
    IF holder = w THEN status' = s /\ holder' = NoSlot
    ELSE UNCHANGED <<status, holder>>

\* succeed_run, and the reconciliation with a cancel request.
CommitAnswer(w) ==
    /\ pc[w] = "committing"
    /\ IF ~cancelRequested THEN Finish(w, "succeeded")
       ELSE IF signal[w] # "uncertain" THEN Finish(w, "cancelled")
       ELSE UNCHANGED <<status, holder>>
    /\ MoveTo(w, "closing")
    /\ UNCHANGED <<cancelRequested, lease, checkpoint, storeVars, executions,
                   faults>>

\* fail_run.
FailRun(w) ==
    /\ pc[w] = "failing"
    /\ Finish(w, "failed")
    /\ MoveTo(w, "closing")
    /\ UNCHANGED <<cancelRequested, lease, checkpoint, storeVars, executions,
                   faults>>

\* cancel_run, from the reconciliation.
CancelRun(w) ==
    /\ pc[w] = "cancelling"
    /\ Finish(w, "cancelled")
    /\ MoveTo(w, "closing")
    /\ UNCHANGED <<cancelRequested, lease, checkpoint, storeVars, executions,
                   faults>>

\* A claim that finds a cancel request ends before the tools are touched.
AbortAtClaim(w) ==
    /\ pc[w] = "aborting"
    /\ Finish(w, "cancelled")
    /\ EndTask(w)
    /\ UNCHANGED <<cancelRequested, lease, checkpoint, storeVars, executions,
                   faults>>

\* The finally block: stop_run forgets the arguments of the run's calls.
StopTools(w) ==
    /\ pc[w] = "closing"
    /\ DeletePayloads
    /\ EndTask(w)
    /\ UNCHANGED <<rowVars, checkpoint, operation, linked, result, approval,
                   executions, faults>>

-----------------------------------------------------------------------------
(* Monitors, faults and time.                                              *)

InGraph(w) ==
    pc[w] \in {"graph", "announcing", "starting", "executing", "observing"}

\* The heartbeat or the observer sees a cancel request.
ObserveCancel(w) ==
    /\ InGraph(w)
    /\ signal[w] = "none"
    /\ cancelRequested
    /\ signal' = [signal EXCEPT ![w] = "cancel"]
    /\ UNCHANGED <<rowVars, checkpoint, storeVars, executions, pc, at, tries,
                   faults>>

\* The heartbeat finds the claim gone.
LoseClaim(w) ==
    /\ InGraph(w)
    /\ signal[w] # "uncertain"
    /\ holder # w
    /\ signal' = [signal EXCEPT ![w] = "uncertain"]
    /\ UNCHANGED <<rowVars, checkpoint, storeVars, executions, pc, at, tries,
                   faults>>

\* A monitor cannot reach the database, or the runtime is stopped: both cancel
\* the task and leave its run as it is.
LoseContact(w) ==
    /\ InGraph(w)
    /\ signal[w] # "uncertain"
    /\ faults < MaxFaults
    /\ faults' = faults + 1
    /\ signal' = [signal EXCEPT ![w] = "uncertain"]
    /\ UNCHANGED <<rowVars, checkpoint, storeVars, executions, pc, at, tries>>

\* The process dies, with every task in it.
Die ==
    /\ faults < MaxFaults
    /\ faults' = faults + 1
    /\ pc' = [w \in Slots |-> "idle"]
    /\ at' = [w \in Slots |-> Start]
    /\ signal' = [w \in Slots |-> "none"]
    /\ tries' = [w \in Slots |-> 0]

Crash ==
    /\ \E w \in Slots : pc[w] # "idle"
    /\ Die
    /\ UNCHANGED <<rowVars, checkpoint, storeVars, executions>>

\* The process dies between ApprovalService.create and the update of the
\* operation.
CrashWhileAsking(w) ==
    /\ Invoking(w)
    /\ ~Settled(at[w].call)
    /\ RiskOf[at[w].call] = "warn"
    /\ ~linked[at[w].call]
    /\ CreateApproval(at[w].call)
    /\ Die
    /\ UNCHANGED <<rowVars, checkpoint, operation, linked, result, payload,
                   executions>>

\* The process dies between the update of the operation and save_result.
CrashWhileRecording(w) ==
    /\ pc[w] = "executing"
    /\ \E s \in {"succeeded", "failed"} :
           operation' = [operation EXCEPT ![at[w].call] = s]
    /\ Die
    /\ UNCHANGED <<rowVars, checkpoint, linked, result, approval, payload,
                   executions>>

\* A heartbeat renews the claim it belongs to.
Heartbeat(w) ==
    /\ InGraph(w)
    /\ signal[w] = "none"
    /\ holder = w
    /\ lease = "expired"
    /\ lease' = "live"
    /\ UNCHANGED <<status, cancelRequested, holder, checkpoint, storeVars,
                   executions, taskVars, faults>>

\* The lease of a claim that nobody renews runs out; of one that is renewed,
\* only when the process stalls.  Heartbeats end at a cancel request, while the
\* graph may still be on its way.
Tended == /\ ~cancelRequested
          /\ \E w \in Slots : /\ holder = w
                              /\ pc[w] # "idle"
                              /\ signal[w] # "uncertain"
                              /\ pc[w] # "closing"

ExpireLease ==
    /\ status = "running"
    /\ lease = "live"
    /\ \/ ~Tended /\ UNCHANGED faults
       \/ Tended /\ faults < MaxFaults /\ faults' = faults + 1
    /\ lease' = "expired"
    /\ UNCHANGED <<status, cancelRequested, holder, checkpoint, storeVars,
                   executions, taskVars>>

-----------------------------------------------------------------------------
(* Routes.                                                                 *)

\* decide_approval: the decision is written first, then a waiting run is
\* queued again; for a run that does not wait the refusal is swallowed.  A
\* decided approval is not decided again.
Decide(c, decision) ==
    /\ approval[c] = "pending"
    /\ approval' = [approval EXCEPT ![c] = decision]
    /\ status' = IF status = "waiting_approval" THEN "queued" ELSE status
    /\ UNCHANGED <<cancelRequested, holder, lease, checkpoint, operation, linked,
                   result, payload, executions, taskVars, faults>>

\* The process dies between the two.
CrashWhileDeciding(c, decision) ==
    /\ approval[c] = "pending"
    /\ approval' = [approval EXCEPT ![c] = decision]
    /\ Die
    /\ UNCHANGED <<rowVars, checkpoint, operation, linked, result, payload,
                   executions>>

\* A decision after the five minutes of the approval only marks it expired.
DecideTooLate(c) ==
    /\ approval[c] = "pending"
    /\ approval' = [approval EXCEPT ![c] = "expired"]
    /\ UNCHANGED <<rowVars, checkpoint, operation, linked, result, payload,
                   executions, taskVars, faults>>

\* request_cancel from the cancel route, or from the deletion of the
\* conversation, which also reaches a waiting run.
RequestCancel ==
    /\ status \notin Terminal
    /\ ~cancelRequested
    /\ cancelRequested' = TRUE
    /\ UNCHANGED <<status, holder, lease, checkpoint, storeVars, executions,
                   taskVars, faults>>

\* cancel_by_run on one approval.
Withdrawn(c) == IF approval[c] = "pending" THEN "cancelled" ELSE approval[c]

\* The cancel route on a waiting run: cancel_waiting_approval, then
\* finalize_cancelled_run withdraws what is pending and stops the tools.
CancelWaiting ==
    /\ status = "waiting_approval"
    /\ status' = "cancelled"
    /\ approval' = [c \in Calls |-> Withdrawn(c)]
    /\ operation' = [c \in Calls |->
           IF operation[c] \in OpenOperations THEN "cancelled" ELSE operation[c]]
    /\ DeletePayloads
    /\ UNCHANGED <<cancelRequested, holder, lease, checkpoint, linked, result,
                   executions, taskVars, faults>>

\* The process dies after cancel_waiting_approval has committed.
CrashWhileCancelling ==
    /\ status = "waiting_approval"
    /\ status' = "cancelled"
    /\ Die
    /\ UNCHANGED <<cancelRequested, holder, lease, checkpoint, storeVars,
                   executions>>

-----------------------------------------------------------------------------
GraphStep(w) ==
    \/ AnswerDirectly(w)
    \/ StageCalls(w)
    \/ NodeRaises(w)
    \/ StopGraph(w)
    \/ ReturnDuplicate(w)
    \/ RefuseTool(w)
    \/ AskApproval(w)
    \/ AwaitApproval(w)
    \/ StartTool(w)
    \/ CallExecutor(w)
    \/ RetryTool(w)
    \/ FinishTool(w)
    \/ ToolRaises(w)
    \/ CancelTool(w)
    \/ Announce(w)
    \/ Observe(w)
    \/ FinalizeNode(w)

EndStep(w) ==
    \/ Pause(w)
    \/ CommitAnswer(w)
    \/ FailRun(w)
    \/ CancelRun(w)
    \/ AbortAtClaim(w)
    \/ StopTools(w)

MonitorStep(w) ==
    \/ ObserveCancel(w)
    \/ LoseClaim(w)
    \/ Heartbeat(w)

FaultStep ==
    \/ Crash
    \/ ExpireLease
    \/ \E w \in Slots : \/ PauseFails(w)
                       \/ LoseContact(w)
                       \/ CrashWhileAsking(w)
                       \/ CrashWhileRecording(w)

RouteStep ==
    \/ \E c \in Calls, d \in {"approved", "rejected"} :
           Decide(c, d) \/ CrashWhileDeciding(c, d)
    \/ \E c \in Calls : DecideTooLate(c)
    \/ RequestCancel
    \/ CancelWaiting
    \/ CrashWhileCancelling

Next ==
    \/ \E w \in Slots : Claim(w) \/ GraphStep(w) \/ EndStep(w) \/ MonitorStep(w)
    \/ FaultStep
    \/ RouteStep

Spec == Init /\ [][Next]_vars

\* The event loop runs its tasks and their monitors and a worker keeps polling;
\* a lease nobody renews runs out.  Users owe nothing.
FairSpec ==
    /\ Spec
    /\ \A w \in Slots : /\ WF_vars(GraphStep(w) \/ EndStep(w))
                        /\ WF_vars(Claim(w))
                        /\ WF_vars(ObserveCancel(w))
    /\ WF_vars(~Tended /\ ExpireLease)

-----------------------------------------------------------------------------
(* Properties.                                                             *)

\* No executor is ever called for a blocked tool or without an approval that
\* was approved and still is, through resumes, takeovers, late decisions and
\* cancellations (ToolGateway.invoke reads the approval store each time).
NothingRunsUnapproved ==
    \A c \in Calls :
        executions[c] > 0 =>
            \/ RiskOf[c] = "safe"
            \/ RiskOf[c] = "warn" /\ approval[c] = "approved"

\* The staged calls run in the order the model gave them: a call is executed
\* only after every earlier one has its result, also after a takeover.
CallsRunInOrder ==
    \A b, c \in Calls : b < c /\ executions[c] > 0 => result[b] # "none"

\* A call is executed more often than its retries allow only by as much as the
\* process failed: the results kept by the gateway stop every other repetition.
EffectsBounded ==
    \A c \in Calls :
        executions[c] <= (faults + 1) *
                         (IF RiskOf[c] = "safe" THEN RetryAttempts + 1 ELSE 1)

\* An answer is committed only by a task that has the result of every call on
\* its way to it, also when it took the run over in the middle of the queue.
AnswersAreComplete ==
    \A w \in Slots :
        pc[w] = "committing" => \A c \in 1..at[w].call : result[c] # "none"

\* A run does not go on waiting once its approval is decided: decide_approval
\* puts the waiting run back into the queue.
DecisionWakesTheRun ==
    \A c \in Calls :
        /\ status = "waiting_approval"
        /\ checkpoint = [call |-> c, node |-> "tool"]
        /\ approval[c] \in {"approved", "rejected"}
        ~> status # "waiting_approval"

\* A run that can still be taken over keeps the arguments its next node needs:
\* a task that gives its run up leaves it in a state another can go on from.
TakeoverFindsArguments ==
    /\ status = "running"
    /\ \A w \in Slots : pc[w] = "idle"
    /\ checkpoint.node = "tool"
    => checkpoint.call \in payload
=============================================================================
