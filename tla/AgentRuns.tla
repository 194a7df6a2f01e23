----------------------------- MODULE AgentRuns -----------------------------
(***************************************************************************)
(* The durable lifecycle of agent runs: the run store of                   *)
(* src/src/repo/postgresql/runs.py (every store method is one database     *)
(* transaction, hence one atomic step), the execution tasks of             *)
(* src/src/agent/runtime.py that claim, execute and finalise runs, the     *)
(* HTTP routes that create, retry, cancel and resume them, and the         *)
(* maintenance loop of src/src/interfaces/http/app.py that deletes         *)
(* conversations.                                                          *)
(*                                                                         *)
(* Abstractions.                                                           *)
(*  - A slot is one place for a run task (AgentRuntime._execute).  A       *)
(*    runtime process owns two; slots of several processes coexist.        *)
(*  - A claim token is a fresh uuid per claim, represented by the number   *)
(*    of the execution attempt it was issued for; 0 is SQL NULL.  The      *)
(*    worker id that some updates also compare adds nothing to the token.  *)
(*  - lease_expires_at is "live" or "expired"; time is ExpireLease.        *)
(*  - claim_next takes any claimable row: FOR UPDATE SKIP LOCKED passes    *)
(*    over the older rows another transaction has locked.                  *)
(*  - A message is its place in its conversation (sequence = max + 1), its *)
(*    role, the run it came from and the message it replies to.            *)
(*  - A checkpoint of the thread run_id is what _execute distinguishes on  *)
(*    takeover: none, paused at an interrupt, or holding a final answer.   *)
(*  - Losing the database connection around a commit is the slot's Crash   *)
(*    before or after the committing step: in both cases the task ends     *)
(*    without publishing and leaves the row to the lease.                  *)
(***************************************************************************)
EXTENDS Naturals, Sequences, FiniteSets

CONSTANTS
    Runs,           \* run ids
    Conversations,  \* conversation ids
    RequestIds,     \* client_request_id values
    Slots,          \* run-task slots of all runtime processes
    Owners,         \* owner ids
    OwnerOf,        \* the owner of each conversation
    OwnerRunLimit,  \* live running runs per owner (2 in the code)
    LegacyRuns,     \* runs created under another RUNTIME_CONTRACT_VERSION
    NoRun,          \* null
    MaxFaults,      \* bound: crashes and stalls in a behaviour
    MaxInterrupts   \* bound: the attempts in which a run may pause for a human

ASSUME ConstantsAssumption ==
    /\ NoRun \notin Runs
    /\ Conversations # {}
    /\ OwnerOf \in [Conversations -> Owners]
    /\ OwnerRunLimit \in Nat \ {0}
    /\ LegacyRuns \subseteq Runs
    /\ MaxFaults \in Nat
    /\ MaxInterrupts \in Nat

VARIABLES
    \* agent_runs rows
    status, conv, input, output, attempt, claim, lease, cancelRequested,
    \* conversations, conversation_messages, run_requests
    convState, messages, requests,
    \* LangGraph checkpoints and published terminal events
    checkpoint, announced,
    \* run tasks: where each is, what it claimed, what its monitors told it
    pc, held, heldAttempt, signal, verdict,
    \* cancel routes that have read a status and not yet acted on it
    cancelRoute,
    \* maintenance passes that have cleared the checkpoints of a conversation
    swept,
    \* faults so far
    faults

rowVars  == <<status, conv, input, output, attempt, claim, lease,
              cancelRequested>>
convVars == <<convState, messages, requests, swept>>
taskVars == <<pc, held, heldAttempt, signal, verdict>>
vars == <<rowVars, convVars, checkpoint, announced, taskVars, cancelRoute,
          faults>>

ActiveStatuses   == {"queued", "running", "waiting_approval"}
TerminalStatuses == {"succeeded", "failed", "cancelled", "incompatible"}
Statuses == ActiveStatuses \cup TerminalStatuses \cup {"absent", "deleted"}

\* The places of a run task.  "aborting" is a claim whose row already carried
\* cancel_requested_at; "publishing" has committed a terminal status and not
\* yet published it.
\* "refusing" fails the run with the failure its graph ended with, "failing"
\* with an exception.
Places == {"idle", "aborting", "starting", "graph", "finalizing", "refusing",
           "failing", "pausing", "reconciling", "publishing"}
Executing == {"starting", "graph", "finalizing", "refusing", "failing",
              "pausing", "reconciling"}

Message == [role : {"user", "assistant"}, source : Runs \cup {NoRun},
            reply : Nat]

TypeOK ==
    /\ status \in [Runs -> Statuses]
    /\ conv \in [Runs -> Conversations]
    /\ input \in [Runs -> Nat]
    /\ output \in [Runs -> Nat]
    /\ attempt \in [Runs -> Nat]
    /\ claim \in [Runs -> Nat]
    /\ lease \in [Runs -> {"none", "live", "expired"}]
    /\ cancelRequested \in [Runs -> BOOLEAN]
    /\ convState \in [Conversations -> {"active", "deleting", "removed"}]
    /\ messages \in [Conversations -> Seq(Message)]
    /\ requests \in [Conversations -> [RequestIds -> Runs \cup {NoRun}]]
    /\ swept \in [Conversations -> BOOLEAN]
    /\ checkpoint \in [Runs -> {"none", "paused", "final"}]
    /\ announced \in [Runs -> SUBSET TerminalStatuses]
    /\ pc \in [Slots -> Places]
    /\ held \in [Slots -> Runs \cup {NoRun}]
    /\ heldAttempt \in [Slots -> Nat]
    /\ signal \in [Slots -> {"none", "cancel", "uncertain"}]
    /\ verdict \in [Slots -> TerminalStatuses \cup {"none"}]
    /\ cancelRoute \in [Runs -> {"none", "active", "waiting"}]
    /\ faults \in Nat

Init ==
    /\ status = [r \in Runs |-> "absent"]
    /\ conv = [r \in Runs |-> CHOOSE c \in Conversations : TRUE]
    /\ input = [r \in Runs |-> 0]
    /\ output = [r \in Runs |-> 0]
    /\ attempt = [r \in Runs |-> 0]
    /\ claim = [r \in Runs |-> 0]
    /\ lease = [r \in Runs |-> "none"]
    /\ cancelRequested = [r \in Runs |-> FALSE]
    /\ convState = [c \in Conversations |-> "active"]
    /\ messages = [c \in Conversations |-> <<>>]
    /\ requests = [c \in Conversations |-> [k \in RequestIds |-> NoRun]]
    /\ swept = [c \in Conversations |-> FALSE]
    /\ checkpoint = [r \in Runs |-> "none"]
    /\ announced = [r \in Runs |-> {}]
    /\ pc = [w \in Slots |-> "idle"]
    /\ held = [w \in Slots |-> NoRun]
    /\ heldAttempt = [w \in Slots |-> 0]
    /\ signal = [w \in Slots |-> "none"]
    /\ verdict = [w \in Slots |-> "none"]
    /\ cancelRoute = [r \in Runs |-> "none"]
    /\ faults = 0

-----------------------------------------------------------------------------
(* Store helpers.                                                          *)

\* The rows of a conversation; a row is gone once its conversation is removed.
RunsOf(c) == {r \in Runs : conv[r] = c /\ status[r] \notin {"absent", "deleted"}}

\* Mutant: the busy check forgets runs that wait for an approval.
NoActiveRunIgnoringWaiting(c) ==
    \A r \in RunsOf(c) : status[r] \notin {"queued", "running"}

\* _require_no_active_run
NoActiveRun(c) == \A r \in RunsOf(c) : status[r] \notin ActiveStatuses

\* Mutant: the idempotency lookup is skipped.
UnboundAlways(c, k) == TRUE

\* _request_replay finds nothing: the key is new in this conversation.  A bound
\* key is a replay or a conflict, and neither changes the database.
Unbound(c, k) == requests[c][k] = NoRun

\* The latest user message of a conversation (0 when there is none).
LatestUserMessage(c) ==
    LET users == {i \in 1..Len(messages[c]) : messages[c][i].role = "user"}
    IN  IF users = {} THEN 0
        ELSE CHOOSE i \in users : \A j \in users : j <= i

\* Mutant: only a reply written by this very run counts.
PriorRepliesOfRun(r) ==
    {i \in 1..Len(messages[conv[r]]) :
        /\ messages[conv[r]][i].role = "assistant"
        /\ messages[conv[r]][i].source = r}

\* Mutant: any reply in the conversation counts.
PriorRepliesAny(r) ==
    {i \in 1..Len(messages[conv[r]]) : messages[conv[r]][i].role = "assistant"}

\* Assistant messages that already answer this run or its input message.
PriorReplies(r) ==
    {i \in 1..Len(messages[conv[r]]) :
        /\ messages[conv[r]][i].role = "assistant"
        /\ \/ messages[conv[r]][i].source = r
           \/ messages[conv[r]][i].reply = input[r]}

\* The owner's runs that count against its limit.
LiveRunsOfOwner(o) ==
    {r \in Runs : /\ status[r] = "running"
                  /\ lease[r] = "live"
                  /\ OwnerOf[conv[r]] = o}

\* Mutant: a crashed worker's run is never taken over.
ClaimableIfQueued(r) == status[r] = "queued"

\* Mutant: runs that are to be cancelled are not worth claiming.
ClaimableIfWanted(r) ==
    /\ ~cancelRequested[r]
    /\ \/ status[r] = "queued"
       \/ status[r] = "running" /\ lease[r] = "expired"

\* The rows claim_next selects from, before the owner's limit.
Claimable(r) ==
    \/ status[r] = "queued"
    \/ status[r] = "running" /\ lease[r] = "expired"

\* Mutant: a takeover continues the attempt it takes over.
AttemptKept(r) == IF attempt[r] = 0 THEN 1 ELSE attempt[r]

\* The execution attempt (and the token) a new claim gets.
NextAttempt(r) == attempt[r] + 1

\* Mutant: the updates are not fenced.
HoldsClaimUnfenced(w) == status[held[w]] = "running"

\* The compare part of every fenced update: _lock_claim and the WHERE clauses
\* on status, claim_token and execution_attempt.
HoldsClaim(w) ==
    /\ status[held[w]] = "running"
    /\ claim[held[w]] = heldAttempt[w]
    /\ attempt[held[w]] = heldAttempt[w]

\* Mutant: the finalizer does not look at the cancel request.
MaySucceedAfterCancel(w) == HoldsClaim(w)

\* What succeed_run requires of the run's row.
MaySucceed(w) == HoldsClaim(w) /\ ~cancelRequested[held[w]]

-----------------------------------------------------------------------------
(* HTTP routes on runs.                                                    *)

\* _insert_run under the given request key.
InsertRun(c, k, r, message) ==
    /\ status' = [status EXCEPT ![r] = "queued"]
    /\ conv' = [conv EXCEPT ![r] = c]
    /\ input' = [input EXCEPT ![r] = message]
    /\ requests' = [requests EXCEPT ![c][k] = r]
    /\ UNCHANGED <<output, attempt, claim, lease, cancelRequested, convState,
                   swept, checkpoint, announced, taskVars, cancelRoute, faults>>

\* create_run: the user message and the run are inserted together.
CreateRun(c, k, r) ==
    /\ convState[c] = "active"
    /\ Unbound(c, k)
    /\ NoActiveRun(c)
    /\ status[r] = "absent"
    /\ messages' = [messages EXCEPT ![c] =
           Append(@, [role |-> "user", source |-> NoRun, reply |-> 0])]
    /\ InsertRun(c, k, r, Len(messages[c]) + 1)

\* retry_run: a new run for the same input message as the source run.
RetryRun(source, k, r) ==
    /\ status[source] \in {"failed", "cancelled", "incompatible"}
    /\ convState[conv[source]] = "active"
    /\ Unbound(conv[source], k)
    /\ LatestUserMessage(conv[source]) = input[source]
    /\ NoActiveRun(conv[source])
    /\ status[r] = "absent"
    /\ InsertRun(conv[source], k, r, input[source])
    /\ UNCHANGED messages

\* The cancel route reads the run first and chooses its store call from what it
\* read.  One route call per run is in flight at a time.
CancelRouteRead(r) ==
    /\ status[r] \in ActiveStatuses
    /\ cancelRoute[r] = "none"
    /\ cancelRoute' = [cancelRoute EXCEPT
           ![r] = IF status[r] = "waiting_approval" THEN "waiting" ELSE "active"]
    /\ UNCHANGED <<rowVars, convVars, checkpoint, announced, taskVars, faults>>

\* request_cancel after the read: by now the run may be in any status.
RequestCancel(r) ==
    /\ cancelRoute[r] = "active"
    /\ cancelRoute' = [cancelRoute EXCEPT ![r] = "none"]
    /\ cancelRequested' = [cancelRequested EXCEPT
           ![r] = @ \/ status[r] \in ActiveStatuses]
    /\ UNCHANGED <<status, conv, input, output, attempt, claim, lease, convVars,
                   checkpoint, announced, taskVars, faults>>

\* cancel_waiting_approval after the read, then finalize_cancelled_run, which
\* publishes run.cancelled; only deletion can change the row in between, and a
\* deleted row has no events.  A run that has left waiting_approval is a conflict
\* unless it is already cancelled.
CancelWaitingApproval(r) ==
    /\ cancelRoute[r] = "waiting"
    /\ cancelRoute' = [cancelRoute EXCEPT ![r] = "none"]
    /\ IF status[r] = "waiting_approval"
       THEN /\ status' = [status EXCEPT ![r] = "cancelled"]
            /\ claim' = [claim EXCEPT ![r] = 0]
            /\ lease' = [lease EXCEPT ![r] = "none"]
       ELSE UNCHANGED <<status, claim, lease>>
    /\ announced' = [announced EXCEPT
           ![r] = IF status[r] \in {"waiting_approval", "cancelled"}
                  THEN @ \cup {"cancelled"} ELSE @]
    /\ UNCHANGED <<conv, input, output, attempt, cancelRequested, convVars,
                   checkpoint, taskVars, faults>>

\* resume_run, from an approval decision or a clarification answer.
ResumeRun(r) ==
    /\ status[r] = "waiting_approval"
    /\ status' = [status EXCEPT ![r] = "queued"]
    /\ UNCHANGED <<conv, input, output, attempt, claim, lease, cancelRequested,
                   convVars, checkpoint, announced, taskVars, cancelRoute,
                   faults>>

-----------------------------------------------------------------------------
(* Run tasks.                                                              *)

\* What a task leaves behind when it ends (the finally block of _execute).
EndTask(w) ==
    /\ pc' = [pc EXCEPT ![w] = "idle"]
    /\ held' = [held EXCEPT ![w] = NoRun]
    /\ heldAttempt' = [heldAttempt EXCEPT ![w] = 0]
    /\ signal' = [signal EXCEPT ![w] = "none"]
    /\ verdict' = [verdict EXCEPT ![w] = "none"]

\* The task moves on inside _execute.
GoTo(w, place) ==
    /\ pc' = [pc EXCEPT ![w] = place]
    /\ UNCHANGED <<held, heldAttempt, signal, verdict>>

\* A committed terminal status: the row is released and the task goes on to
\* publish the verdict.
Commit(w, s) ==
    /\ status' = [status EXCEPT ![held[w]] = s]
    /\ claim' = [claim EXCEPT ![held[w]] = 0]
    /\ lease' = [lease EXCEPT ![held[w]] = "none"]
    /\ pc' = [pc EXCEPT ![w] = "publishing"]
    /\ verdict' = [verdict EXCEPT ![w] = s]
    /\ UNCHANGED <<conv, input, attempt, cancelRequested, held, heldAttempt,
                   signal>>

\* claim_next from the worker loop.
ClaimNext(w, r) ==
    /\ pc[w] = "idle"
    /\ Claimable(r)
    /\ Cardinality(LiveRunsOfOwner(OwnerOf[conv[r]])) < OwnerRunLimit
    /\ status' = [status EXCEPT ![r] = "running"]
    /\ attempt' = [attempt EXCEPT ![r] = NextAttempt(r)]
    /\ claim' = [claim EXCEPT ![r] = NextAttempt(r)]
    /\ lease' = [lease EXCEPT ![r] = "live"]
    /\ pc' = [pc EXCEPT ![w] =
           IF cancelRequested[r] THEN "aborting" ELSE "starting"]
    /\ held' = [held EXCEPT ![w] = r]
    /\ heldAttempt' = [heldAttempt EXCEPT ![w] = NextAttempt(r)]
    /\ UNCHANGED <<conv, input, output, cancelRequested, signal, verdict,
                   convVars, checkpoint, announced, cancelRoute, faults>>

\* Mutant: any terminal row passes for a cancelled one.
AlreadyEnded(w) == status[held[w]] \in TerminalStatuses

\* Someone else has cancelled the run of this task.
AlreadyCancelled(w) == status[held[w]] = "cancelled"

\* cancel_run as its callers see it: it commits under the claim, it returns a
\* row that someone else already cancelled, or it reports a stale claim.
CancelRun(w) ==
    \/ /\ HoldsClaim(w)
       /\ Commit(w, "cancelled")
       /\ UNCHANGED output
    \/ /\ ~HoldsClaim(w)
       /\ AlreadyCancelled(w)
       /\ pc' = [pc EXCEPT ![w] = "publishing"]
       /\ verdict' = [verdict EXCEPT ![w] = "cancelled"]
       /\ UNCHANGED <<rowVars, held, heldAttempt, signal>>
    \/ /\ ~HoldsClaim(w)
       /\ ~AlreadyCancelled(w)
       /\ EndTask(w)
       /\ UNCHANGED rowVars

\* _execute of a claim whose row already carries a cancel request.
AbortAtClaim(w) ==
    /\ pc[w] = "aborting"
    /\ CancelRun(w)
    /\ UNCHANGED <<convVars, checkpoint, announced, cancelRoute, faults>>

\* A run of another contract version: incompatible_run; a stale claim is an
\* InvalidRunTransition and goes to reconciliation.
RejectIncompatible(w) ==
    /\ pc[w] = "starting"
    /\ held[w] \in LegacyRuns
    /\ IF HoldsClaim(w)
       THEN Commit(w, "incompatible")
       ELSE GoTo(w, "reconciling") /\ UNCHANGED <<status, conv, input, attempt,
                                        claim, lease, cancelRequested>>
    /\ UNCHANGED <<output, convVars, checkpoint, announced, cancelRoute, faults>>

\* authorize_run finds the row gone, the grant revoked or expired, or the owner
\* no longer active under the same epoch: the run fails.
RejectUnauthorized(w) ==
    /\ pc[w] = "starting"
    /\ held[w] \notin LegacyRuns
    /\ GoTo(w, "failing")
    /\ UNCHANGED <<rowVars, convVars, checkpoint, announced, cancelRoute, faults>>

\* Authorised: a checkpoint with a final answer is only finalised again,
\* anything else enters the graph (fresh, or resumed at its interrupt).
BeginExecution(w) ==
    /\ pc[w] = "starting"
    /\ held[w] \notin LegacyRuns
    /\ status[held[w]] # "deleted"
    /\ GoTo(w, IF checkpoint[held[w]] = "final" THEN "finalizing" ELSE "graph")
    /\ UNCHANGED <<rowVars, convVars, checkpoint, announced, cancelRoute, faults>>

\* _invoke_graph returns what the graph did, unless the cancel token is set by
\* then: that is RunCancelled whatever the graph returned, and with an uncertain
\* lease the task ends at once.
LeaveGraph(w, place) ==
    IF signal[w] = "uncertain" THEN EndTask(w)
    ELSE GoTo(w, IF signal[w] = "cancel" THEN "reconciling" ELSE place)

\* The graph ends with an answer, which its checkpoint holds before anything
\* is published.  The checkpointer does not know about claims.
GraphAnswers(w) ==
    /\ pc[w] = "graph"
    /\ checkpoint' = [checkpoint EXCEPT ![held[w]] = "final"]
    /\ LeaveGraph(w, "finalizing")
    /\ UNCHANGED <<rowVars, convVars, announced, cancelRoute, faults>>

\* The graph ends with a RunFailure or is stopped by the token; or it raises,
\* which the token does not suppress.
GraphFails(w) ==
    /\ pc[w] = "graph"
    /\ LeaveGraph(w, "refusing") \/ GoTo(w, "failing")
    /\ UNCHANGED <<rowVars, convVars, checkpoint, announced, cancelRoute, faults>>

\* The graph stops at an interrupt: an approval or a clarification.
GraphInterrupts(w) ==
    /\ pc[w] = "graph"
    /\ heldAttempt[w] <= MaxInterrupts
    /\ checkpoint' = [checkpoint EXCEPT ![held[w]] = "paused"]
    /\ LeaveGraph(w, "pausing")
    /\ UNCHANGED <<rowVars, convVars, announced, cancelRoute, faults>>

\* wait_approval_run; a stale claim is swallowed by _wait_for_hitl.
WaitApproval(w) ==
    /\ pc[w] = "pausing"
    /\ EndTask(w)
    /\ IF HoldsClaim(w)
       THEN /\ status' = [status EXCEPT ![held[w]] = "waiting_approval"]
            /\ claim' = [claim EXCEPT ![held[w]] = 0]
            /\ lease' = [lease EXCEPT ![held[w]] = "none"]
       ELSE UNCHANGED <<status, claim, lease>>
    /\ UNCHANGED <<conv, input, output, attempt, cancelRequested, convVars,
                   checkpoint, announced, cancelRoute, faults>>

\* succeed_run: under the claim, not after a cancel request, in an active
\* conversation; an answer already given to the input message is reused.
SucceedRun(w) ==
    LET r == held[w]
        c == conv[r]
    IN  /\ output' = [output EXCEPT ![r] =
               IF PriorReplies(r) = {} THEN Len(messages[c]) + 1
               ELSE CHOOSE i \in PriorReplies(r) : TRUE]
        /\ messages' = [messages EXCEPT ![c] =
               IF PriorReplies(r) = {}
               THEN Append(@, [role |-> "assistant", source |-> r,
                               reply |-> input[r]])
               ELSE @]
        /\ Commit(w, "succeeded")

\* The finalizer of _execute.  A stale claim or a cancel request is an
\* InvalidRunTransition; a conversation that is not active is an error that
\* fails the run.
Finalize(w) ==
    /\ pc[w] = "finalizing"
    /\ IF ~MaySucceed(w)
       THEN GoTo(w, "reconciling") /\ UNCHANGED <<rowVars, messages>>
       ELSE IF convState[conv[held[w]]] # "active"
            THEN GoTo(w, "failing") /\ UNCHANGED <<rowVars, messages>>
            ELSE SucceedRun(w)
    /\ UNCHANGED <<convState, requests, swept, checkpoint, announced,
                   cancelRoute, faults>>

\* fail_run; with a stale claim a refused run is reconciled, and a task that
\* was handling an exception just ends.
FailRun(w) ==
    /\ pc[w] \in {"refusing", "failing"}
    /\ \/ HoldsClaim(w) /\ Commit(w, "failed") /\ UNCHANGED output
       \/ /\ ~HoldsClaim(w)
          /\ IF pc[w] = "refusing" THEN GoTo(w, "reconciling") ELSE EndTask(w)
          /\ UNCHANGED rowVars
    /\ UNCHANGED <<convVars, checkpoint, announced, cancelRoute, faults>>

\* _reconcile_requested_cancel: nothing is done with an uncertain lease or
\* without a recorded cancel request.
ReconcileRequestedCancel(w) ==
    /\ pc[w] = "reconciling"
    /\ IF \/ signal[w] = "uncertain"
          \/ status[held[w]] = "deleted"
          \/ ~cancelRequested[held[w]]
       THEN EndTask(w) /\ UNCHANGED rowVars
       ELSE CancelRun(w)
    /\ UNCHANGED <<convVars, checkpoint, announced, cancelRoute, faults>>

\* Mutant: the task's record is cleared before its verdict is published.
PublishVerdictTooLate(w) ==
    /\ pc[w] = "publishing"
    /\ EndTask(w)
    /\ announced' = [announced EXCEPT ![held[w]] = @ \cup {verdict'[w]}]
    /\ UNCHANGED <<rowVars, convVars, checkpoint, cancelRoute, faults>>

\* hub.publish of the terminal event; append_run_event needs the run's row.
PublishVerdict(w) ==
    /\ pc[w] = "publishing"
    /\ announced' = [announced EXCEPT ![held[w]] =
           IF status[held[w]] = "deleted" THEN @ ELSE @ \cup {verdict[w]}]
    /\ EndTask(w)
    /\ UNCHANGED <<rowVars, convVars, checkpoint, cancelRoute, faults>>

-----------------------------------------------------------------------------
(* The monitors of a task.                                                 *)

\* heartbeat renews the lease of the claim it was started for, even one that
\* has expired; a stale claim makes the lease uncertain.  (The code stops it
\* once it has seen a cancel request; here it may renew once more.)
Heartbeat(w) ==
    /\ pc[w] \in Executing
    /\ signal[w] # "uncertain"
    /\ IF HoldsClaim(w)
       THEN /\ lease' = [lease EXCEPT ![held[w]] = "live"]
            /\ signal' = [signal EXCEPT ![w] =
                   IF cancelRequested[held[w]] THEN "cancel" ELSE @]
       ELSE /\ signal' = [signal EXCEPT ![w] = "uncertain"]
            /\ UNCHANGED lease
    /\ UNCHANGED <<status, conv, input, output, attempt, claim, cancelRequested,
                   pc, held, heldAttempt, verdict, convVars, checkpoint,
                   announced, cancelRoute, faults>>

\* _observe_persistent_cancellation, or notify_cancel in the same process.
ObserveCancel(w) ==
    /\ pc[w] \in Executing
    /\ signal[w] = "none"
    /\ \/ status[held[w]] = "deleted"
       \/ cancelRequested[held[w]]
    /\ signal' = [signal EXCEPT ![w] =
           IF status[held[w]] = "deleted" THEN "uncertain" ELSE "cancel"]
    /\ UNCHANGED <<rowVars, convVars, checkpoint, announced, pc, held,
                   heldAttempt, verdict, cancelRoute, faults>>

-----------------------------------------------------------------------------
(* Faults and time.                                                        *)

\* A monitor cannot reach the database.
LoseContact(w) ==
    /\ faults < MaxFaults
    /\ pc[w] \in Executing
    /\ signal[w] # "uncertain"
    /\ signal' = [signal EXCEPT ![w] = "uncertain"]
    /\ faults' = faults + 1
    /\ UNCHANGED <<rowVars, convVars, checkpoint, announced, pc, held,
                   heldAttempt, verdict, cancelRoute>>

\* The process dies, is stopped, or the task loses the database mid-call.
Crash(w) ==
    /\ faults < MaxFaults
    /\ pc[w] # "idle"
    /\ EndTask(w)
    /\ faults' = faults + 1
    /\ UNCHANGED <<rowVars, convVars, checkpoint, announced, cancelRoute>>

\* A slot whose heartbeat keeps the lease of r alive.
Tended(r) == \E w \in Slots : pc[w] # "idle" /\ held[w] = r /\ HoldsClaim(w)

\* Sixty seconds without a heartbeat.  For a run nobody tends it is only a
\* matter of time; for a tended one it is a fault, a stalled process.
ExpireLease(r) ==
    /\ status[r] = "running"
    /\ lease[r] = "live"
    /\ \/ ~Tended(r) /\ UNCHANGED faults
       \/ Tended(r) /\ faults < MaxFaults /\ faults' = faults + 1
    /\ lease' = [lease EXCEPT ![r] = "expired"]
    /\ UNCHANGED <<status, conv, input, output, attempt, claim, cancelRequested,
                   convVars, checkpoint, announced, taskVars, cancelRoute>>

-----------------------------------------------------------------------------
(* Conversation deletion.                                                  *)

\* Mutant: runs that wait for an approval are not told.
RunsToStopIgnoringWaiting(c) ==
    {r \in RunsOf(c) : status[r] \in {"queued", "running"}}

\* The runs whose cancel_requested_at the deletion sets.
RunsToStop(c) == {r \in RunsOf(c) : status[r] \in ActiveStatuses}

\* Mutant: only a running run holds up the deletion.
SettledUnlessRunning(c) == \A r \in RunsOf(c) : status[r] # "running"

\* Every run of the conversation is terminal.
Settled(c) == \A r \in RunsOf(c) : status[r] \in TerminalStatuses

\* mark_conversation_deleting: in one transaction the conversation is marked
\* and every active run gets a cancel request.
MarkDeleting(c) ==
    /\ convState[c] = "active"
    /\ convState' = [convState EXCEPT ![c] = "deleting"]
    /\ cancelRequested' = [r \in Runs |->
           cancelRequested[r] \/ r \in RunsToStop(c)]
    /\ UNCHANGED <<status, conv, input, output, attempt, claim, lease, messages,
                   requests, swept, checkpoint, announced, taskVars,
                   cancelRoute, faults>>

\* The maintenance loop: once every run of a deleting conversation is terminal
\* it deletes their checkpoints, and only then the business rows.
SweepCheckpoints(c) ==
    /\ convState[c] = "deleting"
    /\ ~swept[c]
    /\ Settled(c)
    /\ checkpoint' = [r \in Runs |->
           IF r \in RunsOf(c) THEN "none" ELSE checkpoint[r]]
    /\ swept' = [swept EXCEPT ![c] = TRUE]
    /\ UNCHANGED <<rowVars, convState, messages, requests, announced, taskVars,
                   cancelRoute, faults>>

\* remove_conversation, with the cascade to runs, messages and requests.
RemoveConversation(c) ==
    /\ convState[c] = "deleting"
    /\ swept[c]
    /\ convState' = [convState EXCEPT ![c] = "removed"]
    /\ status' = [r \in Runs |-> IF r \in RunsOf(c) THEN "deleted" ELSE status[r]]
    /\ output' = [r \in Runs |-> IF r \in RunsOf(c) THEN 0 ELSE output[r]]
    /\ messages' = [messages EXCEPT ![c] = <<>>]
    /\ requests' = [requests EXCEPT ![c] = [k \in RequestIds |-> NoRun]]
    /\ UNCHANGED <<conv, input, attempt, claim, lease, cancelRequested, swept,
                   checkpoint, announced, taskVars, cancelRoute, faults>>

-----------------------------------------------------------------------------
RouteStep ==
    \/ \E c \in Conversations, k \in RequestIds, r \in Runs : CreateRun(c, k, r)
    \/ \E s \in Runs, k \in RequestIds, r \in Runs : RetryRun(s, k, r)
    \/ \E r \in Runs : CancelRouteRead(r) \/ RequestCancel(r)
                      \/ CancelWaitingApproval(r) \/ ResumeRun(r)

\* The steps of a task that nothing outside it has to allow.
TaskStep(w) ==
    \/ AbortAtClaim(w)
    \/ RejectIncompatible(w)
    \/ RejectUnauthorized(w)
    \/ BeginExecution(w)
    \/ GraphAnswers(w)
    \/ GraphFails(w)
    \/ GraphInterrupts(w)
    \/ WaitApproval(w)
    \/ Finalize(w)
    \/ FailRun(w)
    \/ ReconcileRequestedCancel(w)
    \/ PublishVerdict(w)

MonitorStep(w) == Heartbeat(w) \/ ObserveCancel(w)

FaultStep ==
    \/ \E w \in Slots : LoseContact(w) \/ Crash(w)
    \/ \E r \in Runs : ExpireLease(r)

DeletionStep ==
    \E c \in Conversations :
        MarkDeleting(c) \/ SweepCheckpoints(c) \/ RemoveConversation(c)

Next ==
    \/ RouteStep
    \/ \E w \in Slots, r \in Runs : ClaimNext(w, r)
    \/ \E w \in Slots : TaskStep(w) \/ MonitorStep(w)
    \/ FaultStep
    \/ DeletionStep

Spec == Init /\ [][Next]_vars

\* What the scheduler owes: the event loop runs every task and its monitors,
\* worker loops keep polling, a lease nobody renews runs out, the maintenance
\* loop comes round every second and an HTTP request that was read is finished.
\* Nothing is assumed of users, faults or stalled processes.
Fairness ==
    /\ \A w \in Slots :
           /\ WF_vars(TaskStep(w))
           /\ WF_vars(ObserveCancel(w))
           /\ WF_vars(\E r \in Runs : ClaimNext(w, r))
    /\ \A r \in Runs :
           /\ WF_vars(~Tended(r) /\ ExpireLease(r))
           /\ WF_vars(RequestCancel(r) \/ CancelWaitingApproval(r))
    /\ \A c \in Conversations :
           WF_vars(SweepCheckpoints(c) \/ RemoveConversation(c))

FairSpec == Spec /\ Fairness

-----------------------------------------------------------------------------
(* Properties.                                                             *)

\* A conversation never has two active runs, whatever the order of creates,
\* retries, takeovers and resumes (create_run and retry_run check it, and
\* nothing may bring a run back to an active status).
OneActiveRunPerConversation ==
    \A r, s \in Runs :
        /\ status[r] \in ActiveStatuses
        /\ status[s] \in ActiveStatuses
        /\ conv[r] = conv[s]
        => r = s

\* A user message gets at most one assistant reply, however many attempts,
\* takeovers and retries answered it (succeed_run reuses a prior reply).
OneReplyPerInput ==
    \A c \in Conversations : \A i, j \in 1..Len(messages[c]) :
        /\ messages[c][i].role = "assistant"
        /\ messages[c][j].role = "assistant"
        /\ messages[c][i].reply = messages[c][j].reply
        => i = j

\* A run that succeeded points at an assistant message that answers its own
\* input message (succeed_run, with the reuse of a reply of an earlier run).
SucceededRunIsAnswered ==
    \A r \in Runs :
        status[r] = "succeeded" =>
            /\ output[r] \in 1..Len(messages[conv[r]])
            /\ messages[conv[r]][output[r]].role = "assistant"
            /\ messages[conv[r]][output[r]].reply = input[r]

\* A cancel request that was recorded while the run was active is never
\* answered by success: succeed_run looks at it inside its transaction.
CancelNeverLosesToSuccess ==
    \A r \in Runs : cancelRequested[r] => status[r] # "succeeded"

\* A run with an active status in a conversation under deletion has been told
\* to stop: mark_conversation_deleting reaches every active run, and no run is
\* created or retried behind it.
DeletionReachesActiveRuns ==
    \A r \in Runs :
        /\ status[r] \in ActiveStatuses
        /\ convState[conv[r]] # "active"
        => cancelRequested[r]

\* Every terminal event published for a run agrees with its stored status,
\* also when the publisher lost its claim meanwhile (the events follow the
\* commit in _execute, _reconcile_requested_cancel and the cancel route).
EventsTellTheTruth ==
    \A r \in Runs :
        status[r] # "deleted" => announced[r] \subseteq {status[r]}

\* Every run that exists is the answer to exactly one client request, and every
\* recorded request names a run of its own conversation that exists: a repeated
\* client_request_id starts nothing, and no other request is given its run.
RequestsNameTheirRuns ==
    /\ \A c \in Conversations, k \in RequestIds :
           requests[c][k] # NoRun =>
               /\ status[requests[c][k]] \notin {"absent", "deleted"}
               /\ conv[requests[c][k]] = c
               /\ \A l \in RequestIds : requests[c][l] = requests[c][k] => l = k
    /\ \A r \in Runs :
           status[r] \notin {"absent", "deleted"} =>
               \E k \in RequestIds : requests[conv[r]][k] = r

\* At most one task holds the claim of a run; the tasks of earlier attempts
\* are fenced off by the token.
OneClaimHolder ==
    \A v, w \in Slots :
        /\ pc[v] \in Executing \cup {"aborting"}
        /\ pc[w] \in Executing \cup {"aborting"}
        /\ held[v] = held[w]
        /\ HoldsClaim(v)
        /\ HoldsClaim(w)
        => v = w

\* What a step may do to the status of a run: a terminal status is only left
\* by deletion, deletion only follows a terminal status, and a run leaves
\* "running" only by the hand of the task that holds its claim.
StatusStep ==
    \A r \in Runs :
        /\ status[r] \in TerminalStatuses => status'[r] \in {status[r], "deleted"}
        /\ status'[r] = "deleted" =>
               status[r] \in TerminalStatuses \cup {"deleted"}
        /\ status[r] = "running" /\ status'[r] # "running" =>
               \E w \in Slots : /\ pc[w] # "idle"
                                /\ held[w] = r
                                /\ heldAttempt[w] = attempt[r]
                                /\ pc'[w] \in {"idle", "publishing"}

StatusDiscipline == [][StatusStep]_vars

\* Every run that is queued or running ends, pauses for a human, or disappears
\* with its conversation, through crashes and takeovers.
EveryRunSettles ==
    \A r \in Runs :
        status[r] \in {"queued", "running"} ~>
            status[r] \in TerminalStatuses \cup {"waiting_approval", "deleted"}

\* A deleted conversation goes away, through crashes, takeovers and old tasks:
\* the maintenance loop converges.  Only a run that waits for a human holds it
\* up, for as long as nobody answers: the loop skips the conversation, although
\* the run was told to stop.
DeletionConverges ==
    \A c \in Conversations :
        convState[c] = "deleting" ~>
            \/ convState[c] = "removed"
            \/ \E r \in RunsOf(c) : status[r] = "waiting_approval"

\* Once a conversation is removed, no checkpoint of its runs is left: the
\* maintenance loop clears the checkpoints first and the rows last.
NoCheckpointOutlivesItsConversation ==
    \A r \in Runs : status[r] = "deleted" => checkpoint[r] = "none"

-----------------------------------------------------------------------------
(* The implemented specification: the store's rows, seen without claims.   *)

\* The inputs of a conversation that an assistant message answers.
AnsweredInputs(c) ==
    {messages[c][i].reply :
        i \in {j \in 1..Len(messages[c]) : messages[c][j].role = "assistant"}}

Lifecycle == INSTANCE RunLifecycle WITH
    phase <- status,
    thread <- conv,
    question <- input,
    stop <- cancelRequested,
    open <- [c \in Conversations |-> convState[c] = "active"],
    answered <- [c \in Conversations |-> AnsweredInputs(c)]

\* The store and the run tasks implement the lifecycle contract: no takeover,
\* crash or late finalizer shows outside as anything but one of its moves.
ImplementsLifecycle == Lifecycle!LifecycleSpec
=============================================================================
