-------------------------- MODULE AgentRunsProofs --------------------------
(***************************************************************************)
(* Proofs about AgentRuns, for every set of runs, conversations, request   *)
(* ids and slots and every bound on faults and interrupts; among them      *)
(* that AgentRuns implements RunLifecycle.                                 *)
(***************************************************************************)
EXTENDS AgentRuns, TLAPS

\* What a run task knows about itself: a busy slot has a run, and a task that is
\* about to publish has a terminal verdict.
TaskOK ==
    \A w \in Slots :
        /\ pc[w] # "idle" => held[w] \in Runs
        /\ pc[w] = "publishing" => verdict[w] \in TerminalStatuses

TypeInv == TypeOK /\ TaskOK

USE DEF ActiveStatuses, TerminalStatuses, Statuses, Places, Executing

LEMMA InitType == Init => TypeInv
BY ConstantsAssumption DEF Init, TypeInv, TypeOK, TaskOK

LEMMA RouteType == TypeInv /\ RouteStep => TypeInv'
<1> SUFFICES ASSUME TypeInv, RouteStep PROVE TypeInv'
    OBVIOUS
<1> USE DEF TypeInv, TypeOK, TaskOK, vars, rowVars, convVars, taskVars
<1>1. ASSUME NEW c \in Conversations, NEW k \in RequestIds, NEW r \in Runs,
             CreateRun(c, k, r)
      PROVE  TypeInv'
    <2>1. messages' \in [Conversations -> Seq(Message)]
        <3> DEFINE m == [role |-> "user", source |-> NoRun, reply |-> 0]
        <3>1. m \in Message
            BY DEF Message
        <3>2. Append(messages[c], m) \in Seq(Message)
            BY <3>1
        <3> QED BY <1>1, <3>2 DEF CreateRun
    <2>2. requests' \in [Conversations -> [RequestIds -> Runs \cup {NoRun}]]
        BY <1>1 DEF CreateRun, InsertRun
    <2>3. input' \in [Runs -> Nat]
        BY <1>1 DEF CreateRun, InsertRun
    <2> QED BY <1>1, <2>1, <2>2, <2>3 DEF CreateRun, InsertRun
<1>2. ASSUME NEW s \in Runs, NEW k \in RequestIds, NEW r \in Runs,
             RetryRun(s, k, r)
      PROVE  TypeInv'
    BY <1>2 DEF RetryRun, InsertRun
<1>3. ASSUME NEW r \in Runs, CancelRouteRead(r) PROVE TypeInv'
    BY <1>3 DEF CancelRouteRead
<1>4. ASSUME NEW r \in Runs, RequestCancel(r) PROVE TypeInv'
    BY <1>4 DEF RequestCancel
<1>5. ASSUME NEW r \in Runs, CancelWaitingApproval(r) PROVE TypeInv'
    <2>1. announced' \in [Runs -> SUBSET TerminalStatuses]
        BY <1>5 DEF CancelWaitingApproval
    <2>2. /\ status' \in [Runs -> Statuses]
          /\ claim' \in [Runs -> Nat]
          /\ lease' \in [Runs -> {"none", "live", "expired"}]
        <3>1. CASE status[r] = "waiting_approval"
            <4>1. /\ status' = [status EXCEPT ![r] = "cancelled"]
                  /\ claim' = [claim EXCEPT ![r] = 0]
                  /\ lease' = [lease EXCEPT ![r] = "none"]
                BY <1>5, <3>1 DEF CancelWaitingApproval
            <4> QED BY <4>1
        <3>2. CASE status[r] # "waiting_approval"
            BY <1>5, <3>2 DEF CancelWaitingApproval
        <3> QED BY <3>1, <3>2
    <2>3. cancelRoute' \in [Runs -> {"none", "active", "waiting"}]
        BY <1>5 DEF CancelWaitingApproval
    <2> QED BY <1>5, <2>1, <2>2, <2>3 DEF CancelWaitingApproval
<1>6. ASSUME NEW r \in Runs, ResumeRun(r) PROVE TypeInv'
    BY <1>6 DEF ResumeRun
<1> QED BY <1>1, <1>2, <1>3, <1>4, <1>5, <1>6 DEF RouteStep

\* The pieces of the task actions, and what they do to the types.
LEMMA EndTaskType ==
    ASSUME TypeInv, NEW w \in Slots, EndTask(w)
    PROVE  /\ pc' \in [Slots -> Places]
           /\ held' \in [Slots -> Runs \cup {NoRun}]
           /\ heldAttempt' \in [Slots -> Nat]
           /\ signal' \in [Slots -> {"none", "cancel", "uncertain"}]
           /\ verdict' \in [Slots -> TerminalStatuses \cup {"none"}]
           /\ TaskOK'
BY DEF TypeInv, TypeOK, TaskOK, EndTask

LEMMA GoToType ==
    ASSUME TypeInv, NEW w \in Slots, NEW p \in Places \ {"publishing"},
           pc[w] # "idle", GoTo(w, p)
    PROVE  /\ pc' \in [Slots -> Places]
           /\ held' \in [Slots -> Runs \cup {NoRun}]
           /\ heldAttempt' \in [Slots -> Nat]
           /\ signal' \in [Slots -> {"none", "cancel", "uncertain"}]
           /\ verdict' \in [Slots -> TerminalStatuses \cup {"none"}]
           /\ TaskOK'
BY DEF TypeInv, TypeOK, TaskOK, GoTo

LEMMA CommitType ==
    ASSUME TypeInv, NEW w \in Slots, NEW s \in TerminalStatuses,
           pc[w] # "idle", Commit(w, s)
    PROVE  /\ status' \in [Runs -> Statuses]
           /\ claim' \in [Runs -> Nat]
           /\ lease' \in [Runs -> {"none", "live", "expired"}]
           /\ pc' \in [Slots -> Places]
           /\ verdict' \in [Slots -> TerminalStatuses \cup {"none"}]
           /\ UNCHANGED <<conv, input, attempt, cancelRequested, held,
                          heldAttempt, signal>>
           /\ TaskOK'
BY DEF TypeInv, TypeOK, TaskOK, Commit

LEMMA SucceedRunType ==
    ASSUME TypeInv, NEW w \in Slots, held[w] \in Runs, SucceedRun(w)
    PROVE  /\ output' \in [Runs -> Nat]
           /\ messages' \in [Conversations -> Seq(Message)]
<1> DEFINE r == held[w]
           c == conv[r]
           m == [role |-> "assistant", source |-> r, reply |-> input[r]]
<1>1. c \in Conversations /\ messages[c] \in Seq(Message) /\ Len(messages[c]) \in Nat
    BY DEF TypeInv, TypeOK
<1>2. PriorReplies(r) \subseteq Nat
    BY <1>1 DEF PriorReplies
<1>3. m \in Message
    BY DEF Message, TypeInv, TypeOK
<1>4. Append(messages[c], m) \in Seq(Message)
    BY <1>1, <1>3
<1>5. (IF PriorReplies(r) = {} THEN Len(messages[c]) + 1
       ELSE CHOOSE i \in PriorReplies(r) : TRUE) \in Nat
    BY <1>1, <1>2
<1>6. output' \in [Runs -> Nat]
    BY <1>5 DEF SucceedRun, TypeInv, TypeOK
<1>7. messages' = [messages EXCEPT ![c] =
          IF PriorReplies(r) = {} THEN Append(messages[c], m) ELSE messages[c]]
    BY <1>1 DEF SucceedRun, TypeInv, TypeOK
<1>8. messages' \in [Conversations -> Seq(Message)]
    <2> HIDE DEF m, r, c
    <2>1. (IF PriorReplies(r) = {} THEN Append(messages[c], m) ELSE messages[c])
              \in Seq(Message)
        BY <1>1, <1>4
    <2> QED BY <1>7, <2>1 DEF TypeInv, TypeOK
<1> QED BY <1>6, <1>8

LEMMA CancelRunType ==
    ASSUME TypeInv, NEW w \in Slots, pc[w] # "idle", CancelRun(w),
           UNCHANGED <<convVars, checkpoint, announced, cancelRoute, faults>>
    PROVE  TypeInv'
<1>1. CASE HoldsClaim(w) /\ Commit(w, "cancelled") /\ UNCHANGED output
    BY <1>1, CommitType DEF TypeInv, TypeOK, convVars
<1>2. CASE /\ pc' = [pc EXCEPT ![w] = "publishing"]
           /\ verdict' = [verdict EXCEPT ![w] = "cancelled"]
           /\ UNCHANGED <<rowVars, held, heldAttempt, signal>>
    BY <1>2 DEF TypeInv, TypeOK, TaskOK, convVars, rowVars
<1>3. CASE EndTask(w) /\ UNCHANGED rowVars
    BY <1>3, EndTaskType DEF TypeInv, TypeOK, convVars, rowVars
<1> QED BY <1>1, <1>2, <1>3 DEF CancelRun

LEMMA TaskType ==
    ASSUME TypeInv, NEW w \in Slots, TaskStep(w)
    PROVE  TypeInv'
<1> USE DEF convVars, rowVars
<1>1. CASE AbortAtClaim(w)
    BY <1>1, CancelRunType DEF AbortAtClaim
<1>2. CASE RejectIncompatible(w)
    <2>0. /\ pc[w] # "idle"
          /\ UNCHANGED <<output, convVars, checkpoint, announced, cancelRoute,
                         faults>>
        BY <1>2 DEF RejectIncompatible
    <2>1. CASE Commit(w, "incompatible")
        BY <2>0, <2>1, CommitType DEF TypeInv, TypeOK
    <2>2. CASE /\ GoTo(w, "reconciling")
               /\ UNCHANGED <<status, conv, input, attempt, claim, lease,
                              cancelRequested>>
        BY <2>0, <2>2, GoToType DEF TypeInv, TypeOK
    <2> QED BY <1>2, <2>1, <2>2 DEF RejectIncompatible
<1>3. CASE RejectUnauthorized(w)
    BY <1>3, GoToType DEF RejectUnauthorized, TypeInv, TypeOK
<1>4. CASE BeginExecution(w)
    BY <1>4, GoToType DEF BeginExecution, TypeInv, TypeOK
<1>5. CASE GraphAnswers(w)
    BY <1>5, GoToType, EndTaskType DEF GraphAnswers, LeaveGraph, TypeInv, TypeOK, TaskOK
<1>6. CASE GraphFails(w)
    BY <1>6, GoToType, EndTaskType DEF GraphFails, LeaveGraph, TypeInv, TypeOK
<1>7. CASE GraphInterrupts(w)
    BY <1>7, GoToType, EndTaskType DEF GraphInterrupts, LeaveGraph, TypeInv, TypeOK, TaskOK
<1>8. CASE WaitApproval(w)
    <2>1. /\ status' \in [Runs -> Statuses]
          /\ claim' \in [Runs -> Nat]
          /\ lease' \in [Runs -> {"none", "live", "expired"}]
        <3>1. CASE HoldsClaim(w)
            <4>1. /\ status' = [status EXCEPT ![held[w]] = "waiting_approval"]
                  /\ claim' = [claim EXCEPT ![held[w]] = 0]
                  /\ lease' = [lease EXCEPT ![held[w]] = "none"]
                BY <1>8, <3>1 DEF WaitApproval
            <4> QED BY <4>1 DEF TypeInv, TypeOK
        <3>2. CASE ~HoldsClaim(w)
            BY <1>8, <3>2 DEF WaitApproval, TypeInv, TypeOK
        <3> QED BY <3>1, <3>2
    <2> QED BY <1>8, <2>1, EndTaskType DEF WaitApproval, TypeInv, TypeOK
<1>9. CASE Finalize(w)
    <2>1. CASE GoTo(w, "reconciling") /\ UNCHANGED <<rowVars, messages>>
        BY <1>9, <2>1, GoToType DEF Finalize, TypeInv, TypeOK
    <2>2. CASE GoTo(w, "failing") /\ UNCHANGED <<rowVars, messages>>
        BY <1>9, <2>2, GoToType DEF Finalize, TypeInv, TypeOK
    <2>3. CASE SucceedRun(w)
        <3>1. held[w] \in Runs /\ conv[held[w]] \in Conversations
            BY <1>9 DEF Finalize, TypeInv, TypeOK, TaskOK
        <3>2. /\ output' \in [Runs -> Nat]
              /\ messages' \in [Conversations -> Seq(Message)]
            BY <2>3, <3>1, SucceedRunType
        <3>3. Commit(w, "succeeded") /\ pc[w] # "idle"
            BY <1>9, <2>3 DEF Finalize, SucceedRun
        <3>4. UNCHANGED <<convState, requests, swept, checkpoint, announced,
                          cancelRoute, faults>>
            BY <1>9 DEF Finalize
        <3> QED BY <3>2, <3>3, <3>4, CommitType DEF TypeInv, TypeOK
    <2> QED BY <1>9, <2>1, <2>2, <2>3 DEF Finalize
<1>10. CASE FailRun(w)
    <2>1. CASE Commit(w, "failed") /\ UNCHANGED output
        BY <1>10, <2>1, CommitType DEF FailRun, TypeInv, TypeOK
    <2>2. CASE GoTo(w, "reconciling") /\ UNCHANGED rowVars
        BY <1>10, <2>2, GoToType DEF FailRun, TypeInv, TypeOK
    <2>3. CASE EndTask(w) /\ UNCHANGED rowVars
        BY <1>10, <2>3, EndTaskType DEF FailRun, TypeInv, TypeOK
    <2> QED BY <1>10, <2>1, <2>2, <2>3 DEF FailRun
<1>11. CASE ReconcileRequestedCancel(w)
    <2>1. CASE EndTask(w) /\ UNCHANGED rowVars
        BY <1>11, <2>1, EndTaskType DEF ReconcileRequestedCancel, TypeInv, TypeOK
    <2>2. CASE CancelRun(w)
        BY <1>11, <2>2, CancelRunType DEF ReconcileRequestedCancel
    <2> QED BY <1>11, <2>1, <2>2 DEF ReconcileRequestedCancel
<1>12. CASE PublishVerdict(w)
    <2>1. announced' \in [Runs -> SUBSET TerminalStatuses]
        BY <1>12 DEF PublishVerdict, TypeInv, TypeOK, TaskOK
    <2> QED BY <1>12, <2>1, EndTaskType DEF PublishVerdict, TypeInv, TypeOK
<1> QED BY <1>1, <1>2, <1>3, <1>4, <1>5, <1>6, <1>7, <1>8, <1>9, <1>10, <1>11,
           <1>12 DEF TaskStep

LEMMA ClaimType ==
    ASSUME TypeInv, NEW w \in Slots, NEW r \in Runs, ClaimNext(w, r)
    PROVE  TypeInv'
BY DEF ClaimNext, NextAttempt, TypeInv, TypeOK, TaskOK, convVars

LEMMA MonitorType ==
    ASSUME TypeInv, NEW w \in Slots, MonitorStep(w)
    PROVE  TypeInv'
<1> USE DEF TypeInv, TypeOK, TaskOK, convVars, rowVars
<1>1. CASE Heartbeat(w)
    <2>0. UNCHANGED <<status, conv, input, output, attempt, claim,
                      cancelRequested, pc, held, heldAttempt, verdict, convVars,
                      checkpoint, announced, cancelRoute, faults>>
        BY <1>1 DEF Heartbeat
    <2>1. CASE HoldsClaim(w)
        <3>1. /\ lease' = [lease EXCEPT ![held[w]] = "live"]
              /\ signal' = [signal EXCEPT ![w] =
                     IF cancelRequested[held[w]] THEN "cancel" ELSE signal[w]]
            BY <1>1, <2>1 DEF Heartbeat
        <3> QED BY <2>0, <3>1
    <2>2. CASE ~HoldsClaim(w)
        <3>1. signal' = [signal EXCEPT ![w] = "uncertain"] /\ lease' = lease
            BY <1>1, <2>2 DEF Heartbeat
        <3> QED BY <2>0, <3>1
    <2> QED BY <2>1, <2>2
<1>2. CASE ObserveCancel(w)
    BY <1>2 DEF ObserveCancel
<1> QED BY <1>1, <1>2 DEF MonitorStep

LEMMA FaultType == TypeInv /\ FaultStep => TypeInv'
<1> SUFFICES ASSUME TypeInv, FaultStep PROVE TypeInv'
    OBVIOUS
<1> USE DEF convVars, rowVars
<1>1. ASSUME NEW w \in Slots, LoseContact(w) PROVE TypeInv'
    BY <1>1 DEF LoseContact, TypeInv, TypeOK, TaskOK
<1>2. ASSUME NEW w \in Slots, Crash(w) PROVE TypeInv'
    BY <1>2, EndTaskType DEF Crash, TypeInv, TypeOK
<1>3. ASSUME NEW r \in Runs, ExpireLease(r) PROVE TypeInv'
    <2>1. /\ lease' = [lease EXCEPT ![r] = "expired"]
          /\ faults' \in Nat
        BY <1>3 DEF ExpireLease, TypeInv, TypeOK
    <2>2. UNCHANGED <<status, conv, input, output, attempt, claim,
                      cancelRequested, convVars, checkpoint, announced,
                      taskVars, cancelRoute>>
        BY <1>3 DEF ExpireLease
    <2> QED BY <2>1, <2>2 DEF TypeInv, TypeOK, TaskOK, taskVars
<1> QED BY <1>1, <1>2, <1>3 DEF FaultStep

LEMMA DeletionType == TypeInv /\ DeletionStep => TypeInv'
<1> SUFFICES ASSUME TypeInv, DeletionStep PROVE TypeInv'
    OBVIOUS
<1> USE DEF convVars, rowVars, taskVars, TypeInv, TypeOK, TaskOK
<1>1. ASSUME NEW c \in Conversations, MarkDeleting(c) PROVE TypeInv'
    BY <1>1 DEF MarkDeleting
<1>2. ASSUME NEW c \in Conversations, SweepCheckpoints(c) PROVE TypeInv'
    BY <1>2 DEF SweepCheckpoints
<1>3. ASSUME NEW c \in Conversations, RemoveConversation(c) PROVE TypeInv'
    <2>1. messages' \in [Conversations -> Seq(Message)]
        BY <1>3 DEF RemoveConversation
    <2>2. requests' \in [Conversations -> [RequestIds -> Runs \cup {NoRun}]]
        BY <1>3 DEF RemoveConversation
    <2> QED BY <1>3, <2>1, <2>2 DEF RemoveConversation
<1> QED BY <1>1, <1>2, <1>3 DEF DeletionStep

LEMMA StutterType == TypeInv /\ UNCHANGED vars => TypeInv'
BY DEF vars, convVars, rowVars, taskVars, TypeInv, TypeOK, TaskOK

LEMMA NextType == TypeInv /\ [Next]_vars => TypeInv'
BY RouteType, ClaimType, TaskType, MonitorType, FaultType, DeletionType,
   StutterType DEF Next

\* Every variable keeps its type in every behaviour of the specification.
THEOREM TypeCorrect == Spec => []TypeOK
<1>1. Spec => []TypeInv
    BY InitType, NextType, PTL DEF Spec
<1> QED BY <1>1, PTL DEF TypeInv

-----------------------------------------------------------------------------
(* Fencing.  The inductive invariant: claims are numbered and no two tasks *)
(* share a number, a verdict waiting to be published is still the stored   *)
(* status, and a swept conversation has no run left that could move.       *)

Fenced ==
    /\ \A w \in Slots : pc[w] # "idle" => heldAttempt[w] <= attempt[held[w]]
    /\ \A v, w \in Slots :
           /\ pc[v] # "idle"
           /\ pc[w] # "idle"
           /\ held[v] = held[w]
           /\ heldAttempt[v] = heldAttempt[w]
           => v = w

VerdictsHold ==
    \A w \in Slots :
        pc[w] = "publishing" => status[held[w]] \in {verdict[w], "deleted"}

SweptSettled ==
    \A c \in Conversations :
        swept[c] => /\ convState[c] # "active"
                    /\ \A r \in Runs : conv[r] = c => status[r] \notin ActiveStatuses

Inv == TypeInv /\ Fenced /\ VerdictsHold /\ SweptSettled /\ EventsTellTheTruth

\* What one step can do to a run.
RunEffect(r) ==
    /\ attempt[r] <= attempt'[r]
    /\ announced'[r] \in {announced[r], announced[r] \cup {status'[r]}}
    /\ status[r] = "running" /\ status'[r] # "running" =>
           \E w \in Slots : /\ pc[w] # "idle"
                            /\ held[w] = r
                            /\ heldAttempt[w] = attempt[r]
                            /\ pc'[w] \in {"idle", "publishing"}
    /\ \/ /\ status'[r] = status[r]
          /\ conv'[r] = conv[r]
       \/ /\ status[r] = "absent"
          /\ status'[r] = "queued"
          /\ convState[conv'[r]] = "active"
       \/ /\ status[r] \in ActiveStatuses
          /\ status'[r] \in ActiveStatuses \cup TerminalStatuses
          /\ conv'[r] = conv[r]
       \/ /\ status[r] \in TerminalStatuses
          /\ status'[r] = "deleted"
          /\ conv'[r] = conv[r]

\* What one step can do to a slot.
SlotEffect(w) ==
    \/ pc'[w] = "idle"
    \/ /\ pc[w] # "idle"
       /\ held'[w] = held[w]
       /\ heldAttempt'[w] = heldAttempt[w]
       /\ pc'[w] = "publishing" =>
              \/ pc[w] = "publishing" /\ verdict'[w] = verdict[w]
              \/ status'[held[w]] = verdict'[w]
    \/ /\ pc'[w] # "publishing"
       /\ held'[w] \in Runs
       /\ attempt[held'[w]] < heldAttempt'[w]
       /\ heldAttempt'[w] = attempt'[held'[w]]
       /\ \A v \in Slots \ {w} : /\ pc'[v] = pc[v]
                                 /\ held'[v] = held[v]
                                 /\ heldAttempt'[v] = heldAttempt[v]

\* What one step can do to a conversation.
ConvEffect(c) ==
    /\ convState[c] # "active" => convState'[c] # "active"
    /\ swept'[c] => \/ swept[c]
                    \/ /\ convState'[c] # "active"
                       /\ Settled(c)
                       /\ UNCHANGED <<status, conv>>

Effect ==
    /\ \A r \in Runs : RunEffect(r)
    /\ \A w \in Slots : SlotEffect(w)
    /\ \A c \in Conversations : ConvEffect(c)

LEMMA RouteEffect == Inv /\ RouteStep => Effect
<1> SUFFICES ASSUME Inv, RouteStep PROVE Effect
    OBVIOUS
<1> USE DEF Inv, TypeInv, TypeOK, Effect, RunEffect, SlotEffect, ConvEffect,
            convVars, rowVars, taskVars
<1>1. ASSUME NEW c \in Conversations, NEW k \in RequestIds, NEW r \in Runs,
             CreateRun(c, k, r)
      PROVE  Effect
    BY <1>1 DEF CreateRun, InsertRun
<1>2. ASSUME NEW s \in Runs, NEW k \in RequestIds, NEW r \in Runs,
             RetryRun(s, k, r)
      PROVE  Effect
    BY <1>2 DEF RetryRun, InsertRun
<1>3. ASSUME NEW r \in Runs, CancelRouteRead(r) PROVE Effect
    BY <1>3 DEF CancelRouteRead
<1>4. ASSUME NEW r \in Runs, RequestCancel(r) PROVE Effect
    BY <1>4 DEF RequestCancel
<1>5. ASSUME NEW r \in Runs, CancelWaitingApproval(r) PROVE Effect
    BY <1>5 DEF CancelWaitingApproval
<1>6. ASSUME NEW r \in Runs, ResumeRun(r) PROVE Effect
    BY <1>6 DEF ResumeRun
<1> QED BY <1>1, <1>2, <1>3, <1>4, <1>5, <1>6 DEF RouteStep

LEMMA EffectInv == Inv /\ TypeInv' /\ Effect => Inv'
<1> SUFFICES ASSUME Inv, TypeInv', Effect PROVE Inv'
    OBVIOUS
<1>1. Fenced'
    <2>1. ASSUME NEW w \in Slots, pc'[w] # "idle"
          PROVE  heldAttempt'[w] <= attempt'[held'[w]]
        <3>1. SlotEffect(w) /\ held'[w] \in Runs /\ RunEffect(held'[w])
            BY <2>1 DEF Effect, TypeInv, TaskOK
        <3>2. /\ attempt[held'[w]] \in Nat /\ attempt'[held'[w]] \in Nat
              /\ heldAttempt[w] \in Nat /\ heldAttempt'[w] \in Nat
            BY <3>1 DEF Inv, TypeInv, TypeOK
        <3> QED BY <2>1, <3>1, <3>2 DEF SlotEffect, RunEffect, Inv, Fenced
    <2>2. ASSUME NEW v \in Slots, NEW w \in Slots,
                 pc'[v] # "idle", pc'[w] # "idle", held'[v] = held'[w],
                 heldAttempt'[v] = heldAttempt'[w]
          PROVE  v = w
        <3>1. SlotEffect(v) /\ SlotEffect(w) /\ held'[w] \in Runs
            BY <2>2 DEF Effect, TypeInv, TaskOK
        <3>2. /\ attempt[held'[w]] \in Nat
              /\ heldAttempt[w] \in Nat /\ heldAttempt'[w] \in Nat
              /\ heldAttempt[v] \in Nat /\ heldAttempt'[v] \in Nat
            BY <3>1 DEF Inv, TypeInv, TypeOK
        <3>3. SUFFICES ASSUME v # w PROVE FALSE
            OBVIOUS
        <3> QED BY <2>2, <3>1, <3>2, <3>3 DEF SlotEffect, Inv, Fenced
    <2> QED BY <2>1, <2>2 DEF Fenced
<1>2. VerdictsHold'
    <2> SUFFICES ASSUME NEW w \in Slots, pc'[w] = "publishing"
                 PROVE  status'[held'[w]] \in {verdict'[w], "deleted"}
        BY DEF VerdictsHold
    <2>1. SlotEffect(w) /\ held'[w] \in Runs /\ RunEffect(held'[w])
        BY DEF Effect, TypeInv, TaskOK
    <2>2. pc[w] = "publishing" => verdict[w] \in TerminalStatuses
        BY DEF Inv, TypeInv, TaskOK
    <2> QED BY <2>1, <2>2 DEF SlotEffect, RunEffect, Inv, VerdictsHold
<1>3. SweptSettled'
    <2> SUFFICES ASSUME NEW c \in Conversations, swept'[c]
                 PROVE  /\ convState'[c] # "active"
                        /\ \A r \in Runs : conv'[r] = c =>
                               status'[r] \notin ActiveStatuses
        BY DEF SweptSettled
    <2>1. ConvEffect(c)
        BY DEF Effect
    <2>2. CASE swept[c]
        <3>1. convState[c] # "active" /\ convState'[c] # "active"
            BY <2>1, <2>2 DEF Inv, SweptSettled, ConvEffect
        <3>2. ASSUME NEW r \in Runs, conv'[r] = c
              PROVE  status'[r] \notin ActiveStatuses
            <4>1. RunEffect(r)
                BY DEF Effect
            <4>2. conv[r] = c => status[r] \notin ActiveStatuses
                BY <2>2 DEF Inv, SweptSettled
            <4> QED BY <3>1, <3>2, <4>1, <4>2 DEF RunEffect
        <3> QED BY <3>1, <3>2
    <2>3. CASE ~swept[c]
        BY <2>1, <2>3 DEF ConvEffect, Settled, RunsOf
    <2> QED BY <2>2, <2>3
<1>4. EventsTellTheTruth'
    <2> SUFFICES ASSUME NEW r \in Runs, status'[r] # "deleted"
                 PROVE  announced'[r] \subseteq {status'[r]}
        BY DEF EventsTellTheTruth
    <2>1. RunEffect(r)
        BY DEF Effect
    <2>2. announced[r] \subseteq TerminalStatuses
        BY DEF Inv, TypeInv, TypeOK
    <2>3. status[r] # "deleted"
        BY <2>1 DEF RunEffect
    <2>4. announced[r] \subseteq {status[r]}
        BY <2>3 DEF Inv, EventsTellTheTruth
    <2> QED BY <2>1, <2>2, <2>4 DEF RunEffect
<1> QED BY <1>1, <1>2, <1>3, <1>4 DEF Inv

\* The pieces of the task actions leave other slots and other runs alone.
LEMMA EndTaskEffect ==
    ASSUME Inv, NEW w \in Slots, EndTask(w)
    PROVE  \A v \in Slots : SlotEffect(v)
BY DEF Inv, TypeInv, TypeOK, EndTask, SlotEffect

LEMMA GoToEffect ==
    ASSUME Inv, NEW w \in Slots, NEW p \in Places \ {"publishing"},
           pc[w] # "idle", GoTo(w, p)
    PROVE  \A v \in Slots : SlotEffect(v)
BY DEF Inv, TypeInv, TypeOK, GoTo, SlotEffect

LEMMA CommitEffect ==
    ASSUME Inv, NEW w \in Slots, NEW s \in TerminalStatuses,
           pc[w] # "idle", HoldsClaim(w), Commit(w, s), UNCHANGED announced
    PROVE  /\ \A r \in Runs : RunEffect(r)
           /\ \A v \in Slots : SlotEffect(v)
<1>1. held[w] \in Runs
    BY DEF Inv, TypeInv, TaskOK
<1>2. \A r \in Runs : RunEffect(r)
    BY <1>1 DEF Inv, TypeInv, TypeOK, Commit, RunEffect, HoldsClaim
<1>3. \A v \in Slots : SlotEffect(v)
    BY <1>1 DEF Inv, TypeInv, TypeOK, Commit, SlotEffect
<1> QED BY <1>2, <1>3

LEMMA QuietRows ==
    ASSUME Inv, UNCHANGED <<status, conv, attempt, announced>>
    PROVE  \A r \in Runs : RunEffect(r)
BY DEF Inv, TypeInv, TypeOK, RunEffect

LEMMA QuietConversations ==
    ASSUME Inv, UNCHANGED <<convState, swept>>
    PROVE  \A c \in Conversations : ConvEffect(c)
BY DEF ConvEffect

LEMMA CancelRunEffect ==
    ASSUME Inv, NEW w \in Slots, pc[w] # "idle", CancelRun(w),
           UNCHANGED <<convVars, checkpoint, announced, cancelRoute, faults>>
    PROVE  Effect
<1> USE DEF convVars, rowVars
<1>1. \A c \in Conversations : ConvEffect(c)
    BY QuietConversations
<1>2. CASE HoldsClaim(w) /\ Commit(w, "cancelled") /\ UNCHANGED output
    BY <1>1, <1>2, CommitEffect DEF Effect
<1>3. CASE /\ AlreadyCancelled(w)
           /\ pc' = [pc EXCEPT ![w] = "publishing"]
           /\ verdict' = [verdict EXCEPT ![w] = "cancelled"]
           /\ UNCHANGED <<rowVars, held, heldAttempt, signal>>
    <2>1. \A v \in Slots : SlotEffect(v)
        BY <1>3 DEF Inv, TypeInv, TypeOK, SlotEffect, AlreadyCancelled
    <2> QED BY <1>1, <1>3, <2>1, QuietRows DEF Effect
<1>4. CASE EndTask(w) /\ UNCHANGED rowVars
    BY <1>1, <1>4, EndTaskEffect, QuietRows DEF Effect
<1> QED BY <1>2, <1>3, <1>4 DEF CancelRun

LEMMA TaskEffect ==
    ASSUME Inv, NEW w \in Slots, TaskStep(w)
    PROVE  Effect
<1> USE DEF convVars, rowVars
<1>0. \A c \in Conversations : ConvEffect(c)
    BY QuietConversations
    DEF TaskStep, AbortAtClaim, RejectIncompatible, RejectUnauthorized,
        BeginExecution, GraphAnswers, GraphFails, GraphInterrupts, WaitApproval,
        Finalize, FailRun, ReconcileRequestedCancel, PublishVerdict
<1>1. CASE AbortAtClaim(w)
    BY <1>1, CancelRunEffect DEF AbortAtClaim
<1>2. CASE RejectIncompatible(w)
    <2>0. pc[w] # "idle" /\ UNCHANGED announced
        BY <1>2 DEF RejectIncompatible
    <2>1. CASE HoldsClaim(w) /\ Commit(w, "incompatible")
        BY <1>0, <2>0, <2>1, CommitEffect DEF Effect
    <2>2. CASE GoTo(w, "reconciling") /\ UNCHANGED <<status, conv, attempt>>
        BY <1>0, <2>0, <2>2, GoToEffect, QuietRows DEF Effect
    <2> QED BY <1>2, <2>1, <2>2 DEF RejectIncompatible
<1>3. CASE RejectUnauthorized(w)
    BY <1>0, <1>3, GoToEffect, QuietRows DEF RejectUnauthorized, Effect
<1>4. CASE BeginExecution(w)
    BY <1>0, <1>4, GoToEffect, QuietRows DEF BeginExecution, Effect
<1>5. ASSUME NEW p \in Places \ {"publishing"}, pc[w] # "idle",
             LeaveGraph(w, p), UNCHANGED <<status, conv, attempt, announced>>
      PROVE  Effect
    <2>1. CASE EndTask(w)
        BY <1>0, <1>5, <2>1, EndTaskEffect, QuietRows DEF Effect
    <2>2. CASE GoTo(w, p) \/ GoTo(w, "reconciling")
        BY <1>0, <1>5, <2>2, GoToEffect, QuietRows DEF Effect
    <2> QED BY <1>5, <2>1, <2>2 DEF LeaveGraph
<1>6. CASE GraphAnswers(w) \/ GraphFails(w) \/ GraphInterrupts(w)
    <2>1. CASE GraphFails(w) /\ GoTo(w, "failing")
        <3>1. pc[w] # "idle" /\ UNCHANGED <<status, conv, attempt, announced>>
            BY <2>1 DEF GraphFails
        <3> QED BY <1>0, <2>1, <3>1, GoToEffect, QuietRows DEF Effect
    <2> QED BY <1>5, <1>6, <2>1 DEF GraphAnswers, GraphFails, GraphInterrupts
<1>8. CASE WaitApproval(w)
    <2>1. held[w] \in Runs /\ EndTask(w)
        BY <1>8 DEF WaitApproval, Inv, TypeInv, TaskOK
    <2>2. \A r \in Runs : RunEffect(r)
        <3>1. CASE HoldsClaim(w)
            BY <1>8, <2>1, <3>1
            DEF WaitApproval, EndTask, HoldsClaim, Inv, TypeInv, TypeOK, RunEffect
        <3>2. CASE ~HoldsClaim(w)
            BY <1>8, <3>2, QuietRows DEF WaitApproval
        <3> QED BY <3>1, <3>2
    <2> QED BY <1>0, <2>1, <2>2, EndTaskEffect DEF Effect
<1>9. CASE Finalize(w)
    <2>0. pc[w] # "idle" /\ UNCHANGED announced
        BY <1>9 DEF Finalize
    <2>1. CASE /\ GoTo(w, "reconciling") \/ GoTo(w, "failing")
               /\ UNCHANGED <<rowVars, messages>>
        BY <1>0, <2>0, <2>1, GoToEffect, QuietRows DEF Effect
    <2>2. CASE MaySucceed(w) /\ SucceedRun(w)
        BY <1>0, <2>0, <2>2, CommitEffect
        DEF Effect, MaySucceed, SucceedRun
    <2> QED BY <1>9, <2>1, <2>2 DEF Finalize
<1>10. CASE FailRun(w)
    <2>0. pc[w] # "idle" /\ UNCHANGED announced
        BY <1>10 DEF FailRun
    <2>1. CASE HoldsClaim(w) /\ Commit(w, "failed")
        BY <1>0, <2>0, <2>1, CommitEffect DEF Effect
    <2>2. CASE GoTo(w, "reconciling") /\ UNCHANGED rowVars
        BY <1>0, <2>0, <2>2, GoToEffect, QuietRows DEF Effect
    <2>3. CASE EndTask(w) /\ UNCHANGED rowVars
        BY <1>0, <2>0, <2>3, EndTaskEffect, QuietRows DEF Effect
    <2> QED BY <1>10, <2>1, <2>2, <2>3 DEF FailRun
<1>11. CASE ReconcileRequestedCancel(w)
    <2>0. /\ pc[w] # "idle"
          /\ UNCHANGED <<convVars, checkpoint, announced, cancelRoute, faults>>
        BY <1>11 DEF ReconcileRequestedCancel
    <2>1. CASE EndTask(w) /\ UNCHANGED rowVars
        BY <1>0, <2>0, <2>1, EndTaskEffect, QuietRows DEF Effect
    <2>2. CASE CancelRun(w)
        BY <2>0, <2>2, CancelRunEffect
    <2> QED BY <1>11, <2>1, <2>2 DEF ReconcileRequestedCancel
<1>12. CASE PublishVerdict(w)
    <2>1. \A r \in Runs : RunEffect(r)
        <3>1. status[held[w]] \in {verdict[w], "deleted"}
            BY <1>12 DEF PublishVerdict, Inv, VerdictsHold
        <3> QED BY <1>12, <3>1
                DEF PublishVerdict, RunEffect, Inv, TypeInv, TypeOK
    <2> QED BY <1>0, <1>12, <2>1, EndTaskEffect DEF PublishVerdict, Effect
<1> QED BY <1>1, <1>2, <1>3, <1>4, <1>6, <1>8, <1>9, <1>10, <1>11, <1>12
        DEF TaskStep

LEMMA ClaimEffect ==
    ASSUME Inv, NEW w \in Slots, NEW r \in Runs, ClaimNext(w, r)
    PROVE  Effect
<1> USE DEF ClaimNext, NextAttempt, Claimable, convVars
<1>1. \A c \in Conversations : ConvEffect(c)
    BY QuietConversations
<1>2. \A s \in Runs : RunEffect(s)
    BY DEF Inv, TypeInv, TypeOK, RunEffect
<1>3. \A v \in Slots : SlotEffect(v)
    BY DEF Inv, TypeInv, TypeOK, SlotEffect
<1> QED BY <1>1, <1>2, <1>3 DEF Effect

\* A step that touches neither a row's status nor the slots' claims.
LEMMA QuietEffect ==
    ASSUME Inv,
           UNCHANGED <<status, conv, attempt, announced, convState, swept, pc,
                       held, heldAttempt, verdict>>
    PROVE  Effect
BY DEF Inv, TypeInv, TypeOK, Effect, RunEffect, SlotEffect, ConvEffect

LEMMA MonitorEffect ==
    ASSUME Inv, NEW w \in Slots, MonitorStep(w)
    PROVE  Effect
BY QuietEffect
   DEF MonitorStep, Heartbeat, ObserveCancel, rowVars, convVars

LEMMA FaultEffect == Inv /\ FaultStep => Effect
<1> SUFFICES ASSUME Inv, FaultStep PROVE Effect
    OBVIOUS
<1> USE DEF convVars, rowVars, taskVars
<1>1. ASSUME NEW w \in Slots, LoseContact(w) PROVE Effect
    BY <1>1, QuietEffect DEF LoseContact
<1>2. ASSUME NEW w \in Slots, Crash(w) PROVE Effect
    BY <1>2, EndTaskEffect, QuietRows, QuietConversations DEF Crash, Effect
<1>3. ASSUME NEW r \in Runs, ExpireLease(r) PROVE Effect
    BY <1>3, QuietEffect DEF ExpireLease
<1> QED BY <1>1, <1>2, <1>3 DEF FaultStep

LEMMA DeletionEffect == Inv /\ DeletionStep => Effect
<1> SUFFICES ASSUME Inv, DeletionStep PROVE Effect
    OBVIOUS
<1> USE DEF convVars, rowVars, taskVars, Inv, TypeInv, TypeOK, Effect, RunEffect,
            SlotEffect, ConvEffect
<1>1. ASSUME NEW c \in Conversations, MarkDeleting(c) PROVE Effect
    BY <1>1 DEF MarkDeleting
<1>2. ASSUME NEW c \in Conversations, SweepCheckpoints(c) PROVE Effect
    BY <1>2 DEF SweepCheckpoints
<1>3. ASSUME NEW c \in Conversations, RemoveConversation(c) PROVE Effect
    BY <1>3 DEF RemoveConversation, RunsOf, SweptSettled
<1> QED BY <1>1, <1>2, <1>3 DEF DeletionStep

LEMMA NextEffect == Inv /\ [Next]_vars => Effect
<1>1. Inv /\ UNCHANGED vars => Effect
    BY QuietEffect DEF vars, rowVars, convVars, taskVars
<1> QED BY <1>1, RouteEffect, ClaimEffect, TaskEffect, MonitorEffect,
           FaultEffect, DeletionEffect DEF Next

LEMMA InitInv == Init => Inv
BY InitType DEF Init, Inv, Fenced, VerdictsHold, SweptSettled, EventsTellTheTruth

LEMMA NextInv == Inv /\ [Next]_vars => Inv'
BY NextType, NextEffect, EffectInv DEF Inv

LEMMA Invariance == Spec => []Inv
BY InitInv, NextInv, PTL DEF Spec

\* No two tasks hold the claim of a run, through any number of takeovers: the
\* token issued by claim_next fences off the tasks of earlier attempts.
THEOREM ClaimsAreExclusive == Spec => []OneClaimHolder
<1>1. Inv => OneClaimHolder
    BY DEF Inv, Fenced, OneClaimHolder, HoldsClaim
<1> QED BY <1>1, Invariance, PTL

\* A published terminal event is the stored status, also when the publisher has
\* lost its claim since it committed.
THEOREM EventsAreTrue == Spec => []EventsTellTheTruth
<1>1. Inv => EventsTellTheTruth
    BY DEF Inv
<1> QED BY <1>1, Invariance, PTL

\* A terminal status is final, rows are deleted only when terminal, and only the
\* task that holds the current claim takes a run out of "running".
THEOREM StatusIsDisciplined == Spec => StatusDiscipline
<1>1. Inv /\ [Next]_vars => StatusStep
    BY NextEffect DEF StatusStep, Effect, RunEffect
<1> QED BY <1>1, Invariance, PTL DEF Spec, StatusDiscipline

-----------------------------------------------------------------------------
(* AgentRuns implements RunLifecycle, and what the lifecycle contract      *)
(* guarantees therefore holds of the store and the run tasks.  The store   *)
(* itself then keeps its replies and its request keys straight.            *)

\* An assistant message belongs to a run of its conversation and answers that
\* run's input message.
RepliesKnown ==
    \A c \in Conversations : \A i \in 1..Len(messages[c]) :
        messages[c][i].role = "assistant" =>
            /\ messages[c][i].source \in Runs
            /\ status[messages[c][i].source] # "absent"
            /\ conv[messages[c][i].source] = c
            /\ messages[c][i].reply = input[messages[c][i].source]

RefInv == Inv /\ RepliesKnown

\* What the lifecycle contract sees of a state.
contract == <<status, conv, input, cancelRequested, convState, messages>>

LEMMA QuietContract ==
    ASSUME UNCHANGED contract
    PROVE  UNCHANGED Lifecycle!avars
BY DEF contract, Lifecycle!avars, AnsweredInputs

\* A user message answers nothing.
LEMMA UserMessageAnswersNothing ==
    ASSUME TypeInv, NEW c \in Conversations, NEW m \in Message,
           m.role = "user",
           messages' = [messages EXCEPT ![c] = Append(@, m)]
    PROVE  \A d \in Conversations : AnsweredInputs(d)' = AnsweredInputs(d)
<1> SUFFICES ASSUME NEW d \in Conversations
             PROVE  AnsweredInputs(d)' = AnsweredInputs(d)
    OBVIOUS
<1>1. CASE d # c
    BY <1>1 DEF AnsweredInputs, TypeInv, TypeOK
<1>2. CASE d = c
    <2>1. messages[c] \in Seq(Message) /\ messages'[c] = Append(messages[c], m)
        BY DEF TypeInv, TypeOK
    <2>2. /\ Len(messages'[c]) = Len(messages[c]) + 1
          /\ Len(messages[c]) \in Nat
          /\ \A i \in 1..Len(messages[c]) : messages'[c][i] = messages[c][i]
          /\ messages'[c][Len(messages[c]) + 1] = m
        BY <2>1
    <2>3. {j \in 1..Len(messages'[c]) : messages'[c][j].role = "assistant"}
          = {j \in 1..Len(messages[c]) : messages[c][j].role = "assistant"}
        BY <2>2
    <2> QED BY <1>2, <2>2, <2>3 DEF AnsweredInputs
<1> QED BY <1>1, <1>2

\* The answer of a run answers its input message, and nothing else.
LEMMA AnswerAnswersInput ==
    ASSUME RefInv, NEW w \in Slots, held[w] \in Runs, SucceedRun(w)
    PROVE  \A d \in Conversations :
               AnsweredInputs(d)' =
                   IF d = conv[held[w]] THEN AnsweredInputs(d) \cup {input[held[w]]}
                   ELSE AnsweredInputs(d)
<1> DEFINE r == held[w]
           c == conv[r]
           m == [role |-> "assistant", source |-> r, reply |-> input[r]]
<1>1. c \in Conversations /\ messages[c] \in Seq(Message) /\ m \in Message
    BY DEF RefInv, Inv, TypeInv, TypeOK, Message
<1>2. messages' = [messages EXCEPT ![c] =
          IF PriorReplies(r) = {} THEN Append(messages[c], m) ELSE messages[c]]
    BY <1>1 DEF SucceedRun, RefInv, Inv, TypeInv, TypeOK
<1>3. ASSUME NEW d \in Conversations, d # c
      PROVE  AnsweredInputs(d)' = AnsweredInputs(d)
    BY <1>2, <1>3 DEF AnsweredInputs, RefInv, Inv, TypeInv, TypeOK
<1>4. ASSUME NEW d \in Conversations, d = c
      PROVE  AnsweredInputs(d)' = AnsweredInputs(d) \cup {input[r]}
    <2>1. CASE PriorReplies(r) = {}
        <3>1. messages'[d] = Append(messages[d], m)
            BY <1>1, <1>2, <1>4, <2>1 DEF RefInv, Inv, TypeInv, TypeOK
        <3>2. /\ Len(messages'[d]) = Len(messages[d]) + 1
              /\ Len(messages[d]) \in Nat
              /\ \A i \in 1..Len(messages[d]) : messages'[d][i] = messages[d][i]
              /\ messages'[d][Len(messages[d]) + 1] = m
            BY <1>1, <1>4, <3>1
        <3>4. m.reply = input[r] /\ m.role = "assistant"
            OBVIOUS
        <3> HIDE DEF m, r, c
        <3>3. {j \in 1..Len(messages'[d]) : messages'[d][j].role = "assistant"}
              = {j \in 1..Len(messages[d]) : messages[d][j].role = "assistant"}
                \cup {Len(messages[d]) + 1}
            <4>1. 1..Len(messages'[d]) =
                      (1..Len(messages[d])) \cup {Len(messages[d]) + 1}
                BY <3>2
            <4> QED BY <3>2, <3>4, <4>1
        <3>5. ASSUME NEW x \in AnsweredInputs(d)'
              PROVE  x \in AnsweredInputs(d) \cup {input[r]}
            <4>1. PICK i \in {j \in 1..Len(messages'[d]) :
                                 messages'[d][j].role = "assistant"} :
                      x = messages'[d][i].reply
                BY DEF AnsweredInputs
            <4>2. CASE i = Len(messages[d]) + 1
                BY <3>2, <3>4, <4>1, <4>2
            <4>3. CASE i \in {j \in 1..Len(messages[d]) :
                                 messages[d][j].role = "assistant"}
                BY <3>2, <4>1, <4>3 DEF AnsweredInputs
            <4> QED BY <3>3, <4>1, <4>2, <4>3
        <3>6. AnsweredInputs(d) \cup {input[r]} \subseteq AnsweredInputs(d)'
            <4>1. input[r] \in AnsweredInputs(d)'
                BY <3>2, <3>3, <3>4 DEF AnsweredInputs
            <4>2. AnsweredInputs(d) \subseteq AnsweredInputs(d)'
                BY <3>2, <3>3 DEF AnsweredInputs
            <4> QED BY <4>1, <4>2
        <3> QED BY <3>5, <3>6
    <2>2. CASE PriorReplies(r) # {}
        <3>1. messages'[d] = messages[d]
            BY <1>1, <1>2, <1>4, <2>2 DEF RefInv, Inv, TypeInv, TypeOK
        <3>2. PICK i \in 1..Len(messages[d]) :
                  /\ messages[d][i].role = "assistant"
                  /\ messages[d][i].source = r \/ messages[d][i].reply = input[r]
            BY <1>4, <2>2 DEF PriorReplies
        <3>3. messages[d][i].reply = input[r]
            BY <1>1, <1>4, <3>2 DEF RefInv, RepliesKnown
        <3>4. AnsweredInputs(d)' = AnsweredInputs(d)
            BY <3>1 DEF AnsweredInputs
        <3>5. input[r] \in AnsweredInputs(d)
            BY <3>2, <3>3 DEF AnsweredInputs
        <3> QED BY <3>4, <3>5
    <2> QED BY <2>1, <2>2
<1> QED BY <1>3, <1>4

LEMMA RouteRefines == RefInv /\ RouteStep => [Lifecycle!LifecycleNext]_(Lifecycle!avars)
<1> SUFFICES ASSUME RefInv, RouteStep
             PROVE  [Lifecycle!LifecycleNext]_(Lifecycle!avars)
    OBVIOUS
<1> USE DEF convVars, rowVars
<1>1. ASSUME NEW c \in Conversations, NEW k \in RequestIds, NEW r \in Runs,
             CreateRun(c, k, r)
      PROVE  Lifecycle!Submit(r, c)
    <2> DEFINE m == [role |-> "user", source |-> NoRun, reply |-> 0]
    <2>1. m \in Message /\ m.role = "user"
        BY DEF Message
    <2>2. messages' = [messages EXCEPT ![c] = Append(@, m)]
        BY <1>1 DEF CreateRun
    <2>3. \A d \in Conversations : AnsweredInputs(d)' = AnsweredInputs(d)
        <3> HIDE DEF m
        <3> QED BY <2>1, <2>2, UserMessageAnswersNothing DEF RefInv, Inv
    <2>4. input'[r] \in Nat /\ input' = [input EXCEPT ![r] = input'[r]]
        BY <1>1 DEF CreateRun, InsertRun, RefInv, Inv, TypeInv, TypeOK
    <2>5. \A s \in Runs : status[s] \in Lifecycle!Active => conv[s] # c
        BY <1>1 DEF CreateRun, NoActiveRun, RunsOf, Lifecycle!Active
    <2> QED BY <1>1, <2>3, <2>4, <2>5 DEF CreateRun, InsertRun, Lifecycle!Submit
<1>2. ASSUME NEW s \in Runs, NEW k \in RequestIds, NEW r \in Runs,
             RetryRun(s, k, r)
      PROVE  conv[s] \in Conversations /\ Lifecycle!Submit(r, conv[s])
    <2>1. conv[s] \in Conversations
        BY DEF RefInv, Inv, TypeInv, TypeOK
    <2>2. \A d \in Conversations : AnsweredInputs(d)' = AnsweredInputs(d)
        BY <1>2 DEF RetryRun, AnsweredInputs
    <2>4. input'[r] \in Nat /\ input' = [input EXCEPT ![r] = input'[r]]
        BY <1>2 DEF RetryRun, InsertRun, RefInv, Inv, TypeInv, TypeOK
    <2>5. \A t \in Runs : status[t] \in Lifecycle!Active => conv[t] # conv[s]
        BY <1>2 DEF RetryRun, NoActiveRun, RunsOf, Lifecycle!Active
    <2> QED BY <1>2, <2>1, <2>2, <2>4, <2>5
            DEF RetryRun, InsertRun, Lifecycle!Submit
<1>3. ASSUME NEW r \in Runs, CancelRouteRead(r) PROVE UNCHANGED Lifecycle!avars
    BY <1>3, QuietContract DEF CancelRouteRead, contract
<1>4. ASSUME NEW r \in Runs, RequestCancel(r)
      PROVE  Lifecycle!AskToStop(r) \/ UNCHANGED Lifecycle!avars
    <2>1. CASE status[r] \in ActiveStatuses
        <3>1. cancelRequested' = [cancelRequested EXCEPT ![r] = TRUE]
            BY <1>4, <2>1 DEF RequestCancel, RefInv, Inv, TypeInv, TypeOK
        <3> QED BY <1>4, <2>1, <3>1
                DEF RequestCancel, Lifecycle!AskToStop, Lifecycle!Active,
                    AnsweredInputs
    <2>2. CASE status[r] \notin ActiveStatuses
        <3>1. cancelRequested' = cancelRequested
            BY <1>4, <2>2 DEF RequestCancel, RefInv, Inv, TypeInv, TypeOK
        <3> QED BY <1>4, <3>1, QuietContract DEF RequestCancel, contract
    <2> QED BY <2>1, <2>2
<1>5. ASSUME NEW r \in Runs, CancelWaitingApproval(r)
      PROVE  Lifecycle!End(r) \/ UNCHANGED Lifecycle!avars
    <2>1. CASE status[r] = "waiting_approval"
        BY <1>5, <2>1
        DEF CancelWaitingApproval, Lifecycle!End, Lifecycle!Move, AnsweredInputs
    <2>2. CASE status[r] # "waiting_approval"
        BY <1>5, <2>2, QuietContract DEF CancelWaitingApproval, contract
    <2> QED BY <2>1, <2>2
<1>6. ASSUME NEW r \in Runs, ResumeRun(r) PROVE Lifecycle!Resume(r)
    BY <1>6 DEF ResumeRun, Lifecycle!Resume, Lifecycle!Move, AnsweredInputs
<1> QED BY <1>1, <1>2, <1>3, <1>4, <1>5, <1>6
        DEF RouteStep, Lifecycle!LifecycleNext

\* A commit ends a running run.
LEMMA CommitEnds ==
    ASSUME RefInv, NEW w \in Slots, pc[w] # "idle", HoldsClaim(w),
           NEW s \in {"failed", "cancelled", "incompatible"},
           Commit(w, s), UNCHANGED <<convState, messages>>
    PROVE  held[w] \in Runs /\ Lifecycle!End(held[w])
<1>1. held[w] \in Runs
    BY DEF RefInv, Inv, TypeInv, TaskOK
<1> QED BY <1>1
        DEF HoldsClaim, Commit, Lifecycle!End, Lifecycle!Move, AnsweredInputs

LEMMA CancelRunRefines ==
    ASSUME RefInv, NEW w \in Slots, pc[w] # "idle", CancelRun(w),
           UNCHANGED convVars
    PROVE  [Lifecycle!LifecycleNext]_(Lifecycle!avars)
<1> USE DEF convVars, rowVars
<1>1. CASE HoldsClaim(w) /\ Commit(w, "cancelled")
    BY <1>1, CommitEnds DEF Lifecycle!LifecycleNext
<1>2. CASE UNCHANGED rowVars
    BY <1>2, QuietContract DEF contract
<1> QED BY <1>1, <1>2 DEF CancelRun

LEMMA TaskRefines ==
    ASSUME RefInv, NEW w \in Slots, TaskStep(w)
    PROVE  [Lifecycle!LifecycleNext]_(Lifecycle!avars)
<1> USE DEF convVars, rowVars
<1>1. CASE AbortAtClaim(w)
    BY <1>1, CancelRunRefines DEF AbortAtClaim
<1>2. CASE RejectIncompatible(w)
    <2>1. CASE HoldsClaim(w) /\ Commit(w, "incompatible")
        BY <1>2, <2>1, CommitEnds DEF RejectIncompatible, Lifecycle!LifecycleNext
    <2>2. CASE UNCHANGED <<status, conv, input, cancelRequested>>
        BY <1>2, <2>2, QuietContract DEF RejectIncompatible, contract
    <2> QED BY <1>2, <2>1, <2>2 DEF RejectIncompatible
<1>3. CASE \/ RejectUnauthorized(w) \/ BeginExecution(w) \/ GraphAnswers(w)
           \/ GraphFails(w) \/ GraphInterrupts(w) \/ PublishVerdict(w)
    BY <1>3, QuietContract
    DEF RejectUnauthorized, BeginExecution, GraphAnswers, GraphFails,
        GraphInterrupts, PublishVerdict, contract
<1>4. CASE WaitApproval(w)
    <2>1. held[w] \in Runs
        BY <1>4 DEF WaitApproval, RefInv, Inv, TypeInv, TaskOK
    <2>2. CASE HoldsClaim(w)
        <3>1. Lifecycle!Pause(held[w])
            BY <1>4, <2>2
            DEF WaitApproval, HoldsClaim, Lifecycle!Pause, Lifecycle!Move,
                AnsweredInputs
        <3> QED BY <2>1, <3>1 DEF Lifecycle!LifecycleNext
    <2>3. CASE ~HoldsClaim(w)
        BY <1>4, <2>3, QuietContract DEF WaitApproval, contract
    <2> QED BY <2>2, <2>3
<1>5. CASE Finalize(w)
    <2>1. CASE UNCHANGED <<rowVars, messages>>
        BY <1>5, <2>1, QuietContract DEF Finalize, contract
    <2>2. CASE /\ MaySucceed(w)
               /\ convState[conv[held[w]]] = "active"
               /\ SucceedRun(w)
        <3>1. held[w] \in Runs /\ conv[held[w]] \in Conversations
            BY <1>5 DEF Finalize, RefInv, Inv, TypeInv, TypeOK, TaskOK
        <3>2. [c \in Conversations |-> AnsweredInputs(c)]' =
                  [[c \in Conversations |-> AnsweredInputs(c)]
                      EXCEPT ![conv[held[w]]] = @ \cup {input[held[w]]}]
            BY <2>2, <3>1, AnswerAnswersInput
        <3>3. /\ status[held[w]] = "running"
              /\ ~cancelRequested[held[w]]
              /\ status' = [status EXCEPT ![held[w]] = "succeeded"]
              /\ UNCHANGED <<conv, input, cancelRequested, convState>>
            BY <1>5, <2>2 DEF MaySucceed, HoldsClaim, SucceedRun, Commit, Finalize
        <3>4. Lifecycle!Answer(held[w])
            BY <2>2, <3>1, <3>2, <3>3 DEF Lifecycle!Answer
        <3> QED BY <3>1, <3>4 DEF Lifecycle!LifecycleNext
    <2> QED BY <1>5, <2>1, <2>2 DEF Finalize
<1>6. CASE FailRun(w)
    <2>1. CASE HoldsClaim(w) /\ Commit(w, "failed")
        BY <1>6, <2>1, CommitEnds DEF FailRun, Lifecycle!LifecycleNext
    <2>2. CASE UNCHANGED rowVars
        BY <1>6, <2>2, QuietContract DEF FailRun, contract
    <2> QED BY <1>6, <2>1, <2>2 DEF FailRun
<1>7. CASE ReconcileRequestedCancel(w)
    <2>1. CASE CancelRun(w)
        BY <1>7, <2>1, CancelRunRefines DEF ReconcileRequestedCancel
    <2>2. CASE UNCHANGED rowVars
        BY <1>7, <2>2, QuietContract DEF ReconcileRequestedCancel, contract
    <2> QED BY <1>7, <2>1, <2>2 DEF ReconcileRequestedCancel
<1> QED BY <1>1, <1>2, <1>3, <1>4, <1>5, <1>6, <1>7 DEF TaskStep

LEMMA ClaimRefines ==
    ASSUME RefInv, NEW w \in Slots, NEW r \in Runs, ClaimNext(w, r)
    PROVE  [Lifecycle!LifecycleNext]_(Lifecycle!avars)
<1> USE DEF convVars
<1>1. CASE status[r] = "queued"
    <2>1. Lifecycle!Start(r)
        BY <1>1 DEF ClaimNext, Lifecycle!Start, Lifecycle!Move, AnsweredInputs
    <2> QED BY <2>1 DEF Lifecycle!LifecycleNext
<1>2. CASE status[r] = "running"
    <2>1. status' = status
        BY <1>2 DEF ClaimNext, RefInv, Inv, TypeInv, TypeOK
    <2> QED BY <2>1, QuietContract DEF ClaimNext, contract
<1> QED BY <1>1, <1>2 DEF ClaimNext, Claimable

LEMMA MonitorRefines ==
    ASSUME NEW w \in Slots, MonitorStep(w)
    PROVE  UNCHANGED Lifecycle!avars
BY QuietContract
   DEF MonitorStep, Heartbeat, ObserveCancel, contract, convVars, rowVars

LEMMA FaultRefines == FaultStep => UNCHANGED Lifecycle!avars
<1>1. FaultStep => UNCHANGED contract
    BY DEF FaultStep, LoseContact, Crash, ExpireLease, contract, convVars, rowVars
<1> QED BY <1>1, QuietContract

LEMMA DeletionRefines ==
    RefInv /\ DeletionStep => [Lifecycle!LifecycleNext]_(Lifecycle!avars)
<1> SUFFICES ASSUME RefInv, DeletionStep
             PROVE  [Lifecycle!LifecycleNext]_(Lifecycle!avars)
    OBVIOUS
<1> USE DEF rowVars
<1>1. ASSUME NEW c \in Conversations, MarkDeleting(c) PROVE Lifecycle!Close(c)
    <2>1. [d \in Conversations |-> convState[d] = "active"]' =
              [[d \in Conversations |-> convState[d] = "active"] EXCEPT ![c] = FALSE]
        BY <1>1 DEF MarkDeleting, RefInv, Inv, TypeInv, TypeOK
    <2>2. cancelRequested' = [r \in Runs |->
              cancelRequested[r] \/ (conv[r] = c /\ status[r] \in Lifecycle!Active)]
        BY <1>1 DEF MarkDeleting, RunsToStop, RunsOf, Lifecycle!Active
    <2>3. UNCHANGED <<status, conv, input, [d \in Conversations |-> AnsweredInputs(d)]>>
        BY <1>1 DEF MarkDeleting, AnsweredInputs
    <2>4. convState[c] = "active"
        BY <1>1 DEF MarkDeleting
    <2> QED BY <2>1, <2>2, <2>3, <2>4 DEF Lifecycle!Close
<1>2. ASSUME NEW c \in Conversations, SweepCheckpoints(c)
      PROVE  UNCHANGED Lifecycle!avars
    BY <1>2, QuietContract DEF SweepCheckpoints, contract
<1>3. ASSUME NEW c \in Conversations, RemoveConversation(c)
      PROVE  Lifecycle!Forget(c)
    <2>1. \A r \in Runs : conv[r] = c => status[r] \notin Lifecycle!Active
        BY <1>3 DEF RemoveConversation, RefInv, Inv, SweptSettled, Lifecycle!Active
    <2>2. status' = [r \in Runs |->
              IF conv[r] = c /\ status[r] \in Lifecycle!Terminal
              THEN "deleted" ELSE status[r]]
        BY <1>3, <2>1
        DEF RemoveConversation, RunsOf, Lifecycle!Active, Lifecycle!Terminal,
            RefInv, Inv, TypeInv, TypeOK
    <2>3. [d \in Conversations |-> AnsweredInputs(d)]' =
              [[d \in Conversations |-> AnsweredInputs(d)] EXCEPT ![c] = {}]
        <3>1. messages' = [messages EXCEPT ![c] = <<>>]
            BY <1>3 DEF RemoveConversation
        <3>2. ASSUME NEW d \in Conversations
              PROVE  AnsweredInputs(d)' = IF d = c THEN {} ELSE AnsweredInputs(d)
            <4>1. CASE d = c
                <5>1. messages'[d] = <<>>
                    BY <3>1, <4>1 DEF RefInv, Inv, TypeInv, TypeOK
                <5>2. {j \in 1..Len(messages'[d]) :
                          messages'[d][j].role = "assistant"} = {}
                    BY <5>1
                <5> QED BY <4>1, <5>2 DEF AnsweredInputs
            <4>2. CASE d # c
                BY <3>1, <4>2 DEF AnsweredInputs, RefInv, Inv, TypeInv, TypeOK
            <4> QED BY <4>1, <4>2
        <3> QED BY <3>2
    <2>4. [d \in Conversations |-> convState[d] = "active"]' =
              [d \in Conversations |-> convState[d] = "active"]
        BY <1>3 DEF RemoveConversation, RefInv, Inv, TypeInv, TypeOK
    <2> QED BY <1>3, <2>1, <2>2, <2>3, <2>4 DEF RemoveConversation, Lifecycle!Forget
<1> QED BY <1>1, <1>2, <1>3 DEF DeletionStep, Lifecycle!LifecycleNext

LEMMA NextRefines ==
    RefInv /\ [Next]_vars => [Lifecycle!LifecycleNext]_(Lifecycle!avars)
<1>1. UNCHANGED vars => UNCHANGED Lifecycle!avars
    BY QuietContract DEF vars, rowVars, convVars, contract
<1> QED BY <1>1, RouteRefines, ClaimRefines, TaskRefines, MonitorRefines,
           FaultRefines, DeletionRefines DEF Next

\* Once a run exists, its conversation and its input message never change.
LEMMA RunsKeepTheirInput ==
    ASSUME TypeInv, [Lifecycle!LifecycleNext]_(Lifecycle!avars),
           NEW r \in Runs, status[r] # "absent"
    PROVE  status'[r] # "absent" /\ conv'[r] = conv[r] /\ input'[r] = input[r]
<1> USE DEF TypeInv, TypeOK
<1>1. CASE UNCHANGED Lifecycle!avars
    BY <1>1 DEF Lifecycle!avars
<1>2. ASSUME NEW s \in Runs, NEW c \in Conversations, Lifecycle!Submit(s, c)
      PROVE  status'[r] # "absent" /\ conv'[r] = conv[r] /\ input'[r] = input[r]
    <2>1. /\ status[s] = "absent"
          /\ status' = [status EXCEPT ![s] = "queued"]
          /\ conv' = [conv EXCEPT ![s] = c]
          /\ input' = [input EXCEPT ![s] = input'[s]]
        BY <1>2 DEF Lifecycle!Submit
    <2> QED BY <2>1
<1>3. ASSUME NEW s \in Runs,
             \/ Lifecycle!Start(s) \/ Lifecycle!Pause(s) \/ Lifecycle!Resume(s)
             \/ Lifecycle!End(s)
      PROVE  status'[r] # "absent" /\ conv'[r] = conv[r] /\ input'[r] = input[r]
    BY <1>3 DEF Lifecycle!Start, Lifecycle!Pause, Lifecycle!Resume, Lifecycle!End,
                Lifecycle!Move
<1>4. ASSUME NEW s \in Runs, Lifecycle!Answer(s) \/ Lifecycle!AskToStop(s)
      PROVE  status'[r] # "absent" /\ conv'[r] = conv[r] /\ input'[r] = input[r]
    BY <1>4 DEF Lifecycle!Answer, Lifecycle!AskToStop
<1>5. ASSUME NEW c \in Conversations, Lifecycle!Close(c) \/ Lifecycle!Forget(c)
      PROVE  status'[r] # "absent" /\ conv'[r] = conv[r] /\ input'[r] = input[r]
    BY <1>5 DEF Lifecycle!Close, Lifecycle!Forget
<1> QED BY <1>1, <1>2, <1>3, <1>4, <1>5 DEF Lifecycle!LifecycleNext

\* A step that leaves messages, outputs and requests alone, and no run succeeds,
\* appears or disappears in it.
QuietStep ==
    /\ UNCHANGED <<messages, output, requests>>
    /\ \A r \in Runs : /\ status'[r] = "succeeded" => status[r] = "succeeded"
                       /\ status'[r] = "deleted" <=> status[r] = "deleted"
                       /\ status'[r] = "absent" <=> status[r] = "absent"

LEMMA CommitQuiet ==
    ASSUME TypeInv, NEW w \in Slots, NEW s \in TerminalStatuses \ {"succeeded"},
           HoldsClaim(w), Commit(w, s), UNCHANGED <<messages, output, requests>>
    PROVE  QuietStep
BY DEF QuietStep, Commit, HoldsClaim, TypeInv, TypeOK

LEMMA CancelRunQuiet ==
    ASSUME TypeInv, NEW w \in Slots, CancelRun(w), UNCHANGED <<messages, requests>>
    PROVE  QuietStep
<1>1. CASE HoldsClaim(w) /\ Commit(w, "cancelled") /\ UNCHANGED output
    BY <1>1, CommitQuiet
<1>2. CASE UNCHANGED rowVars
    BY <1>2 DEF rowVars, QuietStep
<1> QED BY <1>1, <1>2 DEF CancelRun

\* The steps that touch messages, outputs or requests.
LEMMA StoreSteps ==
    ASSUME TypeInv, [Next]_vars
    PROVE  \/ QuietStep
           \/ \E c \in Conversations, k \in RequestIds, r \in Runs : CreateRun(c, k, r)
           \/ \E s \in Runs, k \in RequestIds, r \in Runs : RetryRun(s, k, r)
           \/ \E w \in Slots : /\ pc[w] # "idle" /\ HoldsClaim(w) /\ SucceedRun(w)
                               /\ UNCHANGED requests
           \/ \E c \in Conversations : RemoveConversation(c)
<1> USE DEF convVars, rowVars, TypeInv, TypeOK
<1>1. ASSUME NEW r \in Runs,
             \/ CancelRouteRead(r) \/ RequestCancel(r) \/ CancelWaitingApproval(r)
             \/ ResumeRun(r)
      PROVE  QuietStep
    BY <1>1 DEF QuietStep, CancelRouteRead, RequestCancel, CancelWaitingApproval, ResumeRun
<1>2. ASSUME NEW w \in Slots, TaskStep(w)
      PROVE  \/ QuietStep
             \/ pc[w] # "idle" /\ HoldsClaim(w) /\ SucceedRun(w) /\ UNCHANGED requests
    <2>1. CASE Finalize(w)
        <3>1. \/ UNCHANGED <<messages, rowVars>>
              \/ MaySucceed(w) /\ SucceedRun(w)
            BY <2>1 DEF Finalize
        <3>2. pc[w] # "idle" /\ UNCHANGED requests
            BY <2>1 DEF Finalize
        <3>3. MaySucceed(w) => HoldsClaim(w)
            BY DEF MaySucceed
        <3>4. CASE UNCHANGED <<messages, rowVars>>
            BY <3>2, <3>4 DEF QuietStep
        <3> QED BY <3>1, <3>2, <3>3, <3>4
    <2>2. CASE AbortAtClaim(w)
        BY <2>2, CancelRunQuiet DEF AbortAtClaim
    <2>3. CASE RejectIncompatible(w)
        <3>1. UNCHANGED <<messages, output, requests>>
            BY <2>3 DEF RejectIncompatible
        <3>2. CASE HoldsClaim(w) /\ Commit(w, "incompatible")
            BY <3>1, <3>2, CommitQuiet
        <3>3. CASE UNCHANGED status
            BY <3>1, <3>3 DEF QuietStep
        <3> QED BY <2>3, <3>2, <3>3 DEF RejectIncompatible
    <2>4. CASE \/ RejectUnauthorized(w) \/ BeginExecution(w) \/ GraphAnswers(w)
               \/ GraphFails(w) \/ GraphInterrupts(w) \/ PublishVerdict(w)
        BY <2>4 DEF RejectUnauthorized, BeginExecution, GraphAnswers, GraphFails,
                    GraphInterrupts, PublishVerdict, QuietStep
    <2>5. CASE WaitApproval(w)
        BY <2>5 DEF WaitApproval, HoldsClaim, QuietStep
    <2>6. CASE FailRun(w)
        <3>1. UNCHANGED <<messages, requests>>
            BY <2>6 DEF FailRun
        <3>2. CASE HoldsClaim(w) /\ Commit(w, "failed") /\ UNCHANGED output
            BY <3>1, <3>2, CommitQuiet
        <3>3. CASE UNCHANGED rowVars
            BY <3>1, <3>3 DEF QuietStep
        <3> QED BY <2>6, <3>2, <3>3 DEF FailRun
    <2>7. CASE ReconcileRequestedCancel(w)
        <3>1. UNCHANGED <<messages, requests>>
            BY <2>7 DEF ReconcileRequestedCancel
        <3>2. CASE UNCHANGED rowVars
            BY <3>1, <3>2 DEF QuietStep
        <3> QED BY <2>7, <3>1, <3>2, CancelRunQuiet DEF ReconcileRequestedCancel
    <2> QED BY <1>2, <2>1, <2>2, <2>3, <2>4, <2>5, <2>6, <2>7 DEF TaskStep
<1>3. ASSUME NEW w \in Slots, NEW r \in Runs, ClaimNext(w, r)
      PROVE  QuietStep
    BY <1>3 DEF ClaimNext, Claimable, QuietStep
<1>4. ASSUME NEW w \in Slots, MonitorStep(w) PROVE QuietStep
    BY <1>4 DEF MonitorStep, Heartbeat, ObserveCancel, QuietStep
<1>5. FaultStep => QuietStep
    BY DEF FaultStep, LoseContact, Crash, ExpireLease, QuietStep
<1>6. DeletionStep => QuietStep \/ \E c \in Conversations : RemoveConversation(c)
    BY DEF DeletionStep, MarkDeleting, SweepCheckpoints, QuietStep
<1>7. UNCHANGED vars => QuietStep
    BY DEF vars, QuietStep
<1> QED BY <1>1, <1>2, <1>3, <1>4, <1>5, <1>6, <1>7 DEF Next, RouteStep

LEMMA RepliesStayKnown == RefInv /\ [Next]_vars => RepliesKnown'
<1> SUFFICES ASSUME RefInv, [Next]_vars,
                    NEW c \in Conversations, NEW i \in 1..Len(messages'[c]),
                    messages'[c][i].role = "assistant"
             PROVE  /\ messages'[c][i].source \in Runs
                    /\ status'[messages'[c][i].source] # "absent"
                    /\ conv'[messages'[c][i].source] = c
                    /\ messages'[c][i].reply = input'[messages'[c][i].source]
    BY DEF RepliesKnown
<1>1. \A r \in Runs : status[r] # "absent" =>
          status'[r] # "absent" /\ conv'[r] = conv[r] /\ input'[r] = input[r]
    BY NextRefines, RunsKeepTheirInput DEF RefInv, Inv
<1>2. messages[c] \in Seq(Message) /\ Len(messages[c]) \in Nat
    BY DEF RefInv, Inv, TypeInv, TypeOK
<1>3. CASE i \in 1..Len(messages[c]) /\ messages'[c][i] = messages[c][i]
    BY <1>1, <1>3 DEF RefInv, RepliesKnown
<1>4. CASE UNCHANGED messages
    BY <1>3, <1>4
<1>5. ASSUME NEW d \in Conversations, NEW k \in RequestIds, NEW r \in Runs,
             CreateRun(d, k, r)
      PROVE  i \in 1..Len(messages[c]) /\ messages'[c][i] = messages[c][i]
    <2> DEFINE m == [role |-> "user", source |-> NoRun, reply |-> 0]
    <2>1. messages' = [messages EXCEPT ![d] = Append(@, m)] /\ m.role = "user"
        BY <1>5 DEF CreateRun
    <2> HIDE DEF m
    <2>2. CASE d # c
        BY <2>1, <2>2 DEF RefInv, Inv, TypeInv, TypeOK
    <2>3. CASE d = c
        <3>1. messages'[c] = Append(messages[c], m)
            BY <2>1, <2>3 DEF RefInv, Inv, TypeInv, TypeOK
        <3>2. CASE i = Len(messages[c]) + 1
            BY <1>2, <2>1, <3>1, <3>2
        <3>3. CASE i \in 1..Len(messages[c])
            BY <1>2, <3>1, <3>3
        <3> QED BY <1>2, <3>1, <3>2, <3>3
    <2> QED BY <2>2, <2>3
<1>6. ASSUME NEW w \in Slots, pc[w] # "idle", HoldsClaim(w), SucceedRun(w)
      PROVE  \/ i \in 1..Len(messages[c]) /\ messages'[c][i] = messages[c][i]
             \/ /\ messages'[c][i].source = held[w]
                /\ messages'[c][i].reply = input[held[w]]
                /\ conv[held[w]] = c
    <2> DEFINE m == [role |-> "assistant", source |-> held[w],
                     reply |-> input[held[w]]]
    <2>1. /\ messages' = [messages EXCEPT ![conv[held[w]]] =
                 IF PriorReplies(held[w]) = {} THEN Append(@, m) ELSE @]
          /\ m.source = held[w]
          /\ m.reply = input[held[w]]
        BY <1>6 DEF SucceedRun
    <2> HIDE DEF m
    <2>2. CASE conv[held[w]] # c \/ PriorReplies(held[w]) # {}
        BY <2>1, <2>2 DEF RefInv, Inv, TypeInv, TypeOK
    <2>3. CASE conv[held[w]] = c /\ PriorReplies(held[w]) = {}
        <3>1. messages'[c] = Append(messages[c], m)
            BY <2>1, <2>3 DEF RefInv, Inv, TypeInv, TypeOK
        <3>2. CASE i = Len(messages[c]) + 1
            BY <1>2, <2>1, <2>3, <3>1, <3>2
        <3>3. CASE i \in 1..Len(messages[c])
            BY <1>2, <3>1, <3>3
        <3> QED BY <1>2, <3>1, <3>2, <3>3
    <2> QED BY <2>2, <2>3
<1>7. ASSUME NEW w \in Slots, pc[w] # "idle", HoldsClaim(w)
      PROVE  held[w] \in Runs /\ status[held[w]] # "absent"
    BY <1>7 DEF HoldsClaim, RefInv, Inv, TypeInv, TaskOK
<1>8. ASSUME NEW d \in Conversations, RemoveConversation(d)
      PROVE  i \in 1..Len(messages[c]) /\ messages'[c][i] = messages[c][i]
    <2>1. messages' = [messages EXCEPT ![d] = <<>>]
        BY <1>8 DEF RemoveConversation
    <2>2. CASE d # c
        BY <2>1, <2>2 DEF RefInv, Inv, TypeInv, TypeOK
    <2>3. CASE d = c
        <3>1. messages'[c] = <<>>
            BY <2>1, <2>3 DEF RefInv, Inv, TypeInv, TypeOK
        <3> QED BY <3>1
    <2> QED BY <2>2, <2>3
<1>9. TypeInv
    BY DEF RefInv, Inv
<1> QED BY <1>1, <1>3, <1>4, <1>5, <1>6, <1>7, <1>8, <1>9, StoreSteps DEF QuietStep, RetryRun

LEMMA InitRefines == Init => RefInv /\ Lifecycle!LifecycleInit
<1> SUFFICES ASSUME Init PROVE RefInv /\ Lifecycle!LifecycleInit
    OBVIOUS
<1>1. RepliesKnown
    BY DEF Init, RepliesKnown
<1>2. \A c \in Conversations : AnsweredInputs(c) = {}
    BY DEF Init, AnsweredInputs
<1>3. conv \in [Runs -> Conversations]
    BY InitInv DEF Inv, TypeInv, TypeOK
<1> QED BY <1>1, <1>2, <1>3, InitInv DEF Init, RefInv, Lifecycle!LifecycleInit

LEMMA RefInvariance == Spec => []RefInv
<1>1. RefInv /\ [Next]_vars => RefInv'
    BY RepliesStayKnown, NextInv DEF RefInv
<1> QED BY <1>1, InitRefines, PTL DEF Spec

\* The run store, the run tasks and the maintenance loop together implement the
\* lifecycle contract: crashes, takeovers, stale finalizers and racing routes
\* never show as anything but one of its moves.
THEOREM Refinement == Spec => ImplementsLifecycle
<1>1. Spec => Lifecycle!LifecycleInit
    BY InitRefines DEF Spec
<1> QED BY <1>1, RefInvariance, NextRefines, PTL
        DEF Spec, ImplementsLifecycle, Lifecycle!LifecycleSpec

-----------------------------------------------------------------------------
(* What the contract guarantees: its moves preserve these, whatever the    *)
(* implementation does underneath.                                         *)

Promises ==
    /\ OneActiveRunPerConversation
    /\ CancelNeverLosesToSuccess
    /\ DeletionReachesActiveRuns

\* The types the contract's moves need.
RowTypes ==
    /\ status \in [Runs -> Statuses]
    /\ conv \in [Runs -> Conversations]
    /\ cancelRequested \in [Runs -> BOOLEAN]

LEMMA MovesKeepPromises ==
    ASSUME RowTypes, Promises, [Lifecycle!LifecycleNext]_(Lifecycle!avars)
    PROVE  Promises'
<1> USE DEF RowTypes, Promises, OneActiveRunPerConversation,
            CancelNeverLosesToSuccess, DeletionReachesActiveRuns,
            Lifecycle!Active, Lifecycle!Terminal
<1>0. ASSUME NEW d \in Conversations,
             [c \in Conversations |-> convState[c] = "active"]' =
                 [c \in Conversations |-> convState[c] = "active"]
      PROVE  convState'[d] = "active" <=> convState[d] = "active"
    BY <1>0
<1>1. CASE UNCHANGED Lifecycle!avars
    BY <1>0, <1>1 DEF Lifecycle!avars
<1>2. ASSUME NEW r \in Runs, NEW c \in Conversations, Lifecycle!Submit(r, c)
      PROVE  Promises'
    <2>1. /\ status[r] = "absent"
          /\ convState[c] = "active"
          /\ \A s \in Runs : status[s] \in ActiveStatuses => conv[s] # c
          /\ status' = [status EXCEPT ![r] = "queued"]
          /\ conv' = [conv EXCEPT ![r] = c]
          /\ cancelRequested' = cancelRequested
        BY <1>2 DEF Lifecycle!Submit
    <2>2. \A d \in Conversations : convState'[d] = "active" <=> convState[d] = "active"
        BY <1>0, <1>2 DEF Lifecycle!Submit
    <2>3. OneActiveRunPerConversation'
        <3> SUFFICES ASSUME NEW a \in Runs, NEW b \in Runs,
                            status'[a] \in ActiveStatuses,
                            status'[b] \in ActiveStatuses,
                            conv'[a] = conv'[b]
                     PROVE  a = b
            OBVIOUS
        <3>1. CASE a # r /\ b # r
            <4>1. /\ status[a] \in ActiveStatuses /\ status[b] \in ActiveStatuses
                  /\ conv[a] = conv[b]
                BY <2>1, <3>1
            <4> QED BY <4>1
        <3>2. CASE a = r \/ b = r
            BY <2>1, <3>2
        <3> QED BY <3>1, <3>2
    <2>4. CancelNeverLosesToSuccess'
        BY <2>1
    <2>5. DeletionReachesActiveRuns'
        <3> SUFFICES ASSUME NEW a \in Runs, status'[a] \in ActiveStatuses,
                            convState'[conv'[a]] # "active"
                     PROVE  cancelRequested'[a]
            OBVIOUS
        <3>1. a # r
            BY <2>1, <2>2
        <3>2. status[a] \in ActiveStatuses /\ convState[conv[a]] # "active"
            BY <2>1, <2>2, <3>1
        <3> QED BY <2>1, <3>2
    <2> QED BY <2>3, <2>4, <2>5
<1>3. ASSUME NEW r \in Runs, NEW s \in Statuses, NEW t \in Statuses,
             Lifecycle!Move(r, s, t), s \in ActiveStatuses,
             t \in Statuses \ {"succeeded", "absent", "deleted"}
      PROVE  Promises'
    <2>1. \A d \in Conversations : convState'[d] = "active" <=> convState[d] = "active"
        BY <1>0, <1>3 DEF Lifecycle!Move
    <2>2. /\ status[r] \in ActiveStatuses
          /\ status' = [status EXCEPT ![r] = t]
          /\ UNCHANGED <<conv, cancelRequested>>
        BY <1>3 DEF Lifecycle!Move
    <2>3. OneActiveRunPerConversation'
        BY <2>2
    <2>4. CancelNeverLosesToSuccess'
        BY <1>3, <2>2
    <2>5. DeletionReachesActiveRuns'
        <3> SUFFICES ASSUME NEW a \in Runs, status'[a] \in ActiveStatuses,
                            convState'[conv'[a]] # "active"
                     PROVE  cancelRequested'[a]
            OBVIOUS
        <3>1. status[a] \in ActiveStatuses /\ convState[conv[a]] # "active"
            BY <2>1, <2>2
        <3> QED BY <2>2, <3>1
    <2> QED BY <2>3, <2>4, <2>5
<1>4. ASSUME NEW r \in Runs,
             \/ Lifecycle!Start(r) \/ Lifecycle!Pause(r) \/ Lifecycle!Resume(r)
             \/ Lifecycle!End(r)
      PROVE  Promises'
    BY <1>3, <1>4 DEF Lifecycle!Start, Lifecycle!Pause, Lifecycle!Resume, Lifecycle!End
<1>5. ASSUME NEW r \in Runs, Lifecycle!Answer(r) PROVE Promises'
    <2>1. \A d \in Conversations : convState'[d] = "active" <=> convState[d] = "active"
        BY <1>0, <1>5 DEF Lifecycle!Answer
    <2>2. /\ status[r] = "running"
          /\ ~cancelRequested[r]
          /\ status' = [status EXCEPT ![r] = "succeeded"]
          /\ UNCHANGED <<conv, cancelRequested>>
        BY <1>5 DEF Lifecycle!Answer
    <2> QED BY <2>1, <2>2
<1>6. ASSUME NEW r \in Runs, Lifecycle!AskToStop(r) PROVE Promises'
    <2>1. \A d \in Conversations : convState'[d] = "active" <=> convState[d] = "active"
        BY <1>0, <1>6 DEF Lifecycle!AskToStop
    <2>2. /\ status[r] \in ActiveStatuses
          /\ cancelRequested' = [cancelRequested EXCEPT ![r] = TRUE]
          /\ UNCHANGED <<status, conv>>
        BY <1>6 DEF Lifecycle!AskToStop
    <2>3. \A s \in Runs : cancelRequested'[s] <=> (cancelRequested[s] \/ s = r)
        BY <2>2
    <2> QED BY <2>1, <2>2, <2>3
<1>7. ASSUME NEW c \in Conversations, Lifecycle!Close(c) PROVE Promises'
    <2>1. [d \in Conversations |-> convState[d] = "active"]' =
              [[d \in Conversations |-> convState[d] = "active"] EXCEPT ![c] = FALSE]
        BY <1>7 DEF Lifecycle!Close
    <2>2. \A d \in Conversations : d # c =>
              (convState'[d] = "active" <=> convState[d] = "active")
        BY <2>1
    <2>3. /\ \A s \in Runs : cancelRequested'[s] <=>
                 (cancelRequested[s] \/ (conv[s] = c /\ status[s] \in ActiveStatuses))
          /\ UNCHANGED <<status, conv>>
        BY <1>7 DEF Lifecycle!Close
    <2>4. OneActiveRunPerConversation' /\ CancelNeverLosesToSuccess'
        BY <2>3
    <2>5. DeletionReachesActiveRuns'
        BY <2>2, <2>3
    <2> QED BY <2>4, <2>5
<1>8. ASSUME NEW c \in Conversations, Lifecycle!Forget(c) PROVE Promises'
    <2>1. \A d \in Conversations : convState'[d] = "active" <=> convState[d] = "active"
        BY <1>0, <1>8 DEF Lifecycle!Forget
    <2> QED BY <1>8, <2>1 DEF Lifecycle!Forget
<1> QED BY <1>1, <1>2, <1>4, <1>5, <1>6, <1>7, <1>8 DEF Lifecycle!LifecycleNext

LEMMA PromisesKept == Spec => []Promises
<1>1. Init => Promises
    BY DEF Init, Promises, OneActiveRunPerConversation,
           CancelNeverLosesToSuccess, DeletionReachesActiveRuns
<1>2. RefInv /\ Promises /\ [Next]_vars => Promises'
    BY NextRefines, MovesKeepPromises DEF RefInv, Inv, TypeInv, TypeOK, RowTypes
<1> QED BY <1>1, <1>2, RefInvariance, PTL DEF Spec

\* A conversation never has two active runs, for any number of runs, request
\* keys and tasks.
THEOREM OneActiveRun == Spec => []OneActiveRunPerConversation
<1>1. Promises => OneActiveRunPerConversation
    BY DEF Promises
<1> QED BY <1>1, PromisesKept, PTL

\* A recorded cancel request is never answered by success.
THEOREM CancelIsHonoured == Spec => []CancelNeverLosesToSuccess
<1>1. Promises => CancelNeverLosesToSuccess
    BY DEF Promises
<1> QED BY <1>1, PromisesKept, PTL

\* No run stays active behind a deletion without being told to stop.
THEOREM DeletionReaches == Spec => []DeletionReachesActiveRuns
<1>1. Promises => DeletionReachesActiveRuns
    BY DEF Promises
<1> QED BY <1>1, PromisesKept, PTL

-----------------------------------------------------------------------------
(* What the store itself guarantees of its replies and its request keys.   *)

\* A row that exists keeps its conversation and its input in every step.
LEMMA RowsKeepTheirInput ==
    ASSUME RefInv, [Next]_vars, NEW r \in Runs, status[r] # "absent"
    PROVE  status'[r] # "absent" /\ conv'[r] = conv[r] /\ input'[r] = input[r]
BY NextRefines, RunsKeepTheirInput DEF RefInv, Inv

\* A message list either loses everything with its conversation or only grows.
LEMMA MessagesOnlyGrow ==
    ASSUME TypeInv, [Next]_vars, NEW c \in Conversations,
           ~RemoveConversation(c)
    PROVE  \A i \in 1..Len(messages[c]) :
               i \in 1..Len(messages'[c]) /\ messages'[c][i] = messages[c][i]
<1>1. messages[c] \in Seq(Message) /\ Len(messages[c]) \in Nat
    BY DEF TypeInv, TypeOK
<1>2. ASSUME NEW d \in Conversations, NEW m,
             messages' = [messages EXCEPT ![d] = Append(@, m)]
      PROVE  \A i \in 1..Len(messages[c]) :
                 i \in 1..Len(messages'[c]) /\ messages'[c][i] = messages[c][i]
    <2>1. CASE d # c
        BY <1>2, <2>1 DEF TypeInv, TypeOK
    <2>2. CASE d = c
        <3>1. messages'[c] = Append(messages[c], m)
            BY <1>2, <2>2 DEF TypeInv, TypeOK
        <3>2. Len(messages'[c]) = Len(messages[c]) + 1
            BY <1>1, <3>1
        <3> QED BY <1>1, <3>1, <3>2
    <2> QED BY <2>1, <2>2
<1>3. CASE UNCHANGED messages
    BY <1>1, <1>3
<1>4. ASSUME NEW d \in Conversations, NEW k \in RequestIds, NEW r \in Runs,
             CreateRun(d, k, r)
      PROVE  \A i \in 1..Len(messages[c]) :
                 i \in 1..Len(messages'[c]) /\ messages'[c][i] = messages[c][i]
    BY <1>2, <1>4 DEF CreateRun
<1>5. ASSUME NEW w \in Slots, pc[w] # "idle", SucceedRun(w)
      PROVE  \A i \in 1..Len(messages[c]) :
                 i \in 1..Len(messages'[c]) /\ messages'[c][i] = messages[c][i]
    <2>1. conv[held[w]] \in Conversations
        BY <1>5 DEF TypeInv, TypeOK, TaskOK
    <2>2. CASE PriorReplies(held[w]) = {}
        BY <1>2, <1>5, <2>1, <2>2 DEF SucceedRun
    <2>3. CASE PriorReplies(held[w]) # {}
        <3>1. messages' = messages
            BY <1>5, <2>3 DEF SucceedRun, TypeInv, TypeOK
        <3> QED BY <1>3, <3>1
    <2> QED BY <2>2, <2>3
<1>6. ASSUME NEW d \in Conversations, RemoveConversation(d)
      PROVE  \A i \in 1..Len(messages[c]) :
                 i \in 1..Len(messages'[c]) /\ messages'[c][i] = messages[c][i]
    <2>1. d # c
        BY <1>6
    <2>2. messages'[c] = messages[c]
        BY <1>6, <2>1 DEF RemoveConversation, TypeInv, TypeOK
    <2> QED BY <1>1, <2>2
<1> QED BY <1>3, <1>4, <1>5, <1>6, StoreSteps DEF QuietStep, RetryRun

\* The output of succeed_run is an assistant message of the run's conversation
\* that answers the run's input: the new one, or the reply that is reused.
LEMMA SuccessIsAnswered ==
    ASSUME RefInv, NEW w \in Slots, held[w] \in Runs, SucceedRun(w)
    PROVE  LET r == held[w]
               c == conv[r]
           IN  /\ output'[r] \in 1..Len(messages'[c])
               /\ messages'[c][output'[r]].role = "assistant"
               /\ messages'[c][output'[r]].reply = input[r]
<1> DEFINE r == held[w]
           c == conv[r]
           m == [role |-> "assistant", source |-> r, reply |-> input[r]]
<1>1. c \in Conversations /\ messages[c] \in Seq(Message) /\ Len(messages[c]) \in Nat
    BY DEF RefInv, Inv, TypeInv, TypeOK
<1>2. CASE PriorReplies(r) = {}
    <2>1. /\ messages'[c] = Append(messages[c], m)
          /\ output'[r] = Len(messages[c]) + 1
        BY <1>1, <1>2 DEF SucceedRun, RefInv, Inv, TypeInv, TypeOK
    <2>2. m.role = "assistant" /\ m.reply = input[r]
        OBVIOUS
    <2> HIDE DEF m, c
    <2>3. Len(messages'[c]) = Len(messages[c]) + 1
        BY <1>1, <2>1
    <2>4. messages'[c][Len(messages[c]) + 1] = m
        BY <1>1, <2>1
    <2> QED BY <1>1, <2>1, <2>2, <2>3, <2>4 DEF c
<1>3. CASE PriorReplies(r) # {}
    <2>1. messages' = messages /\ output'[r] = CHOOSE i \in PriorReplies(r) : TRUE
        BY <1>1, <1>3 DEF SucceedRun, RefInv, Inv, TypeInv, TypeOK
    <2>2. output'[r] \in PriorReplies(r)
        BY <1>3, <2>1
    <2>3. /\ output'[r] \in 1..Len(messages[c])
          /\ messages[c][output'[r]].role = "assistant"
          /\ messages[c][output'[r]].reply = input[r]
        BY <1>1, <2>2 DEF PriorReplies, RefInv, RepliesKnown
    <2> QED BY <2>1, <2>3
<1> QED BY <1>2, <1>3

LEMMA AnswersStay ==
    RefInv /\ SucceededRunIsAnswered /\ [Next]_vars => SucceededRunIsAnswered'
<1> SUFFICES ASSUME RefInv, SucceededRunIsAnswered, [Next]_vars,
                    NEW r \in Runs, status'[r] = "succeeded"
             PROVE  /\ output'[r] \in 1..Len(messages'[conv'[r]])
                    /\ messages'[conv'[r]][output'[r]].role = "assistant"
                    /\ messages'[conv'[r]][output'[r]].reply = input'[r]
    BY DEF SucceededRunIsAnswered
<1>1. TypeInv
    BY DEF RefInv, Inv
<1>2. ASSUME status[r] = "succeeded", output'[r] = output[r],
             ~RemoveConversation(conv[r])
      PROVE  /\ output'[r] \in 1..Len(messages'[conv'[r]])
             /\ messages'[conv'[r]][output'[r]].role = "assistant"
             /\ messages'[conv'[r]][output'[r]].reply = input'[r]
    <2>1. /\ output[r] \in 1..Len(messages[conv[r]])
          /\ messages[conv[r]][output[r]].role = "assistant"
          /\ messages[conv[r]][output[r]].reply = input[r]
        BY <1>2 DEF SucceededRunIsAnswered
    <2>2. conv'[r] = conv[r] /\ input'[r] = input[r]
        BY <1>2, RowsKeepTheirInput
    <2>3. conv[r] \in Conversations
        BY <1>1 DEF TypeInv, TypeOK
    <2>4. /\ output[r] \in 1..Len(messages'[conv[r]])
          /\ messages'[conv[r]][output[r]] = messages[conv[r]][output[r]]
        BY <1>1, <1>2, <2>1, <2>3, MessagesOnlyGrow
    <2> QED BY <1>2, <2>1, <2>2, <2>4
<1>3. ASSUME NEW c \in Conversations, RemoveConversation(c)
      PROVE  status[r] = "succeeded" /\ output'[r] = output[r] /\ conv[r] # c
    BY <1>1, <1>3 DEF RemoveConversation, RunsOf, TypeInv, TypeOK
<1>4. CASE QuietStep
    <2>1. status[r] = "succeeded" /\ output'[r] = output[r]
        BY <1>4 DEF QuietStep
    <2>2. conv[r] \in Conversations
        BY <1>1 DEF TypeInv, TypeOK
    <2> QED BY <1>2, <1>3, <2>1, <2>2
<1>5. ASSUME NEW w \in Slots, pc[w] # "idle", HoldsClaim(w), SucceedRun(w)
      PROVE  /\ output'[r] \in 1..Len(messages'[conv'[r]])
             /\ messages'[conv'[r]][output'[r]].role = "assistant"
             /\ messages'[conv'[r]][output'[r]].reply = input'[r]
    <2>1. held[w] \in Runs /\ status[held[w]] = "running"
        BY <1>1, <1>5 DEF TypeInv, TaskOK, HoldsClaim
    <2>2. CASE r = held[w]
        <3>1. conv'[r] = conv[r] /\ input'[r] = input[r]
            BY <2>1, <2>2, RowsKeepTheirInput
        <3> QED BY <1>5, <2>1, <2>2, <3>1, SuccessIsAnswered
    <2>3. CASE r # held[w]
        <3>1. status[r] = "succeeded" /\ output'[r] = output[r]
            BY <1>1, <1>5, <2>1, <2>3 DEF SucceedRun, Commit, TypeInv, TypeOK
        <3>2. conv[r] \in Conversations
            BY <1>1 DEF TypeInv, TypeOK
        <3>3. ~RemoveConversation(conv[r])
            BY <1>3, <3>2
        <3> QED BY <1>2, <3>1, <3>3
    <2> QED BY <2>2, <2>3
<1>6. ASSUME NEW c \in Conversations, NEW k \in RequestIds, NEW s \in Runs,
             NEW i, InsertRun(c, k, s, i)
      PROVE  status[r] = "succeeded" /\ output'[r] = output[r]
    BY <1>1, <1>6 DEF InsertRun, TypeInv, TypeOK
<1>7. conv[r] \in Conversations /\ \A s \in Runs : conv[s] \in Conversations
    BY <1>1 DEF TypeInv, TypeOK
<1>8. ASSUME NEW c \in Conversations, NEW k \in RequestIds, NEW s \in Runs,
             CreateRun(c, k, s)
      PROVE  status[r] = "succeeded" /\ output'[r] = output[r]
    BY <1>6, <1>8 DEF CreateRun
<1>9. ASSUME NEW t \in Runs, NEW k \in RequestIds, NEW s \in Runs,
             RetryRun(t, k, s)
      PROVE  status[r] = "succeeded" /\ output'[r] = output[r]
    BY <1>6, <1>7, <1>9 DEF RetryRun
<1>10. CASE status[r] = "succeeded" /\ output'[r] = output[r]
    BY <1>2, <1>3, <1>7, <1>10
<1> QED BY <1>1, <1>3, <1>4, <1>5, <1>8, <1>9, <1>10, StoreSteps

\* A run that succeeded points at a reply to its own input, whichever of its
\* attempts, or of the runs for the same input, wrote that reply.
THEOREM SuccessMeansAnswered == Spec => []SucceededRunIsAnswered
<1>1. Init => SucceededRunIsAnswered
    BY DEF Init, SucceededRunIsAnswered
<1> QED BY <1>1, AnswersStay, RefInvariance, PTL DEF Spec

\* The run that create_run or retry_run inserts becomes the run of its key.
LEMMA InsertNames ==
    ASSUME TypeInv, RequestsNameTheirRuns,
           NEW c \in Conversations, NEW k \in RequestIds, NEW r \in Runs, NEW i,
           status[r] = "absent", Unbound(c, k), InsertRun(c, k, r, i)
    PROVE  RequestsNameTheirRuns'
<1> USE DEF TypeInv, TypeOK
<1>1. /\ status' = [status EXCEPT ![r] = "queued"]
      /\ conv' = [conv EXCEPT ![r] = c]
      /\ requests[c][k] = NoRun /\ NoRun \notin Runs
      /\ status'[r] = "queued" /\ conv'[r] = c
    BY ConstantsAssumption DEF InsertRun, Unbound
<1>2. /\ requests'[c][k] = r
      /\ \A d \in Conversations, l \in RequestIds :
             d # c \/ l # k => requests'[d][l] = requests[d][l]
    BY DEF InsertRun
<1>3. ASSUME NEW d \in Conversations, NEW l \in RequestIds,
             requests'[d][l] # NoRun
      PROVE  /\ status'[requests'[d][l]] \notin {"absent", "deleted"}
             /\ conv'[requests'[d][l]] = d
             /\ \A m \in RequestIds : requests'[d][m] = requests'[d][l] => m = l
    <2>1. \A m \in RequestIds : requests[d][m] # r
        <3> SUFFICES ASSUME NEW m \in RequestIds, requests[d][m] = r PROVE FALSE
            OBVIOUS
        <3>1. requests[d][m] # NoRun
            BY <1>1
        <3>2. status[requests[d][m]] # "absent"
            BY <3>1 DEF RequestsNameTheirRuns
        <3> QED BY <3>2
    <2>2. CASE d = c /\ l = k
        <3>1. \A m \in RequestIds : m # k => requests'[c][m] # r
            BY <1>2, <2>1, <2>2
        <3> QED BY <1>1, <1>2, <2>2, <3>1
    <2>3. CASE d # c \/ l # k
        <3> DEFINE s == requests[d][l]
        <3>1. requests'[d][l] = s /\ s \in Runs
            BY <1>2, <1>3, <2>3
        <3>2. /\ status[s] \notin {"absent", "deleted"} /\ conv[s] = d
              /\ \A m \in RequestIds : requests[d][m] = s => m = l
            BY <1>3, <3>1 DEF RequestsNameTheirRuns
        <3>3. s # r
            BY <3>2
        <3>4. \A m \in RequestIds : requests'[d][m] = s => m = l
            BY <1>2, <3>2, <3>3
        <3> HIDE DEF s
        <3> QED BY <1>1, <3>1, <3>2, <3>3, <3>4
    <2> QED BY <2>2, <2>3
<1>4. ASSUME NEW s \in Runs, status'[s] \notin {"absent", "deleted"}
      PROVE  \E l \in RequestIds : requests'[conv'[s]][l] = s
    <2>1. CASE s = r
        BY <1>1, <1>2, <2>1
    <2>2. CASE s # r
        <3>1. /\ status[s] \notin {"absent", "deleted"}
              /\ conv'[s] = conv[s] /\ conv[s] \in Conversations
            BY <1>1, <1>4, <2>2
        <3>2. PICK l \in RequestIds : requests[conv[s]][l] = s
            BY <3>1 DEF RequestsNameTheirRuns
        <3>3. conv[s] # c \/ l # k
            BY <1>1, <3>2
        <3>4. requests'[conv[s]][l] = s
            BY <1>2, <3>1, <3>2, <3>3
        <3> QED BY <3>1, <3>4
    <2> QED BY <2>1, <2>2
<1> QED BY <1>3, <1>4 DEF RequestsNameTheirRuns

\* A step that keeps the request keys and makes no row appear or disappear.
LEMMA RowsStayNamed ==
    ASSUME RefInv, [Next]_vars, RequestsNameTheirRuns, UNCHANGED requests,
           \A r \in Runs : status'[r] \in {"absent", "deleted"} <=>
                           status[r] \in {"absent", "deleted"}
    PROVE  RequestsNameTheirRuns'
<1>1. requests \in [Conversations -> [RequestIds -> Runs \cup {NoRun}]]
    BY DEF RefInv, Inv, TypeInv, TypeOK
<1>2. \A r \in Runs : status[r] # "absent" => conv'[r] = conv[r]
    BY RowsKeepTheirInput
<1>3. ASSUME NEW c \in Conversations, NEW k \in RequestIds,
             requests'[c][k] # NoRun
      PROVE  /\ status'[requests'[c][k]] \notin {"absent", "deleted"}
             /\ conv'[requests'[c][k]] = c
             /\ \A l \in RequestIds : requests'[c][l] = requests'[c][k] => l = k
    BY <1>1, <1>2, <1>3 DEF RequestsNameTheirRuns
<1>4. ASSUME NEW r \in Runs, status'[r] \notin {"absent", "deleted"}
      PROVE  \E k \in RequestIds : requests'[conv'[r]][k] = r
    BY <1>2, <1>4 DEF RequestsNameTheirRuns
<1> QED BY <1>3, <1>4 DEF RequestsNameTheirRuns

LEMMA RequestsStayBound ==
    RefInv /\ RequestsNameTheirRuns /\ [Next]_vars => RequestsNameTheirRuns'
<1> SUFFICES ASSUME RefInv, RequestsNameTheirRuns, [Next]_vars
             PROVE  RequestsNameTheirRuns'
    OBVIOUS
<1>1. TypeInv
    BY DEF RefInv, Inv
<1>2. CASE QuietStep
    BY <1>2, RowsStayNamed DEF QuietStep
<1>3. ASSUME NEW w \in Slots, HoldsClaim(w), SucceedRun(w), UNCHANGED requests
      PROVE  RequestsNameTheirRuns'
    <2>1. \A r \in Runs : status'[r] \in {"absent", "deleted"} <=>
                          status[r] \in {"absent", "deleted"}
        BY <1>1, <1>3 DEF SucceedRun, Commit, HoldsClaim, TypeInv, TypeOK
    <2> QED BY <1>3, <2>1, RowsStayNamed
<1>4. ASSUME NEW c \in Conversations, NEW k \in RequestIds, NEW r \in Runs,
             CreateRun(c, k, r)
      PROVE  RequestsNameTheirRuns'
    BY <1>1, <1>4, InsertNames DEF CreateRun
<1>5. ASSUME NEW s \in Runs, NEW k \in RequestIds, NEW r \in Runs,
             RetryRun(s, k, r)
      PROVE  RequestsNameTheirRuns'
    <2>1. conv[s] \in Conversations
        BY <1>1 DEF TypeInv, TypeOK
    <2> QED BY <1>1, <1>5, <2>1, InsertNames DEF RetryRun
<1>6. ASSUME NEW c \in Conversations, RemoveConversation(c)
      PROVE  RequestsNameTheirRuns'
    <2>1. /\ conv' = conv
          /\ \A r \in Runs : status'[r] =
                 IF r \in RunsOf(c) THEN "deleted" ELSE status[r]
          /\ \A k \in RequestIds : requests'[c][k] = NoRun
          /\ \A d \in Conversations : d # c => requests'[d] = requests[d]
        BY <1>1, <1>6 DEF RemoveConversation, TypeInv, TypeOK
    <2>2. ASSUME NEW d \in Conversations, NEW k \in RequestIds,
                 requests'[d][k] # NoRun
          PROVE  /\ status'[requests'[d][k]] \notin {"absent", "deleted"}
                 /\ conv'[requests'[d][k]] = d
                 /\ \A l \in RequestIds : requests'[d][l] = requests'[d][k] => l = k
        <3>1. d # c /\ requests'[d][k] = requests[d][k]
            BY <2>1, <2>2
        <3>2. requests[d][k] \in Runs
            BY <1>1, <2>2, <3>1 DEF TypeInv, TypeOK
        <3> QED BY <2>1, <2>2, <3>1, <3>2 DEF RequestsNameTheirRuns, RunsOf
    <2>3. ASSUME NEW r \in Runs, status'[r] \notin {"absent", "deleted"}
          PROVE  \E k \in RequestIds : requests'[conv'[r]][k] = r
        <3>1. conv[r] # c /\ status[r] \notin {"absent", "deleted"}
            BY <2>1, <2>3 DEF RunsOf
        <3>2. conv[r] \in Conversations
            BY <1>1 DEF TypeInv, TypeOK
        <3> QED BY <2>1, <3>1, <3>2 DEF RequestsNameTheirRuns
    <2> QED BY <2>2, <2>3 DEF RequestsNameTheirRuns
<1> QED BY <1>1, <1>2, <1>3, <1>4, <1>5, <1>6, StoreSteps

\* A request key names a run of its own conversation that exists and is the run of
\* no other key, and every run that exists is the run of a key.
THEOREM RequestsAreIdempotent == Spec => []RequestsNameTheirRuns
<1>1. Init => RequestsNameTheirRuns
    BY DEF Init, RequestsNameTheirRuns
<1> QED BY <1>1, RequestsStayBound, RefInvariance, PTL DEF Spec

\* Appending a message that is no reply, or the first reply to its input.
LEMMA AppendKeepsOneReply ==
    ASSUME TypeInv, OneReplyPerInput, NEW c \in Conversations, NEW m,
           messages' = [messages EXCEPT ![c] = Append(@, m)],
           m.role = "assistant" =>
               \A i \in 1..Len(messages[c]) :
                   messages[c][i].role = "assistant" => messages[c][i].reply # m.reply
    PROVE  OneReplyPerInput'
<1> SUFFICES ASSUME NEW d \in Conversations,
                    NEW i \in 1..Len(messages'[d]), NEW j \in 1..Len(messages'[d]),
                    messages'[d][i].role = "assistant",
                    messages'[d][j].role = "assistant",
                    messages'[d][i].reply = messages'[d][j].reply
             PROVE  i = j
    BY DEF OneReplyPerInput
<1>1. CASE d # c
    <2>1. messages'[d] = messages[d]
        BY <1>1 DEF TypeInv, TypeOK
    <2> QED BY <2>1 DEF OneReplyPerInput
<1>2. CASE d = c
    <2>1. messages[d] \in Seq(Message) /\ Len(messages[d]) \in Nat
        BY DEF TypeInv, TypeOK
    <2>2. messages'[d] = Append(messages[d], m)
        BY <1>2 DEF TypeInv, TypeOK
    <2>3. /\ Len(messages'[d]) = Len(messages[d]) + 1
          /\ \A n \in 1..Len(messages[d]) : messages'[d][n] = messages[d][n]
          /\ messages'[d][Len(messages[d]) + 1] = m
        BY <2>1, <2>2
    <2>4. CASE i \in 1..Len(messages[d]) /\ j \in 1..Len(messages[d])
        BY <2>3, <2>4 DEF OneReplyPerInput
    <2>5. CASE i = Len(messages[d]) + 1 /\ j \in 1..Len(messages[d])
        BY <1>2, <2>3, <2>5
    <2>6. CASE j = Len(messages[d]) + 1 /\ i \in 1..Len(messages[d])
        BY <1>2, <2>3, <2>6
    <2>7. \A n \in 1..Len(messages'[d]) :
              n \in 1..Len(messages[d]) \/ n = Len(messages[d]) + 1
        BY <2>1, <2>3
    <2> QED BY <2>4, <2>5, <2>6, <2>7
<1> QED BY <1>1, <1>2

LEMMA OneReplyStays ==
    RefInv /\ OneReplyPerInput /\ [Next]_vars => OneReplyPerInput'
<1> SUFFICES ASSUME RefInv, OneReplyPerInput, [Next]_vars
             PROVE  OneReplyPerInput'
    OBVIOUS
<1>1. TypeInv
    BY DEF RefInv, Inv
<1>2. CASE UNCHANGED messages
    BY <1>2 DEF OneReplyPerInput
<1>3. ASSUME NEW c \in Conversations, NEW k \in RequestIds, NEW r \in Runs,
             CreateRun(c, k, r)
      PROVE  OneReplyPerInput'
    <2> DEFINE m == [role |-> "user", source |-> NoRun, reply |-> 0]
    <2>1. messages' = [messages EXCEPT ![c] = Append(@, m)] /\ m.role = "user"
        BY <1>3 DEF CreateRun
    <2> HIDE DEF m
    <2> QED BY <1>1, <2>1, AppendKeepsOneReply
<1>4. ASSUME NEW w \in Slots, pc[w] # "idle", SucceedRun(w)
      PROVE  OneReplyPerInput'
    <2> DEFINE r == held[w]
               c == conv[r]
               m == [role |-> "assistant", source |-> r, reply |-> input[r]]
    <2>1. r \in Runs /\ c \in Conversations
        BY <1>1, <1>4 DEF TypeInv, TypeOK, TaskOK
    <2>2. CASE PriorReplies(r) # {}
        <3>1. UNCHANGED messages
            BY <1>1, <1>4, <2>2 DEF SucceedRun, TypeInv, TypeOK
        <3> QED BY <1>2, <3>1
    <2>3. CASE PriorReplies(r) = {}
        <3>1. messages' = [messages EXCEPT ![c] = Append(@, m)]
            BY <1>4, <2>3 DEF SucceedRun
        <3>2. \A i \in 1..Len(messages[c]) :
                  messages[c][i].role = "assistant" => messages[c][i].reply # m.reply
            BY <2>3 DEF PriorReplies
        <3> HIDE DEF m, c
        <3> QED BY <1>1, <2>1, <3>1, <3>2, AppendKeepsOneReply
    <2> QED BY <2>2, <2>3
<1>5. ASSUME NEW c \in Conversations, RemoveConversation(c)
      PROVE  OneReplyPerInput'
    <2>1. messages' = [messages EXCEPT ![c] = <<>>]
        BY <1>5 DEF RemoveConversation
    <2>2. \A d \in Conversations :
              messages'[d] = IF d = c THEN <<>> ELSE messages[d]
        BY <1>1, <2>1 DEF TypeInv, TypeOK
    <2> QED BY <2>2 DEF OneReplyPerInput
<1> QED BY <1>1, <1>2, <1>3, <1>4, <1>5, StoreSteps DEF QuietStep, RetryRun

\* A user message is answered at most once, however many attempts, takeovers
\* and retries tried to.
THEOREM OneReply == Spec => []OneReplyPerInput
<1>1. Init => OneReplyPerInput
    BY DEF Init, OneReplyPerInput
<1> QED BY <1>1, OneReplyStays, RefInvariance, PTL DEF Spec
=============================================================================
