------------------------------ MODULE Planning ------------------------------
(***************************************************************************)
(* The planning layer of one run (src/agent/planning): a selector chooses  *)
(* the branch, a planner turns the task into a DAG of nodes, an executor   *)
(* runs one layer of ready nodes at a time, a replanner decides between    *)
(* two layers, a generator writes the answer.                              *)
(*                                                                         *)
(* What the model says is nondeterministic: any nodes, any dependencies,   *)
(* any race groups, and any decision between layers. A node is one tool    *)
(* call; a sub-agent is a node whose calls are safe. The calls go to the   *)
(* gateway, of which only what the executor relies on is kept: a call id   *)
(* with a recorded result is not executed again, a call of a risky tool    *)
(* waits for its approval.                                                 *)
(*                                                                         *)
(* Each graph node ends with a checkpoint, so a crash, or a pause for a    *)
(* human, starts the current graph node again from its beginning. A crash  *)
(* between the effect of a call and its record is the subject of ToolCalls *)
(* and left out here.                                                      *)
(***************************************************************************)
EXTENDS Naturals, FiniteSets

CONSTANTS
    NodeIds,        \* the ids the model can give to plan nodes
    RiskyNodes,     \* the nodes whose tool needs an approval
    Groups,         \* race groups
    NoGroup,
    MaxNodes,       \* planning_config.max_plan_nodes
    AppendLimit,    \* planning_config.replan_append_limit
    MaxReplan,      \* planning_config.max_replan
    MaxParallel,    \* planning_config.max_parallel
    PlanMode,       \* the task was given with /plan
    RagLoaded,      \* a search service is configured
    MaxCrashes      \* bound on crashes of the process

ASSUME PlanningAssumption ==
    /\ RiskyNodes \subseteq NodeIds
    /\ NoGroup \notin Groups
    /\ MaxNodes \in Nat /\ AppendLimit \in Nat /\ MaxReplan \in Nat
    /\ MaxParallel \in Nat \ {0} /\ MaxCrashes \in Nat
    /\ PlanMode \in BOOLEAN /\ RagLoaded \in BOOLEAN

VARIABLES
    phase,      \* the graph node at work, or how the graph ended
    plan,       \* the current plan revision
    outcomes,   \* node_outcomes of the run state
    used,       \* replans_used
    task,       \* the tasks of the layer that is running
    raced,      \* the race groups whose loop has ended, in this layer
    ops,        \* the gateway's operations, by call id, while they can be read again
    strays,     \* calls of tasks that the executor has left behind
    executed,   \* calls of this layer that had their effect
    repeated,   \* calls that had it twice
    answer,     \* the clarification: none asked, asked, or held in memory
    crashes

vars == <<phase, plan, outcomes, used, task, raced, ops, strays, executed, repeated,
          answer, crashes>>

execution == <<task, raced, ops, strays, executed, repeated>>

Endings == {"answered", "gave_up", "failed", "baseline"}

Phases == {"selector", "planner", "clarifying", "executor", "layer", "paused",
           "replanner", "generator", "rag_answer"} \cup Endings

Graphs == [revision : Nat, nodes : SUBSET NodeIds,
           deps : [NodeIds -> SUBSET NodeIds],
           race : [NodeIds -> Groups \cup {NoGroup}]]

NoPlan == [revision |-> 0, nodes |-> {}, deps |-> [n \in NodeIds |-> {}],
           race |-> [n \in NodeIds |-> NoGroup]]

Results == {"succeeded", "failed"}
Outcomes == [revision : Nat, node : NodeIds, attempt : Nat,
             outcome : Results \cup {"skipped"}]
Calls == [revision : Nat, node : NodeIds, attempt : Nat]
TaskStates ==
    {"off", "queued", "calling", "interrupted", "cancelled"} \cup Results

\* The types of the variables.
TypeOK ==
    /\ phase \in Phases
    /\ plan \in Graphs
    /\ outcomes \subseteq Outcomes
    /\ used \in 0..MaxReplan
    /\ task \in [NodeIds -> TaskStates]
    /\ raced \subseteq Groups
    /\ DOMAIN ops \subseteq Calls
    /\ \A c \in DOMAIN ops :
           ops[c] \in {"awaiting", "approved", "rejected", "running"} \cup Results
    /\ strays \subseteq Calls
    /\ executed \cup repeated \subseteq Calls
    /\ answer \in {"none", "asked", "held"}
    /\ crashes \in 0..MaxCrashes

NoOps == [c \in {} |-> "awaiting"]
Idle == [n \in NodeIds |-> "off"]

Init ==
    /\ phase = "selector"
    /\ plan = NoPlan
    /\ outcomes = {}
    /\ used = 0
    /\ task = Idle
    /\ raced = {}
    /\ ops = NoOps
    /\ strays = {}
    /\ executed = {} /\ repeated = {}
    /\ answer = "none"
    /\ crashes = 0

-----------------------------------------------------------------------------
(* dag.py                                                                  *)

resolved_ids(os) == {o.node : o \in {p \in os : p.outcome # "failed"}}
failed_node_ids(os) == {o.node : o \in {p \in os : p.outcome = "failed"}}

\* Race losers are not finished for this variant, only winners are.
PendingWithLosers(p, os) ==
    p.nodes \ {o.node : o \in {q \in os : q.outcome = "succeeded"}}

pending_nodes(p, os) == p.nodes \ resolved_ids(os)

\* A node that has ended is ready again.
ReadyAgain(p, os) == {n \in p.nodes : p.deps[n] \subseteq resolved_ids(os)}

ready_layer(p, os) ==
    LET done == resolved_ids(os)
    IN {n \in p.nodes \ done : p.deps[n] \subseteq done}

\* Kahn's algorithm: the nodes that k rounds of removal have processed.
Processed(nodes, deps) ==
    LET kahn[k \in 0..Cardinality(nodes)] ==
            IF k = 0 THEN {}
            ELSE {n \in nodes : (deps[n] \cap nodes) \ {n} \subseteq kahn[k - 1]}
    IN kahn[Cardinality(nodes)]

\* Looks only at direct mutual dependencies.
HasShortCycle(nodes, deps) ==
    \E m, n \in nodes : m # n /\ m \in deps[n] /\ n \in deps[m]

has_cycle(nodes, deps) == Processed(nodes, deps) # nodes

\* An empty list of errors; tools and agents are filtered before.
validate_plan(nodes, deps) ==
    /\ nodes # {}
    /\ \A n \in nodes : deps[n] \subseteq nodes /\ n \notin deps[n]
    /\ ~has_cycle(nodes, deps)

-----------------------------------------------------------------------------
(* Selector and planner                                                    *)

Branches == {"planner", "baseline"} \cup (IF RagLoaded THEN {"rag_answer"} ELSE {})

\* /plan goes to the planner; else the classifier decides, and what it cannot
\* decide is baseline.
SelectBranch ==
    /\ phase = "selector"
    /\ phase' \in IF PlanMode THEN {"planner"} ELSE Branches
    /\ UNCHANGED <<plan, outcomes, used, execution, answer, crashes>>

\* Always an answer, with or without the search.
RagAnswer ==
    /\ phase = "rag_answer"
    /\ phase' \in {"answered", "failed"}
    /\ UNCHANGED <<plan, outcomes, used, execution, answer, crashes>>

\* What is left of the model's list of nodes after the filter of tools, ids and the
\* limit.
sanitize_plan(limit) ==
    {ns \in SUBSET NodeIds : ns # {} /\ IsFiniteSet(ns) /\ Cardinality(ns) <= limit}

PlanOf(revision, nodes, deps, race) ==
    [revision |-> revision, nodes |-> nodes,
     deps |-> [n \in NodeIds |-> IF n \in nodes THEN deps[n] ELSE {}],
     race |-> [n \in NodeIds |-> IF n \in nodes THEN race[n] ELSE NoGroup]]

\* The model plans; or its plan is invalid or it prefers to answer directly, and
\* the baseline graph goes on; or its output is no JSON twice and the run fails. An
\* answer that was held is used up.
PlannerPlans ==
    /\ phase = "planner"
    /\ \/ \E nodes \in sanitize_plan(MaxNodes) :
          \E deps \in [nodes -> SUBSET nodes], race \in [nodes -> Groups \cup {NoGroup}] :
              /\ validate_plan(nodes, deps)
              /\ plan' = PlanOf(1, nodes, deps, race)
              /\ phase' = "executor"
       \/ phase' \in {"baseline", "failed"} /\ UNCHANGED plan
    /\ answer' = IF answer = "held" THEN "none" ELSE answer
    /\ UNCHANGED <<outcomes, used, execution, crashes>>

\* The planner stops for a question to the user. Started again with the answer in
\* hand it passes the question.
PlannerAsks ==
    /\ phase = "planner"
    /\ answer # "held"
    /\ phase' = "clarifying"
    /\ answer' = "asked"
    /\ UNCHANGED <<plan, outcomes, used, execution, crashes>>

\* The route keeps the answer in memory and queues the run again.
submit_clarification ==
    /\ phase = "clarifying"
    /\ answer' = "held"
    /\ phase' = "planner"
    /\ UNCHANGED <<plan, outcomes, used, execution, crashes>>

-----------------------------------------------------------------------------
(* Executor                                                                *)

\* Counts only the attempts that ended well.
AttemptsThatEnded(n) == Cardinality({o \in outcomes : o.node = n /\ o.outcome # "failed"})

attempt_of(n) == Cardinality({o \in outcomes : o.node = n})
CallOf(n) == [revision |-> plan.revision, node |-> n, attempt |-> attempt_of(n)]
OutcomeOf(n, result) ==
    [revision |-> plan.revision, node |-> n, attempt |-> attempt_of(n),
     outcome |-> result]

Layer == {n \in NodeIds : task[n] # "off"}
Single(n) == plan.race[n] = NoGroup
Members(g) == {n \in Layer : plan.race[n] = g}

StartLayer ==
    /\ phase = "executor"
    /\ LET layer == ready_layer(plan, outcomes)
       IN /\ task' = [n \in NodeIds |-> IF n \in layer THEN "queued" ELSE "off"]
          /\ phase' = IF layer = {} THEN "replanner" ELSE "layer"
    /\ raced' = {}
    /\ UNCHANGED <<plan, outcomes, used, ops, strays, executed, repeated, answer, crashes>>

SetOp(c, status) ==
    [d \in DOMAIN ops \cup {c} |-> IF d = c THEN status ELSE ops[d]]

OpStatus(n) == IF CallOf(n) \in DOMAIN ops THEN ops[CallOf(n)] ELSE "none"

\* A replay that does not look for a recorded result.
CallAgain(n) ==
    CASE OpStatus(n) = "rejected" -> "failed"
      [] OpStatus(n) = "awaiting" -> "interrupted"
      [] OpStatus(n) = "none" /\ n \in RiskyNodes -> "interrupted"
      [] OTHER -> "calling"

\* A node hands its call to the gateway: a recorded result is returned, a rejected
\* call fails, one that still needs its approval stops the node, any other is executed.
CallTool(n) ==
    CASE OpStatus(n) \in Results -> OpStatus(n)
      [] OpStatus(n) = "rejected" -> "failed"
      [] OpStatus(n) = "awaiting" -> "interrupted"
      [] OpStatus(n) = "none" /\ n \in RiskyNodes -> "interrupted"
      [] OTHER -> "calling"

OpAfter(n) == CASE CallTool(n) = "calling" -> "running"
                [] CallTool(n) = "interrupted" -> "awaiting"
                [] OTHER -> CallTool(n)

StartTasks(ns) ==
    LET calls == {CallOf(n) : n \in ns}
    IN /\ task' = [n \in NodeIds |-> IF n \in ns THEN CallTool(n) ELSE task[n]]
       /\ ops' = [c \in DOMAIN ops \cup calls |->
                     IF c \in calls THEN OpAfter(c.node) ELSE ops[c]]

\* What holds a place of the semaphore: a single node at work, or a race that has
\* started and whose loop has not ended.
Places ==
    Cardinality({n \in Layer : Single(n) /\ task[n] = "calling"})
      + Cardinality({g \in Groups \ raced : \E n \in Members(g) : task[n] # "queued"})

RunSingle(n) ==
    /\ phase = "layer"
    /\ Single(n) /\ task[n] = "queued"
    /\ Places < MaxParallel
    /\ StartTasks({n})
    /\ UNCHANGED <<phase, plan, outcomes, used, raced, strays, executed, repeated, answer,
                   crashes>>

StartRace(g) ==
    /\ phase = "layer"
    /\ Members(g) # {} /\ \A n \in Members(g) : task[n] = "queued"
    /\ Places < MaxParallel
    /\ StartTasks(Members(g))
    /\ UNCHANGED <<phase, plan, outcomes, used, raced, strays, executed, repeated, answer,
                   crashes>>

\* The call has its effect and its result is recorded.
Executed(c) ==
    /\ \E result \in Results : ops' = SetOp(c, result)
    /\ executed' = executed \cup {c}
    /\ repeated' = repeated \cup (executed \cap {c})

ToolReturns(n) ==
    /\ phase = "layer" /\ task[n] = "calling"
    /\ Executed(CallOf(n))
    /\ task' = [task EXCEPT ![n] = ops'[CallOf(n)]]
    /\ UNCHANGED <<phase, plan, outcomes, used, raced, strays, answer, crashes>>

\* A task nobody waits for any more ends its call all the same.
StrayReturns(c) ==
    /\ c \in strays
    /\ strays' = strays \ {c}
    /\ Executed(c)
    /\ UNCHANGED <<phase, plan, outcomes, used, task, raced, answer, crashes>>

Racing(g) == phase = "layer" /\ g \notin raced /\ \E n \in Members(g) : task[n] # "queued"
Left(g) == {CallOf(n) : n \in {m \in Members(g) : task[m] = "calling"}}

\* The loop sees a success: the others are cancelled, and recorded as skipped
\* whatever they had reached.
RaceWon(g, w) ==
    /\ Racing(g)
    /\ w \in Members(g) /\ task[w] = "succeeded"
    /\ raced' = raced \cup {g}
    /\ task' = [n \in NodeIds |-> IF n \in Members(g) \ {w} THEN "cancelled" ELSE task[n]]
    /\ UNCHANGED <<phase, plan, outcomes, used, ops, strays, executed, repeated, answer, crashes>>

\* No success in time, or none at all: who has not ended counts as failed, and is
\* not cancelled. Should the layer be run again, its call id is used again.
RaceLost(g) ==
    /\ Racing(g)
    /\ \A n \in Members(g) : task[n] \in {"calling", "failed"}
    /\ raced' = raced \cup {g}
    /\ task' = [n \in NodeIds |-> IF n \in Members(g) THEN "failed" ELSE task[n]]
    /\ strays' = strays \cup Left(g)
    /\ UNCHANGED <<phase, plan, outcomes, used, ops, executed, repeated, answer, crashes>>

\* A member stops for an approval: the loop raises, and the other members go on.
RaceInterrupted(g) ==
    /\ Racing(g)
    /\ \E n \in Members(g) : task[n] = "interrupted"
    /\ raced' = raced \cup {g}
    /\ task' = [n \in NodeIds |-> IF n \in Members(g) THEN "interrupted" ELSE task[n]]
    /\ strays' = strays \cup Left(g)
    /\ UNCHANGED <<phase, plan, outcomes, used, ops, executed, repeated, answer, crashes>>

LayerOutcome(n) ==
    OutcomeOf(n, IF task[n] = "cancelled" THEN "skipped" ELSE task[n])

LayerEnded ==
    /\ phase = "layer"
    /\ \A n \in Layer : Single(n) => task[n] \in Results \cup {"interrupted"}
    /\ \A n \in Layer : ~Single(n) => plan.race[n] \in raced

\* The outcomes of the whole layer enter the state. The next attempts have other call
\* ids: the operations of this layer are not read again.
merge_node_outcomes ==
    /\ LayerEnded
    /\ \A n \in Layer : task[n] # "interrupted"
    /\ outcomes' = outcomes \cup {LayerOutcome(n) : n \in Layer}
    /\ phase' = "replanner"
    /\ task' = Idle
    /\ raced' = {}
    /\ ops' = NoOps
    /\ strays' = {}
    /\ executed' = {}
    /\ UNCHANGED <<plan, used, repeated, answer, crashes>>

\* An interrupt of one node drops the outcomes of the layer: it is run again.
PauseLayer ==
    /\ LayerEnded
    /\ \E n \in Layer : task[n] = "interrupted"
    /\ phase' = "paused"
    /\ task' = Idle
    /\ raced' = {}
    /\ UNCHANGED <<plan, outcomes, used, ops, strays, executed, repeated, answer, crashes>>

\* A person decides; a run that waits is queued again.
DecideApproval(c) ==
    /\ c \in DOMAIN ops /\ ops[c] = "awaiting"
    /\ \E decision \in {"approved", "rejected"} : ops' = SetOp(c, decision)
    /\ phase' = IF phase = "paused" THEN "executor" ELSE phase
    /\ UNCHANGED <<plan, outcomes, used, task, raced, strays, executed, repeated, answer, crashes>>

-----------------------------------------------------------------------------
(* Replanner and generator                                                 *)

Remaining == pending_nodes(plan, outcomes)
HasFailures == failed_node_ids(outcomes) # {}

\* Nodes remain and nothing has failed: on to the next layer.
ContinuePlan ==
    /\ phase = "replanner"
    /\ Remaining # {} /\ ~HasFailures
    /\ phase' = "executor"
    /\ UNCHANGED <<plan, outcomes, used, execution, answer, crashes>>

\* The budget is spent: write the answer if every node has ended, else give up.
ReplanExhausted ==
    /\ phase = "replanner"
    /\ Remaining = {} \/ HasFailures
    /\ used >= MaxReplan
    /\ phase' = IF Remaining = {} THEN "generator" ELSE "gave_up"
    /\ UNCHANGED <<plan, outcomes, used, execution, answer, crashes>>

\* Asks the model once too often.
AsksOverBudget ==
    /\ phase = "replanner"
    /\ Remaining = {} \/ HasFailures
    /\ used' = used + 1

AsksModel ==
    /\ phase = "replanner"
    /\ Remaining = {} \/ HasFailures
    /\ used < MaxReplan
    /\ used' = used + 1

\* The model says done or nothing usable, or gives up.
ReplanStops ==
    /\ AsksModel
    /\ phase' \in {"generator", "gave_up"}
    /\ UNCHANGED <<plan, outcomes, execution, answer, crashes>>

\* The model appends nodes. The revision keeps the nodes that are pending and have
\* not failed; an invalid revision is rolled back and the old plan goes on, or, with
\* nothing left in it, the answer is written.
RevisePlan(added, deps, race) ==
    LET surviving == Remaining \ failed_node_ids(outcomes)
        nodes == surviving \cup added
        merged == PlanOf(plan.revision + 1, nodes,
                         [n \in nodes |-> IF n \in added THEN deps[n] ELSE plan.deps[n]],
                         [n \in nodes |-> IF n \in added THEN race[n] ELSE plan.race[n]])
    IN /\ AsksModel
       /\ ~has_cycle(added, deps)
       /\ IF surviving \cap added = {} /\ validate_plan(nodes, merged.deps)
          THEN /\ plan' = merged
               /\ phase' = "executor"
          ELSE /\ phase' = IF Remaining = {} THEN "generator" ELSE "executor"
               /\ UNCHANGED plan
       /\ UNCHANGED <<outcomes, execution, answer, crashes>>

Generate ==
    /\ phase = "generator"
    /\ phase' \in {"answered", "failed"}
    /\ UNCHANGED <<plan, outcomes, used, execution, answer, crashes>>

\* The process stops. The graph node at work is run again by the next owner of the
\* run; what was in memory (tasks, a held answer) is gone.
Crash ==
    /\ phase \notin Endings
    /\ crashes < MaxCrashes
    /\ crashes' = crashes + 1
    /\ phase' = CASE phase = "layer" -> "executor"
                  [] OTHER -> phase
    /\ task' = Idle
    /\ raced' = {}
    /\ strays' = {}
    /\ answer' = IF answer = "held" THEN "none" ELSE answer
    /\ UNCHANGED <<plan, outcomes, used, ops, executed, repeated>>

-----------------------------------------------------------------------------

Execute ==
    \/ StartLayer
    \/ \E n \in NodeIds : RunSingle(n) \/ ToolReturns(n)
    \/ \E g \in Groups : StartRace(g) \/ RaceLost(g) \/ RaceInterrupted(g)
    \/ \E g \in Groups, w \in NodeIds : RaceWon(g, w)
    \/ merge_node_outcomes
    \/ PauseLayer

Replan ==
    \/ ContinuePlan
    \/ ReplanExhausted
    \/ ReplanStops
    \/ \E added \in sanitize_plan(AppendLimit) :
       \E deps \in [added -> SUBSET NodeIds], race \in [added -> Groups \cup {NoGroup}] :
           RevisePlan(added, deps, race)

\* The steps the process itself takes: model calls return, tools return.
Work == SelectBranch \/ RagAnswer \/ PlannerPlans \/ Execute \/ Replan \/ Generate

Next ==
    \/ Work
    \/ PlannerAsks
    \/ submit_clarification
    \/ \E c \in strays : StrayReturns(c)
    \/ \E c \in DOMAIN ops : DecideApproval(c)
    \/ Crash

Spec == Init /\ [][Next]_vars

\* The event loop runs every ready task, and calls to models and tools time out.
FairSpec == Spec /\ WF_vars(Work)

-----------------------------------------------------------------------------

\* Between two layers something can always be run: whenever the executor is entered
\* with nodes pending, one of them is ready. An accepted plan has no cycle, a revision
\* leaves no dependency on a node that will never end (validate_plan, ready_layer,
\* _ask_replanner).
PlanNeverStuck ==
    phase = "executor" /\ pending_nodes(plan, outcomes) # {} =>
        ready_layer(plan, outcomes) # {}

\* A node id succeeds once in a run: across retries, replays after a pause or a
\* crash, and revisions that use the id again (_attempt_of, ready_layer,
\* merge_node_outcomes).
OneSuccessPerNode ==
    \A o, p \in outcomes :
        o.node = p.node /\ o.outcome = "succeeded" /\ p.outcome # "failed" => o = p

\* One logical attempt has one outcome, so that the merge of a replayed layer never
\* meets a fork (StateConsistencyError in merge_node_outcomes).
OutcomesDoNotFork ==
    \A o, p \in outcomes :
        o.revision = p.revision /\ o.node = p.node /\ o.attempt = p.attempt => o = p

\* A call is executed once although its layer is run again after a pause or a crash:
\* the call id is the same and the gateway answers it from its record. The exception
\* are the members of a race, which a pause leaves running (see ReplayIsIdempotent).
SinglesRunOnce ==
    \A c \in repeated : c.revision = plan.revision => plan.race[c.node] # NoGroup

\* Every plan ends, or waits for a person: the replan budget and the progress of the
\* layers bound the loop between executor and replanner.
PlanningEnds ==
    phase \in {"planner", "executor"} ~> phase \in Endings \cup {"paused", "clarifying"}

\* The docstring of executor.py: a layer that is run again after an interrupt does
\* not repeat an effect, for its call ids are deterministic and the gateway removes
\* duplicates.
ReplayIsIdempotent == repeated = {}

=============================================================================
