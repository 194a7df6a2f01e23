--------------------------- MODULE PlanningProofs ---------------------------
(***************************************************************************)
(* Proofs about Planning, for every set of node ids and race groups, every *)
(* limit of the planner and every number of crashes.                       *)
(***************************************************************************)
EXTENDS Planning, FiniteSetTheorems, TLAPS

-----------------------------------------------------------------------------
(* Kahn's algorithm.                                                       *)

\* Every nonempty set of naturals has a least element.
LEMMA LeastNumber ==
    ASSUME NEW T \in SUBSET Nat, T # {}
    PROVE  \E m \in T : \A k \in T : m <= k
<1> DEFINE R == OpToRel(<, Nat)
<1>1. IsWellFoundedOn(R, Nat)
  BY NatLessThanWellFounded
<1>2. \A x, y \in Nat : <<x, y>> \in R <=> x < y
  BY DEF OpToRel
<1> HIDE DEF R
<1>3. PICK x \in T : \A y \in T : ~ (<<y, x>> \in R)
  BY <1>1, WFMin
<1>4. \A y \in T : ~(y < x)
  BY <1>2, <1>3
<1>5. \A y \in T : x <= y
  BY <1>4
<1> QED
  BY <1>5

\* One round of removal, from what the round before has processed.
Round(nodes, deps, before) ==
    {n \in nodes : (deps[n] \cap nodes) \ {n} \subseteq before}

\* f holds what each of the first m rounds has processed.
IsRounds(f, nodes, deps, m) ==
    f = [k \in 0..m |-> IF k = 0 THEN {} ELSE Round(nodes, deps, f[k - 1])]

\* The rounds can be carried on to any number.
LEMMA RoundsExist ==
    ASSUME NEW nodes, NEW deps, NEW N \in Nat
    PROVE  \E f : IsRounds(f, nodes, deps, N)
<1> DEFINE T == {m \in Nat : ~ \E f : IsRounds(f, nodes, deps, m)}
<1> SUFFICES ASSUME T # {} PROVE FALSE
  OBVIOUS
<1>1. PICK m \in T : \A k \in T : m <= k
  BY LeastNumber
<1>2. CASE m = 0
  <2> DEFINE f == [k \in 0..0 |-> {}]
  <2>1. IsRounds(f, nodes, deps, 0)
    BY DEF IsRounds
  <2> QED
    BY <1>1, <1>2, <2>1
<1>3. CASE m # 0
  <2>1. m - 1 \in Nat /\ m - 1 \notin T
    BY <1>1, <1>3
  <2>2. PICK f : IsRounds(f, nodes, deps, m - 1)
    BY <2>1
  <2> DEFINE g == [k \in 0..m |-> IF k = 0 THEN {} ELSE Round(nodes, deps, f[k - 1])]
  <2>3. \A k \in 0..(m - 1) : g[k] = f[k]
    <3> SUFFICES ASSUME NEW k \in 0..(m - 1) PROVE g[k] = f[k]
      OBVIOUS
    <3>1. f[k] = IF k = 0 THEN {} ELSE Round(nodes, deps, f[k - 1])
      BY <2>2 DEF IsRounds
    <3>2. k \in 0..m
      BY <2>1
    <3> QED
      BY <3>1, <3>2
  <2>4. \A k \in 0..m : k # 0 => k - 1 \in 0..(m - 1)
    BY <2>1
  <2>5. g = [k \in 0..m |-> IF k = 0 THEN {} ELSE Round(nodes, deps, g[k - 1])]
    BY <2>3, <2>4
  <2>6. IsRounds(g, nodes, deps, m)
    BY <2>5 DEF IsRounds
  <2> QED
    BY <1>1, <2>6
<1> QED
  BY <1>2, <1>3

\* Processed is the last of the rounds.
LEMMA ProcessedIsLastRound ==
    ASSUME NEW nodes, NEW deps, IsFiniteSet(nodes)
    PROVE  \E f : /\ IsRounds(f, nodes, deps, Cardinality(nodes))
                  /\ Processed(nodes, deps) = f[Cardinality(nodes)]
<1>1. Cardinality(nodes) \in Nat
  BY FS_CardinalityType
<1> DEFINE f == CHOOSE g : IsRounds(g, nodes, deps, Cardinality(nodes))
<1>2. IsRounds(f, nodes, deps, Cardinality(nodes))
  BY <1>1, RoundsExist
<1>3. Processed(nodes, deps) = f[Cardinality(nodes)]
  BY DEF Processed, IsRounds, Round
<1> QED
  BY <1>2, <1>3

\* What holds at zero and is passed on up to N holds up to N.
LEMMA UpTo ==
    ASSUME NEW N \in Nat, NEW S, 0 \in S, \A k \in 0..N : k \in S /\ k # N => k + 1 \in S
    PROVE  0..N \subseteq S
<1> DEFINE T == {k \in 0..N : k \notin S}
<1> SUFFICES ASSUME T # {} PROVE FALSE
  OBVIOUS
<1>1. PICK m \in T : \A k \in T : m <= k
  <2>1. T \in SUBSET Nat
    OBVIOUS
  <2> HIDE DEF T
  <2> QED
    BY <2>1, LeastNumber
<1>2. m # 0 /\ m - 1 \in 0..N /\ m - 1 # N /\ m - 1 \notin T
  BY <1>1
<1> QED
  BY <1>1, <1>2

\* Each round starts from the one before.
LEMMA RoundsStep ==
    ASSUME NEW nodes, NEW deps, NEW N \in Nat, NEW f, IsRounds(f, nodes, deps, N)
    PROVE  f[0] = {} /\ \A k \in 0..N : k # N => f[k + 1] = Round(nodes, deps, f[k])
<1>1. ASSUME NEW k \in 0..N
      PROVE  f[k] = IF k = 0 THEN {} ELSE Round(nodes, deps, f[k - 1])
  BY DEF IsRounds
<1>2. f[0] = {}
  BY <1>1
<1>3. ASSUME NEW k \in 0..N, k # N PROVE f[k + 1] = Round(nodes, deps, f[k])
  <2>1. k + 1 \in 0..N /\ k + 1 # 0 /\ (k + 1) - 1 = k
    BY <1>3
  <2> QED
    BY <1>1, <2>1
<1> QED
  BY <1>2, <1>3

\* The rounds grow, until one adds nothing; before, each adds a node.
LEMMA RoundsGrow ==
    ASSUME NEW nodes, NEW deps, NEW N \in Nat, IsFiniteSet(nodes),
           NEW f, IsRounds(f, nodes, deps, N)
    PROVE  \A k \in 0..N : /\ f[k] \subseteq nodes
                           /\ \/ Round(nodes, deps, f[k]) = f[k]
                              \/ Cardinality(f[k]) >= k
<1>1. f[0] = {} /\ \A k \in 0..N : k # N => f[k + 1] = Round(nodes, deps, f[k])
  BY RoundsStep
<1> DEFINE S == {k \in 0..N : /\ f[k] \subseteq nodes
                              /\ f[k] \subseteq Round(nodes, deps, f[k])
                              /\ \/ Round(nodes, deps, f[k]) = f[k]
                                 \/ Cardinality(f[k]) >= k}
<1>2. 0 \in S
  BY <1>1, FS_EmptySet, 0 \in 0..N
<1>3. ASSUME NEW k \in 0..N, k \in S, k # N PROVE k + 1 \in S
  <2>1. f[k + 1] = Round(nodes, deps, f[k]) /\ k + 1 \in 0..N
    BY <1>1, <1>3
  <2>2. f[k] \subseteq f[k + 1] /\ f[k + 1] \subseteq nodes
    BY <1>3, <2>1 DEF Round
  <2>3. f[k + 1] \subseteq Round(nodes, deps, f[k + 1])
    BY <2>1, <2>2 DEF Round
  <2>4. CASE f[k + 1] = f[k]
    BY <2>1, <2>2, <2>3, <2>4
  <2>5. CASE f[k + 1] # f[k]
    <3>1. IsFiniteSet(f[k + 1])
      BY <2>2, FS_Subset
    <3>2. /\ Cardinality(f[k]) <= Cardinality(f[k + 1])
          /\ Cardinality(f[k]) # Cardinality(f[k + 1])
          /\ IsFiniteSet(f[k])
      BY <2>2, <2>5, <3>1, FS_Subset
    <3>3. Cardinality(f[k]) \in Nat /\ Cardinality(f[k + 1]) \in Nat
      BY <3>1, <3>2, FS_CardinalityType
    <3>4. Cardinality(f[k]) >= k
      BY <1>3, <2>1, <2>5
    <3>5. Cardinality(f[k + 1]) >= k + 1
      BY <3>2, <3>3, <3>4
    <3> QED
      BY <2>1, <2>2, <2>3, <3>5
  <2> QED
    BY <2>4, <2>5
<1>4. 0..N \subseteq S
  BY <1>2, <1>3, UpTo
<1> QED
  BY <1>4

\* validate_plan rejects a graph exactly when it has a cycle: some of its nodes depend,
\* each of them, on another one of them (has_cycle, Kahn's algorithm).
THEOREM KahnIsExact ==
    ASSUME NEW nodes, NEW deps, IsFiniteSet(nodes)
    PROVE  has_cycle(nodes, deps) <=>
               \E C \in SUBSET nodes :
                   C # {} /\ \A n \in C : \E m \in C : m # n /\ m \in deps[n]
<1> DEFINE N == Cardinality(nodes)
<1>1. N \in Nat
  BY FS_CardinalityType
<1>2. PICK f : IsRounds(f, nodes, deps, N) /\ Processed(nodes, deps) = f[N]
  BY ProcessedIsLastRound
<1>3. ASSUME has_cycle(nodes, deps)
      PROVE  \E C \in SUBSET nodes :
                 C # {} /\ \A n \in C : \E m \in C : m # n /\ m \in deps[n]
  <2>1. f[N] # nodes /\ f[N] \subseteq nodes
    BY <1>1, <1>2, <1>3, RoundsGrow DEF has_cycle
  <2>2. Cardinality(f[N]) \in Nat /\ Cardinality(f[N]) <= N /\ Cardinality(f[N]) # N
    BY <2>1, FS_Subset, FS_CardinalityType
  <2>3. Round(nodes, deps, f[N]) = f[N]
    BY <1>1, <1>2, <2>2, RoundsGrow
  <2> DEFINE C == nodes \ f[N]
  <2>4. C \in SUBSET nodes /\ C # {}
    BY <2>1
  <2>5. \A n \in C : \E m \in C : m # n /\ m \in deps[n]
    BY <2>3 DEF Round
  <2> HIDE DEF C
  <2> QED
    BY <2>4, <2>5
<1>4. ASSUME NEW C \in SUBSET nodes, C # {},
             \A n \in C : \E m \in C : m # n /\ m \in deps[n]
      PROVE  has_cycle(nodes, deps)
  <2> DEFINE S == {k \in 0..N : f[k] \cap C = {}}
  <2>1. 0 \in S
    BY <1>1, <1>2, RoundsStep
  <2>2. ASSUME NEW k \in 0..N, k \in S, k # N PROVE k + 1 \in S
    <3>1. f[k + 1] = Round(nodes, deps, f[k])
      BY <1>1, <1>2, <2>2, RoundsStep
    <3> QED
      BY <1>1, <1>4, <2>2, <3>1 DEF Round
  <2>3. 0..N \subseteq S
    BY <1>1, <2>1, <2>2, UpTo
  <2>4. f[N] \cap C = {}
    BY <1>1, <2>3
  <2> QED
    BY <1>2, <1>4, <2>4 DEF has_cycle
<1> QED
  BY <1>3, <1>4

\* A graph that has_cycle accepts: any set of its nodes has one that depends on none
\* of the others.
LEMMA AcyclicHasLeast ==
    ASSUME NEW nodes, NEW deps, IsFiniteSet(nodes), ~has_cycle(nodes, deps),
           NEW C \in SUBSET nodes, C # {}
    PROVE  \E n \in C : ((deps[n] \cap nodes) \ {n}) \cap C = {}
  BY KahnIsExact

-----------------------------------------------------------------------------
(* The inductive invariant.                                                *)

OutcomesAt(n) == {o \in outcomes : o.node = n}

\* An accepted plan: dependencies stay inside, and any set of nodes has one that
\* depends on none of them.
GraphOK ==
    /\ plan \in Graphs
    /\ IsFiniteSet(plan.nodes)
    /\ \A n \in plan.nodes : plan.deps[n] \subseteq plan.nodes
    /\ \A C \in SUBSET plan.nodes : C # {} => \E n \in C : plan.deps[n] \cap C = {}

\* The layer at work is the one that is ready; there are operations to read again only
\* while one is, at work or to be replayed.
LayerOK ==
    /\ phase \in {"selector", "planner", "clarifying"} => plan.revision = 0
    /\ phase # "layer" => Layer = {}
    /\ phase = "layer" => Layer = ready_layer(plan, outcomes)
    /\ DOMAIN ops # {} => /\ phase \in {"executor", "layer", "paused"}
                          /\ ready_layer(plan, outcomes) # {}

\* Whatever was executed in this layer has its record, a single node that calls has
\* none yet, and only races leave tasks behind.
CallsOK ==
    /\ \A c \in DOMAIN ops : c.revision = plan.revision
    /\ \A c \in executed : c \in DOMAIN ops /\ ops[c] \in Results
    /\ \A c \in strays : c \in DOMAIN ops /\ ~Single(c.node)
    /\ \A n \in NodeIds : task[n] = "calling" =>
           /\ CallOf(n) \in DOMAIN ops
           /\ Single(n) => ops[CallOf(n)] = "running"
    /\ \A n \in Layer : plan.race[n] \in raced =>
           task[n] \in Results \cup {"cancelled", "interrupted"}

\* Attempts are numbered in the order of their outcomes.
OutcomesOK ==
    /\ \A n \in NodeIds : IsFiniteSet(OutcomesAt(n))
    /\ \A o \in outcomes : o.attempt < attempt_of(o.node)

\* Repeats are of the plan's revision or of an earlier one.
RepeatsOK == \A c \in repeated : c.revision <= plan.revision

Inv ==
    /\ TypeOK
    /\ GraphOK
    /\ LayerOK
    /\ CallsOK
    /\ OutcomesOK
    /\ OutcomesDoNotFork
    /\ OneSuccessPerNode
    /\ RepeatsOK
    /\ SinglesRunOnce

\* An accepted plan with pending nodes has a ready one.
LEMMA ReadyExists ==
    ASSUME GraphOK, pending_nodes(plan, outcomes) # {}
    PROVE  ready_layer(plan, outcomes) # {}
<1> DEFINE C == pending_nodes(plan, outcomes)
<1>1. C \in SUBSET plan.nodes
  BY DEF pending_nodes
<1>2. PICK n \in C : plan.deps[n] \cap C = {}
  BY <1>1 DEF GraphOK
<1>3. plan.deps[n] \subseteq resolved_ids(outcomes)
  BY <1>1, <1>2 DEF GraphOK, pending_nodes
<1> QED
  BY <1>2, <1>3 DEF pending_nodes, ready_layer

\* What validate_plan accepts is a plan.
LEMMA ValidPlan ==
    ASSUME NEW revision \in Nat, NEW nodes \in SUBSET NodeIds, IsFiniteSet(nodes),
           NEW deps, NEW race, NEW given,
           \A n \in nodes : race[n] \in Groups \cup {NoGroup},
           validate_plan(nodes, given), \A n \in nodes : given[n] = deps[n],
           plan' = PlanOf(revision, nodes, deps, race)
    PROVE  GraphOK'
<1>1. /\ plan'.revision = revision /\ plan'.nodes = nodes
      /\ plan'.deps = [n \in NodeIds |-> IF n \in nodes THEN deps[n] ELSE {}]
      /\ plan'.race = [n \in NodeIds |-> IF n \in nodes THEN race[n] ELSE NoGroup]
  BY DEF PlanOf
<1>2. \A n \in nodes : plan'.deps[n] \subseteq nodes /\ n \notin plan'.deps[n]
  BY <1>1 DEF validate_plan
<1>3. plan' \in Graphs
  <2>1. plan'.deps \in [NodeIds -> SUBSET NodeIds]
    BY <1>1, <1>2
  <2>2. plan'.race \in [NodeIds -> Groups \cup {NoGroup}]
    BY <1>1
  <2> QED
    BY <1>1, <2>1, <2>2 DEF Graphs, PlanOf
<1>4. ASSUME NEW C \in SUBSET nodes, C # {} PROVE \E n \in C : plan'.deps[n] \cap C = {}
  <2>1. PICK n \in C : ((given[n] \cap nodes) \ {n}) \cap C = {}
    BY <1>4, AcyclicHasLeast DEF validate_plan
  <2>2. plan'.deps[n] = given[n]
    BY <1>1
  <2> QED
    BY <1>2, <2>1, <2>2
<1> QED
  BY <1>1, <1>2, <1>3, <1>4 DEF GraphOK

\* The numbers of attempts, and the calls they name.
LEMMA CallTypes ==
    ASSUME Inv, NEW n \in NodeIds
    PROVE  /\ attempt_of(n) \in Nat
           /\ CallOf(n) \in Calls
           /\ CallOf(n).revision = plan.revision
           /\ CallOf(n).node = n
<1>1. attempt_of(n) \in Nat
  BY FS_CardinalityType DEF Inv, OutcomesOK, OutcomesAt, attempt_of
<1>2. plan.revision \in Nat
  BY DEF Inv, GraphOK, Graphs
<1> QED
  BY <1>1, <1>2 DEF CallOf, Calls

\* The initial state satisfies the invariant.
LEMMA Initially == Init => Inv
<1> SUFFICES ASSUME Init PROVE Inv
  OBVIOUS
<1>1. GraphOK
  <2>1. NoPlan \in Graphs /\ NoPlan.nodes = {}
    BY DEF NoPlan, Graphs
  <2> QED
    BY <2>1, FS_EmptySet DEF Init, GraphOK
<1>2. DOMAIN NoOps = {}
  BY DEF NoOps
<1>3. TypeOK
  BY <1>1, <1>2, PlanningAssumption DEF Init, TypeOK, GraphOK, Phases, Idle, TaskStates
<1>4. LayerOK
  BY <1>2 DEF Init, LayerOK, NoPlan, Layer, Idle
<1>5. CallsOK
  BY <1>2 DEF Init, CallsOK, Idle, Layer
<1>6. \A n \in NodeIds : OutcomesAt(n) = {}
  BY DEF Init, OutcomesAt
<1> QED
  BY <1>1, <1>3, <1>4, <1>5, <1>6, FS_EmptySet
     DEF Init, Inv, OutcomesOK, OutcomesDoNotFork, OneSuccessPerNode, RepeatsOK, SinglesRunOnce

-----------------------------------------------------------------------------
(* Steps outside of the executor.                                          *)

\* The process moves on from one graph node to another.
LEMMA MovingOn ==
    ASSUME Inv, UNCHANGED <<plan, outcomes, execution>>,
           phase' \in Phases \ {"layer"}, phase # "layer",
           used' \in 0..MaxReplan, answer' \in {"none", "asked", "held"},
           crashes' = crashes,
           phase' \in {"selector", "planner", "clarifying"} => plan.revision = 0,
           phase \in {"executor", "paused"} => phase' \in {"executor", "paused"}
    PROVE  Inv'
<1> USE DEF execution
<1>1. TypeOK'
  BY DEF Inv, TypeOK
<1>2. LayerOK'
  BY DEF Inv, LayerOK, Layer, ready_layer, resolved_ids
<1>3. CallsOK'
  BY DEF Inv, CallsOK, CallOf, attempt_of, Single, Layer
<1>4. GraphOK' /\ OutcomesOK' /\ OutcomesDoNotFork' /\ OneSuccessPerNode'
  BY DEF Inv, GraphOK, OutcomesOK, OutcomesAt, attempt_of, OutcomesDoNotFork, OneSuccessPerNode
<1>5. RepeatsOK' /\ SinglesRunOnce'
  BY DEF Inv, RepeatsOK, SinglesRunOnce
<1> QED
  BY <1>1, <1>2, <1>3, <1>4, <1>5 DEF Inv

LEMMA MoversKeepInv ==
    ASSUME Inv,
           \/ SelectBranch \/ RagAnswer \/ PlannerAsks \/ submit_clarification
           \/ ContinuePlan \/ ReplanExhausted \/ ReplanStops \/ Generate
    PROVE  Inv'
<1> USE DEF Phases, Endings
<1>0. /\ used \in 0..MaxReplan /\ answer \in {"none", "asked", "held"}
      /\ phase \in {"selector", "planner", "clarifying"} => plan.revision = 0
      /\ MaxReplan \in Nat
  BY PlanningAssumption DEF Inv, TypeOK, LayerOK
<1>1. CASE SelectBranch
  BY <1>0, <1>1, MovingOn DEF SelectBranch, Branches
<1>2. CASE RagAnswer
  BY <1>0, <1>2, MovingOn DEF RagAnswer
<1>3. CASE PlannerAsks
  BY <1>0, <1>3, MovingOn DEF PlannerAsks
<1>4. CASE submit_clarification
  BY <1>0, <1>4, MovingOn DEF submit_clarification
<1>5. CASE ContinuePlan
  BY <1>0, <1>5, MovingOn DEF ContinuePlan
<1>6. CASE ReplanExhausted
  BY <1>0, <1>6, MovingOn DEF ReplanExhausted
<1>7. CASE ReplanStops
  BY <1>0, <1>7, MovingOn DEF ReplanStops, AsksModel
<1>8. CASE Generate
  BY <1>0, <1>8, MovingOn DEF Generate
<1> QED
  BY <1>1, <1>2, <1>3, <1>4, <1>5, <1>6, <1>7, <1>8

\* A plan of a later revision takes the place of the current one.
LEMMA NewPlan ==
    ASSUME Inv, UNCHANGED <<outcomes, execution>>,
           phase \in {"planner", "replanner"}, phase' = "executor",
           used' \in 0..MaxReplan, answer' \in {"none", "asked", "held"},
           crashes' = crashes,
           GraphOK', plan'.revision > plan.revision
    PROVE  Inv'
<1> USE DEF execution
<1>1. TypeOK'
  BY DEF Inv, TypeOK, GraphOK, Phases
<1>2. DOMAIN ops = {} /\ Layer = {}
  BY DEF Inv, LayerOK
<1>3. LayerOK'
  BY <1>2 DEF LayerOK, Layer
<1>4. CallsOK'
  <2>1. executed = {} /\ strays = {} /\ \A n \in NodeIds : task[n] = "off"
    BY <1>2 DEF Inv, CallsOK, Layer
  <2> QED
    BY <1>2, <2>1 DEF CallsOK, Layer
<1>5. OutcomesOK' /\ OutcomesDoNotFork' /\ OneSuccessPerNode'
  BY DEF Inv, OutcomesOK, OutcomesAt, attempt_of, OutcomesDoNotFork, OneSuccessPerNode
<1>6. ASSUME NEW c \in repeated
      PROVE  c.revision <= plan'.revision /\ c.revision # plan'.revision
  <2>1. c.revision \in Nat /\ c.revision <= plan.revision
    BY DEF Inv, TypeOK, Calls, RepeatsOK
  <2>2. plan.revision \in Nat /\ plan'.revision \in Nat
    BY DEF Inv, GraphOK, Graphs
  <2> QED
    BY <2>1, <2>2
<1>7. RepeatsOK' /\ SinglesRunOnce'
  BY <1>6 DEF RepeatsOK, SinglesRunOnce
<1> QED
  BY <1>1, <1>3, <1>4, <1>5, <1>7 DEF Inv

LEMMA PlannerPlansKeepsInv == ASSUME Inv, PlannerPlans PROVE Inv'
<1>0. /\ used \in 0..MaxReplan /\ answer \in {"none", "asked", "held"}
      /\ plan.revision = 0
  BY DEF Inv, TypeOK, LayerOK, PlannerPlans
<1>1. CASE phase' \in {"baseline", "failed"} /\ UNCHANGED plan
  BY <1>0, <1>1, MovingOn DEF PlannerPlans, Phases, Endings
<1>2. ASSUME NEW nodes \in sanitize_plan(MaxNodes),
             NEW deps \in [nodes -> SUBSET nodes],
             NEW race \in [nodes -> Groups \cup {NoGroup}],
             validate_plan(nodes, deps), plan' = PlanOf(1, nodes, deps, race),
             phase' = "executor"
      PROVE  Inv'
  <2>1. nodes \in SUBSET NodeIds /\ IsFiniteSet(nodes)
    BY DEF sanitize_plan
  <2>2. GraphOK' /\ plan'.revision = 1
    BY <1>2, <2>1, ValidPlan DEF PlanOf
  <2> QED
    BY <1>0, <1>2, <2>2, NewPlan DEF PlannerPlans
<1> QED
  BY <1>1, <1>2 DEF PlannerPlans

LEMMA RevisePlanKeepsInv ==
    ASSUME Inv, NEW added \in sanitize_plan(AppendLimit),
           NEW deps \in [added -> SUBSET NodeIds],
           NEW race \in [added -> Groups \cup {NoGroup}],
           RevisePlan(added, deps, race)
    PROVE  Inv'
<1> DEFINE surviving == Remaining \ failed_node_ids(outcomes)
           nodes == surviving \cup added
           merged == PlanOf(plan.revision + 1, nodes,
                         [n \in nodes |-> IF n \in added THEN deps[n] ELSE plan.deps[n]],
                         [n \in nodes |-> IF n \in added THEN race[n] ELSE plan.race[n]])
<1>0. /\ answer \in {"none", "asked", "held"} /\ used' \in 0..MaxReplan
      /\ phase = "replanner"
  BY PlanningAssumption DEF Inv, TypeOK, RevisePlan, AsksModel
<1>1. \/ plan' = merged /\ validate_plan(nodes, merged.deps) /\ phase' = "executor"
      \/ phase' \in {"generator", "executor"} /\ UNCHANGED plan
  BY DEF RevisePlan
<1>2. UNCHANGED <<outcomes, execution, answer, crashes>>
  BY DEF RevisePlan
<1>3. CASE phase' \in {"generator", "executor"} /\ UNCHANGED plan
  BY <1>0, <1>2, <1>3, MovingOn DEF Phases
<1>4. CASE plan' = merged /\ validate_plan(nodes, merged.deps) /\ phase' = "executor"
  <2>1. plan \in Graphs /\ plan.revision \in Nat /\ plan.race \in [NodeIds -> Groups \cup {NoGroup}]
    BY DEF Inv, GraphOK, Graphs
  <2>2. nodes \in SUBSET NodeIds /\ IsFiniteSet(nodes)
    <3>1. surviving \in SUBSET plan.nodes /\ IsFiniteSet(plan.nodes) /\ plan.nodes \subseteq NodeIds
      BY <2>1 DEF Remaining, pending_nodes, Inv, GraphOK, Graphs
    <3>2. added \subseteq NodeIds /\ IsFiniteSet(added)
      BY DEF sanitize_plan
    <3> HIDE DEF surviving
    <3>3. IsFiniteSet(surviving)
      BY <3>1, FS_Subset
    <3> QED
      BY <3>1, <3>2, <3>3, FS_Union
  <2> DEFINE mergedDeps == [n \in nodes |-> IF n \in added THEN deps[n] ELSE plan.deps[n]]
             mergedRace == [n \in nodes |-> IF n \in added THEN race[n] ELSE plan.race[n]]
  <2>3. \A n \in nodes : mergedRace[n] \in Groups \cup {NoGroup}
    BY <2>1, <2>2
  <2>4. merged = PlanOf(plan.revision + 1, nodes, mergedDeps, mergedRace)
    OBVIOUS
  <2>5. plan.revision + 1 \in Nat
    BY <2>1
  <2>6. merged.revision = plan.revision + 1
    BY DEF PlanOf
  <2>7. \A n \in nodes : merged.deps[n] = mergedDeps[n]
    BY <2>2 DEF PlanOf
  <2> HIDE DEF merged, mergedDeps, mergedRace, nodes
  <2>8. GraphOK'
    BY <1>4, <2>2, <2>3, <2>4, <2>5, <2>7, ValidPlan
  <2> QED
    BY <1>0, <1>2, <1>4, <2>1, <2>6, <2>8, NewPlan
<1> QED
  BY <1>1, <1>3, <1>4

-----------------------------------------------------------------------------
(* Steps of the executor: plan and outcomes stay until the layer is merged. *)

OpStates == {"awaiting", "approved", "rejected", "running"} \cup Results

\* What the steps of a layer leave alone.
LEMMA LayerFrame ==
    ASSUME Inv, UNCHANGED <<plan, outcomes>>
    PROVE  /\ GraphOK' /\ OutcomesOK' /\ OutcomesDoNotFork' /\ OneSuccessPerNode'
           /\ \A n \in NodeIds : CallOf(n)' = CallOf(n) /\ Single(n)' = Single(n)
           /\ ready_layer(plan, outcomes)' = ready_layer(plan, outcomes)
  BY DEF Inv, GraphOK, OutcomesOK, OutcomesAt, attempt_of, OutcomesDoNotFork, OneSuccessPerNode,
         CallOf, Single

\* Repeats are recorded by Executed only.
LEMMA RepeatsFrame ==
    ASSUME Inv, UNCHANGED <<plan, repeated>>
    PROVE  RepeatsOK' /\ SinglesRunOnce'
  BY DEF Inv, RepeatsOK, SinglesRunOnce

LEMMA StartLayerKeepsInv == ASSUME Inv, StartLayer PROVE Inv'
<1> DEFINE layer == ready_layer(plan, outcomes)
<1>1. /\ phase = "executor" /\ raced' = {}
      /\ task' = [n \in NodeIds |-> IF n \in layer THEN "queued" ELSE "off"]
      /\ phase' = IF layer = {} THEN "replanner" ELSE "layer"
      /\ UNCHANGED <<plan, outcomes, used, ops, strays, executed, repeated, answer, crashes>>
  BY DEF StartLayer
<1>2. layer \subseteq NodeIds
  BY DEF ready_layer, Inv, GraphOK, Graphs
<1> HIDE DEF layer
<1>3. TypeOK'
  BY <1>1 DEF Inv, TypeOK, Phases, TaskStates
<1>4. Layer' = layer
  BY <1>1, <1>2 DEF Layer
<1>5. LayerOK'
  BY <1>1, <1>4, LayerFrame DEF Inv, LayerOK, layer
<1>6. CallsOK'
  <2>1. \A n \in NodeIds : task'[n] # "calling"
    BY <1>1
  <2> QED
    BY <1>1, <2>1 DEF Inv, CallsOK, Single
<1> QED
  BY <1>1, <1>3, <1>5, <1>6, LayerFrame, RepeatsFrame DEF Inv

\* Nodes of the layer that are waiting hand their calls to the gateway.
LEMMA StartingKeepsInv ==
    ASSUME Inv, phase = "layer", NEW ns \in SUBSET Layer,
           \A n \in ns : task[n] = "queued",
           StartTasks(ns),
           UNCHANGED <<phase, plan, outcomes, used, raced, strays, executed, repeated,
                       answer, crashes>>
    PROVE  Inv'
<1> DEFINE calls == {CallOf(n) : n \in ns}
<1>0. ns \subseteq NodeIds /\ \A n \in ns : task[n] # "off"
  BY DEF Layer
<1>1. \A n \in NodeIds : CallTool(n) \in {"calling", "failed", "succeeded", "interrupted"}
  BY DEF CallTool, Results
<1>2. \A n \in NodeIds : OpAfter(n) \in OpStates
  BY <1>1 DEF OpAfter, OpStates, Results
<1>3. /\ task' = [n \in NodeIds |-> IF n \in ns THEN CallTool(n) ELSE task[n]]
      /\ ops' = [c \in DOMAIN ops \cup calls |->
                     IF c \in calls THEN OpAfter(c.node) ELSE ops[c]]
  BY DEF StartTasks
<1>4. /\ \A c \in calls : c \in Calls /\ c.revision = plan.revision /\ c.node \in ns
      /\ \A n \in NodeIds \ ns : CallOf(n) \notin calls
      /\ \A c \in calls : c = CallOf(c.node)
  BY <1>0, CallTypes
<1>5. DOMAIN ops' = DOMAIN ops \cup calls
  BY <1>3
<1>6. \A c \in DOMAIN ops' : c \notin calls => c \in DOMAIN ops /\ ops'[c] = ops[c]
  BY <1>3
<1>7. \A n \in ns : ops'[CallOf(n)] = OpAfter(n)
  BY <1>0, <1>3, CallTypes
<1>8. TypeOK'
  <2>1. task' \in [NodeIds -> TaskStates]
    BY <1>0, <1>1, <1>3 DEF Inv, TypeOK, TaskStates, Results
  <2>2. \A c \in DOMAIN ops' : c \in Calls /\ ops'[c] \in OpStates
    BY <1>0, <1>2, <1>4, <1>5, <1>6, <1>7 DEF Inv, TypeOK, OpStates
  <2> QED
    BY <2>1, <2>2 DEF Inv, TypeOK, OpStates
<1>9. Layer' = Layer
  BY <1>0, <1>1, <1>3 DEF Layer
<1>10. LayerOK'
  <2>1. ns # {} => Layer # {}
    OBVIOUS
  <2>2. calls # {} => ns # {}
    OBVIOUS
  <2>3. DOMAIN ops' # {} => ready_layer(plan, outcomes) # {}
    BY <1>5, <2>1, <2>2 DEF Inv, LayerOK
  <2> QED
    BY <1>9, <2>3, LayerFrame DEF Inv, LayerOK
<1>11. CallsOK'
  <2>1. \A c \in DOMAIN ops' : c.revision = plan'.revision
    BY <1>4, <1>5 DEF Inv, CallsOK
  <2>2. ASSUME NEW c \in executed' PROVE c \in DOMAIN ops' /\ ops'[c] \in Results
    <3>1. c \in DOMAIN ops /\ ops[c] \in Results
      BY DEF Inv, CallsOK
    <3>2. CASE c \in calls
      <4>1. PICK n \in ns : c = CallOf(n)
        BY <3>2
      <4>2. OpStatus(n) = ops[c]
        BY <3>1, <4>1 DEF OpStatus
      <4>3. OpAfter(n) = ops[c]
        BY <3>1, <4>2 DEF OpAfter, CallTool, Results
      <4> QED
        BY <1>5, <1>7, <3>1, <4>1, <4>3
    <3>3. CASE c \notin calls
      BY <1>5, <1>6, <3>1, <3>3
    <3> QED
      BY <3>2, <3>3
  <2>3. \A c \in strays' : c \in DOMAIN ops' /\ ~Single(c.node)'
    BY <1>5 DEF Inv, CallsOK, Single
  <2>4. ASSUME NEW n \in NodeIds, task'[n] = "calling"
        PROVE  /\ CallOf(n) \in DOMAIN ops'
               /\ Single(n) => ops'[CallOf(n)] = "running"
    <3>1. CASE n \in ns
      <4>1. CallTool(n) = "calling"
        BY <1>3, <2>4, <3>1
      <4> QED
        BY <1>5, <1>7, <3>1, <4>1 DEF OpAfter
    <3>2. CASE n \notin ns
      <4>1. task[n] = "calling"
        BY <1>3, <2>4, <3>2
      <4>2. CallOf(n) \in DOMAIN ops /\ (Single(n) => ops[CallOf(n)] = "running")
        BY <4>1 DEF Inv, CallsOK
      <4> QED
        BY <1>4, <1>5, <1>6, <3>2, <4>2
    <3> QED
      BY <3>1, <3>2
  <2>5. ASSUME NEW n \in Layer', plan'.race[n] \in raced'
        PROVE  task'[n] \in Results \cup {"cancelled", "interrupted"}
    <3>1. task[n] \in Results \cup {"cancelled", "interrupted"}
      BY <1>9, <2>5 DEF Inv, CallsOK
    <3>2. n \notin ns /\ n \in NodeIds
      BY <1>9, <2>5, <3>1 DEF Results, Layer
    <3> QED
      BY <1>3, <3>1, <3>2
  <2> QED
    BY <2>1, <2>2, <2>3, <2>4, <2>5, LayerFrame DEF CallsOK
<1> QED
  BY <1>8, <1>10, <1>11, LayerFrame, RepeatsFrame DEF Inv

LEMMA StartersKeepInv ==
    ASSUME Inv, (\E n \in NodeIds : RunSingle(n)) \/ (\E g \in Groups : StartRace(g))
    PROVE  Inv'
<1>1. ASSUME NEW n \in NodeIds, RunSingle(n) PROVE Inv'
  <2>1. {n} \in SUBSET Layer
    BY <1>1 DEF RunSingle, Layer
  <2> QED
    BY <1>1, <2>1, StartingKeepsInv DEF RunSingle
<1>2. ASSUME NEW g \in Groups, StartRace(g) PROVE Inv'
  <2>1. Members(g) \in SUBSET Layer
    BY DEF Members
  <2> QED
    BY <1>2, <2>1, StartingKeepsInv DEF StartRace
<1> QED
  BY <1>1, <1>2

\* A call that has its effect and its record: it is repeated only if it is one of a race.
LEMMA Executing ==
    ASSUME Inv, UNCHANGED plan, NEW c \in DOMAIN ops, Executed(c),
           c \in executed => ~Single(c.node)
    PROVE  /\ DOMAIN ops' = DOMAIN ops
           /\ ops'[c] \in Results
           /\ \A d \in DOMAIN ops \ {c} : ops'[d] = ops[d]
           /\ \A d \in DOMAIN ops : ops'[d] \in OpStates
           /\ executed' \subseteq Calls /\ repeated' \subseteq Calls
           /\ \A d \in executed' : d \in DOMAIN ops' /\ ops'[d] \in Results
           /\ RepeatsOK' /\ SinglesRunOnce'
<1>1. PICK result \in Results : ops' = [d \in DOMAIN ops |-> IF d = c THEN result ELSE ops[d]]
  <2>1. DOMAIN ops \cup {c} = DOMAIN ops
    OBVIOUS
  <2> QED
    BY <2>1 DEF Executed, SetOp
<1>2. executed' = executed \cup {c} /\ repeated' = repeated \cup (executed \cap {c})
  BY DEF Executed
<1>3. \A d \in executed : d \in DOMAIN ops /\ ops[d] \in Results
  BY DEF Inv, CallsOK
<1>4. c \in Calls /\ c.revision = plan.revision /\ plan.revision \in Nat
  BY DEF Inv, TypeOK, CallsOK, GraphOK, Graphs
<1>5. RepeatsOK' /\ SinglesRunOnce'
  BY <1>2, <1>4 DEF Inv, RepeatsOK, SinglesRunOnce, Single
<1> QED
  BY <1>1, <1>2, <1>3, <1>4, <1>5 DEF Inv, TypeOK, OpStates

LEMMA ToolReturnsKeepsInv == ASSUME Inv, NEW n \in NodeIds, ToolReturns(n) PROVE Inv'
<1> DEFINE c == CallOf(n)
<1>1. /\ phase = "layer" /\ task[n] = "calling"
      /\ Executed(c)
      /\ task' = [task EXCEPT ![n] = ops'[c]]
      /\ UNCHANGED <<phase, plan, outcomes, used, raced, strays, answer, crashes>>
  BY DEF ToolReturns
<1>2. c \in DOMAIN ops /\ (Single(n) => ops[c] = "running") /\ c.node = n
  BY <1>1, CallTypes DEF Inv, CallsOK
<1>3. c \in executed => ~Single(c.node)
  BY <1>2 DEF Inv, CallsOK, Results
<1> HIDE DEF c
<1>4. /\ DOMAIN ops' = DOMAIN ops /\ ops'[c] \in Results
      /\ \A d \in DOMAIN ops \ {c} : ops'[d] = ops[d]
      /\ \A d \in DOMAIN ops : ops'[d] \in OpStates
      /\ executed' \subseteq Calls /\ repeated' \subseteq Calls
      /\ \A d \in executed' : d \in DOMAIN ops' /\ ops'[d] \in Results
      /\ RepeatsOK' /\ SinglesRunOnce'
  BY <1>1, <1>2, <1>3, Executing
<1>5. task' \in [NodeIds -> TaskStates] /\ task'[n] \in Results
      /\ \A m \in NodeIds \ {n} : task'[m] = task[m]
  BY <1>1, <1>4 DEF Inv, TypeOK, TaskStates
<1>6. TypeOK'
  BY <1>1, <1>4, <1>5 DEF Inv, TypeOK, OpStates
<1>7. Layer' = Layer
  BY <1>1, <1>5 DEF Layer, Results
<1>8. LayerOK'
  BY <1>1, <1>4, <1>7, LayerFrame DEF Inv, LayerOK
<1>9. CallsOK'
  <2>1. ASSUME NEW m \in NodeIds, task'[m] = "calling"
        PROVE  CallOf(m) \in DOMAIN ops' /\ (Single(m) => ops'[CallOf(m)] = "running")
    <3>1. m # n
      BY <1>5, <2>1 DEF Results
    <3>2. CallOf(m) # c
      BY <1>2, <3>1, CallTypes
    <3> QED
      BY <1>4, <1>5, <2>1, <3>1, <3>2 DEF Inv, CallsOK
  <2>2. ASSUME NEW m \in Layer', plan'.race[m] \in raced'
        PROVE  task'[m] \in Results \cup {"cancelled", "interrupted"}
    <3>1. m \in NodeIds
      BY <2>2 DEF Layer
    <3> QED
      BY <1>1, <1>5, <1>7, <2>2, <3>1 DEF Inv, CallsOK
  <2>3. \A d \in strays' : d \in DOMAIN ops' /\ ~Single(d.node)'
    BY <1>1, <1>4 DEF Inv, CallsOK, Single
  <2>4. \A d \in DOMAIN ops' : d.revision = plan'.revision
    BY <1>1, <1>4 DEF Inv, CallsOK
  <2> QED
    BY <1>1, <1>4, <2>1, <2>2, <2>3, <2>4, LayerFrame DEF CallsOK
<1> QED
  BY <1>1, <1>4, <1>6, <1>8, <1>9, LayerFrame DEF Inv

LEMMA StrayReturnsKeepsInv == ASSUME Inv, NEW c \in strays, StrayReturns(c) PROVE Inv'
<1>1. /\ strays' = strays \ {c} /\ Executed(c)
      /\ UNCHANGED <<phase, plan, outcomes, used, task, raced, answer, crashes>>
  BY DEF StrayReturns
<1>2. c \in DOMAIN ops /\ ~Single(c.node)
  BY DEF Inv, CallsOK
<1>4. /\ DOMAIN ops' = DOMAIN ops /\ ops'[c] \in Results
      /\ \A d \in DOMAIN ops \ {c} : ops'[d] = ops[d]
      /\ \A d \in DOMAIN ops : ops'[d] \in OpStates
      /\ executed' \subseteq Calls /\ repeated' \subseteq Calls
      /\ \A d \in executed' : d \in DOMAIN ops' /\ ops'[d] \in Results
      /\ RepeatsOK' /\ SinglesRunOnce'
  BY <1>1, <1>2, Executing
<1>6. TypeOK'
  BY <1>1, <1>4 DEF Inv, TypeOK, OpStates
<1>8. LayerOK'
  BY <1>1, <1>4, LayerFrame DEF Inv, LayerOK, Layer
<1>9. CallsOK'
  <2>1. ASSUME NEW m \in NodeIds, task[m] = "calling"
        PROVE  CallOf(m) \in DOMAIN ops' /\ (Single(m) => ops'[CallOf(m)] = "running")
    <3>1. Single(m) => CallOf(m) # c
      BY <1>2, CallTypes
    <3> QED
      BY <1>4, <2>1, <3>1 DEF Inv, CallsOK
  <2>2. \A m \in Layer' : plan'.race[m] \in raced' =>
            task'[m] \in Results \cup {"cancelled", "interrupted"}
    BY <1>1 DEF Inv, CallsOK, Layer
  <2>3. \A d \in strays' : d \in DOMAIN ops' /\ ~Single(d.node)'
    BY <1>1, <1>4 DEF Inv, CallsOK, Single
  <2>4. \A d \in DOMAIN ops' : d.revision = plan'.revision
    BY <1>1, <1>4 DEF Inv, CallsOK
  <2> QED
    BY <1>1, <1>4, <2>1, <2>2, <2>3, <2>4, LayerFrame DEF CallsOK
<1> QED
  BY <1>1, <1>4, <1>6, <1>8, <1>9, LayerFrame DEF Inv

\* The loop of a race ends: its members have ended or are given up.
LEMMA RaceEndsKeepsInv ==
    ASSUME Inv, phase = "layer", NEW g \in Groups,
           raced' = raced \cup {g},
           task' \in [NodeIds -> TaskStates],
           \A n \in NodeIds \ Members(g) : task'[n] = task[n],
           \A n \in Members(g) : task'[n] \in Results \cup {"cancelled", "interrupted"},
           strays' \subseteq strays \cup Left(g),
           UNCHANGED <<phase, plan, outcomes, used, ops, executed, repeated, answer, crashes>>
    PROVE  Inv'
<1>1. ASSUME NEW c \in Left(g) PROVE c \in Calls /\ c \in DOMAIN ops /\ ~Single(c.node)
  <2>1. PICK n \in Members(g) : task[n] = "calling" /\ c = CallOf(n)
    BY DEF Left
  <2>2. n \in NodeIds /\ plan.race[n] = g
    BY DEF Members, Layer
  <2> QED
    BY <2>1, <2>2, CallTypes, PlanningAssumption DEF Inv, CallsOK, Single
<1>2. TypeOK'
  BY <1>1 DEF Inv, TypeOK
<1>3. Layer' = Layer
  BY DEF Layer, Members, Results
<1>4. LayerOK'
  BY <1>3, LayerFrame DEF Inv, LayerOK
<1>5. CallsOK'
  <2>1. ASSUME NEW n \in NodeIds, task'[n] = "calling"
        PROVE  CallOf(n) \in DOMAIN ops' /\ (Single(n) => ops'[CallOf(n)] = "running")
    <3>1. n \notin Members(g)
      BY <2>1 DEF Results
    <3> QED
      BY <2>1, <3>1 DEF Inv, CallsOK
  <2>2. ASSUME NEW n \in Layer', plan'.race[n] \in raced'
        PROVE  task'[n] \in Results \cup {"cancelled", "interrupted"}
    <3>1. n \in Layer /\ n \in NodeIds
      BY <1>3, <2>2 DEF Layer
    <3>2. n \in Members(g) \/ plan.race[n] \in raced
      BY <2>2, <3>1 DEF Members
    <3> QED
      BY <3>1, <3>2 DEF Inv, CallsOK
  <2>3. \A d \in strays' : d \in DOMAIN ops' /\ ~Single(d.node)'
    BY <1>1 DEF Inv, CallsOK, Single
  <2> QED
    BY <2>1, <2>2, <2>3, LayerFrame DEF Inv, CallsOK
<1> QED
  BY <1>2, <1>4, <1>5, LayerFrame, RepeatsFrame DEF Inv

LEMMA RacesKeepInv ==
    ASSUME Inv, NEW g \in Groups,
           (\E w \in NodeIds : RaceWon(g, w)) \/ RaceLost(g) \/ RaceInterrupted(g)
    PROVE  Inv'
<1>0. /\ task \in [NodeIds -> TaskStates] /\ Members(g) \subseteq NodeIds
      /\ phase = "layer"
  BY DEF Inv, TypeOK, Members, Layer, RaceWon, RaceLost, RaceInterrupted, Racing
<1>1. ASSUME NEW w \in NodeIds, RaceWon(g, w) PROVE Inv'
  <2>1. task' = [n \in NodeIds |-> IF n \in Members(g) \ {w} THEN "cancelled" ELSE task[n]]
    BY <1>1 DEF RaceWon
  <2>2. task' \in [NodeIds -> TaskStates]
    BY <1>0, <2>1 DEF TaskStates
  <2>3. \A n \in Members(g) : task'[n] \in Results \cup {"cancelled", "interrupted"}
    BY <1>0, <1>1, <2>1 DEF RaceWon, Results
  <2> QED
    BY <1>0, <1>1, <2>1, <2>2, <2>3, RaceEndsKeepsInv DEF RaceWon
<1>2. CASE RaceLost(g)
  <2>1. task' = [n \in NodeIds |-> IF n \in Members(g) THEN "failed" ELSE task[n]]
    BY <1>2 DEF RaceLost
  <2>2. task' \in [NodeIds -> TaskStates]
    BY <1>0, <2>1 DEF TaskStates, Results
  <2>3. \A n \in Members(g) : task'[n] \in Results \cup {"cancelled", "interrupted"}
    BY <1>0, <2>1 DEF Results
  <2> QED
    BY <1>0, <1>2, <2>1, <2>2, <2>3, RaceEndsKeepsInv DEF RaceLost
<1>3. CASE RaceInterrupted(g)
  <2>1. task' = [n \in NodeIds |-> IF n \in Members(g) THEN "interrupted" ELSE task[n]]
    BY <1>3 DEF RaceInterrupted
  <2>2. task' \in [NodeIds -> TaskStates]
    BY <1>0, <2>1 DEF TaskStates
  <2>3. \A n \in Members(g) : task'[n] \in Results \cup {"cancelled", "interrupted"}
    BY <1>0, <2>1
  <2> QED
    BY <1>0, <1>3, <2>1, <2>2, <2>3, RaceEndsKeepsInv DEF RaceInterrupted
<1> QED
  BY <1>1, <1>2, <1>3

\* The layer is over, or is left to be run again: no task of it remains.
LEMMA LayerLeftKeepsInv ==
    ASSUME Inv,
           phase = "layer" => phase' \in {"executor", "paused"},
           phase # "layer" => phase' = phase,
           task' = Idle, raced' = {}, strays' \subseteq strays,
           answer' \in {"none", "asked", "held"}, crashes' \in 0..MaxCrashes,
           UNCHANGED <<plan, outcomes, used, ops, executed, repeated>>
    PROVE  Inv'
<1>1. TypeOK'
  BY DEF Inv, TypeOK, Idle, TaskStates, Phases
<1>2. Layer' = {}
  BY DEF Layer, Idle
<1>3. phase' # "layer"
  OBVIOUS
<1>4. LayerOK'
  BY <1>2, <1>3, LayerFrame DEF Inv, LayerOK
<1>5. CallsOK'
  BY <1>2 DEF Inv, CallsOK, Idle, Single
<1> QED
  BY <1>1, <1>4, <1>5, LayerFrame, RepeatsFrame DEF Inv

LEMMA LeaversKeepInv == ASSUME Inv, PauseLayer \/ Crash PROVE Inv'
<1>1. CASE PauseLayer
  BY <1>1, LayerLeftKeepsInv DEF PauseLayer, LayerEnded, Inv, TypeOK
<1>2. CASE Crash
  <2>1. crashes' \in 0..MaxCrashes
    BY <1>2, PlanningAssumption DEF Crash, Inv, TypeOK
  <2>2. answer' \in {"none", "asked", "held"}
    BY <1>2 DEF Crash, Inv, TypeOK
  <2> QED
    BY <1>2, <2>1, <2>2, LayerLeftKeepsInv DEF Crash
<1> QED
  BY <1>1, <1>2

LEMMA DecideApprovalKeepsInv ==
    ASSUME Inv, NEW c \in DOMAIN ops, DecideApproval(c) PROVE Inv'
<1>1. PICK decision \in {"approved", "rejected"} :
          ops' = [d \in DOMAIN ops |-> IF d = c THEN decision ELSE ops[d]]
  <2>1. DOMAIN ops \cup {c} = DOMAIN ops
    OBVIOUS
  <2> QED
    BY <2>1 DEF DecideApproval, SetOp
<1>2. /\ ops[c] = "awaiting"
      /\ phase' = IF phase = "paused" THEN "executor" ELSE phase
      /\ UNCHANGED <<plan, outcomes, used, task, raced, strays, executed, repeated, answer,
                     crashes>>
  BY DEF DecideApproval
<1>3. DOMAIN ops' = DOMAIN ops
  BY <1>1
<1>4. TypeOK'
  BY <1>1, <1>2 DEF Inv, TypeOK, Phases
<1>5. LayerOK'
  BY <1>2, <1>3, LayerFrame DEF Inv, LayerOK, Layer
<1>6. CallsOK'
  <2>1. \A d \in executed' : d \in DOMAIN ops' /\ ops'[d] \in Results
    BY <1>1, <1>2 DEF Inv, CallsOK, Results
  <2>2. ASSUME NEW n \in NodeIds, task[n] = "calling"
        PROVE  CallOf(n) \in DOMAIN ops' /\ (Single(n) => ops'[CallOf(n)] = "running")
    BY <1>1, <1>2, <2>2 DEF Inv, CallsOK
  <2>3. \A n \in Layer' : plan'.race[n] \in raced' =>
            task'[n] \in Results \cup {"cancelled", "interrupted"}
    BY <1>2 DEF Inv, CallsOK, Layer
  <2>4. \A d \in strays' : d \in DOMAIN ops' /\ ~Single(d.node)'
    BY <1>2, <1>3 DEF Inv, CallsOK, Single
  <2>5. \A d \in DOMAIN ops' : d.revision = plan'.revision
    BY <1>2, <1>3 DEF Inv, CallsOK
  <2> QED
    BY <1>2, <2>1, <2>2, <2>3, <2>4, <2>5, LayerFrame DEF CallsOK
<1> QED
  BY <1>2, <1>4, <1>5, <1>6, LayerFrame, RepeatsFrame DEF Inv

\* What a node of an ended layer leaves behind: an attempt that none of its outcomes
\* has, and none of these has ended the node.
LEMMA LayerOutcomes ==
    ASSUME Inv, merge_node_outcomes, NEW n \in Layer
    PROVE  /\ n \in NodeIds
           /\ LayerOutcome(n) \in Outcomes
           /\ LayerOutcome(n).node = n
           /\ LayerOutcome(n).attempt = attempt_of(n)
           /\ \A o \in outcomes : o.node = n => o.outcome = "failed"
<1>1. n \in NodeIds /\ n \in ready_layer(plan, outcomes) /\ plan.revision \in Nat
  BY DEF Inv, LayerOK, merge_node_outcomes, LayerEnded, Layer, GraphOK, Graphs
<1>2. task[n] \in Results \cup {"cancelled"}
  <2>1. CASE Single(n)
    BY <2>1 DEF merge_node_outcomes, LayerEnded
  <2>2. CASE ~Single(n)
    BY <2>2 DEF Inv, CallsOK, merge_node_outcomes, LayerEnded
  <2> QED
    BY <2>1, <2>2
<1> DEFINE result == IF task[n] = "cancelled" THEN "skipped" ELSE task[n]
<1>3. result \in Results \cup {"skipped"}
  BY <1>2
<1>4. LayerOutcome(n) = [revision |-> plan.revision, node |-> n, attempt |-> attempt_of(n),
                         outcome |-> result]
  BY DEF LayerOutcome, OutcomeOf
<1>5. attempt_of(n) \in Nat
  BY <1>1, CallTypes
<1> HIDE DEF result
<1>6. LayerOutcome(n) \in Outcomes
  BY <1>1, <1>3, <1>4, <1>5 DEF Outcomes
<1>7. \A o \in outcomes : o.node = n => o.outcome = "failed"
  BY <1>1 DEF ready_layer, resolved_ids
<1> QED
  BY <1>1, <1>4, <1>6, <1>7

LEMMA MergeKeepsInv == ASSUME Inv, merge_node_outcomes PROVE Inv'
<1>1. /\ outcomes' = outcomes \cup {LayerOutcome(n) : n \in Layer}
      /\ phase' = "replanner" /\ task' = Idle /\ raced' = {} /\ ops' = NoOps
      /\ strays' = {} /\ executed' = {}
      /\ UNCHANGED <<plan, used, repeated, answer, crashes>>
  BY DEF merge_node_outcomes
<1>2. DOMAIN ops' = {} /\ Layer' = {}
  BY <1>1 DEF NoOps, Layer, Idle
<1>3. outcomes' \subseteq Outcomes
  BY <1>1, LayerOutcomes DEF Inv, TypeOK
<1>4. TypeOK'
  BY <1>1, <1>2, <1>3 DEF Inv, TypeOK, Phases, Idle, TaskStates
<1>5. LayerOK'
  BY <1>1, <1>2 DEF LayerOK
<1>6. CallsOK'
  BY <1>1, <1>2 DEF CallsOK, Idle
<1>7. ASSUME NEW n \in NodeIds
      PROVE  /\ IsFiniteSet(OutcomesAt(n)')
             /\ \A o \in OutcomesAt(n) : o.attempt < attempt_of(n)
             /\ attempt_of(n) \in Nat
             /\ n \notin Layer => attempt_of(n)' = attempt_of(n) /\ OutcomesAt(n)' = OutcomesAt(n)
             /\ n \in Layer => /\ OutcomesAt(n)' = OutcomesAt(n) \cup {LayerOutcome(n)}
                               /\ attempt_of(n)' = attempt_of(n) + 1
  <2>0. attempt_of(n) = Cardinality(OutcomesAt(n)) /\ attempt_of(n)' = Cardinality(OutcomesAt(n)')
    BY DEF attempt_of, OutcomesAt
  <2>1. IsFiniteSet(OutcomesAt(n)) /\ attempt_of(n) \in Nat
    BY CallTypes DEF Inv, OutcomesOK
  <2>2. \A o \in OutcomesAt(n) : o.attempt < attempt_of(n)
    BY DEF Inv, OutcomesOK, OutcomesAt
  <2>3. CASE n \notin Layer
    <3>1. OutcomesAt(n)' = OutcomesAt(n)
      BY <1>1, <2>3, LayerOutcomes DEF OutcomesAt
    <3> QED
      BY <2>0, <2>1, <2>2, <2>3, <3>1
  <2>4. CASE n \in Layer
    <3>1. OutcomesAt(n)' = OutcomesAt(n) \cup {LayerOutcome(n)}
      BY <1>1, <2>4, LayerOutcomes DEF OutcomesAt
    <3>2. LayerOutcome(n) \notin OutcomesAt(n)
      BY <2>1, <2>2, <2>4, LayerOutcomes
    <3>3. /\ IsFiniteSet(OutcomesAt(n) \cup {LayerOutcome(n)})
          /\ Cardinality(OutcomesAt(n) \cup {LayerOutcome(n)}) = Cardinality(OutcomesAt(n)) + 1
      BY <2>1, <3>2, FS_AddElement
    <3> QED
      BY <2>0, <2>1, <2>2, <2>4, <3>1, <3>3
  <2> QED
    BY <2>3, <2>4
<1>8. \A o \in outcomes' : o \in OutcomesAt(o.node)' /\ o.node \in NodeIds
  BY <1>3 DEF OutcomesAt, Outcomes
<1>9. ASSUME NEW o \in outcomes'
      PROVE  \/ o \in outcomes /\ o.attempt < attempt_of(o.node)
             \/ o.node \in Layer /\ o = LayerOutcome(o.node)
  BY <1>7, <1>8 DEF OutcomesAt
<1>10. OutcomesOK'
  <2>1. ASSUME NEW o \in outcomes' PROVE o.attempt < attempt_of(o.node)'
    <3>1. o.node \in NodeIds /\ o.attempt \in Nat
      BY <1>3 DEF Outcomes
    <3>2. CASE o \in outcomes /\ o.attempt < attempt_of(o.node)
      BY <1>7, <3>1, <3>2
    <3>3. CASE o.node \in Layer /\ o = LayerOutcome(o.node)
      <4>1. o.attempt = attempt_of(o.node)
        BY <3>3, LayerOutcomes
      <4> QED
        BY <1>7, <3>1, <3>3, <4>1
    <3> QED
      BY <1>9, <3>2, <3>3
  <2> QED
    BY <1>7, <2>1 DEF OutcomesOK
<1>11. OutcomesDoNotFork'
  <2> SUFFICES ASSUME NEW o \in outcomes', NEW p \in outcomes',
                      o.revision = p.revision, o.node = p.node, o.attempt = p.attempt
               PROVE  o = p
    BY DEF OutcomesDoNotFork
  <2>1. o.attempt \in Nat /\ o.node \in NodeIds /\ attempt_of(o.node) \in Nat
    BY <1>3, <1>7 DEF Outcomes
  <2>2. CASE o \in outcomes /\ p \in outcomes
    BY <2>2 DEF Inv, OutcomesDoNotFork
  <2>3. o.node \in Layer => LayerOutcome(o.node).attempt = attempt_of(o.node)
    BY LayerOutcomes
  <2> QED
    BY <1>9, <2>1, <2>2, <2>3
<1>12. OneSuccessPerNode'
  <2> SUFFICES ASSUME NEW o \in outcomes', NEW p \in outcomes',
                      o.node = p.node, o.outcome = "succeeded", p.outcome # "failed"
               PROVE  o = p
    BY DEF OneSuccessPerNode
  <2>1. CASE o \in outcomes /\ p \in outcomes
    BY <2>1 DEF Inv, OneSuccessPerNode
  <2>2. o.node \in Layer => o \notin outcomes /\ p \notin outcomes
    BY LayerOutcomes
  <2> QED
    BY <1>9, <2>1, <2>2
<1>13. GraphOK'
  BY <1>1 DEF Inv, GraphOK
<1> QED
  BY <1>1, <1>4, <1>5, <1>6, <1>10, <1>11, <1>12, <1>13, RepeatsFrame DEF Inv

-----------------------------------------------------------------------------
(* Every step.                                                             *)

LEMMA NextKeepsInv == ASSUME Inv, [Next]_vars PROVE Inv'
<1>1. CASE SelectBranch \/ RagAnswer \/ Generate \/ PlannerAsks \/ submit_clarification
  BY <1>1, MoversKeepInv
<1>2. CASE PlannerPlans
  BY <1>2, PlannerPlansKeepsInv
<1>3. CASE Replan
  BY <1>3, MoversKeepInv, RevisePlanKeepsInv DEF Replan
<1>4. CASE Execute
  BY <1>4, StartLayerKeepsInv, StartersKeepInv, ToolReturnsKeepsInv, RacesKeepInv,
     MergeKeepsInv, LeaversKeepInv DEF Execute
<1>5. CASE \E c \in strays : StrayReturns(c)
  BY <1>5, StrayReturnsKeepsInv
<1>6. CASE \E c \in DOMAIN ops : DecideApproval(c)
  BY <1>6, DecideApprovalKeepsInv
<1>7. CASE Crash
  BY <1>7, LeaversKeepInv
<1>8. CASE UNCHANGED vars
  <2>1. UNCHANGED <<phase, plan, outcomes, used, task, raced, ops, strays, executed,
                    repeated, answer, crashes>>
    BY <1>8 DEF vars
  <2>2. TypeOK' /\ LayerOK'
    BY <2>1, LayerFrame DEF Inv, TypeOK, LayerOK, Layer
  <2>3. CallsOK'
    BY <2>1 DEF Inv, CallsOK, CallOf, attempt_of, Single, Layer
  <2> QED
    BY <2>1, <2>2, <2>3, LayerFrame, RepeatsFrame DEF Inv
<1> QED
  BY <1>1, <1>2, <1>3, <1>4, <1>5, <1>6, <1>7, <1>8 DEF Next, Work

\* The inductive invariant of the planning layer: its graph, the layer at work, the
\* calls of the layer and the outcomes that were merged (dag.py, executor.py,
\* replanner.py).
THEOREM Invariance == Spec => []Inv
  BY Initially, NextKeepsInv, PTL DEF Spec

\* The variables keep their types: plans stay inside the ids the model gave, and the
\* replans within their budget (PlanningState).
THEOREM TypeCorrect == Spec => []TypeOK
<1>1. Inv => TypeOK
  BY DEF Inv
<1> QED
  BY <1>1, Invariance, PTL

\* The executor is never entered with nodes pending and none of them ready: Kahn's
\* check in validate_plan leaves a first node in every set of nodes, whatever nodes,
\* dependencies and revisions the model comes up with.
THEOREM NeverStuck == Spec => []PlanNeverStuck
<1>1. Inv => PlanNeverStuck
  BY ReadyExists DEF Inv, PlanNeverStuck
<1> QED
  BY <1>1, Invariance, PTL

\* No node id succeeds twice in a run, whatever was retried, replayed or revised
\* (ready_layer, merge_node_outcomes).
THEOREM OneSuccess == Spec => []OneSuccessPerNode
<1>1. Inv => OneSuccessPerNode
  BY DEF Inv
<1> QED
  BY <1>1, Invariance, PTL

\* merge_node_outcomes never meets two outcomes of one logical attempt
\* (StateConsistencyError is out of reach).
THEOREM NoForks == Spec => []OutcomesDoNotFork
<1>1. Inv => OutcomesDoNotFork
  BY DEF Inv
<1> QED
  BY <1>1, Invariance, PTL

\* A call of a single node is executed once, over every replay of its layer; only
\* members of a race can be executed again (the gateway's records, _attempt_of).
THEOREM SinglesOnce == Spec => []SinglesRunOnce
<1>1. Inv => SinglesRunOnce
  BY DEF Inv
<1> QED
  BY <1>1, Invariance, PTL

=============================================================================
