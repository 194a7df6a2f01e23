---------------------------- MODULE SandboxProofs ----------------------------
(***************************************************************************)
(* Proofs about Sandbox, for any runs, operations and skills, any number   *)
(* of versions, and any number of failures and restarts.                   *)
(***************************************************************************)
EXTENDS Sandbox, FiniteSetTheorems, TLAPS

-----------------------------------------------------------------------------
(* The inductive invariant.                                                *)

States == {"not_requested", "provisioning", "ready", "invalid"}
Provisioning == {"start", "lookup", "run"}
Labels == Provisioning \cup {"idle", "skills", "copy", "copying", "give_up", "give_up_rm", "abort",
                             "abort_rm", "exec", "command"}

\* What TypeOK leaves out: the tasks, the requests and the history.
TasksOK ==
    /\ pc \in [Ops -> Labels] /\ create \in [Ops -> BOOLEAN]
    /\ packages \in [Ops -> SUBSET Package]
    /\ created \in [Ops -> Nat]
    /\ content \in [Generations -> SUBSET Package]
    /\ complete \in [Generations -> SUBSET Package]
    /\ digests \in [Runs -> SUBSET Package]
    /\ chosen \in [Runs -> SUBSET Package] /\ binding \in [Runs -> SUBSET Package]
    /\ installed \in [Skills -> SUBSET Package] /\ enabled \subseteq Skills
    /\ upstream \in [Skills -> 1 .. MaxVersion]
    /\ binder.at \in {"idle", "bind"}
    /\ binder.at = "bind" => binder.run \in Runs /\ binder.package \in Package
    /\ installer.at \in {"idle", "fetch", "register"}
    /\ installer.at = "fetch" =>
           installer.skill \in Skills /\ installer.manifest \in 1 .. MaxVersion
    /\ installer.at = "register" => installer.package \in disk

\* An operation creates its container in the call that took it out of not_requested,
\* and before that call ends.
CreateOK ==
    \A o \in Ops :
        /\ state[o] = "not_requested" => pc[o] = "idle" /\ created[o] = 0
        /\ pc[o] \in Provisioning /\ create[o] => created[o] = 0
        /\ pc[o] = "run" => create[o]
        /\ created[o] <= 1

Requested == {o \in Ops : gen[o] # Nothing}

\* The generations are numbered in the order of the requests; the container of a run
\* is the one of an operation of this run; where no container was, nothing was copied.
GenerationsOK ==
    /\ \A o \in Ops : gen[o] = Nothing <=> state[o] = "not_requested"
    /\ \A o \in Ops : gen[o] <= Cardinality(Requested)
    /\ \A o, x \in Ops : gen[o] = gen[x] /\ gen[o] # Nothing => o = x
    /\ \A r \in Runs : containers[r] # Nothing =>
           \E o \in Ops : run(o) = r /\ gen[o] = containers[r]
    /\ \A g \in Generations : g > Cardinality(Requested) => content[g] = {}

Whole(package) == package.files = package.manifest

\* Only whole packages are on disk; a run is bound to a package that was current when
\* it asked, and only such packages are under way to its container.
SkillsOK ==
    /\ \A p \in disk : Whole(p)
    /\ \A s \in Skills : installed[s] \subseteq disk
    /\ binder.at = "bind" => binder.package \in chosen[binder.run]
    /\ \A r \in Runs : binding[r] \subseteq chosen[r]
    /\ \A o \in Ops : \A p \in packages[o] : p \in chosen[run(o)] /\ Whole(p)

\* The lock: while an operation looks for a container or copies into one, no other does,
\* and a container is only looked for where none serves the run.
LockOK ==
    \A o \in Ops :
        /\ pc[o] \in {"lookup", "run", "copying"} => lock = o
        /\ pc[o] \in {"lookup", "run"} => containers[run(o)] = Nothing

\* The table of the copied packages never says more than the container has, and has the
\* packages of a ready call in its own container.
CopiesOK ==
    /\ \A r \in Runs :
           IF containers[r] = Nothing THEN digests[r] = {}
                                      ELSE digests[r] \subseteq complete[containers[r]]
    /\ \A o \in Ops :
           state[o] = "ready" /\ pc[o] \in {"exec", "command"}
               /\ containers[run(o)] = gen[o] => packages[o] \subseteq digests[run(o)]

Inv ==
    /\ TypeOK /\ TasksOK
    /\ CreateOK /\ GenerationsOK /\ LockOK
    /\ SkillsOK /\ OnlyBoundSkills /\ CopiesOK

\* The run of an operation is a run.
LEMMA RunOfOperation == \A o \in Ops : run(o) \in Runs
  BY RunOfAssumption DEF run

LEMMA Initially == Init => Inv
<1> SUFFICES ASSUME Init PROVE Inv
  OBVIOUS
<1> USE DEF Init, Idle, Nothing
<1>1. TypeOK
  BY DEF TypeOK
<1>2. TasksOK
  BY MaxVersionAssumption DEF TasksOK, Labels
<1>3. CreateOK
  BY DEF CreateOK, Provisioning
<1>4. Requested = {} /\ Cardinality(Requested) = 0
  BY FS_EmptySet DEF Requested
<1>5. GenerationsOK
  BY <1>4 DEF GenerationsOK
<1>6. SkillsOK
  BY DEF SkillsOK
<1>7. OnlyBoundSkills
  BY DEF OnlyBoundSkills
<1>8. LockOK /\ CopiesOK
  BY RunOfOperation DEF LockOK, CopiesOK
<1> QED
  BY <1>1, <1>2, <1>3, <1>5, <1>6, <1>7, <1>8 DEF Inv

-----------------------------------------------------------------------------
(* Generations.                                                            *)

\* An operation at work has asked, and has its generation.
LEMMA AtWork ==
    ASSUME Inv, NEW o \in Ops, pc[o] # "idle"
    PROVE  state[o] # "not_requested" /\ gen[o] \in Generations /\ gen[o] # Nothing
  BY DEF Inv, CreateOK, GenerationsOK, TypeOK

\* An operation that asks for the first time gets a number of its own.
LEMMA NextGeneration ==
    ASSUME Inv, NEW o \in Ops, gen[o] = Nothing
    PROVE  /\ IsFiniteSet(Requested)
           /\ Cardinality(Requested) \in Nat
           /\ 1 + Cardinality(Requested) \in Generations
           /\ Cardinality(Requested \cup {o}) = Cardinality(Requested) + 1
<1>1. Requested \subseteq Ops /\ o \notin Requested
  BY DEF Requested
<1>2. IsFiniteSet(Requested) /\ Cardinality(Requested) \in Nat
  BY <1>1, OpsAssumption, FS_Subset, FS_CardinalityType
<1>3. Cardinality(Requested \cup {o}) = Cardinality(Requested) + 1
  BY <1>1, <1>2, FS_AddElement
<1>4. Cardinality(Requested \cup {o}) <= Cardinality(Ops)
  BY <1>1, OpsAssumption, FS_Subset
<1>5. Cardinality(Ops) \in Nat
  BY OpsAssumption, FS_CardinalityType
<1> QED
  BY <1>2, <1>3, <1>4, <1>5 DEF Generations

\* The effect of a first ensure_sandbox on the records.
LEMMA FirstRequest ==
    ASSUME Inv, NEW o \in Ops, ensure_sandbox(o), state[o] = "not_requested"
    PROVE  /\ gen[o] = Nothing
           /\ gen' = [gen EXCEPT ![o] = 1 + Cardinality(Requested)]
           /\ gen' \in [Ops -> Generations \cup {Nothing}]
           /\ Requested' = Requested \cup {o}
           /\ Cardinality(Requested') = Cardinality(Requested) + 1
           /\ Cardinality(Requested) \in Nat
<1>1. gen[o] = Nothing
  BY DEF Inv, GenerationsOK
<1>2. gen' = [gen EXCEPT ![o] = 1 + Cardinality(Requested)]
  BY DEF ensure_sandbox, Requested
<1>3. 1 + Cardinality(Requested) \in Generations /\ Cardinality(Requested) \in Nat
  BY <1>1, NextGeneration
<1>4. gen' \in [Ops -> Generations \cup {Nothing}]
  BY <1>2, <1>3 DEF Inv, TypeOK
<1>5. gen'[o] # Nothing /\ \A x \in Ops \ {o} : gen'[x] = gen[x]
  BY <1>2, <1>3 DEF Inv, TypeOK, Nothing
<1>6. Requested' = Requested \cup {o}
  BY <1>5 DEF Requested
<1> QED
  BY <1>1, <1>2, <1>3, <1>4, <1>6, NextGeneration

\* The generations stay as they are.
LEMMA GenerationsFrame ==
    ASSUME Inv, UNCHANGED gen,
           \A o \in Ops : \/ state'[o] = state[o]
                          \/ state[o] # "not_requested" /\ state'[o] # "not_requested",
           \A r \in Runs : \/ containers'[r] \in {containers[r], Nothing}
                           \/ \E o \in Ops : run(o) = r /\ containers'[r] = gen[o],
           \A g \in Generations : content'[g] = content[g]
                                  \/ \E o \in Ops : gen[o] = g
    PROVE  GenerationsOK'
<1>1. Requested' = Requested /\ Cardinality(Requested)' = Cardinality(Requested)
  BY DEF Requested
<1>2. \A o \in Ops : gen'[o] = Nothing <=> state'[o] = "not_requested"
  BY DEF Inv, GenerationsOK
<1>3. \A r \in Runs : containers'[r] # Nothing =>
          \E o \in Ops : run(o) = r /\ gen'[o] = containers'[r]
  BY DEF Inv, GenerationsOK
<1>4. Cardinality(Requested) \in Nat
  BY OpsAssumption, FS_Subset, FS_CardinalityType DEF Requested
<1>5. ASSUME NEW g \in Generations, g > Cardinality(Requested) PROVE content'[g] = {}
  <2>1. \A o \in Ops : gen[o] # g
    BY <1>4, <1>5 DEF Inv, GenerationsOK, TypeOK, Generations, Nothing
  <2> QED
    BY <1>5, <2>1 DEF Inv, GenerationsOK
<1> QED
  BY <1>1, <1>2, <1>3, <1>5 DEF Inv, GenerationsOK

-----------------------------------------------------------------------------
(* Types.                                                                  *)

\* What copy_skill_package does to the container of its run: a package that is not
\* recorded is begun, or ended and recorded, or nothing is written.
LEMMA Copying ==
    ASSUME Inv, NEW o \in Ops, copy_skill_package(o)
    PROVE  LET g == containers[run(o)] IN
           /\ \/ UNCHANGED <<content, complete, digests>>
              \/ \E p \in missing(o) :
                     /\ g \in Generations
                     /\ content' = [content EXCEPT ![g] = content[g] \cup {p}]
                     /\ complete' = [complete EXCEPT ![g] = complete[g] \ {p}]
                     /\ digests' = digests
              \/ \E p \in missing(o) :
                     /\ g \in Generations
                     /\ p \in content[g] /\ content' = content
                     /\ complete' = [complete EXCEPT ![g] = complete[g] \cup {p}]
                     /\ digests' = [digests EXCEPT ![run(o)] = digests[run(o)] \cup {p}]
           /\ content' \in [Generations -> SUBSET Package]
           /\ complete' \in [Generations -> SUBSET Package]
           /\ digests' \in [Runs -> SUBSET Package]
           /\ \A h \in Generations : complete'[h] \subseteq content'[h]
<1> DEFINE g == containers[run(o)]
<1>1. docker \subseteq Generations
  BY DEF Inv, TypeOK
<1>2. \/ UNCHANGED <<content, complete, digests>>
      \/ \E p \in missing(o) :
             /\ g \in Generations
             /\ content' = [content EXCEPT ![g] = content[g] \cup {p}]
             /\ complete' = [complete EXCEPT ![g] = complete[g] \ {p}]
             /\ digests' = digests
      \/ \E p \in missing(o) :
             /\ g \in Generations
             /\ p \in content[g] /\ content' = content
             /\ complete' = [complete EXCEPT ![g] = complete[g] \cup {p}]
             /\ digests' = [digests EXCEPT ![run(o)] = digests[run(o)] \cup {p}]
  BY <1>1 DEF copy_skill_package, start_copy, end_copy
<1>3. /\ missing(o) \subseteq Package /\ run(o) \in Runs
      /\ content \in [Generations -> SUBSET Package]
      /\ complete \in [Generations -> SUBSET Package]
      /\ digests \in [Runs -> SUBSET Package]
      /\ \A h \in Generations : complete[h] \subseteq content[h]
  BY RunOfOperation DEF missing, Inv, TypeOK, TasksOK
<1> QED
  BY <1>2, <1>3

LEMMA OperationTypes ==
    ASSUME Inv, NEW o \in Ops,
           \/ ensure_sandbox(o) \/ start_run(o) \/ existing_container(o) \/ docker_run(o)
           \/ materializations_for_run(o) \/ materialize_skills(o) \/ copy_skill_package(o)
           \/ stop_sandbox(o) \/ remove_sandbox(o) \/ exec_command(o) \/ command_ends(o)
           \/ command_interrupted(o) \/ cancelled(o)
    PROVE  TypeOK' /\ TasksOK'
<1> USE RunOfOperation DEF goto, Labels, Provisioning, Inv, TypeOK, TasksOK, opVars, memVars,
        dockerVars, taskVars, skillVars, boundVars
<1>1. CASE ensure_sandbox(o)
  <2>1. gen' \in [Ops -> Generations \cup {Nothing}]
    BY <1>1, FirstRequest DEF ensure_sandbox
  <2>2. state' \in [Ops -> States]
    BY <1>1 DEF ensure_sandbox, States
  <2> QED
    BY <1>1, <2>1, <2>2 DEF ensure_sandbox, States, allow_create
<1>2. CASE start_run(o)
  BY <1>2 DEF start_run
<1>3. CASE existing_container(o)
  BY <1>3 DEF existing_container, answer_capability
<1>4. CASE docker_run(o)
  <2>1. gen[o] \in Generations
    BY <1>4, AtWork DEF docker_run
  <2>2. CreateContainer(o) =>
            docker' \subseteq Generations /\ created' \in [Ops -> Nat]
    BY <2>1 DEF CreateContainer
  <2> QED
    BY <1>4, <2>2 DEF docker_run, answer_capability
<1>5. CASE materializations_for_run(o)
  BY <1>5 DEF materializations_for_run, load_version
<1>6. CASE materialize_skills(o)
  BY <1>6 DEF materialize_skills, sandbox_ready
<1>13. CASE copy_skill_package(o)
  <2>1. state' \in [Ops -> States] /\ pc' \in [Ops -> Labels] /\ lock' \in Ops \cup {Free}
    BY <1>13 DEF copy_skill_package, sandbox_ready, States
  <2>2. /\ content' \in [Generations -> SUBSET Package]
        /\ complete' \in [Generations -> SUBSET Package]
        /\ digests' \in [Runs -> SUBSET Package]
        /\ \A g \in Generations : complete'[g] \subseteq content'[g]
    BY <1>13, Copying
  <2> QED
    BY <1>13, <2>1, <2>2 DEF copy_skill_package, States
<1>7. CASE stop_sandbox(o)
  BY <1>7 DEF stop_sandbox, forget_container
<1>8. CASE remove_sandbox(o)
  BY <1>8 DEF remove_sandbox, docker_rm
<1>9. CASE exec_command(o)
  BY <1>9 DEF exec_command, call_ends
<1>10. CASE command_ends(o)
  BY <1>10 DEF command_ends, call_ends
<1>11. CASE command_interrupted(o)
  BY <1>11 DEF command_interrupted
<1>12. CASE cancelled(o)
  <2>1. gen[o] \in Generations
    BY <1>12, AtWork DEF cancelled
  <2>2. CreateContainer(o) =>
            docker' \subseteq Generations /\ created' \in [Ops -> Nat]
    BY <2>1 DEF CreateContainer
  <2> QED
    BY <1>12, <2>2 DEF cancelled, call_ends
<1> QED
  BY <1>1, <1>2, <1>3, <1>4, <1>5, <1>6, <1>7, <1>8, <1>9, <1>10, <1>11, <1>12, <1>13

\* What is fetched is a package.
LEMMA FetchedIsPackage ==
    ASSUME Inv, installer.at = "fetch"
    PROVE  fetched \in Package
  BY DEF Inv, TasksOK, fetched, fetch_file, Package

LEMMA OtherTypes ==
    ASSUME Inv,
           \/ \E g \in Generations : ContainerLost(g)
           \/ \E r \in Runs : claim(r) \/ stop_run(r) \/ release_run(r)
           \/ \E r \in Runs, p \in Package : snapshot(r, p)
           \/ \E s \in Skills : Publish(s) \/ detail(s) \/ uninstall(s)
           \/ \E s \in Skills, on \in BOOLEAN : set_enabled(s, on)
           \/ bind_run \/ write_package \/ install
           \/ Crash
    PROVE  TypeOK' /\ TasksOK'
<1> USE DEF Labels, Inv, TypeOK, TasksOK, opVars, memVars, dockerVars, taskVars, boundVars,
        skillRest, Idle
<1>1. CASE \E g \in Generations : ContainerLost(g)
  BY <1>1 DEF ContainerLost, skillVars
<1>2. ASSUME NEW r \in Runs, claim(r) \/ stop_run(r) \/ release_run(r)
      PROVE  TypeOK' /\ TasksOK'
  BY <1>2 DEF claim, stop_run, release_run, forget_container, docker_rm, skillVars
<1>3. ASSUME NEW r \in Runs, NEW p \in Package, snapshot(r, p) PROVE TypeOK' /\ TasksOK'
  BY <1>3 DEF snapshot
<1>4. ASSUME NEW s \in Skills, Publish(s) PROVE TypeOK' /\ TasksOK'
  BY <1>4, MaxVersionAssumption DEF Publish
<1>5. ASSUME NEW s \in Skills, detail(s) PROVE TypeOK' /\ TasksOK'
  BY <1>5 DEF detail, fetch_file
<1>6. ASSUME NEW s \in Skills, uninstall(s) PROVE TypeOK' /\ TasksOK'
  BY <1>6 DEF uninstall
<1>7. ASSUME NEW s \in Skills, NEW on \in BOOLEAN, set_enabled(s, on) PROVE TypeOK' /\ TasksOK'
  BY <1>7 DEF set_enabled
<1>8. CASE bind_run
  BY <1>8 DEF bind_run
<1>9. CASE write_package
  <2>1. fetched \in Package
    BY <1>9, FetchedIsPackage DEF write_package
  <2>2. disk' \subseteq Package
    BY <1>9, <2>1 DEF write_package
  <2> HIDE DEF Idle
  <2>3. \/ installer' = [at |-> "register", package |-> fetched] /\ fetched \in disk'
        \/ installer' = Idle
    BY <1>9 DEF write_package
  <2> USE DEF Idle
  <2>4. /\ installer'.at \in {"idle", "register"}
        /\ installer'.at = "register" => installer'.package \in disk'
    BY <2>3
  <2> HIDE DEF Inv
  <2> QED
    BY <1>9, <2>2, <2>4 DEF write_package, Inv
<1>10. CASE install
  <2>1. installer.package \in Package /\ installer.package.skill \in Skills
    BY <1>10 DEF install, Package
  <2>2. installed' \in [Skills -> SUBSET Package] /\ enabled' \subseteq Skills
    BY <1>10, <2>1 DEF install
  <2> QED
    BY <1>10, <2>2 DEF install
<1>11. CASE Crash
  BY <1>11 DEF Crash
<1> QED
  BY <1>1, <1>2, <1>3, <1>4, <1>5, <1>6, <1>7, <1>8, <1>9, <1>10, <1>11

-----------------------------------------------------------------------------
(* Containers are created once.                                            *)

LEMMA CreateStep ==
    ASSUME Inv, Next PROVE CreateOK'
<1> USE DEF goto, Provisioning, CreateOK, opVars, memVars, dockerVars, taskVars, skillVars,
        boundVars, skillRest
<1>0. /\ \A o \in Ops : state[o] \in States /\ created[o] \in Nat
      /\ CreateOK /\ pc \in [Ops -> Labels] /\ create \in [Ops -> BOOLEAN]
      /\ created \in [Ops -> Nat] /\ state \in [Ops -> States]
  BY DEF Inv, TypeOK, TasksOK, States
<1>1. ASSUME NEW o \in Ops, ensure_sandbox(o) PROVE CreateOK'
  BY <1>0, <1>1 DEF ensure_sandbox, allow_create
<1>2. ASSUME NEW o \in Ops, start_run(o) \/ existing_container(o) PROVE CreateOK'
  BY <1>0, <1>2 DEF start_run, existing_container, answer_capability
<1>3. ASSUME NEW o \in Ops, docker_run(o) PROVE CreateOK'
  BY <1>0, <1>3 DEF docker_run, answer_capability, CreateContainer
<1>4. ASSUME NEW o \in Ops, cancelled(o) PROVE CreateOK'
  BY <1>0, <1>4 DEF cancelled, call_ends, CreateContainer
<1>5. ASSUME NEW o \in Ops, \/ materializations_for_run(o) \/ materialize_skills(o)
                             \/ copy_skill_package(o)
      PROVE  CreateOK'
  BY <1>0, <1>5
     DEF materializations_for_run, materialize_skills, copy_skill_package, sandbox_ready
<1>6. ASSUME NEW o \in Ops, stop_sandbox(o) \/ remove_sandbox(o) PROVE CreateOK'
  BY <1>0, <1>6 DEF stop_sandbox, remove_sandbox
<1>7. ASSUME NEW o \in Ops, exec_command(o) \/ command_ends(o) \/ command_interrupted(o)
      PROVE  CreateOK'
  BY <1>0, <1>7 DEF exec_command, command_ends, call_ends, command_interrupted
<1>8. CASE Crash
  BY <1>0, <1>8 DEF Crash
<1>9. CASE UNCHANGED <<state, pc, create, created>>
  BY <1>0, <1>9
<1>10. ASSUME \/ \E g \in Generations : ContainerLost(g)
              \/ \E r \in Runs : \/ claim(r) \/ stop_run(r) \/ release_run(r)
                                 \/ \E p \in Package : snapshot(r, p)
              \/ \E s \in Skills : \/ Publish(s) \/ detail(s) \/ uninstall(s)
                                   \/ \E on \in BOOLEAN : set_enabled(s, on)
              \/ bind_run \/ write_package \/ install
       PROVE  UNCHANGED <<state, pc, create, created>>
  BY <1>10 DEF ContainerLost, claim, stop_run, release_run, snapshot, Publish, detail, uninstall,
     set_enabled, bind_run, write_package, install
<1> QED
  BY <1>1, <1>2, <1>3, <1>4, <1>5, <1>6, <1>7, <1>8, <1>9, <1>10 DEF Next

-----------------------------------------------------------------------------
(* Generations and containers.                                             *)

LEMMA GenerationsStep ==
    ASSUME Inv, Next PROVE GenerationsOK'
<1> USE DEF opVars, memVars, dockerVars, taskVars, skillVars, boundVars, skillRest
<1>0. /\ containers \in [Runs -> Generations \cup {Nothing}] /\ state \in [Ops -> States]
      /\ content \in [Generations -> SUBSET Package]
  BY DEF Inv, TypeOK, TasksOK, States
<1>1. ASSUME NEW o \in Ops, ensure_sandbox(o) PROVE GenerationsOK'
  <2>1. CASE state[o] # "not_requested"
    BY <1>1, <2>1, GenerationsFrame DEF ensure_sandbox
  <2>2. CASE state[o] = "not_requested"
    <3>1. /\ gen[o] = Nothing /\ gen' = [gen EXCEPT ![o] = 1 + Cardinality(Requested)]
          /\ gen \in [Ops -> Generations \cup {Nothing}]
          /\ Cardinality(Requested') = Cardinality(Requested) + 1
          /\ Cardinality(Requested) \in Nat
      BY <1>1, <2>2, FirstRequest DEF Inv, TypeOK
    <3>2. state' = [state EXCEPT ![o] = "provisioning"] /\ UNCHANGED <<containers, content>>
      BY <1>1, <2>2 DEF ensure_sandbox
    <3>3. \A x \in Ops : gen'[x] = Nothing <=> state'[x] = "not_requested"
      BY <1>0, <3>1, <3>2 DEF Inv, GenerationsOK, Nothing
    <3>4. \A x \in Ops : gen'[x] <= Cardinality(Requested')
      BY <3>1 DEF Inv, GenerationsOK, Generations, Nothing
    <3>5. ASSUME NEW x \in Ops, NEW y \in Ops, gen'[x] = gen'[y], gen'[x] # Nothing
          PROVE  x = y
      <4>1. \A z \in Ops : gen[z] # 1 + Cardinality(Requested)
        BY <3>1 DEF Inv, GenerationsOK, Generations, Nothing
      <4> QED
        BY <3>1, <3>5, <4>1 DEF Inv, GenerationsOK
    <3>6. \A r \in Runs : containers'[r] # Nothing =>
              \E x \in Ops : run(x) = r /\ gen'[x] = containers'[r]
      BY <3>1, <3>2 DEF Inv, GenerationsOK
    <3>7. \A g \in Generations : g > Cardinality(Requested') => content'[g] = {}
      BY <3>1, <3>2 DEF Inv, GenerationsOK, Generations
    <3> QED
      BY <3>3, <3>4, <3>5, <3>6, <3>7 DEF GenerationsOK
  <2> QED
    BY <2>1, <2>2
<1>2. ASSUME NEW o \in Ops, existing_container(o) \/ docker_run(o) PROVE GenerationsOK'
  <2>1. \A r \in Runs : \/ containers'[r] = containers[r]
                        \/ run(o) = r /\ containers'[r] = gen[o]
    BY <1>0, <1>2, RunOfOperation DEF existing_container, docker_run
  <2>2. UNCHANGED <<state, gen, content>>
    BY <1>2 DEF existing_container, docker_run
  <2> QED
    BY <2>1, <2>2, GenerationsFrame
<1>3. ASSUME NEW o \in Ops, materialize_skills(o) \/ copy_skill_package(o)
      PROVE  GenerationsOK'
  <2>1. state[o] # "not_requested" /\ UNCHANGED <<gen, containers>>
    BY <1>3, AtWork DEF materialize_skills, copy_skill_package
  <2>2. \A x \in Ops : \/ state'[x] = state[x]
                       \/ state[x] # "not_requested" /\ state'[x] # "not_requested"
    BY <1>0, <1>3, <2>1 DEF materialize_skills, copy_skill_package, sandbox_ready
  <2>3. \A g \in Generations : content'[g] = content[g] \/ g = containers[run(o)]
    <3>1. CASE materialize_skills(o)
      BY <3>1 DEF materialize_skills
    <3>2. CASE copy_skill_package(o)
      BY <1>0, <3>2, Copying
    <3> QED
      BY <1>3, <3>1, <3>2
  <2>4. \A g \in Generations : g = containers[run(o)] => \E x \in Ops : gen[x] = g
    BY RunOfOperation DEF Inv, GenerationsOK, Generations, Nothing
  <2> QED
    BY <2>1, <2>2, <2>3, <2>4, GenerationsFrame
<1>4. ASSUME NEW o \in Ops, stop_sandbox(o) \/ remove_sandbox(o) PROVE GenerationsOK'
  <2>1. state[o] # "not_requested" /\ UNCHANGED <<gen, content>>
    BY <1>4, AtWork DEF stop_sandbox, remove_sandbox
  <2>2. \A x \in Ops : \/ state'[x] = state[x]
                       \/ state[x] # "not_requested" /\ state'[x] # "not_requested"
    BY <1>0, <1>4, <2>1 DEF stop_sandbox, remove_sandbox
  <2>3. \A r \in Runs : containers'[r] \in {containers[r], Nothing}
    BY <1>0, <1>4 DEF stop_sandbox, remove_sandbox, forget_container
  <2> QED
    BY <2>1, <2>2, <2>3, GenerationsFrame
<1>5. ASSUME NEW r \in Runs, stop_run(r) PROVE GenerationsOK'
  BY <1>0, <1>5, GenerationsFrame DEF stop_run, forget_container
<1>6. CASE Crash
  BY <1>6, GenerationsFrame DEF Crash
<1>7. CASE UNCHANGED <<state, gen, containers, content>>
  BY <1>7, GenerationsFrame
<1>8. ASSUME \/ \E o \in Ops : \/ start_run(o) \/ materializations_for_run(o) \/ exec_command(o)
                               \/ command_ends(o) \/ command_interrupted(o) \/ cancelled(o)
             \/ \E g \in Generations : ContainerLost(g)
             \/ \E r \in Runs : claim(r) \/ release_run(r) \/ \E p \in Package : snapshot(r, p)
             \/ \E s \in Skills : \/ Publish(s) \/ detail(s) \/ uninstall(s)
                                  \/ \E on \in BOOLEAN : set_enabled(s, on)
             \/ bind_run \/ write_package \/ install
      PROVE  UNCHANGED <<state, gen, containers, content>>
  BY <1>8 DEF start_run, materializations_for_run, exec_command, command_ends,
     command_interrupted, cancelled, ContainerLost, claim, release_run, snapshot, Publish,
     detail, uninstall, set_enabled, bind_run, write_package, install
<1> QED
  BY <1>1, <1>2, <1>3, <1>4, <1>5, <1>6, <1>7, <1>8 DEF Next

-----------------------------------------------------------------------------
(* Skills.                                                                 *)

\* Packages stay where they are; some are put away.
LEMMA SkillsFrame ==
    ASSUME Inv, UNCHANGED <<gen, disk, installed, binder, chosen, binding, content>>,
           \A o \in Ops : packages'[o] \subseteq packages[o]
    PROVE  SkillsOK' /\ OnlyBoundSkills'
  BY DEF Inv, SkillsOK, OnlyBoundSkills, run

\* The first request of an operation finds nothing in the container it will have.
LEMMA RequestedSkills ==
    ASSUME Inv, NEW o \in Ops, ensure_sandbox(o) PROVE SkillsOK' /\ OnlyBoundSkills'
<1> USE DEF opVars, memVars, dockerVars, taskVars, skillVars, boundVars
<1>1. UNCHANGED <<disk, installed, binder, chosen, binding, content, packages>>
  BY DEF ensure_sandbox
<1>2. CASE UNCHANGED gen
  BY <1>1, <1>2, SkillsFrame
<1>3. CASE state[o] = "not_requested"
  <2>1. SkillsOK'
    BY <1>1 DEF Inv, SkillsOK, run
  <2>2. /\ gen' = [gen EXCEPT ![o] = 1 + Cardinality(Requested)]
        /\ gen \in [Ops -> Generations \cup {Nothing}]
        /\ 1 + Cardinality(Requested) \in Generations
        /\ Cardinality(Requested) \in Nat
    BY <1>3, FirstRequest, NextGeneration DEF Inv, TypeOK
  <2>3. content[1 + Cardinality(Requested)] = {}
    BY <2>2 DEF Inv, GenerationsOK
  <2>4. OnlyBoundSkills'
    BY <1>1, <2>2, <2>3 DEF Inv, OnlyBoundSkills, run
  <2> QED
    BY <2>1, <2>4
<1> QED
  BY <1>2, <1>3 DEF ensure_sandbox

\* What is loaded for a run is what it is bound to, and read whole.
LEMMA LoadedSkills ==
    ASSUME Inv, NEW o \in Ops, materializations_for_run(o)
    PROVE  SkillsOK' /\ OnlyBoundSkills'
<1> USE DEF opVars, memVars, dockerVars, taskVars, skillVars, boundVars
<1>1. UNCHANGED <<gen, disk, installed, binder, chosen, binding, content>>
  BY DEF materializations_for_run
<1>2. CASE packages' = packages
  BY <1>1, <1>2, SkillsFrame
<1>3. CASE /\ packages' = [packages EXCEPT ![o] = {load_version(p) : p \in binding[run(o)]}]
           /\ \A p \in packages'[o] : read_and_validate_package(p)
  <2>1. packages \in [Ops -> SUBSET Package]
    BY DEF Inv, TasksOK
  <2>2. packages'[o] = binding[run(o)] /\ \A x \in Ops \ {o} : packages'[x] = packages[x]
    BY <1>3, <2>1 DEF load_version
  <2>3. \A p \in packages'[o] : p \in chosen[run(o)] /\ Whole(p)
    BY <1>3, <2>2, RunOfOperation
       DEF Inv, SkillsOK, read_and_validate_package, validate_package, Whole
  <2>4. SkillsOK'
    BY <1>1, <2>2, <2>3 DEF Inv, SkillsOK, run, Whole
  <2>5. OnlyBoundSkills'
    BY <1>1 DEF Inv, OnlyBoundSkills, run
  <2> QED
    BY <2>4, <2>5
<1> QED
  BY <1>2, <1>3 DEF materializations_for_run

\* The container of the run is copied into: it belongs to one operation, of this run.
LEMMA CopiedSkills ==
    ASSUME Inv, NEW o \in Ops, copy_skill_package(o)
    PROVE  SkillsOK' /\ OnlyBoundSkills'
<1> USE DEF opVars, memVars, dockerVars, taskVars, skillVars, boundVars
<1> DEFINE g == containers[run(o)]
<1>1. UNCHANGED <<gen, disk, installed, binder, chosen, binding, packages>>
  BY DEF copy_skill_package
<1>3. SkillsOK'
  BY <1>1 DEF Inv, SkillsOK, run
<1>4. \/ content' = content
      \/ \E some \in SUBSET packages[o] : content' = [content EXCEPT ![g] = content[g] \cup some]
  <2>1. \A p \in missing(o) : {p} \in SUBSET packages[o]
    BY DEF missing
  <2> QED
    BY <2>1, Copying
<1>5. CASE content' = content
  BY <1>1, <1>3, <1>5 DEF Inv, OnlyBoundSkills, run
<1>6. ASSUME NEW some \in SUBSET packages[o],
             content' = [content EXCEPT ![g] = content[g] \cup some]
      PROVE  OnlyBoundSkills'
  <2> SUFFICES ASSUME NEW x \in Ops, gen[x] # Nothing, NEW p \in content'[gen[x]]
               PROVE  p \in chosen[run(x)] /\ Whole(p)
    BY <1>1 DEF OnlyBoundSkills, run, Whole
  <2>1. gen[x] \in Generations /\ content \in [Generations -> SUBSET Package]
    BY DEF Inv, TypeOK, TasksOK, Nothing
  <2>2. CASE p \in content[gen[x]]
    BY <2>2 DEF Inv, OnlyBoundSkills, Whole
  <2>3. CASE p \notin content[gen[x]]
    <3>1. g = gen[x] /\ p \in packages[o]
      BY <1>6, <2>1, <2>3
    <3>2. run(x) = run(o)
      BY <3>1, RunOfOperation DEF Inv, GenerationsOK
    <3> QED
      BY <3>1, <3>2 DEF Inv, SkillsOK
  <2> QED
    BY <2>2, <2>3
<1> QED
  BY <1>3, <1>4, <1>5, <1>6

\* The requests around skills move only what is whole and current.
LEMMA RequestSkills ==
    ASSUME Inv,
           \/ \E r \in Runs : release_run(r) \/ \E p \in Package : snapshot(r, p)
           \/ bind_run \/ write_package \/ install
           \/ \E s \in Skills : uninstall(s)
           \/ Crash
    PROVE  SkillsOK' /\ OnlyBoundSkills'
<1> USE DEF opVars, memVars, dockerVars, taskVars, boundVars, skillRest
<1>0. /\ binding \in [Runs -> SUBSET Package] /\ chosen \in [Runs -> SUBSET Package]
      /\ installed \in [Skills -> SUBSET Package] /\ packages \in [Ops -> SUBSET Package]
      /\ SkillsOK /\ OnlyBoundSkills
  BY DEF Inv, TasksOK
<1>1. ASSUME NEW r \in Runs, release_run(r) PROVE SkillsOK' /\ OnlyBoundSkills'
  BY <1>0, <1>1 DEF release_run, SkillsOK, OnlyBoundSkills, run
<1>2. ASSUME NEW r \in Runs, NEW p \in Package, snapshot(r, p)
      PROVE  SkillsOK' /\ OnlyBoundSkills'
  <2>1. \A q \in Runs : chosen[q] \subseteq chosen'[q]
    BY <1>0, <1>2 DEF snapshot
  <2>2. /\ UNCHANGED <<gen, content, packages, disk, installed, binding>>
        /\ binder'.run = r /\ binder'.package = p /\ p \in chosen'[r]
    BY <1>0, <1>2 DEF snapshot
  <2>3. SkillsOK'
    BY <1>0, <2>1, <2>2, RunOfOperation DEF SkillsOK, run
  <2>4. OnlyBoundSkills'
    BY <1>0, <2>1, <2>2, RunOfOperation DEF OnlyBoundSkills, run
  <2> QED
    BY <2>3, <2>4
<1>3. CASE bind_run
  <2>1. binder.run \in Runs /\ binder.package \in chosen[binder.run]
    BY <1>0, <1>3 DEF bind_run, Inv, TasksOK, SkillsOK
  <2> QED
    BY <1>0, <1>3, <2>1 DEF bind_run, SkillsOK, OnlyBoundSkills, run, Idle
<1>4. CASE write_package
  <2>1. disk' = disk \/ (disk' = disk \cup {fetched} /\ Whole(fetched))
    BY <1>4 DEF write_package, validate_package, Whole
  <2>2. UNCHANGED <<gen, content, packages, installed, binding, binder, chosen>>
    BY <1>4 DEF write_package
  <2> HIDE DEF Whole
  <2>3. SkillsOK'
    BY <1>0, <2>1, <2>2 DEF SkillsOK, run
  <2> QED
    BY <1>0, <2>2, <2>3 DEF OnlyBoundSkills, run
<1>5. CASE install
  <2>1. installer.package \in disk
    BY <1>5 DEF install, Inv, TasksOK
  <2>2. \A s \in Skills : installed'[s] \subseteq disk
    BY <1>0, <1>5, <2>1 DEF install, SkillsOK
  <2> QED
    BY <1>0, <1>5, <2>2 DEF install, SkillsOK, OnlyBoundSkills, run
<1>6. ASSUME NEW s \in Skills, uninstall(s) PROVE SkillsOK' /\ OnlyBoundSkills'
  BY <1>0, <1>6 DEF uninstall, SkillsOK, OnlyBoundSkills, run
<1>7. CASE Crash
  BY <1>0, <1>7 DEF Crash, SkillsOK, OnlyBoundSkills, run, Idle
<1> QED
  BY <1>1, <1>2, <1>3, <1>4, <1>5, <1>6, <1>7

LEMMA SkillsStep ==
    ASSUME Inv, Next PROVE SkillsOK' /\ OnlyBoundSkills'
<1> USE DEF opVars, memVars, dockerVars, taskVars, skillVars, boundVars, skillRest
<1>1. ASSUME \/ \E o \in Ops : \/ start_run(o) \/ existing_container(o) \/ docker_run(o)
                               \/ materialize_skills(o) \/ stop_sandbox(o) \/ remove_sandbox(o)
                               \/ exec_command(o) \/ command_ends(o)
                               \/ command_interrupted(o) \/ cancelled(o)
             \/ \E g \in Generations : ContainerLost(g)
             \/ \E r \in Runs : claim(r) \/ stop_run(r)
             \/ \E s \in Skills : \/ Publish(s) \/ detail(s)
                                  \/ \E on \in BOOLEAN : set_enabled(s, on)
      PROVE  /\ UNCHANGED <<gen, disk, installed, binder, chosen, binding, content>>
             /\ \/ packages' = packages
                \/ \E o \in Ops : packages' = [packages EXCEPT ![o] = {}]
  BY <1>1 DEF start_run, existing_container, docker_run, materialize_skills, stop_sandbox,
     remove_sandbox, exec_command, command_ends, call_ends, command_interrupted, cancelled,
     ContainerLost, claim, stop_run, Publish, detail, set_enabled
<1>2. ASSUME /\ UNCHANGED <<gen, disk, installed, binder, chosen, binding, content>>
             /\ \/ packages' = packages
                \/ \E o \in Ops : packages' = [packages EXCEPT ![o] = {}]
      PROVE  SkillsOK' /\ OnlyBoundSkills'
  <2>1. packages \in [Ops -> SUBSET Package]
    BY DEF Inv, TasksOK
  <2>2. \A x \in Ops : packages'[x] \subseteq packages[x]
    BY <1>2, <2>1
  <2> QED
    BY <1>2, <2>2, SkillsFrame
<1> QED
  BY <1>1, <1>2, RequestedSkills, LoadedSkills, CopiedSkills, RequestSkills DEF Next

-----------------------------------------------------------------------------
(* The lock, and what has been copied.                                     *)

LEMMA LockStep ==
    ASSUME Inv, Next PROVE LockOK'
<1> USE RunOfOperation DEF goto, LockOK, opVars, memVars, dockerVars, taskVars, skillVars,
        boundVars, skillRest
<1>0. /\ LockOK /\ pc \in [Ops -> Labels] /\ lock \in Ops \cup {Free} /\ Free \notin Ops
      /\ containers \in [Runs -> Generations \cup {Nothing}]
  BY FreeAssumption DEF Inv, TypeOK, TasksOK
<1>1. ASSUME NEW o \in Ops, ensure_sandbox(o) \/ start_run(o) PROVE LockOK'
  BY <1>0, <1>1 DEF ensure_sandbox, start_run
<1>2. ASSUME NEW o \in Ops, existing_container(o) PROVE LockOK'
  BY <1>0, <1>2 DEF existing_container, answer_capability
<1>3. ASSUME NEW o \in Ops, docker_run(o) PROVE LockOK'
  BY <1>0, <1>3 DEF docker_run, answer_capability
<1>4. ASSUME NEW o \in Ops, \/ materializations_for_run(o) \/ materialize_skills(o)
                             \/ copy_skill_package(o)
      PROVE  LockOK'
  BY <1>0, <1>4
     DEF materializations_for_run, materialize_skills, copy_skill_package, sandbox_ready
<1>5. ASSUME NEW o \in Ops, stop_sandbox(o) \/ remove_sandbox(o) PROVE LockOK'
  BY <1>0, <1>5 DEF stop_sandbox, remove_sandbox, forget_container
<1>6. ASSUME NEW o \in Ops, \/ exec_command(o) \/ command_ends(o)
                             \/ command_interrupted(o) \/ cancelled(o)
      PROVE  LockOK'
  BY <1>0, <1>6 DEF exec_command, command_ends, call_ends, command_interrupted, cancelled
<1>7. ASSUME NEW r \in Runs, stop_run(r) PROVE LockOK'
  BY <1>0, <1>7 DEF stop_run, forget_container
<1>8. CASE Crash
  BY <1>0, <1>8 DEF Crash
<1>9. CASE UNCHANGED <<pc, lock, containers>>
  BY <1>0, <1>9 DEF run
<1>10. ASSUME \/ \E g \in Generations : ContainerLost(g)
              \/ \E r \in Runs : claim(r) \/ release_run(r) \/ \E p \in Package : snapshot(r, p)
              \/ \E s \in Skills : \/ Publish(s) \/ detail(s) \/ uninstall(s)
                                   \/ \E on \in BOOLEAN : set_enabled(s, on)
              \/ bind_run \/ write_package \/ install
       PROVE  UNCHANGED <<pc, lock, containers>>
  BY <1>10 DEF ContainerLost, claim, release_run, snapshot, Publish, detail, uninstall,
     set_enabled, bind_run, write_package, install
<1> QED
  BY <1>1, <1>2, <1>3, <1>4, <1>5, <1>6, <1>7, <1>8, <1>9, <1>10 DEF Next

\* The operations at work on a command in a sandbox that is ready.
AtCommand(o) == state[o] = "ready" /\ pc[o] \in {"exec", "command"}

\* Nothing is copied; containers may be forgotten, with what is recorded of them.
LEMMA CopiesFrame ==
    ASSUME Inv, UNCHANGED complete,
           \A r \in Runs : \/ containers'[r] = containers[r] /\ digests'[r] = digests[r]
                           \/ containers'[r] = Nothing /\ digests'[r] = {},
           \A o \in Ops : AtCommand(o)' =>
               AtCommand(o) /\ gen'[o] = gen[o] /\ packages'[o] = packages[o]
    PROVE  CopiesOK'
<1>1. ASSUME NEW o \in Ops, AtCommand(o)', containers'[run(o)] = gen'[o]
      PROVE  packages'[o] \subseteq digests'[run(o)]
  <2>1. AtCommand(o) /\ gen'[o] = gen[o] /\ packages'[o] = packages[o]
    BY <1>1
  <2>2. gen[o] # Nothing
    BY <2>1, AtWork DEF AtCommand
  <2>3. containers'[run(o)] = containers[run(o)] /\ digests'[run(o)] = digests[run(o)]
    BY <1>1, <2>1, <2>2, RunOfOperation
  <2> QED
    BY <1>1, <2>1, <2>3 DEF Inv, CopiesOK, AtCommand
<1>2. \A r \in Runs :
          IF containers'[r] = Nothing THEN digests'[r] = {}
                                      ELSE digests'[r] \subseteq complete'[containers'[r]]
  BY DEF Inv, CopiesOK
<1> QED
  BY <1>1, <1>2 DEF CopiesOK, AtCommand, run

\* A container is found or made where none served the run, so that nothing is recorded.
LEMMA ContainerServes ==
    ASSUME Inv, NEW o \in Ops, existing_container(o) \/ docker_run(o) PROVE CopiesOK'
<1> USE DEF opVars, memVars, dockerVars, taskVars, skillVars, boundVars
<1>1. /\ UNCHANGED <<state, gen, complete, digests, packages>>
      /\ \/ containers' = containers
         \/ containers' = [containers EXCEPT ![run(o)] = gen[o]]
      /\ \A x \in Ops : x # o => pc'[x] = pc[x]
      /\ pc'[o] \notin {"exec", "command"}
  BY DEF existing_container, docker_run, answer_capability, goto, Inv, TasksOK
<1>2. CASE containers' = containers
  BY <1>1, <1>2, CopiesFrame DEF AtCommand
<1>3. CASE containers' = [containers EXCEPT ![run(o)] = gen[o]]
  <2>1. containers[run(o)] = Nothing /\ digests[run(o)] = {}
    BY RunOfOperation DEF existing_container, docker_run, Inv, LockOK, CopiesOK
  <2>2. containers \in [Runs -> Generations \cup {Nothing}] /\ run(o) \in Runs
    BY RunOfOperation DEF Inv, TypeOK
  <2>3. \A r \in Runs :
            IF containers'[r] = Nothing THEN digests'[r] = {}
                                        ELSE digests'[r] \subseteq complete'[containers'[r]]
    BY <1>1, <1>3, <2>1, <2>2 DEF Inv, CopiesOK
  <2>4. ASSUME NEW x \in Ops, AtCommand(x)', containers'[run(x)] = gen'[x]
        PROVE  packages'[x] \subseteq digests'[run(x)]
    <3>1. x # o /\ AtCommand(x) /\ gen[x] # Nothing
      BY <1>1, <2>4, AtWork DEF AtCommand
    <3>2. gen[o] # gen[x]
      BY <3>1 DEF Inv, GenerationsOK
    <3>3. containers[run(x)] = gen[x]
      BY <1>1, <1>3, <2>2, <2>4, <3>2, RunOfOperation
    <3> QED
      BY <1>1, <3>1, <3>3 DEF Inv, CopiesOK, AtCommand
  <2> QED
    BY <2>3, <2>4 DEF CopiesOK, AtCommand, run
<1> QED
  BY <1>1, <1>2, <1>3

\* A package that is begun is not recorded, and one that is recorded has been ended.
LEMMA PackageCopied ==
    ASSUME Inv, NEW o \in Ops, copy_skill_package(o) PROVE CopiesOK'
<1> USE DEF opVars, memVars, dockerVars, taskVars, skillVars, boundVars
<1> DEFINE g == containers[run(o)]
<1>0. /\ complete \in [Generations -> SUBSET Package] /\ digests \in [Runs -> SUBSET Package]
      /\ containers \in [Runs -> Generations \cup {Nothing}] /\ run(o) \in Runs
      /\ CopiesOK /\ pc \in [Ops -> Labels] /\ state \in [Ops -> States]
  BY RunOfOperation DEF Inv, TypeOK, TasksOK, States
<1>1. /\ UNCHANGED <<gen, containers, packages>>
      /\ \A x \in Ops : AtCommand(x)' => AtCommand(x) \/ (x = o /\ missing(o) = {})
      /\ missing(o) = {} => digests' = digests
  BY <1>0 DEF copy_skill_package, start_copy, end_copy, sandbox_ready, goto, AtCommand
<1>2. \A r \in Runs : digests[r] \subseteq digests'[r]
  BY <1>0, Copying
<1>3. ASSUME NEW r \in Runs
      PROVE  IF containers'[r] = Nothing THEN digests'[r] = {}
                                         ELSE digests'[r] \subseteq complete'[containers'[r]]
  <2>1. CASE UNCHANGED <<complete, digests>>
    BY <1>0, <1>1, <2>1 DEF CopiesOK
  <2>2. CASE r # run(o) /\ ~UNCHANGED <<complete, digests>>
    <3>1. g \in Generations /\ digests'[r] = digests[r]
      BY <1>0, <2>2, Copying
    <3>2. containers[r] # g
      BY <1>0, <2>2, <3>1 DEF Inv, GenerationsOK, Generations, Nothing
    <3>3. containers[r] # Nothing => complete'[containers[r]] = complete[containers[r]]
      BY <1>0, <2>2, <3>2, Copying
    <3> QED
      BY <1>0, <1>1, <3>1, <3>3 DEF CopiesOK
  <2>3. CASE r = run(o) /\ ~UNCHANGED <<complete, digests>>
    <3>1. g \in Generations /\ g # Nothing /\ digests[r] \subseteq complete[g]
      <4>1. g \in Generations
        BY <2>3, Copying
      <4> QED
        BY <1>0, <2>3, <4>1 DEF CopiesOK, Generations, Nothing
    <3>2. CASE \E p \in missing(o) :
                   /\ complete' = [complete EXCEPT ![g] = complete[g] \ {p}]
                   /\ digests' = digests
      <4>1. digests[r] \subseteq complete'[g]
        BY <1>0, <2>3, <3>1, <3>2 DEF missing
      <4> QED
        BY <1>1, <2>3, <3>1, <3>2, <4>1
    <3>3. CASE \E p \in missing(o) :
                   /\ complete' = [complete EXCEPT ![g] = complete[g] \cup {p}]
                   /\ digests' = [digests EXCEPT ![run(o)] = digests[run(o)] \cup {p}]
      BY <1>0, <1>1, <2>3, <3>1, <3>3
    <3> QED
      BY <2>3, <3>2, <3>3, Copying
  <2> QED
    BY <2>1, <2>2, <2>3
<1>4. ASSUME NEW x \in Ops, AtCommand(x)', containers'[run(x)] = gen'[x]
      PROVE  packages'[x] \subseteq digests'[run(x)]
  <2>1. CASE AtCommand(x)
    BY <1>0, <1>1, <1>2, <1>4, <2>1, RunOfOperation DEF CopiesOK, AtCommand
  <2>2. CASE x = o /\ missing(o) = {}
    BY <1>1, <2>2 DEF missing
  <2> QED
    BY <1>1, <1>4, <2>1, <2>2
<1> QED
  BY <1>3, <1>4 DEF CopiesOK, AtCommand, run

LEMMA CopiesStep ==
    ASSUME Inv, Next PROVE CopiesOK'
<1> USE DEF goto, AtCommand, opVars, memVars, dockerVars, taskVars, skillVars, boundVars,
        skillRest
<1>0. /\ pc \in [Ops -> Labels] /\ state \in [Ops -> States]
      /\ packages \in [Ops -> SUBSET Package] /\ gen \in [Ops -> Generations \cup {Nothing}]
      /\ containers \in [Runs -> Generations \cup {Nothing}]
      /\ digests \in [Runs -> SUBSET Package]
  BY DEF Inv, TypeOK, TasksOK, States
<1>1. ASSUME NEW o \in Ops, ensure_sandbox(o) PROVE CopiesOK'
  BY <1>0, <1>1, CopiesFrame DEF ensure_sandbox
<1>2. ASSUME NEW o \in Ops, start_run(o) \/ materializations_for_run(o) PROVE CopiesOK'
  BY <1>0, <1>2, CopiesFrame DEF start_run, materializations_for_run
<1>3. ASSUME NEW o \in Ops, materialize_skills(o) PROVE CopiesOK'
  <2>1. CASE packages[o] = {}
    <3>1. UNCHANGED <<gen, complete, containers, digests, packages>>
      BY <1>3 DEF materialize_skills
    <3>2. \A x \in Ops : AtCommand(x)' => AtCommand(x) \/ x = o
      BY <1>0, <1>3 DEF materialize_skills, sandbox_ready
    <3> QED
      BY <2>1, <3>1, <3>2, RunOfOperation DEF Inv, CopiesOK, run
  <2>2. CASE packages[o] # {}
    BY <1>0, <1>3, <2>2, CopiesFrame DEF materialize_skills
  <2> QED
    BY <2>1, <2>2
<1>4. ASSUME NEW o \in Ops, stop_sandbox(o) \/ remove_sandbox(o) PROVE CopiesOK'
  BY <1>0, <1>4, CopiesFrame DEF stop_sandbox, remove_sandbox, forget_container
<1>5. ASSUME NEW o \in Ops, \/ exec_command(o) \/ command_ends(o)
                             \/ command_interrupted(o) \/ cancelled(o)
      PROVE  CopiesOK'
  BY <1>0, <1>5, CopiesFrame
     DEF exec_command, command_ends, call_ends, command_interrupted, cancelled
<1>6. ASSUME NEW r \in Runs, stop_run(r) PROVE CopiesOK'
  BY <1>0, <1>6, CopiesFrame DEF stop_run, forget_container
<1>7. CASE Crash
  BY <1>0, <1>7, CopiesFrame DEF Crash
<1>8. CASE UNCHANGED <<state, gen, pc, packages, containers, digests, complete>>
  BY <1>8, CopiesFrame
<1>9. ASSUME \/ \E g \in Generations : ContainerLost(g)
             \/ \E r \in Runs : claim(r) \/ release_run(r) \/ \E p \in Package : snapshot(r, p)
             \/ \E s \in Skills : \/ Publish(s) \/ detail(s) \/ uninstall(s)
                                  \/ \E on \in BOOLEAN : set_enabled(s, on)
             \/ bind_run \/ write_package \/ install
      PROVE  UNCHANGED <<state, gen, pc, packages, containers, digests, complete>>
  BY <1>9 DEF ContainerLost, claim, release_run, snapshot, Publish, detail, uninstall,
     set_enabled, bind_run, write_package, install
<1> QED
  BY <1>1, <1>2, <1>3, <1>4, <1>5, <1>6, <1>7, <1>8, <1>9, ContainerServes, PackageCopied
     DEF Next

-----------------------------------------------------------------------------
(* Every step.                                                             *)

LEMMA NextKeepsInv == ASSUME Inv, [Next]_vars PROVE Inv'
<1>1. CASE Next
  <2>1. TypeOK' /\ TasksOK'
    BY <1>1, OperationTypes, OtherTypes DEF Next
  <2> QED
    BY <1>1, <2>1, CreateStep, GenerationsStep, LockStep, SkillsStep, CopiesStep DEF Inv
<1>2. CASE UNCHANGED vars
  <2> USE DEF vars, opVars, memVars, dockerVars, taskVars, skillVars, boundVars
  <2>1. TypeOK' /\ TasksOK' /\ CreateOK'
    BY <1>2 DEF Inv, TypeOK, TasksOK, CreateOK
  <2>2. UNCHANGED <<state, gen, containers, content>>
    BY <1>2
  <2>3. UNCHANGED <<gen, disk, installed, binder, chosen, binding, content, packages>>
    BY <1>2
  <2>4. UNCHANGED <<lock, state, pc, digests, complete>>
    BY <1>2
  <2>5. LockOK' /\ CopiesOK'
    BY <2>2, <2>3, <2>4 DEF Inv, LockOK, CopiesOK, run
  <2> QED
    BY <2>1, <2>2, <2>3, <2>5, GenerationsFrame, SkillsFrame DEF Inv
<1> QED
  BY <1>1, <1>2

\* The inductive invariant: operations, the generations of their containers, and the
\* packages on their way from a repository into a container (docker.py, catalog.py).
THEOREM Invariance == Spec => []Inv
  BY Initially, NextKeepsInv, PTL DEF Spec

\* The variables keep their types: there are never more generations than operations.
THEOREM TypeCorrect == Spec => []TypeOK
<1>1. Inv => TypeOK
  BY DEF Inv
<1> QED
  BY <1>1, Invariance, PTL

\* For one operation a container is created at most once: only the call that finds it
\* not_requested may run docker, and the record keeps any later call from it
\* (ensure_sandbox, start_run), whatever docker, the task or the process fails at.
THEOREM CreatedOnce == Spec => []OneContainerPerOperation
<1>1. Inv => OneContainerPerOperation
  BY DEF Inv, CreateOK, OneContainerPerOperation
<1> QED
  BY <1>1, Invariance, PTL

\* A container has files of bound packages only, and a call whose sandbox is ready and
\* serves the run finds every file of every package it loaded: a torn copy is never
\* recorded, and no record outlives its container (materialize_skills, stop_run).
THEOREM BoundSkills == Spec => []ContainersHoldBoundSkills
<1>1. Inv => OnlyBoundSkills
  BY DEF Inv
<1>2. Inv => ReadyCallsSeeWholeSkills
  <2> SUFFICES ASSUME Inv, NEW o \in Ops, AtCommand(o), containers[run(o)] = gen[o]
               PROVE  packages[o] \subseteq complete[gen[o]]
    BY DEF ReadyCallsSeeWholeSkills, AtCommand
  <2>1. gen[o] # Nothing
    BY AtWork DEF AtCommand
  <2>2. packages[o] \subseteq digests[run(o)]
    BY DEF Inv, CopiesOK, AtCommand
  <2>3. digests[run(o)] \subseteq complete[gen[o]]
    BY <2>1, RunOfOperation DEF Inv, CopiesOK
  <2> QED
    BY <2>2, <2>3
<1>3. Inv => ContainersHoldBoundSkills
  BY <1>1, <1>2 DEF ContainersHoldBoundSkills
<1> QED
  BY <1>3, Invariance, PTL

=============================================================================
