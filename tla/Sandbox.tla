------------------------------ MODULE Sandbox ------------------------------
(***************************************************************************)
(* The Docker sandbox of a run and the skill packages that are copied into *)
(* it.  An exec_command call first ensures a container (ensure_sandbox),   *)
(* which records a generation with the operation, starts or finds the      *)
(* container of that generation and copies the skills the run was bound to *)
(* when it was created; then the gateway executes the command.  Calls of   *)
(* one run may overlap, as the nodes of a plan do.  The process may crash: *)
(* operations, bindings and installed skills are on disk and containers    *)
(* belong to the Docker daemon, but which container serves which run is    *)
(* only known in memory.                                                   *)
(***************************************************************************)
EXTENDS Naturals, FiniteSets

CONSTANTS
    Runs, Ops, RunOf,   \* runs, their exec_command operations
    Skills,             \* skill ids
    MaxVersion,         \* bound: versions a skill's repository publishes
    MaxRequests,        \* bound: requests that bind, install or change a skill
    MaxFaults,          \* bound: failures of docker or of a file
    MaxCrashes,         \* bound: restarts of the process
    Free                \* nobody holds the sandbox lock

ASSUME RunOfAssumption == RunOf \in [Ops -> Runs]
ASSUME FreeAssumption == Free \notin Ops
ASSUME OpsAssumption == IsFiniteSet(Ops)
ASSUME MaxVersionAssumption == MaxVersion \in Nat \ {0}

Generations == 1 .. Cardinality(Ops)
Nothing == 0            \* no container, no generation, no version

(* An installed package: the manifest that was read and the files that     *)
(* were fetched, each by the version of the repository they come from.     *)
Package == [skill : Skills, manifest : 1 .. MaxVersion, files : 1 .. MaxVersion]

VARIABLES
    \* Operation records (operations.json)
    state, gen, finished,
    \* DockerSandboxRuntime, in memory
    containers,     \* _containers and _container_generations: by run
    digests,        \* _materialized_skill_digests: by run
    lock,           \* the asyncio.Lock
    \* the Docker daemon
    docker,         \* generations whose container exists
    content,        \* packages of which files are in the container of a generation
    complete,       \* those of which every file is
    \* tasks
    pc, create, packages, victim,
    runpc,          \* new, active, stopping, removing or ended
    \* SkillCatalog: in memory and on disk, written together
    installed, enabled, disk, binding,
    \* the request that requests a run, and the request that installs a skill
    binder, installer,
    upstream,       \* version each repository shows now
    \* history and bounds
    created,        \* containers created for an operation
    chosen,         \* packages that were current when the run was bound
    requests, faults, crashes

opVars == <<state, gen, finished>>
memVars == <<containers, digests, lock>>
dockerVars == <<docker, content, complete>>
taskVars == <<pc, create, packages, victim>>
skillVars == <<installed, enabled, disk, binding, binder, installer, upstream>>
boundVars == <<requests, faults, crashes>>
vars == <<opVars, memVars, dockerVars, taskVars, runpc, skillVars, created,
          chosen, boundVars>>

Idle == [at |-> "idle"]

Init ==
    /\ state = [o \in Ops |-> "not_requested"]
    /\ gen = [o \in Ops |-> Nothing]
    /\ finished = {}
    /\ containers = [r \in Runs |-> Nothing]
    /\ digests = [r \in Runs |-> {}]
    /\ lock = Free
    /\ docker = {}
    /\ content = [g \in Generations |-> {}]
    /\ complete = [g \in Generations |-> {}]
    /\ pc = [o \in Ops |-> "idle"]
    /\ create = [o \in Ops |-> FALSE]
    /\ packages = [o \in Ops |-> {}]
    /\ victim = [x \in Ops \cup Runs |-> Nothing]
    /\ runpc = [r \in Runs |-> "new"]
    /\ installed = [s \in Skills |-> {}]
    /\ enabled = {}
    /\ disk = {}
    /\ binding = [r \in Runs |-> {}]
    /\ binder = Idle /\ installer = Idle
    /\ upstream = [s \in Skills |-> 1]
    /\ created = [o \in Ops |-> 0]
    /\ chosen = [r \in Runs |-> {}]
    /\ requests = 0 /\ faults = 0 /\ crashes = 0

goto(o, label) == pc' = [pc EXCEPT ![o] = label]
run(o) == RunOf[o]
Fault == faults < MaxFaults /\ faults' = faults + 1
NoFault == faults' = faults

(* capability: no daemon answers, or the image is not there.               *)
probe_fails == Fault

(* _run_process: the docker client fails, or is killed at its timeout.     *)
process_fails == Fault

----------------------------------------------------------------------------
(* ToolControlContext.ensure_sandbox.                                      *)

(* An operation whose provisioning was interrupted is allowed another.     *)
AllowCreateAgain(o) == state[o] \in {"not_requested", "provisioning"}

(* Only an operation that never asked for a sandbox may have one created.  *)
allow_create(o) == state[o] = "not_requested"

(* The state is read and, for a first request, the compare-and-set to      *)
(* provisioning is made without an await between them.                     *)
ensure_sandbox(o) ==
    /\ pc[o] = "idle" /\ o \notin finished /\ runpc[run(o)] = "active"
    /\ create' = [create EXCEPT ![o] = allow_create(o)]
    /\ IF state[o] = "not_requested"
       THEN /\ state' = [state EXCEPT ![o] = "provisioning"]
            /\ gen' = [gen EXCEPT ![o] =
                  1 + Cardinality({x \in Ops : gen[x] # Nothing})]
       ELSE UNCHANGED <<state, gen>>
    /\ goto(o, IF state[o] = "invalid" THEN "exec" ELSE "start")
    /\ UNCHANGED <<finished, memVars, dockerVars, packages, victim, runpc,
                   skillVars, created, chosen, boundVars>>

(* start_run under the lock: the run's container serves only the operation *)
(* of its own generation.  The first capability probe may find no daemon.  *)
start_run(o) ==
    /\ pc[o] = "start" /\ lock = Free
    /\ \/ /\ containers[run(o)] # Nothing
          /\ goto(o, IF containers[run(o)] = gen[o] THEN "skills" ELSE "give_up")
          /\ NoFault /\ lock' = lock
       \/ /\ containers[run(o)] = Nothing
          /\ lock' = o /\ goto(o, "lookup") /\ NoFault
       \/ /\ probe_fails /\ goto(o, "give_up") /\ lock' = lock
    /\ UNCHANGED <<opVars, containers, digests, dockerVars, create, packages,
                   victim, runpc, skillVars, created, chosen, requests, crashes>>

(* start_run answers with the capability, which asks the daemon again.     *)
answer_capability(o) ==
    \/ NoFault /\ goto(o, "skills")
    \/ probe_fails /\ goto(o, "give_up")

(* _existing_container: docker ps by name and labels; when docker ps fails *)
(* the container counts as missing.                                        *)
existing_container(o) ==
    /\ pc[o] = "lookup"
    /\ \/ /\ gen[o] \in docker
          /\ containers' = [containers EXCEPT ![run(o)] = gen[o]]
          /\ lock' = Free /\ answer_capability(o)
       \/ /\ IF gen[o] \in docker THEN process_fails ELSE NoFault
          /\ containers' = containers
          /\ IF create[o] THEN goto(o, "run") /\ lock' = lock
                          ELSE goto(o, "give_up") /\ lock' = Free
    /\ UNCHANGED <<opVars, digests, dockerVars, create, packages, victim, runpc,
                   skillVars, created, chosen, requests, crashes>>

CreateContainer(o) ==
    /\ docker' = docker \cup {gen[o]}
    /\ created' = [created EXCEPT ![o] = @ + 1]

(* docker run.  After a failure or its timeout of twenty seconds the       *)
(* runtime records nothing, whether or not the daemon made the container.  *)
docker_run(o) ==
    /\ pc[o] = "run"
    /\ lock' = Free
    /\ \/ /\ CreateContainer(o)
          /\ containers' = [containers EXCEPT ![run(o)] = gen[o]]
          /\ answer_capability(o)
       \/ /\ process_fails
          /\ CreateContainer(o) \/ UNCHANGED <<docker, created>>
          /\ containers' = containers
          /\ goto(o, "give_up")
    /\ UNCHANGED <<opVars, digests, content, complete, create, packages, victim,
                   runpc, skillVars, chosen, requests, crashes>>

(* A validation that only counts the files.                                *)
ValidateFileSet(package) == package.files \in 1 .. MaxVersion

(* validate_package compares the digest of every file with the manifest.   *)
validate_package(package) == package.files = package.manifest

(* The package that is installed now under the id of the bound one.        *)
LoadInstalled(package) ==
    IF installed[package.skill] = {} THEN package
    ELSE CHOOSE p \in installed[package.skill] : TRUE

(* SkillCatalog._load_version: the package of the recorded digest, from    *)
(* memory or from its directory, whatever is installed now.                *)
load_version(package) == package

(* Its files are read and their digests compared once more.                *)
read_and_validate_package(package) == package \in disk /\ validate_package(package)

(* materializations_for_run, on a thread; reading may fail.                *)
materializations_for_run(o) ==
    /\ pc[o] = "skills"
    /\ \/ /\ packages' = [packages EXCEPT ![o] =
                {load_version(p) : p \in binding[run(o)]}]
          /\ \A p \in packages'[o] : read_and_validate_package(p)
          /\ goto(o, "copy") /\ NoFault
       \/ /\ Fault /\ goto(o, "give_up") /\ packages' = packages
    /\ UNCHANGED <<opVars, memVars, dockerVars, create, victim, runpc, skillVars,
                   created, chosen, requests, crashes>>

(* What is bound and not recorded as copied.                               *)
missing(o) == packages[o] \ digests[run(o)]

(* With the skills in place the operation becomes ready.                   *)
sandbox_ready(o) == state' = [state EXCEPT ![o] = "ready"] /\ goto(o, "exec")

(* materialize_skills takes the lock and holds it while it copies what is  *)
(* missing; without packages there is nothing to do.                       *)
materialize_skills(o) ==
    /\ pc[o] = "copy"
    /\ \/ packages[o] = {} /\ sandbox_ready(o) /\ lock' = lock
       \/ /\ packages[o] # {} /\ lock = Free /\ state' = state
          /\ IF containers[run(o)] = Nothing
             THEN goto(o, "give_up") /\ lock' = lock
             ELSE goto(o, "copying") /\ lock' = o
    /\ UNCHANGED <<gen, finished, containers, digests, dockerVars, create, packages,
                   victim, runpc, skillVars, created, chosen, boundVars>>

(* _copy_skill_package makes three docker exec for each file: between the  *)
(* first and the last of them the package in the container is torn, also   *)
(* where an earlier copy was whole.                                        *)
start_copy(g, package) ==
    /\ content' = [content EXCEPT ![g] = @ \cup {package}]
    /\ complete' = [complete EXCEPT ![g] = @ \ {package}]

(* A package is recorded once its last docker exec has succeeded.          *)
end_copy(o, g, package) ==
    /\ complete' = [complete EXCEPT ![g] = @ \cup {package}]
    /\ digests' = [digests EXCEPT ![run(o)] = @ \cup {package}]
    /\ content' = content

(* The packages one after another.  A docker exec that fails leaves what   *)
(* has been written; so does a cancellation or a restart.  Besides the     *)
(* failures that are counted it fails when the container has gone, and may *)
(* fail on the read-only files of an earlier copy.                         *)
copy_skill_package(o) ==
    LET g == containers[run(o)]
        torn == missing(o) \cap (content[g] \ complete[g])
    IN  /\ pc[o] = "copying"
        /\ \/ /\ torn = {} /\ g \in docker
              /\ \E p \in missing(o) : start_copy(g, p)
              /\ pc' = pc /\ UNCHANGED <<lock, digests, state>> /\ NoFault
           \/ /\ g \in docker
              /\ \E p \in torn : end_copy(o, g, p)
              /\ pc' = pc /\ UNCHANGED <<lock, state>> /\ NoFault
           \/ /\ missing(o) = {}
              /\ sandbox_ready(o) /\ lock' = Free
              /\ UNCHANGED <<content, complete, digests>> /\ NoFault
           \/ /\ missing(o) # {}
              /\ IF g \in docker /\ missing(o) \cap content[g] = {}
                 THEN process_fails ELSE NoFault
              /\ goto(o, "give_up") /\ lock' = Free
              /\ UNCHANGED <<content, complete, digests, state>>
        /\ UNCHANGED <<gen, finished, containers, docker, create, packages, victim,
                       runpc, skillVars, created, chosen, requests, crashes>>

(* A table of copied packages that outlives its container.                 *)
ForgetContainerOnly(x, r) ==
    /\ lock = Free
    /\ victim' = [victim EXCEPT ![x] = containers[r]]
    /\ containers' = [containers EXCEPT ![r] = Nothing]
    /\ UNCHANGED <<digests, lock>>

(* DockerSandboxRuntime.stop_run: whatever container serves the run is     *)
(* forgotten first ...                                                     *)
forget_container(x, r) ==
    /\ lock = Free
    /\ victim' = [victim EXCEPT ![x] = containers[r]]
    /\ containers' = [containers EXCEPT ![r] = Nothing]
    /\ digests' = [digests EXCEPT ![r] = {}]
    /\ lock' = lock

(* ... and then removed, unless docker rm fails or times out.              *)
docker_rm(x) ==
    /\ \/ docker' = docker \ {victim[x]} /\ NoFault
       \/ victim[x] \in docker /\ docker' = docker /\ process_fails
    /\ victim' = [victim EXCEPT ![x] = Nothing]

(* ensure_sandbox gives up, or an executing command lost its outcome.      *)
stop_sandbox(o) ==
    /\ pc[o] \in {"give_up", "abort"}
    /\ forget_container(o, run(o))
    /\ goto(o, IF pc[o] = "give_up" THEN "give_up_rm" ELSE "abort_rm")
    /\ packages' = [packages EXCEPT ![o] = {}]
    /\ UNCHANGED <<opVars, dockerVars, create, runpc, skillVars, created, chosen,
                   boundVars>>

remove_sandbox(o) ==
    /\ pc[o] \in {"give_up_rm", "abort_rm"}
    /\ docker_rm(o)
    /\ IF pc[o] = "give_up_rm"
       THEN /\ state' = [state EXCEPT ![o] = "invalid"]
            /\ goto(o, "exec") /\ finished' = finished
       ELSE /\ finished' = finished \cup {o}
            /\ goto(o, "idle") /\ state' = state
    /\ UNCHANGED <<gen, memVars, content, complete, create, packages, runpc,
                   skillVars, created, chosen, requests, crashes>>

----------------------------------------------------------------------------
(* The gateway executes the command, whatever ensure_sandbox returned: the *)
(* executor only asks whether some container serves the run.               *)

call_ends(o) ==
    /\ goto(o, "idle") /\ finished' = finished \cup {o}
    /\ packages' = [packages EXCEPT ![o] = {}]

exec_command(o) ==
    /\ pc[o] = "exec"
    /\ IF containers[run(o)] # Nothing
       THEN goto(o, "command") /\ UNCHANGED <<finished, packages>>
       ELSE call_ends(o)
    /\ UNCHANGED <<state, gen, memVars, dockerVars, create, victim, runpc,
                   skillVars, created, chosen, boundVars>>

(* The command ends, with the status of a command or of a container that   *)
(* has gone, and its result is saved.                                      *)
command_ends(o) ==
    /\ pc[o] = "command"
    /\ call_ends(o)
    /\ UNCHANGED <<state, gen, memVars, dockerVars, create, victim, runpc,
                   skillVars, created, chosen, boundVars>>

(* Its outcome is unknown after a timeout or a cancellation: the container *)
(* is destroyed.                                                           *)
command_interrupted(o) ==
    /\ pc[o] = "command"
    /\ goto(o, "abort")
    /\ UNCHANGED <<opVars, memVars, dockerVars, create, packages, victim, runpc,
                   skillVars, created, chosen, boundVars>>

(* The run's task is cancelled while ensure_sandbox waits.  Killing the    *)
(* docker client does not stop the daemon, which may finish docker run.    *)
cancelled(o) ==
    /\ pc[o] \in {"start", "lookup", "run", "skills", "copy", "copying"} /\ Fault
    /\ lock' = IF lock = o THEN Free ELSE lock
    /\ \/ pc[o] = "run" /\ CreateContainer(o)
       \/ UNCHANGED <<docker, created>>
    /\ call_ends(o)
    /\ UNCHANGED <<state, gen, containers, digests, content, complete, create,
                   victim, runpc, skillVars, chosen, requests, crashes>>

(* A container may end on its own; it was started with --rm.               *)
ContainerLost(g) ==
    /\ g \in docker /\ Fault
    /\ docker' = docker \ {g}
    /\ UNCHANGED <<opVars, memVars, content, complete, taskVars, runpc, skillVars,
                   created, chosen, requests, crashes>>

----------------------------------------------------------------------------
(* Runs.  The run is queued before its skill is bound, so that the worker  *)
(* may claim it first.                                                     *)

claim(r) ==
    /\ runpc[r] = "new"
    /\ runpc' = [runpc EXCEPT ![r] = "active"]
    /\ UNCHANGED <<opVars, memVars, dockerVars, taskVars, skillVars, created,
                   chosen, boundVars>>

(* ToolControlContext.stop_run at the end of the run's task.               *)
stop_run(r) ==
    /\ runpc[r] = "active"
    /\ \A o \in Ops : run(o) = r => pc[o] = "idle"
    /\ forget_container(r, r)
    /\ runpc' = [runpc EXCEPT ![r] = "removing"]
    /\ UNCHANGED <<opVars, dockerVars, pc, create, packages, skillVars, created,
                   chosen, boundVars>>

(* Its end: docker rm and SkillCatalog.release_run.                        *)
release_run(r) ==
    /\ runpc[r] = "removing"
    /\ docker_rm(r)
    /\ runpc' = [runpc EXCEPT ![r] = "ended"]
    /\ binding' = [binding EXCEPT ![r] = {}]
    /\ UNCHANGED <<opVars, memVars, content, complete, pc, create, packages,
                   installed, enabled, disk, binder, installer, upstream, created,
                   chosen, requests, crashes>>

----------------------------------------------------------------------------
(* Skills.                                                                 *)

skillRest == <<opVars, memVars, dockerVars, taskVars, runpc, created, faults, crashes>>

Request == requests < MaxRequests /\ requests' = requests + 1

Selectable == UNION {installed[s] : s \in enabled}

(* SkillCatalog.bind_run: a snapshot of what is enabled under the lock ... *)
snapshot(r, package) ==
    /\ binder = Idle /\ Request /\ package \in Selectable
    /\ binder' = [at |-> "bind", run |-> r, package |-> package]
    /\ chosen' = [chosen EXCEPT ![r] = @ \cup {package}]
    /\ UNCHANGED <<skillRest, installed, enabled, disk, binding, installer, upstream>>

(* ... and the binding under the lock again.  A request repeated with the  *)
(* same client id requests the same run once more.                         *)
bind_run ==
    /\ binder.at = "bind"
    /\ binding' = [binding EXCEPT ![binder.run] = {binder.package}]
    /\ binder' = Idle
    /\ UNCHANGED <<skillRest, installed, enabled, disk, installer, upstream,
                   chosen, requests>>

Publish(s) ==
    /\ upstream[s] < MaxVersion
    /\ upstream' = [upstream EXCEPT ![s] = @ + 1]
    /\ UNCHANGED <<skillRest, installed, enabled, disk, binding, binder, installer,
                   chosen, requests>>

(* fetch_file asks for a path at HEAD: what the repository shows now.       *)
fetch_file(s) == upstream[s]

(* SkillHubService.detail: the manifest and the instructions it names.     *)
detail(s) ==
    /\ installer = Idle /\ Request
    /\ installer' = [at |-> "fetch", skill |-> s, manifest |-> fetch_file(s)]
    /\ UNCHANGED <<skillRest, installed, enabled, disk, binding, binder, upstream,
                   chosen>>

(* SkillHubService.install fetches every file again.                       *)
fetched ==
    [skill |-> installer.skill, manifest |-> installer.manifest,
     files |-> fetch_file(installer.skill)]

(* The package that passes is written to a staging directory, which is     *)
(* renamed into place.                                                     *)
write_package ==
    /\ installer.at = "fetch"
    /\ IF validate_package(fetched)
       THEN /\ disk' = disk \cup {fetched}
            /\ installer' = [at |-> "register", package |-> fetched]
       ELSE /\ disk' = disk
            /\ installer' = Idle
    /\ UNCHANGED <<skillRest, installed, enabled, binding, binder, upstream,
                   chosen, requests>>

(* The last step of SkillCatalog.install, under the lock: an installed     *)
(* skill is enabled.                                                       *)
install ==
    /\ installer.at = "register"
    /\ installed' = [installed EXCEPT ![installer.package.skill] = {installer.package}]
    /\ enabled' = enabled \cup {installer.package.skill}
    /\ installer' = Idle
    /\ UNCHANGED <<skillRest, disk, binding, binder, upstream, chosen, requests>>

uninstall(s) ==
    /\ installed[s] # {} /\ Request
    /\ installed' = [installed EXCEPT ![s] = {}]
    /\ enabled' = enabled \ {s}
    /\ UNCHANGED <<skillRest, disk, binding, binder, installer, upstream, chosen>>

set_enabled(s, on) ==
    /\ installed[s] # {} /\ (s \in enabled) # on /\ Request
    /\ enabled' = IF on THEN enabled \cup {s} ELSE enabled \ {s}
    /\ UNCHANGED <<skillRest, installed, disk, binding, binder, installer, upstream,
                   chosen>>

----------------------------------------------------------------------------
(* The process stops and starts again: SkillCatalog._load, the operations  *)
(* and the daemon's containers are there, the runtime's tables are empty.  *)
(* A run that was being stopped has its outcome and is not claimed again.  *)
Crash ==
    /\ crashes < MaxCrashes
    /\ crashes' = crashes + 1
    /\ containers' = [r \in Runs |-> Nothing]
    /\ digests' = [r \in Runs |-> {}]
    /\ lock' = Free
    /\ pc' = [o \in Ops |-> "idle"]
    /\ create' = [o \in Ops |-> FALSE]
    /\ packages' = [o \in Ops |-> {}]
    /\ victim' = [x \in Ops \cup Runs |-> Nothing]
    /\ runpc' = [r \in Runs |-> IF runpc[r] = "removing" THEN "ended" ELSE runpc[r]]
    /\ binder' = Idle /\ installer' = Idle
    /\ UNCHANGED <<opVars, dockerVars, installed, enabled, disk, binding, upstream,
                   created, chosen, requests, faults>>

Next ==
    \/ \E o \in Ops :
          \/ ensure_sandbox(o) \/ start_run(o) \/ existing_container(o)
          \/ docker_run(o) \/ materializations_for_run(o) \/ materialize_skills(o)
          \/ copy_skill_package(o) \/ stop_sandbox(o) \/ remove_sandbox(o) \/ exec_command(o)
          \/ command_ends(o) \/ command_interrupted(o) \/ cancelled(o)
    \/ \E g \in Generations : ContainerLost(g)
    \/ \E r \in Runs :
          \/ claim(r) \/ stop_run(r) \/ release_run(r)
          \/ \E p \in Package : snapshot(r, p)
    \/ \E s \in Skills :
          \/ Publish(s) \/ detail(s) \/ uninstall(s)
          \/ \E on \in BOOLEAN : set_enabled(s, on)
    \/ bind_run \/ write_package \/ install
    \/ Crash

Spec == Init /\ [][Next]_vars

----------------------------------------------------------------------------
(* Properties.                                                             *)

TypeOK ==
    /\ state \in [Ops -> {"not_requested", "provisioning", "ready", "invalid"}]
    /\ gen \in [Ops -> Generations \cup {Nothing}]
    /\ containers \in [Runs -> Generations \cup {Nothing}]
    /\ docker \subseteq Generations
    /\ lock \in Ops \cup {Free}
    /\ disk \subseteq Package
    /\ \A g \in Generations : complete[g] \subseteq content[g] /\ content[g] \subseteq Package

(* "禁止在旧 Operation 中静默重建容器": for one operation at most one       *)
(* container is ever created, over lost containers, timeouts of docker,    *)
(* restarts of the process and retries of the call.                        *)
OneContainerPerOperation == \A o \in Ops : created[o] <= 1

(* What is in a container are files of packages that the run was bound to,  *)
(* the ones of their manifests, at the version that was installed when it   *)
(* was bound.                                                               *)
OnlyBoundSkills ==
    \A o \in Ops : gen[o] # Nothing =>
        \A p \in content[gen[o]] : p \in chosen[run(o)] /\ p.files = p.manifest

(* A call whose sandbox was made ready runs its command with every file of  *)
(* every package that was loaded for it in the container, as long as that   *)
(* container serves the run.                                                *)
ReadyCallsSeeWholeSkills ==
    \A o \in Ops :
        state[o] = "ready" /\ pc[o] \in {"exec", "command"}
            /\ containers[run(o)] = gen[o] => packages[o] \subseteq complete[gen[o]]

(* materialize_skills: a ready call finds what its run was bound to, all of *)
(* it and nothing else.  Upgrading, disabling or uninstalling a skill and   *)
(* restarting the process do not change what that is; copies that failed,   *)
(* were cancelled or cut off are made again, and never taken for whole.     *)
ContainersHoldBoundSkills == OnlyBoundSkills /\ ReadyCallsSeeWholeSkills

(* "每个 AgentRun 一个 Docker Sandbox": the operations of a run share its    *)
(* container, so that without any failure none of them loses the sandbox.  *)
OneSandboxServesTheRun ==
    faults = 0 /\ crashes = 0 => \A o \in Ops : state[o] # "invalid"
=============================================================================
