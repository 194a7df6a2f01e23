# VenAgent in TLA+

A verification project for VenAgent, an agent service that keeps conversations,
executes agent runs with tools and human approvals, plans, searches documents and
remembers facts about its users. Paths below are relative to the repository
(`src/agent/runtime.py` is the file of that name in the Python package `src/`).

The project has ten models. Nine of them have proofs as well as runs:

| model | what it is about | section | proved in |
|---|---|---|---|
| `AgentRuns` (implements `RunLifecycle`) | the run store, the tasks that execute runs, cancellation, takeover, deletion | 2 | `AgentRunsProofs` |
| `ToolCalls` | the tool calls of one run, approvals, results, crashes between two writes | 3 | `ToolProofs` |
| `MemoryGraph` | long-term facts, the graph derived from them, its jobs, recall | 4 | `MemoryGraphProofs` |
| `Consolidation` | how messages become facts: cursor, windows, idle scan, jobs, merging, the owner's commands | 5 | `ConsolidationProofs` |
| `Planning` | selector, planner, layers, races, replanner, clarification | 6 | `PlanningProofs` |
| `Ownership` | guests, accounts, sessions, refresh tokens, account deletion | 7 | `OwnershipProofs` |
| `Documents` | document versions, chunks, two indexes, deletion | 8 | `DocumentsProofs` |
| `Retrieval` | splitting, rewriting, routes, fusion, reranking, the tool's reply | 8 | |
| `Mcp` | server configuration, catalogue, connections and their end | 9 | `ToolProofs` |
| `Sandbox` | containers of a run, skill packages, their binding to runs | 10 | `SandboxProofs` |

`MCAgentRuns`, `MCToolCalls`, `MCMemoryGraph`, `MCConsolidation`, `MCMcp` and
`MCSandbox` only give TLC its instances. Definitions keep the names of the code they
translate; `PROJECT.json` has the lines.

## 1. The system

VenAgent is one Python process (FastAPI, asyncio, worker threads for blocking
stores), usually one instance, with PostgreSQL as authority, Neo4j for derived
graphs, files for tool operations and approvals, LangGraph for the agent graph and
its checkpoints, Docker for the sandbox.

| component | state | operations | what is hard | correct when |
|---|---|---|---|---|
| run store (`repo/postgresql/runs.py`, contract in `agent/runs.py`) | `agent_runs`, requests, messages | create, retry, claim, heartbeat, cancel, wait, resume, succeed, fail | leases that run out under a task that is still at work; retries of requests | one active run per conversation, one reply per message, a terminal status is final |
| run tasks (`agent/runtime.py`, `agent/graph.py`) | active contexts, cancel tokens, checkpoints | worker loop, `_execute`, heartbeat and cancel monitors, finalisation, events | crash at any point, takeover, cancel against success | only the holder of the claim ends a run; events agree with the row; every run settles |
| routes (`interfaces/http/routes`) | none | runs, approvals, conversations, auth, documents | read-then-act on a status that moves | a late act changes nothing |
| conversation deletion (`repo/postgresql/conversation.py`, maintenance loop in `interfaces/http/app.py`) | `lifecycle_state` | mark, sweep checkpoints, remove rows | runs in every state at that moment | every run is told to stop; the loop converges; nothing is left |
| tool gateway (`tools/`) | operations, approvals, stored arguments | stage, invoke, approve, record, stop | pause for a human between two attempts, two files written one after the other | nothing runs unapproved, in order, and not more often than failures explain |
| long-term memory (`memory/`, `repo/postgresql/memory`) | facts, sources, settings, authority revision, deletion generation | remember, update, forget, revoke, enable, delete all, expire | writers and deletions side by side | what was deleted stays deleted; recall hands out only what is current |
| memory jobs (`memory/jobs.py`) | `memory_jobs` with 30 s claims | claim, dispatch, retry, purge, consolidate | two workers on one job, retries out of order, cursor against late messages | each derived store converges to the authority |
| graph memory (`memory/graph_memory`, `repo/neo4j/memory_graph.py`) | one projection per account | replace, purge, read edges | two stores read at two times | edges are used only with the facts they were built from |
| planning (`agent/planning`) | plan DAG, outcomes, replan count in the run state | select, plan, run a layer, race, replan, clarify | parallel nodes, replays of a layer, revisions of a plan half executed | a plan never sticks, one outcome per attempt, every plan ends |
| event stream (`agent/observation.py`, `interfaces/http/streaming.py`) | bounded subscriber queues | publish, subscribe, replay | a full queue, a subscriber between snapshot and live events | the client learns the outcome |
| ownership (`ownership/`) | owners, sessions, epochs, guest merge | register, login, refresh, revoke, delete | requests that act on what they read earlier | no session outlives its account or, but for one login, its password; a token is replaced for its holder only |
| documents and RAG (`document/`, `rag/`) | document versions, chunks, index status | upload, ingest, reingest, delete, search | failures and deletions between store and indexes | what is ready can be found, what is gone cannot |
| sandbox (`sandbox/`), `ensure_sandbox` | container per run and generation | start, exec, stop | restarts that forget containers, docker timeouts | one container per operation, with the skills the run was bound to |
| MCP client (`mcp/`) | server connections, tool catalogue | configure, discover, call, stop | cancellation at any await, a file and a catalogue without a lock | nothing is left behind, every call ends |
| skills (`skills/`) | installed packages, snapshots per run | install, bind, release | upgrades between binding and use, copies torn between two files | a run gets the version it was bound to, and no torn copy counts as made |
| commands, configuration, prompts, models, web client, platform | none of their own | parsing, text, DDL, provider calls | - | - |

How they interact: a route writes a run into the store and returns; a worker loop
polls the store and starts a task; the task runs the graph, which stages tool calls
and hands them to the gateway; an approval pauses the task (the row waits, the
checkpoint holds the position) until a route decides and puts the row back into the
queue; the task's end writes reply and status in one transaction and then publishes
an event. Messages feed extract and consolidate jobs; every change of facts bumps the
authority revision and inserts a job that projects the facts into Neo4j. Two loops
carry deletions on: the maintenance loop (conversations, accounts) and the memory
worker (purges).

## 2. AgentRuns and RunLifecycle

`AgentRuns` has the rows of `agent_runs`, the conversations with their messages and
request keys, the checkpoints as far as a takeover tells them apart (none, paused,
final), the published terminal events, the run tasks (`pc`, the run and attempt each
holds, what its monitors told it), the cancel routes that have read a status and not
yet acted, and the maintenance loop's progress. Every store method is one transaction
and one action, named after it (`CreateRun`, `RetryRun`, `ClaimNext`, `Heartbeat`,
`RequestCancel`, `WaitApproval`, `ResumeRun`, `SucceedRun`, `FailRun`, `CancelRun`,
...). `_execute` is the actions that move a task from place to place: claim, the
checks before the graph, the graph as one step that answers, fails or interrupts, the
finalisation, `_reconcile_requested_cancel`, and publishing. `LoseContact`, `Crash`
and `ExpireLease` are the environment. The abstractions are listed at the head of the
module; the important ones: a claim token is the number of the attempt it was issued
for; a lost connection around a commit is a crash of the task before or after it.

`RunLifecycle` is the contract of `agent/runs.py`: what a caller sees of a run and its
conversation, without leases, claims, tasks, checkpoints and events. `AgentRuns`
implements it under a mapping that forgets the rest (`Lifecycle == INSTANCE
RunLifecycle WITH ...`, property `ImplementsLifecycle`).

## 3. ToolCalls

One run whose model asks for `CallCount` calls. The state is the run's row, the
thread's checkpoint (call and node that come next), operations with their results,
approvals, stored arguments, how often each executor was called, and the tasks. The
graph's nodes `decide`, `tool`, `finalize`, `final` and the steps inside
`ToolGateway.invoke` (duplicate, refuse, ask, await, start, execute, retry, finish,
cancel, announce) are actions, as are the routes that decide or cancel, with the
crashes that can cut them between two writes (`CrashWhileAsking`,
`CrashWhileRecording`, `CrashWhileDeciding`, `CrashWhileCancelling`).

A task that is told to stop cancels its graph and waits for it. A call that is executing
then swallows the cancellation: `CancelTool` records the result `cancelled` and the graph
goes on, observes it and comes to the next queued call, whose executor it may start and whose
approval it may ask for, although another task may have the claim by then. Only the other
awaits end the graph (`StopGraph`, `Leaving`). `EffectsBounded` and `CallsRunInOrder` count
what such a task still does.

Abstracted: the model asks for tools once per behaviour; a crash in the middle of
staging several calls is not modelled; the slot stands for the claim token; the walk
from `finalize` to the next `tool` node is one step.

## 4. MemoryGraph

The long-term memory of one account: status, sources and links of its facts, the
settings (enabled, deletion generation, purge pending), the graph jobs, the owner's
lifecycle, the projection in Neo4j, dispatches of the memory worker, one writer, one
recall, and the process-local switch `_local_disabled`.

What `build_g1_edges` reads is a *view*: the active facts with their active sources.
The graph stores the view it was built from. Every bump of the authority revision
inserts one job, so `jobs[r]` is the job of revision `r`. `delete_all` is two steps,
because it chooses its facts before it reaches the settings row that serialises it with
the writers. A dispatch is a step per store it touches: settings, snapshot, Neo4j,
`finish_purge`, closing the job. A claim can be taken over when its holder is gone
(`Claim`) or still at work after 30 seconds (`Reclaim`, a fault).

## 5. Consolidation

State: the conversation's messages, the run that answers the last one, the threads that
record answered messages, the cursor (`memory_consolidation_cursor`), the jobs by their
idempotency key, the settings, the facts of one slot, the confirmation tokens, and what
each maintenance worker is doing.

Actions: `send_message`, `process_natural_memory_once` and `remember_all_result` (the
explicit "remember"), `complete_run` and `fail_run`; a recorder's three steps
(`get_consolidation_cursor`, `upsert_consolidation_cursor`, `record_user_message`);
`FallQuiet`; a worker's round step by step (`process_pending_jobs`,
`enqueue_idle_consolidations`, `claim_jobs`, `dispatch`, `extract_window`,
`write_segment`, `advance_consolidation_cursor`, `complete_job`, `finish_purge`);
`LeaseLapses`; the owner's commands (`set_enabled`, `forget`, `update`,
`request_delete_all`, `confirm_delete_all`); `Crash`. A fact is read (`find_active_by_slot`),
decided (`decide_merge`) and written (`remember_candidate`) in separate steps, as the
writer does without a lock. Of other owners there is what they do to a scan for quiet
conversations, which takes the eight that have been quiet the longest: theirs may crowd this
one out, or be of an owner with memory off, which ends the round (`crowded`). A segment of a window is the set of the places of its
messages (`segment_transcript`): what was in a written segment is the question, and within a
segment only the last statement counts. Jobs that project are in `MemoryGraph`.

* `CursorSkipsNothing`: the cursor passes over no message whose segment was not written.
* `OneActiveFact`: without two writers overlapping, one active fact per slot.
* `ConsolidationConverges`: while memory stays on and no job runs out of attempts, every
  recorded message is consolidated, provided the scans are not crowded by other owners for
  ever (`Crowded`). The code does not see to that, so it is a premise and no fairness.
* `PurgeFinishes` (run `stuck`, violated): section 12.

## 6. Planning

One run's planning layer. The model's answers are arbitrary: any nodes, dependencies and
race groups, any decision between layers. State: phase, plan with its revision, outcomes,
replans used, the tasks of the layer, which races are over, the operations of the calls,
tasks nobody waits for any more (after a race that was lost, timed out or paused), the clarification answer held in memory. `ready_layer`,
`pending_nodes`, `validate_plan`, `has_cycle` are operators; `StartLayer`, `RunSingle`,
`ToolReturns`, `StartRace`, `RaceWon`, `RaceLost`, `RaceInterrupted`,
`merge_node_outcomes`, `PauseLayer`, `DecideApproval`, `ContinuePlan`,
`ReplanExhausted`, `ReplanStops`, `RevisePlan`, `PlannerAsks`, `submit_clarification`,
`Generate` and `Crash` are actions. A crash or a pause starts the current graph node from
its beginning, since a checkpoint is written after each.

* `PlanNeverStuck`: an accepted plan with pending nodes always has a ready one.
* `OneSuccessPerNode`, `OutcomesDoNotFork`: replays, retries and revisions never record
  two outcomes of one attempt, nor succeed twice.
* `SinglesRunOnce`: a call outside a race is executed once over any replays.
* `PlanningEnds`: planner and executor reach an ending or a person.

## 7. Ownership

A worker is the thread of one HTTP request, making one store call at a time, so that what
it has read may be stale. Both stores are modelled (`mode`): PostgreSQL with accounts, and
the in-memory one with temporary guests, whose methods check less. Tokens of a session
are numbered; time is a clock of ticks for grace periods and expiry. Requests:
`bootstrap_guest`, `refresh` (three steps), `resolve_access` (two), `renew_access`,
`register`, `login` (two), `logout`, `change_password` (two), `request_deletion`,
`create_conversation`, `delete_conversation`; in the background the task that finishes an
account's deletion, the maintenance loop, orphaned guests, and the loss of that task.

* `SessionsEndWithTheirOwner`: a session that works belongs to an active owner. An accepted
  deletion ends every session, and no login that has checked its password before makes a new
  one.
* `TokenReplacedByItsHolder`: a current refresh token is replaced only for who presented
  it, or who changed the password, and never once the session has been revoked.
* `PasswordChangeEvicts`: what still works was opened with the present password (or by a
  login that had verified the old one before and wrote its session after).

## 8. Documents and Retrieval

`Documents`: one worker on the event loop (uploads and new versions over HTTP block it)
and threads beside it (deletions, `write_document`). An ingest is its store and index calls
in order: version, previous chunk ids, chunks, dense index, keyword index, sweep, graph,
status. Index calls may fail, a request may die at any step.

* `ReadyIsSearchable`: what is shown as ready has one version's chunks, in both indexes.
* `NoStaleEntries`: over any versions and a deletion, no entry without its chunk.

`ReadyIsSearchable` is not claimed of two ingests that overlap on a document;
`NoStaleEntries` neither of any requests that do (`DeletionCascades`, section 12) nor after a
failure or a death.

`Retrieval` has no concurrency: a behaviour is one call of the splitter or one search.
Splitting (`protect_code_blocks`, `recursive_split`, `merge`), `build_routes`, `query_rrf`,
`cross_query_rrf`, `apply_rerank` and the reply are operators on sequences, checked over
every text and every answer within the bounds. Scores are integers scaled so that no
rounding occurs at the bounds used.

* `SplitKeepsText`: every visible character once and in order, no chunk too large but a code
  block.
* `FusionRespectsDominance`: what every route ranks behind another never comes out ahead.
* `NothingFoundIsLost`: what was found and still exists is cited, once, up to the limit.

## 9. Mcp

The server file, the catalogue, `available_servers`, snapshots, and for each task of the
event loop a connection: child process, temporary directory, outcome, cancellation. Routes
that change servers run on pool threads and interleave at each read and write
(`upsert_read`, `save`, `invalidate`, `refresh_servers`, `remove_by_source`,
`register_all`); discovery and calls are tasks that interleave at awaits. Start, handshake,
request, answer, failure, `stop`, SIGTERM, `kill` and clean-up are steps; a server may
answer, stay silent, exit, or ignore SIGTERM; a caller may be cancelled at any await.

* `NothingLeftBehind`: a task that is over left neither process nor directory (but for the
  cancellation that arrives while `stop` waits for a child after SIGTERM or SIGKILL).
* `LoneChangeRepairs`: after any mixture of overlapping changes, the next change that runs
  alone leaves the catalogue of the file.
* `CallsEnd`: every request and call ends.

## 10. Sandbox

Operations with their sandbox state and generation (on disk), containers known to the
runtime (in memory), containers known to Docker with the packages of which there are files in
them (`content`) and those that are whole (`complete`), the lock, installed packages, bindings
of runs, and the repository a package comes from. `ensure_sandbox` and its parts (`start_run`,
`existing_container`, `docker_run`, each with the probe of the daemon that may fail after it),
`materialize_skills`, which holds the lock while `copy_skill_package` makes three `docker exec`
for each file (in the model a first and a last one for each package, so that a failure, a
cancellation or a restart leaves a torn one), `exec_command`, `stop_run`,
`docker_rm`; `bind_run`, `install` (`detail`, then every file fetched again),
`write_package`, `set_enabled`, `uninstall`, `release_run`; docker failures, lost
containers, `Crash`.

* `OneContainerPerOperation`: no second container for an operation, over timeouts,
  restarts and retries.
* `ContainersHoldBoundSkills`: what is in a container, whole or torn, are files of packages
  its run was bound to, those of their manifests (`OnlyBoundSkills`), and a call whose sandbox
  was made ready has every package that was loaded for it, whole, in its container
  (`ReadyCallsSeeWholeSkills`): copies that were torn are made again and never taken for whole.

A call whose sandbox was refused is executed all the same, in whatever container serves the
run: the gateway does not look at what `ensure_sandbox` returned.

## 11. The runs

| run | instance | shows | distinct states |
|---|---|---|---|
| `takeover` | 2 runs, 1 conversation, 2 request keys, 2 slots, 1 fault, 1 interrupt | fencing: `OneClaimHolder`, `StatusDiscipline`, `EventsTellTheTruth`; `OneActiveRunPerConversation`, `CancelNeverLosesToSuccess`, `DeletionReachesActiveRuns`, `SucceededRunIsAnswered`, `RequestsNameTheirRuns`; `ImplementsLifecycle` | 975 739 |
| `liveness` | 2 runs in 2 conversations of one owner, limit 1, one run of an old contract version, 1 crash, 1 interrupt | `EveryRunSettles`, `DeletionConverges` | 247 388 |
| `gateway` | 3 calls (warn, safe, block), 2 slots, 1 fault | `NothingRunsUnapproved`, `CallsRunInOrder`, `EffectsBounded`, `AnswersAreComplete` | 1 873 523 |
| `graph` | 2 facts, 1 source, 2 workers, 3 revisions, 1 fault, account deletion | `GraphTellsTheTruth`, `EdgesMatchFacts`, `PurgeIsReal`, `RecallServesCurrent` | 2 854 156 |
| `consolidation` | 2 user turns (a correction, a command, a credential), window 3, segments of 2, 2 commands, 1 fault, 1 worker, other owners | section 5 | 1 112 015 |
| `stuck` (violated) | 1 turn, 1 command, no fault, nobody else | `PurgeFinishes` fails | 444 |
| `plan` | 3 node ids, 1 race group, 2 replans of 1 node, 1 node to approve, 1 crash | section 6 | 801 803 |
| `ownership` | 2 threads, 2 owners, 2 sessions, 1 name, 2 passwords, 3 tokens, 1 tick | section 7 | 1 550 196 |
| `documents` | 1 document, 3 versions, the loop and 2 threads, 1 index failure, 1 death | section 8 | 96 069 |
| `retrieval` | texts of 4 characters, 3 chunks, up to 3 routes, 2 queries, 2 hits each | section 8 | 343 125 |
| `mcp` | 2 servers, 1 thread, 2 tasks, 3 operations | section 9 | 108 584 |
| `sandbox` | 1 run, 2 operations, 1 skill of 2 versions, 3 requests, 1 fault, 1 restart | section 10 | 2 202 713 |

Why the bounds are enough. AgentRuns: two slots are what a stalled task and its successor
need, and a third attempt repeats the second's fencing, since an attempt only compares its
number with the row's; `OwnerRunLimit` is 1 instead of 2 so that the limit is reached.
MemoryGraph: two facts for a correction and for a deletion that misses a fact written
meanwhile, two workers for one projection to overtake another, three revisions for write,
delete-all, enable. Consolidation: with assistant replies in between, a window of three is
filled by the second turn, so that a full window, a residue and the idle scan all occur,
and its messages make two segments; a job has two attempts, so that one fault leaves a
retry. Two workers are too many for a run that is kept; the two
invariants are proved for any number of them. Planning: three nodes
are the smallest cycle beside a dependency and a race of two beside a single. Ownership:
two requests for every race of two, an owner and a session more than the first so that a
guest becomes an account. Documents: three versions, since a sweep that reads the previous
version too late only shows at the next one. Mcp: two servers whose tools collide in name;
the third operation is the lone one. Sandbox: two operations that share a run's container.

Fairness. AgentRuns (`FairSpec`): the event loop runs every task and its cancel monitor,
worker loops poll for ever, a lease that no live task renews runs out, a cancel route that
has begun acts, the maintenance loop repeats; heartbeats, users and faults are not fair.
The step that stands for the graph is fair, which assumes that providers and tools return:
the runtime has timeouts for them. People owe nothing: a run that waits for an approval may
wait for ever, and `DeletionConverges` says that this is all a deletion may wait for.
Consolidation: threads run, the worker's loop goes round every second
(`MemoryMaintenanceWorker`), time passes; that a round reaches its claims is not assumed but
the premise of `ConsolidationConverges`. Planning: the process goes on
(`Work`); people owe nothing, so a paused plan counts as ended. Mcp: threads and tasks go
on, and a call's timeout fires (`cancel`); servers owe nothing.

Deadlock checking is off in every run: each system may come to rest when users stop and
the named bounds are used up.

## 12. What disagrees with the code's own words

One disagreement is kept as a run. `stuck`: the idle scan of the memory worker ignores two
errors (`src/memory/jobs.py:299`) and not `MemoryDisabled`, which `enqueue_consolidation`
raises for an owner whose memory is off or whose deletion is under way. With one message
recorded and not consolidated, every round ends there, before a job is claimed, for all
owners. A delete-all is then never carried out, and memory cannot be turned on to get out of
it, while the user is told that the deletion is being completed
(`src/memory/management.py:576`). Turning memory off has the same effect until it is turned
on again. For the same reason `PurgeConverges` and `GraphCatchesUp` of `MemoryGraph`, which
take it for granted that the worker claims jobs, are stated there and not run.

The modules state others as properties that no run checks: naming one in the module's cfg
shows the behaviour.

| property | the code says | what happens |
|---|---|---|
| `DeletionConverges`, without its second alternative | the loop removes a deleting conversation | a run that waits for an approval is never terminal: `deleting` for ever (`interfaces/http/app.py:346`) |
| `NoCheckpointOutlivesItsConversation` | "checkpoints first, rows last" (`interfaces/http/app.py:353`) | the checkpointer is not fenced: a task that lost its lease writes after the sweep |
| `DecisionWakesTheRun` | a decision resumes the run | one that arrives before `wait_approval` is stored, its resume refused and swallowed (`agent/runtime.py:195`) |
| `TakeoverFindsArguments` | a run can be taken over | the `finally` block deletes the arguments of a run that is left to be taken over (`agent/runtime.py:611`) |
| `OwnerGraphCleared` | true only when the graph is cleared (`memory/service.py:454`) | after delete-all, enable, write, disable it is true with the projection still there |
| `PurgeConverges`, `GraphModes = {FALSE}` | without Neo4j only the graph's gain is lost | a delete-all is never completed |
| `ReplayIsIdempotent` | replays repeat no effect (`agent/planning/executor.py:7`) | the members of a race that is paused for an approval go on and are started again |
| `AccountDeletionConverges` | the loop carries on what the task leaves (`interfaces/http/app.py:333`) | if the task is lost before it marks the conversations, the loop never does, and the owner stays |
| `DeletionCascades` | deleting takes the entries of both indexes along (`rag/indexer.py:3`) | a deletion beside an ingest leaves the entries written after its purge |
| `EmptyMeansSearched` | failed routes are reported, not swallowed (`rag/hybrid.py:5`) | `rag_search` answers "nothing found" with every route failed |
| `OnlyConnectedServersOffered` | only enabled and connected servers enter a snapshot (`tools/control.py:81`) | declared tools of any enabled server do |
| `OneSandboxServesTheRun` | one sandbox for each run (`sandbox/docker.py:1`) | a second `exec_command` has its own generation, meets `sandbox_generation_mismatch` and loses the sandbox |

Noted while modelling, without a property:

* Memory: the confirmed revocation of a source behind several facts always fails
  (`repo/postgresql/memory/long_term.py:621` reads a column its query does not select); a
  write authorised before a delete-all may commit after it; delete-all does not reset the
  cursor; a window whose job failed or was cancelled is not enqueued again under its key,
  and `replay_failed_jobs` has no caller; two writers of one slot make two active facts; a
  window counts the messages of both roles.
* Planning: a survivor of a revision that depends on a finished node is refused as
  `unknown_dependency`, so the revision is rolled back; a race that times out leaves its
  members running; failures are never cleared, so each later layer asks the model; a
  clarification answer is only in memory until the run is claimed.
* Ownership: a login that verified the old password writes its session after the change; a
  refresh whose answer is lost strands the client after the grace period; a guest's limit is
  counted without a lock; `expired_guest_conversations` has no caller.
* Documents: a crash leaves `deleted` or `parsing` for good; a new version that fails in an
  index never sweeps the old one; Neo4j gets no chunk ids; HTTP ingests block the loop.
* MCP: two changes of the server file overwrite each other, and a discovery may bring a
  deleted server back; writing to a child has no timeout of its own.
* Sandbox: a container whose removal fails is forgotten; repeating the request that created
  a run binds its skills anew.
* Runs: an approval decided after five minutes expires and the run keeps waiting; the
  owner's limit is counted outside any lock on the owner; a full subscriber queue loses
  events silently.

## 13. Proofs

Each proof holds for every value of the constants that satisfies the module's ASSUME:
any number of runs, slots, calls, nodes, documents, facts, sources and workers, any bound
on faults, interrupts, versions and revisions. Every inductive invariant was checked with
TLC before it was proved. The assumptions give the constants their types, keep the
different kinds of names apart, and say that `Sandbox` has finitely many operations.

**AgentRuns** (`AgentRunsProofs`). The type invariant is made inductive with `TaskOK`:
a busy slot holds a run, and a publishing task carries a terminal verdict. The safety
invariant is `Inv`: the types, `EventsTellTheTruth`, and the parts the properties need
to be inductive: `Fenced` (a busy task's attempt is never ahead of the row's, and two
busy slots on one run hold different attempts), `VerdictsHold` (the run of a publishing
task has the verdict's status, or is deleted) and `SweptSettled` (a conversation whose
checkpoints were swept is not active and has no active run). Instead of one case
analysis per action and conjunct, each action is shown to have one of a few effects on
a run, a slot and a conversation (`Effect`), and the effects to preserve `Inv`. Results: `TypeCorrect`, `ClaimsAreExclusive`
(`OneClaimHolder`), `EventsAreTrue` (`EventsTellTheTruth`), `StatusIsDisciplined`
(`StatusDiscipline`).

**Refinement** (second part of `AgentRunsProofs`). With `RepliesKnown` (every assistant message
belongs to a run of its conversation and answers that run's input) every step of
`AgentRuns` is a step or a stutter of `RunLifecycle`: `Refinement` proves `Spec => ImplementsLifecycle`. The caller's promises are then
derived from the contract alone, over its few moves: `OneActiveRun`,
`CancelIsHonoured`, `DeletionReaches`. So are three about what is kept for good:
`SuccessMeansAnswered` (`SucceededRunIsAnswered`: messages are only appended, until the
conversation goes as a whole), `RequestsAreIdempotent` (`RequestsNameTheirRuns`: a key is
taken in the transaction that makes its run, belongs to that run alone, and goes with it) and `OneReply`
(`OneReplyPerInput`). The last one needs that the runs with one input share it by retry
and that a success whose input has an answer already takes that answer; to be worth a run
it would take three runs of one conversation, so it is proved without one.

**ToolCalls** (first part of `ToolProofs`). `Inv` adds to the types `ClearedRuns` (a call that
was executed, or is about to be, has a standing clearance) and `ResultsBehind` (every
call behind the checkpoint, or behind a task's position, has its result). The second
is what survives a takeover: the checkpoint is not fenced, so an old task may set it
back, but never beyond results that exist. Results: `TypeCorrect`,
`NoUnapprovedEffect`, `QueueInOrder`, `CompleteAnswers`.

`BoundedEffects` (`EffectsBounded`) counts. A task that stalled before its execution may
still make it after its successor has made its own, so what is bounded is the executions
*plus the credits*: the executions that tasks at work may yet make without a further fault
(`MayYetCall`), and those of the next task while the run can be claimed without one
(`UpForClaim`, credits under `NoSlot`). Credits are elements of a finite set of pairs of slot
and number, so that the library's facts on cardinalities add them up. `Covered` says that
both together stay within `(faults + 1)` allowances: an execution spends a credit, a claim
and a pause hand all of them over, a fault pays for a task's allowance. `IdleClean` (an idle
slot keeps no token of an earlier task) is what a claim starts from.

**MemoryGraph** (`MemoryGraphProofs`). The argument is that a revision is a name for
one view and one generation. `Inv` says: dispatches carry the generation of their job
(`WorkersOnJobs`); generations grow with revisions and everything derived from a
revision carries its generation (`Generations`); whoever holds a view of a project
revision holds the same one, and at the current revision it is the authority's
(`ViewsAgree`); memory is enabled only in project revisions (`EnabledProjects`); a
purge is reported only after the graph has passed it (`PurgeProgress`); deleted facts
appear only in views of an older generation (`WipedGone`). Every action falls under one
of four shapes, each with its lemma: it adds a revision (`RevisionAdded`), moves one
dispatch (`DispatchMoves`), moves the graph forward (`GraphMoves`), or moves the reader
(`ReaderMoves`). Results: `TypeCorrect`, `GraphIsTrue`, `EdgesAgree`, `PurgedForGood`
and the action property `RecallIsCurrent`.

**Consolidation** (`ConsolidationProofs`). Assumed are the module's four ASSUMEs: what a
message may be, that a segment holds at least one, that there are other owners or not, and that
the run is none of the workers.
The types (`TypeInv`) say besides that a worker works on jobs there are (`WorkOK`), that the
run answers the last message (`RunOK`) and that no credential is in a segment (`SegmentsOK`).

`CursorSkipsNothing` is made inductive as `CursorInv`. A worker that advances the cursor to
the end of its window asks for no token and looks at no other job, so two things must hold
of *every* window that anyone ever recorded, enqueued, scanned or claimed: it begins at or
before the cursor, wherever the cursor has got to meanwhile (`RecorderOK`, `WindowOK`,
`ScanOK`), and what the worker has not extracted of it is in the segments before it
(`Covered`). The second starts at `dispatch` with `SegmentsPartition`: the segments hold
every readable message of the window. That is an argument about counting, not about sorting:
a message goes to the segment of the number of readable ones before it, and that number
divided by the size of a segment stays below the number of segments. Each action is either
`CursorApart` or shown to be right about what it adds (`CursorStep`).

`OneActiveFact` is made inductive as `FactInv`: as long as no two writers have overlapped, at
most one of the run and the workers stands between reading the slot and writing it, and one
that is going to add a fact found the slot empty and finds it empty still (`OneWriter`). The
owner may come in between: forgetting or deleting empties a slot, and an update puts one fact
in the place of another, which leaves nobody with a wrong decision to add. A command never
replaces (`CommandOK`), and a worker replaces only what is still active. Results:
`ConsolidationTypes`, `CursorCovers` (`CursorSkipsNothing`), `OneFact` (`OneActiveFact`).

**Ownership** (`OwnershipProofs`). Requests act on what they read earlier, so the invariant
says what stays true of a session in the meantime (`RequestOK`): its id is never used again,
and while its row exists it has the owner that was read; and that no row outlives its owner
(`RowsOwned`). With these, every action has one of three effects on each session (`RowMoves`):
it removes the row, writes it under a fresh id for an active owner, or keeps it, in which case
a revocation stays, the next token goes to its holder and only where nothing was revoked, and
the row follows its owner's password and the end of its owner or is revoked. The in-memory store
checks less, but has guests only, whose sessions nothing revokes (`GuestsInMemory`). Results: `TypeCorrect`,
`PasswordEvicts`, `SessionsEnd` (`SessionsEndWithTheirOwner`), `TokensBelongToHolders`.

**Planning** (`PlanningProofs`). `KahnIsExact` first: `has_cycle` rejects a graph exactly
when some of its nodes depend, each of them, on another of them. `Processed` is a recursive
function of the rounds of Kahn's algorithm; the induction over rounds is carried out with
least numbers of sets (`LeastNumber`, `UpTo`), since the library's induction theorems cannot
be used here. It gives the inductive invariant its graph part: in an accepted plan every set
of nodes has one that depends on none of them (`GraphOK`), from which `NeverStuck` follows,
for the pending nodes are such a set. The rest says that the layer at work is the ready one
(`LayerOK`), that operations belong to the present revision and that whatever was executed
has a record (`CallsOK`), and that attempts are numbered in the order of their outcomes
(`OutcomesOK`): a replay finds its record, a retry gets a new number, a revision new calls.
Results: `KahnIsExact`, `TypeCorrect`, `NeverStuck`, `OneSuccess`, `NoForks`, `SinglesOnce`.

**Documents** (`DocumentsProofs`). Each action is first put as what it does to the request of
its worker and to the rows of its document (the `...Moves` lemmas); `IngestKeeps` shows that
the other documents do not notice (`Kept`), so the invariant is kept document by document.
For a document whose ingests never overlapped, `Search` says how far its ingest has come
(`IngestOK`: its version is above the stored ones, then the only one, then in one index, then
in both, and what it is going to sweep is older), with deletions beside it. For a document
none of whose requests failed or overlapped, `Trace` says where index entries may come from
(`TraceOK`): the stored chunks and, between replacing them and the sweep, or between the
purge and the removal from the indexes, the ids the request read before. Results:
`TypeCorrect`, `ReadyIsFound` (`ReadyIsSearchable`), `NothingStale` (`NoStaleEntries`).

**Sandbox** (`SandboxProofs`). A generation is the number of operations that had asked when
it was given out, so generations are distinct and the containers' contents of those to come
are empty (`GenerationsOK`, with cardinalities of the set of operations that asked). A
container is created in the call that takes its operation out of `not_requested`, once, before
it ends (`CreateOK`). Packages are followed from disk to binding to container (`SkillsOK`):
what is loaded for a container is what its manifest says and was current when its run was
bound, whatever is installed or switched meanwhile. What is recorded as copied is whole in the
container that serves the run (`CopiesOK`): only the call that holds the lock copies
(`LockOK`), it tears nothing that is recorded, and the record is dropped with the container.
Results: `TypeCorrect`, `CreatedOnce` (`OneContainerPerOperation`), `BoundSkills`
(`ContainersHoldBoundSkills`).

**Mcp** (second part of `ToolProofs`). That module extends `ToolCalls` and `Mcp`, which is why
the specification of the latter is `McpSpec`, with `McpInit`, `McpNext`, `McpTypeOK` and the
variable `place` where the other models have `pc`. For connections the invariant says where a child or a directory can
be (`ConnectionOK`: only from the start of a client to its clean-up, which comes after the end
of the child), for changes what somebody knows who was alone (`LoneOK`: no other change is
under way, what it holds is what the file says, and it publishes into a catalogue it has
emptied) and that nobody changes anything while `repaired` holds (`RepairedOK`). A step is
shown to be `Quiet`, that is one of a connection, a call or a reading that neither changes nor
publishes servers, or it is one of the few that do. Results: `McpTypeCorrect`, `NothingLeft`
(`NothingLeftBehind`), `LoneChangesRepair` (`LoneChangeRepairs`).

The type invariants of these nine models are proved and are not repeated in the runs. The
proofs of `MemoryGraph` cover both graph modes; its run has Neo4j present.

Only model-checked:

* every liveness property: `EveryRunSettles`, `DeletionConverges`, `PlanningEnds`,
  `ConsolidationConverges` and those of `Mcp`, since fairness and ENABLED are out of the
  prover's reach;
* the invariants of `Retrieval`: its operators recurse over sequences, and what they compute
  for every text or answer is an induction over data.

## 14. Not modelled, and what is left

* **Event stream** (`agent/observation.py`, `interfaces/http/streaming.py`): queues of 128
  that drop on overflow. To state: a client that keeps reading learns the outcome.
* **Memory**: index jobs (vectors of facts), expiry, conversation summaries, and the ranking
  of recalled facts, whose scores are floating point. Extract jobs are no longer enqueued.
* **Runs**: prompt building and streaming inside a graph node; renaming and listing.
* **Ownership**: the attempt limiter and the guests' creation rate, which only refuse.
* **MCP**: the Windows loop thread, the HTTP transport's framing, the check of executables.
* **Skills**: the search of the hub, the text of manifests.
* **In-memory repositories**: the ownership store is in `Ownership`; the others are doubles
  of the PostgreSQL ones under the same contract.
* **Platform, assembly, configuration, prompts, provider adapters, schemas, web client**:
  I/O, construction and text, without protocol state of their own.

Every safety property that the runs check is proved, but for those of `Retrieval`. Worth
composing: `Ownership`'s account deletion with `AgentRuns`' conversations and
`MemoryGraph`'s owner, which each model takes from its own side, and the claims of
`Consolidation` with the project jobs of `MemoryGraph`.
