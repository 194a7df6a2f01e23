---------------------------- MODULE MemoryGraph ----------------------------
(***************************************************************************)
(* The long-term memory of one account: the facts and sources that are the *)
(* authority (PostgreSQL, repo/postgresql/memory), the graph derived from  *)
(* them (Neo4j, repo/neo4j/memory_graph.py), the project and purge jobs    *)
(* that keep the graph in step (memory/jobs.py), the writers and commands  *)
(* that change the facts, and the recall that reads facts and graph        *)
(* together (memory/recall.py).                                            *)
(*                                                                         *)
(* Abstractions.                                                           *)
(*  - What build_g1_edges reads of the facts is a view: the active facts,  *)
(*    each with its active sources.  The graph stores the view it was      *)
(*    built from; edges and scores are functions of it.                    *)
(*  - Every bump of the authority revision inserts one graph job, so       *)
(*    jobs[r] is the job of revision r and the revision is their number.   *)
(*    For a deletion the project job of the revision is cancelled in the   *)
(*    same transaction and the purge job stands in its place.              *)
(*  - A worker dispatches one job at a time, so the worker stands for the  *)
(*    claim token.  The rest of a claimed batch is jobs other workers hold.*)
(*  - The transactions are serialised by the authority row, except that    *)
(*    delete_all chooses its facts before it reaches that row.             *)
(*  - Slots of facts are left out: a writer may merge with any fact.  A    *)
(*    fact in quarantine is in no view and never becomes active; writing   *)
(*    one is AbandonWrite here.                                            *)
(*  - A confirmation token only narrows when a deletion may happen; the    *)
(*    request's own snapshot only narrows when a recall may go on.         *)
(***************************************************************************)
EXTENDS Naturals, Sequences, FiniteSets

CONSTANTS
    Facts,            \* memory ids
    Sources,          \* source references
    Workers,          \* dispatches that can be under way at once
    Nobody,           \* no claim
    OwnerMayLeave,    \* may the account be deleted?
    GraphModes,       \* may Neo4j be configured (TRUE), or absent (FALSE)?
    MaxRevision,      \* bound: authority revisions
    MaxFaults         \* bound: failed, stalled and crashed steps

ASSUME MemoryConstants ==
    /\ Nobody \notin Workers
    /\ OwnerMayLeave \in BOOLEAN
    /\ GraphModes \subseteq BOOLEAN
    /\ MaxRevision \in Nat
    /\ MaxFaults \in Nat

VARIABLES
    facts,      \* memory_facts.status
    links,      \* memory_fact_sources
    revoked,    \* memory_sources that are no longer active
    settings,   \* memory_settings
    jobs,       \* memory_jobs of the graph, by revision
    owner,      \* owners.lifecycle_state; "gone": finish_deletion has run
    deleting,   \* a delete_all transaction is under way
    sweep,      \* the facts it has chosen and locked, not yet committed
    wiped,      \* history: facts that some delete_all has deleted
    configured, \* Neo4jMemoryGraphStore, else DisabledGraphMemoryStore
    graph,      \* the projection in Neo4j
    worker, writer, reader,
    localOff,   \* the owner is in the process's _local_disabled
    faults

authority == <<facts, links, revoked, settings, jobs, owner, deleting, sweep,
               wiped>>
processes == <<worker, writer, reader, localOff>>
vars == <<authority, configured, graph, processes, faults>>

revision == Len(jobs)

Active == {f \in Facts : facts[f] = "active"}
Unused == {f \in Facts : facts[f] = "absent"}

\* _fact: a fact's source_refs are its links to sources that are active.
View == {<<f, links[f] \ revoked>> : f \in Active}

Views == SUBSET (Facts \X SUBSET Sources)

\* The facts of a view that have a source (_has_valid_snapshot_source).
Recallable(view) == {f \in Facts : \E p \in view : p[1] = f /\ p[2] # {}}

Statuses == {"absent", "active", "superseded", "deleted"}
\* "over": succeeded or cancelled, which nothing tells apart later.
JobStatuses == {"pending", "running", "over"}

Job == [op : {"project", "purge"}, gen : Nat, status : JobStatuses,
        holder : Workers \cup {Nobody}]

IdleWorker == [at |-> "idle", job |-> 0, gen |-> 0, view |-> {}]
WorkerState ==
    [at : {"idle", "claimed", "allowed", "snapped", "purged", "closing"},
     job : Nat, gen : Nat, view : Views]

IdleReader == [at |-> "idle", rev |-> 0, gen |-> 0, view |-> {}]
ReaderState ==
    [at : {"idle", "recalled", "checked", "served"},
     rev : Nat, gen : Nat, view : Views]

TypeOK ==
    /\ facts \in [Facts -> Statuses]
    /\ links \in [Facts -> SUBSET Sources]
    /\ revoked \in SUBSET Sources
    /\ settings \in [enabled : BOOLEAN, generation : Nat, purging : BOOLEAN]
    /\ jobs \in Seq(Job)
    /\ owner \in {"active", "deleting", "gone"}
    /\ deleting \in BOOLEAN
    /\ sweep \in SUBSET Facts
    /\ wiped \in SUBSET Facts
    /\ configured \in BOOLEAN
    /\ graph \in [rev : Nat, gen : Nat, view : Views]
    /\ worker \in [Workers -> WorkerState]
    /\ writer \in {"idle", "authorized"}
    /\ reader \in ReaderState
    /\ localOff \in BOOLEAN
    /\ faults \in Nat

Init ==
    /\ facts = [f \in Facts |-> "absent"]
    /\ links = [f \in Facts |-> {}]
    /\ revoked = {}
    /\ settings = [enabled |-> TRUE, generation |-> 0, purging |-> FALSE]
    /\ jobs = <<>>
    /\ owner = "active"
    /\ deleting = FALSE
    /\ sweep = {}
    /\ wiped = {}
    /\ configured \in GraphModes
    /\ graph = [rev |-> 0, gen |-> 0, view |-> {}]
    /\ worker = [w \in Workers |-> IdleWorker]
    /\ writer = "idle"
    /\ reader = IdleReader
    /\ localOff = FALSE
    /\ faults = 0

-----------------------------------------------------------------------------
(***************************************************************************)
(* The authority: transactions on facts, sources and settings.             *)
(***************************************************************************)

\* _bump_projection_in_connection, _enqueue_purge_in_connection: older
\* pending project jobs are cancelled and the new revision gets its job.
Bumped(op, gen) ==
    [r \in 1..(revision + 1) |->
       IF r = revision + 1
       THEN [op |-> op, gen |-> gen, status |-> "pending", holder |-> Nobody]
       ELSE IF jobs[r].op = "project" /\ jobs[r].status = "pending"
       THEN [jobs[r] EXCEPT !.status = "over"]
       ELSE jobs[r]]

\* The bound leaves a running delete_all its revision.
Bump ==
    /\ revision + (IF deleting THEN 1 ELSE 0) < MaxRevision
    /\ jobs' = Bumped("project", settings.generation)

\* A row that an uncommitted delete_all has updated is locked.
Unlocked(f) == f \notin sweep

\* remember_all_result and update: authorize(write=True).  Everything a write
\* does from here on happens later, in transactions of its own.
AuthorizeWrite ==
    /\ writer = "idle"
    /\ owner = "active" /\ settings.enabled /\ ~localOff
    /\ writer' = "authorized"
    /\ UNCHANGED <<authority, graph, worker, reader, localOff, faults>>

\* The commit of a write: decide_merge has chosen one of the three below, or
\* to put the candidate into quarantine.
WriteEnds ==
    /\ writer = "authorized"
    /\ owner # "gone"
    /\ writer' = "idle"

\* save_fact of an active fact, for a new slot.
SaveFact ==
    /\ WriteEnds
    /\ Bump
    /\ \E f \in Unused, ref \in Sources :
         /\ facts' = [facts EXCEPT ![f] = "active"]
         /\ links' = [links EXCEPT ![f] = {ref}]
    /\ UNCHANGED <<revoked, settings, owner, deleting, sweep, wiped, graph,
                   worker, reader, localOff, faults>>

\* add_source for the same fact.  Its status is not looked at again: the fact
\* was active when find_active_by_slot found it.
AddSource ==
    /\ WriteEnds
    /\ Bump
    /\ \E f \in Facts, ref \in Sources :
         /\ facts[f] \in {"active", "superseded", "deleted"} /\ Unlocked(f)
         /\ links' = [links EXCEPT ![f] = @ \cup {ref}]
    /\ UNCHANGED <<facts, revoked, settings, owner, deleting, sweep, wiped,
                   graph, worker, reader, localOff, faults>>

\* replace_fact, for a correction: only while the previous fact is active.
ReplaceFact ==
    /\ WriteEnds
    /\ Bump
    /\ \E p \in Active, f \in Unused, ref \in Sources :
         /\ Unlocked(p)
         /\ facts' = [facts EXCEPT ![f] = "active", ![p] = "superseded"]
         /\ links' = [links EXCEPT ![f] = {ref}]
    /\ UNCHANGED <<revoked, settings, owner, deleting, sweep, wiped, graph,
                   worker, reader, localOff, faults>>

\* The write is refused (the fact is no longer active), fails or is dropped.
AbandonWrite ==
    /\ writer = "authorized"
    /\ writer' = "idle"
    /\ UNCHANGED <<authority, graph, worker, reader, localOff, faults>>

\* Mutant of Forget: the revision is not bumped.
ForgetWithoutBump(f) ==
    /\ owner = "active"
    /\ facts[f] = "active" /\ Unlocked(f)
    /\ facts' = [facts EXCEPT ![f] = "deleted"]
    /\ UNCHANGED <<links, revoked, settings, jobs, owner, deleting, sweep,
                   wiped, graph, processes, faults>>

\* deactivate_fact: /memory forget.
Forget(f) ==
    /\ owner = "active"
    /\ facts[f] = "active" /\ Unlocked(f)
    /\ Bump
    /\ facts' = [facts EXCEPT ![f] = "deleted"]
    /\ UNCHANGED <<links, revoked, settings, owner, deleting, sweep, wiped,
                   graph, processes, faults>>

\* expire_due: the facts whose time is up.
ExpireDue ==
    /\ owner # "gone"
    /\ Bump
    /\ \E due \in SUBSET Active \ {{}} :
         /\ \A f \in due : Unlocked(f)
         /\ facts' = [f \in Facts |->
                        IF f \in due THEN "deleted" ELSE facts[f]]
    /\ UNCHANGED <<links, revoked, settings, owner, deleting, sweep, wiped,
                   graph, processes, faults>>

\* revoke_source, once request_revoke_source has counted one active fact behind
\* the source: by now there may be more, or none.  For more than one to begin
\* with, the confirmed form reads a tenant_id that its query does not select,
\* fails and is rolled back: it changes nothing.
RevokeSource(s) ==
    LET impact == {f \in Active : s \in links[f]} IN
    /\ owner = "active"
    /\ s \notin revoked
    /\ \E f \in Facts : s \in links[f]
    /\ \A f \in impact : Unlocked(f)
    /\ IF impact = {} THEN UNCHANGED jobs ELSE Bump
    /\ revoked' = revoked \cup {s}
    /\ facts' = [f \in Facts |->
                   IF f \in impact /\ links[f] \subseteq revoked \cup {s}
                   THEN "deleted" ELSE facts[f]]
    /\ UNCHANGED <<links, settings, owner, deleting, sweep, wiped, graph,
                   processes, faults>>

\* Mutant of SetEnabled: no projection is asked for.
SetEnabledWithoutBump(on) ==
    /\ owner = "active"
    /\ on => ~settings.purging
    /\ settings' = [settings EXCEPT !.enabled = on]
    /\ localOff' = ~on
    /\ UNCHANGED <<facts, links, revoked, jobs, owner, deleting, sweep, wiped,
                   graph, worker, writer, reader, faults>>

\* set_enabled.  A call that changes nothing still asks for a projection if it
\* is the first to write the settings row.
SetEnabled(on) ==
    /\ owner = "active"
    /\ on => ~settings.purging
    /\ \/ Bump /\ (settings.enabled # on \/ (on /\ settings.generation = 0))
       \/ settings.enabled = on /\ UNCHANGED jobs
    /\ settings' = [settings EXCEPT !.enabled = on]
    /\ localOff' = ~on
    /\ UNCHANGED <<facts, links, revoked, owner, deleting, sweep, wiped,
                   graph, worker, writer, reader, faults>>

\* set_enabled(False) whose transaction fails: this process stops on its own.
DisableNotPersisted ==
    /\ faults < MaxFaults
    /\ owner = "active" /\ settings.enabled /\ ~localOff
    /\ localOff' = TRUE
    /\ faults' = faults + 1
    /\ UNCHANGED <<authority, graph, worker, writer, reader>>

\* delete_all: the UPDATE of the facts, before settings and authority rows.
BeginDeleteAll ==
    /\ ~deleting
    /\ revision < MaxRevision
    /\ \/ owner = "active"
       \* prepare_owner_deletion of the maintenance loop
       \/ owner = "deleting" /\ (settings.enabled \/ settings.generation = 0)
    /\ deleting' = TRUE
    /\ sweep' = Active
    /\ UNCHANGED <<facts, links, revoked, settings, jobs, owner, wiped, graph,
                   processes, faults>>

CommitDeleteAll ==
    /\ deleting
    /\ facts' = [f \in Facts |-> IF f \in sweep THEN "deleted" ELSE facts[f]]
    /\ wiped' = wiped \cup sweep
    /\ settings' = [enabled |-> FALSE, generation |-> settings.generation + 1,
                    purging |-> TRUE]
    /\ jobs' = Bumped("purge", settings.generation + 1)
    /\ deleting' = FALSE
    /\ sweep' = {}
    /\ UNCHANGED <<links, revoked, owner, graph, processes, faults>>

\* The account is marked for deletion; authorize refuses from now on.
MarkOwnerDeleting ==
    /\ OwnerMayLeave
    /\ owner = "active"
    /\ owner' = "deleting"
    /\ UNCHANGED <<facts, links, revoked, settings, jobs, deleting, sweep,
                   wiped, graph, processes, faults>>

\* prepare_owner_deletion returns TRUE and finish_deletion removes the owner;
\* its cascade waits for the rows of a delete_all under way.
FinishOwnerDeletion ==
    /\ owner = "deleting" /\ ~deleting
    /\ ~settings.enabled /\ settings.generation # 0 /\ ~settings.purging
    /\ owner' = "gone"
    /\ UNCHANGED <<facts, links, revoked, settings, jobs, deleting, sweep,
                   wiped, graph, processes, faults>>

-----------------------------------------------------------------------------
(***************************************************************************)
(* The maintenance worker: claim_jobs and _dispatch.                       *)
(***************************************************************************)

\* claim_jobs: status running, a new claim token.
TakeJob(w, r) ==
    /\ worker[w].at = "idle"
    /\ owner = "active" \/ (owner = "deleting" /\ jobs[r].op = "purge")
    /\ jobs' = [jobs EXCEPT ![r].status = "running", ![r].holder = w]
    /\ worker' = [worker EXCEPT ![w] =
                    [at |-> "claimed", job |-> r, gen |-> jobs[r].gen,
                     view |-> {}]]
    /\ UNCHANGED <<facts, links, revoked, settings, owner, deleting, sweep,
                   wiped, graph, writer, reader, localOff>>

\* The holder of job r is still at work on it.
Held(r) == \E v \in Workers : jobs[r].holder = v /\ worker[v].job = r

\* A pending job, or one whose worker is gone, once its 30 seconds are over.
Claim(w, r) ==
    /\ \/ jobs[r].status = "pending"
       \/ jobs[r].status = "running" /\ ~Held(r)
    /\ TakeJob(w, r)
    /\ UNCHANGED faults

\* The 30 seconds are over although the holder is still at work.
Reclaim(w, r) ==
    /\ faults < MaxFaults
    /\ jobs[r].status = "running" /\ Held(r)
    /\ TakeJob(w, r)
    /\ faults' = faults + 1

WorkerAt(w, at) ==
    /\ worker' = [worker EXCEPT ![w].at = at]
    /\ UNCHANGED <<writer, reader, localOff>>

\* purge_graph: a target behind what is applied leaves the graph alone.
PurgeGraph(w) ==
    /\ configured
    /\ worker[w].at = "claimed" /\ jobs[worker[w].job].op = "purge"
    /\ LET r == worker[w].job
           g == worker[w].gen
           old == \/ r < graph.rev
                  \/ g < graph.gen
                  \/ r = graph.rev /\ g = graph.gen
       IN  graph' = IF old THEN graph ELSE [rev |-> r, gen |-> g, view |-> {}]
    /\ WorkerAt(w, "purged")
    /\ UNCHANGED <<authority, faults>>

\* finish_purge: only for the current generation, once.  Links of deleted
\* facts go, and sources nobody links to; jobs of older generations are over.
FinishPurge(w) ==
    LET g == worker[w].gen
        current == /\ owner # "gone"
                   /\ settings.generation = g
                   /\ settings.purging
        kept == [f \in Facts |-> IF facts[f] = "deleted" THEN {} ELSE links[f]]
    IN
    /\ worker[w].at = "purged"
    /\ \/ /\ current
          /\ links' = kept
          /\ revoked' = {s \in revoked : \E f \in Facts : s \in kept[f]}
          /\ jobs' = [r \in DOMAIN jobs |->
                        IF jobs[r].gen < g
                           /\ jobs[r].status \in {"pending", "running"}
                        THEN [jobs[r] EXCEPT !.status = "over"]
                        ELSE jobs[r]]
          /\ settings' = [settings EXCEPT !.purging = FALSE]
          /\ WorkerAt(w, "closing")
       \/ /\ ~current
          /\ WorkerAt(w, "closing")
          /\ UNCHANGED <<links, revoked, jobs, settings>>
    /\ UNCHANGED <<facts, owner, deleting, sweep, wiped, graph, faults>>

\* _dispatch of a project job: owner and settings are read first.
CheckSettings(w) ==
    /\ worker[w].at = "claimed" /\ jobs[worker[w].job].op = "project"
    /\ LET allowed == /\ owner = "active"
                      /\ settings.enabled /\ ~settings.purging
                      /\ settings.generation = worker[w].gen
       IN  WorkerAt(w, IF allowed THEN "allowed" ELSE "closing")
    /\ UNCHANGED <<authority, graph, faults>>

\* Mutant of TakeSnapshot: a newer snapshot is projected as the old revision.
TakeAnySnapshot(w) ==
    /\ worker[w].at = "allowed"
    /\ worker' = [worker EXCEPT ![w].at = "snapped", ![w].view = View]
    /\ UNCHANGED <<authority, graph, writer, reader, localOff, faults>>

\* GraphMemory.project: recall_snapshot, and nothing to do when it is newer.
TakeSnapshot(w) ==
    LET stale == \/ owner = "gone"
                 \/ revision > worker[w].job
                 \/ settings.generation > worker[w].gen
    IN
    /\ worker[w].at = "allowed"
    /\ worker' = [worker EXCEPT
                    ![w].at = IF stale THEN "closing" ELSE "snapped",
                    ![w].view = IF stale THEN {} ELSE View]
    /\ UNCHANGED <<authority, graph, writer, reader, localOff, faults>>

\* Mutant of ReplaceGraph: the applied revision is not compared.
ReplaceAnyGraph(w) ==
    /\ configured
    /\ worker[w].at = "snapped"
    /\ graph' = [rev |-> worker[w].job, gen |-> worker[w].gen,
                 view |-> worker[w].view]
    /\ WorkerAt(w, "closing")
    /\ UNCHANGED <<authority, faults>>

\* replace_graph: STALE behind what is applied, CURRENT on it.
ReplaceGraph(w) ==
    /\ configured
    /\ worker[w].at = "snapped"
    /\ LET r == worker[w].job
           g == worker[w].gen
           old == r < graph.rev \/ (r = graph.rev /\ g = graph.gen)
       IN  graph' = IF old THEN graph
                    ELSE [rev |-> r, gen |-> g, view |-> worker[w].view]
    /\ WorkerAt(w, "closing")
    /\ UNCHANGED <<authority, faults>>

\* The job of w gets the status, if w still holds the claim.
JobEnds(w, status) ==
    jobs' = [r \in DOMAIN jobs |->
               IF /\ r = worker[w].job
                  /\ jobs[r].status = "running" /\ jobs[r].holder = w
               THEN [jobs[r] EXCEPT !.status = status, !.holder = Nobody]
               ELSE jobs[r]]

\* complete_job, cancel_job.
CloseJob(w) ==
    /\ worker[w].at = "closing"
    /\ JobEnds(w, "over")
    /\ worker' = [worker EXCEPT ![w] = IdleWorker]
    /\ UNCHANGED <<facts, links, revoked, settings, owner, deleting, sweep,
                   wiped, graph, writer, reader, localOff, faults>>

\* Mutant of Retry: a graph job fails for good, like the other jobs.
RetryExhausted(w) ==
    /\ JobEnds(w, "failed")
    /\ worker' = [worker EXCEPT ![w] = IdleWorker]
    /\ UNCHANGED <<facts, links, revoked, settings, owner, deleting, sweep,
                   wiped, graph, writer, reader, localOff>>

\* _retry and retry_job: graph jobs are tried again without limit.
Retry(w) ==
    /\ JobEnds(w, "pending")
    /\ worker' = [worker EXCEPT ![w] = IdleWorker]
    /\ UNCHANGED <<facts, links, revoked, settings, owner, deleting, sweep,
                   wiped, graph, writer, reader, localOff>>

\* A store fails under the dispatch.
DispatchFails(w) ==
    /\ faults < MaxFaults
    /\ worker[w].at # "idle"
    /\ Retry(w)
    /\ faults' = faults + 1

\* DisabledGraphMemoryStore refuses every call.
GraphDisabled(w) ==
    /\ ~configured
    /\ \/ worker[w].at = "claimed" /\ jobs[worker[w].job].op = "purge"
       \/ worker[w].at = "snapped"
    /\ Retry(w)
    /\ UNCHANGED faults

\* The process dies: its claim stays on the job.
WorkerCrash(w) ==
    /\ faults < MaxFaults
    /\ worker[w].at # "idle"
    /\ faults' = faults + 1
    /\ worker' = [worker EXCEPT ![w] = IdleWorker]
    /\ UNCHANGED <<authority, graph, writer, reader, localOff>>

-----------------------------------------------------------------------------
(***************************************************************************)
(* long_term_candidates.                                                   *)
(***************************************************************************)

\* recall_snapshot and _recall_snapshot_matches.
Recall ==
    /\ reader.at \in {"idle", "served"}
    /\ owner = "active" /\ ~localOff
    /\ settings.enabled /\ ~settings.purging
    /\ reader' = [at |-> "recalled", rev |-> revision,
                  gen |-> settings.generation, view |-> View]
    /\ UNCHANGED <<authority, graph, worker, writer, localOff, faults>>

\* _recall_snapshot_still_current: authorization and settings ...
CheckRecall ==
    /\ reader.at = "recalled"
    /\ LET current == /\ owner = "active" /\ ~localOff
                      /\ settings.enabled /\ ~settings.purging
                      /\ settings.generation = reader.gen
       IN  reader' = IF current THEN [reader EXCEPT !.at = "checked"]
                     ELSE IdleReader
    /\ UNCHANGED <<authority, graph, worker, writer, localOff, faults>>

\* Mutant of ServeRecall: the settings are trusted, the revision is not read.
ServeUnchecked ==
    /\ reader.at = "checked"
    /\ reader' = [IdleReader EXCEPT !.at = "served"]
    /\ UNCHANGED <<authority, graph, worker, writer, localOff, faults>>

\* ... and then, in another query, the authority revision.
ServeRecall ==
    /\ reader.at = "checked"
    /\ reader' = IF owner # "gone" /\ revision = reader.rev
                 THEN [IdleReader EXCEPT !.at = "served"] ELSE IdleReader
    /\ UNCHANGED <<authority, graph, worker, writer, localOff, faults>>

\* The serving process restarts: _local_disabled and its calls are lost.
Restart ==
    /\ localOff \/ writer # "idle" \/ reader.at # "idle"
    /\ localOff' = FALSE
    /\ writer' = "idle"
    /\ reader' = IdleReader
    /\ UNCHANGED <<authority, graph, worker, faults>>

-----------------------------------------------------------------------------
Commands ==
    \/ AuthorizeWrite \/ SaveFact \/ AddSource \/ ReplaceFact
    \/ AbandonWrite
    \/ \E f \in Facts : Forget(f)
    \/ ExpireDue
    \/ \E s \in Sources : RevokeSource(s)
    \/ \E on \in BOOLEAN : SetEnabled(on)
    \/ DisableNotPersisted
    \/ BeginDeleteAll
    \/ MarkOwnerDeleting \/ FinishOwnerDeletion

Dispatch(w) ==
    \/ PurgeGraph(w) \/ FinishPurge(w) \/ CheckSettings(w) \/ TakeSnapshot(w)
    \/ ReplaceGraph(w) \/ CloseJob(w) \/ GraphDisabled(w)

\* A dispatch stalls, fails or dies.
Fault(w) ==
    \/ \E r \in DOMAIN jobs : Reclaim(w, r)
    \/ DispatchFails(w)
    \/ WorkerCrash(w)

Step ==
    \/ Commands
    \/ CommitDeleteAll
    \/ \E w \in Workers :
         \/ \E r \in DOMAIN jobs : Claim(w, r)
         \/ Dispatch(w)
         \/ Fault(w)
    \/ Recall \/ CheckRecall \/ ServeRecall \/ Restart

\* The graph store is chosen when the process is built (build_neo4j_runtime).
Next == Step /\ UNCHANGED configured

Spec == Init /\ [][Next]_vars

\* MemoryMaintenanceWorker._run loops for ever; a transaction under way ends.
FairSpec ==
    /\ Spec
    /\ WF_vars(CommitDeleteAll /\ UNCHANGED configured)
    /\ \A w \in Workers :
         /\ WF_vars(/\ \E r \in DOMAIN jobs : Claim(w, r)
                    /\ UNCHANGED configured)
         /\ WF_vars(Dispatch(w) /\ UNCHANGED configured)

-----------------------------------------------------------------------------
(***************************************************************************)
(* Properties.                                                             *)
(***************************************************************************)

\* While memory is enabled, a graph at the authority's revision is the graph
\* of exactly the facts and sources that are active now (replace_graph,
\* _bump_projection_in_connection): read_edges may rely on the revision alone.
GraphTellsTheTruth ==
    settings.enabled /\ graph.rev = revision =>
        graph.view = View /\ graph.gen = settings.generation

\* Whenever read_edges accepts the revision and generation of the recall under
\* way, the graph was built from the very facts of that recall's snapshot,
\* although the two stores were read at different times.
EdgesMatchFacts ==
    /\ reader.at \in {"recalled", "checked"}
    /\ graph.rev = reader.rev /\ graph.gen = reader.gen
    => graph.view = reader.view

\* Once finish_purge has cleared purge_pending, nothing that a delete_all has
\* deleted is in the graph, whatever stale project jobs are still under way.
PurgeIsReal ==
    ~settings.purging => \A p \in graph.view : p[1] \notin wiped

\* Recall hands out a fact only if, at that moment, memory is enabled and the
\* fact is active with an active source: the revision check also covers the
\* settings, which long_term_candidates read before it.
RecallServesCurrent ==
    [][reader'.at = "served" /\ reader.at # "served" =>
         /\ settings.enabled /\ ~settings.purging
         /\ Recallable(reader.view) \subseteq Recallable(View)]_vars

\* A deletion ends: purge_pending is cleared, so memory can be enabled again
\* and the account be removed.
PurgeConverges == settings.purging ~> ~settings.purging

\* The graph reaches the authority's revision, unless memory is switched off.
GraphCatchesUp ==
    settings.enabled ~> \/ graph.rev = revision
                        \/ ~settings.enabled
                        \/ owner # "active"

\* An account is removed only when its graph is empty (prepare_owner_deletion
\* returns TRUE only once the owner's graph has been cleared).
OwnerGraphCleared == owner = "gone" => graph.view = {}
=============================================================================
