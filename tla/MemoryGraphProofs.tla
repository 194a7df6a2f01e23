------------------------- MODULE MemoryGraphProofs -------------------------
(***************************************************************************)
(* Proofs about MemoryGraph, for every set of facts, sources and workers   *)
(* and every bound on revisions and faults.                                *)
(***************************************************************************)
EXTENDS MemoryGraph, TLAPS

\* Revision 0 has no job; it stands for an empty memory.
Op(r) == IF r = 0 THEN "project" ELSE jobs[r].op
GenAt(r) == IF r = 0 THEN 0 ELSE jobs[r].gen

Reading == reader.at \in {"recalled", "checked"}

\* A dispatch works on a job of its kind and carries that job's generation.
WorkersOnJobs ==
    \A w \in Workers : worker[w].at # "idle" =>
        /\ worker[w].job \in 1..revision
        /\ worker[w].gen = jobs[worker[w].job].gen
        /\ worker[w].at \in {"allowed", "snapped"} =>
               jobs[worker[w].job].op = "project"
        /\ worker[w].at = "purged" => jobs[worker[w].job].op = "purge"

\* Generations grow with the revisions, and everything derived from a revision
\* carries the generation of that revision.
Generations ==
    /\ \A q, r \in 1..revision : q <= r => jobs[q].gen <= jobs[r].gen
    /\ GenAt(revision) = settings.generation
    /\ graph.rev \in 0..revision /\ graph.gen = GenAt(graph.rev)
    /\ Reading => reader.rev \in 0..revision /\ reader.gen = GenAt(reader.rev)

\* Whoever holds a view of a project revision holds the same one; at the
\* current revision it is the view of the authority.
ViewsAgree ==
    /\ \A w \in Workers : worker[w].at = "snapped" =>
           /\ worker[w].job = revision => worker[w].view = View
           /\ \A v \in Workers :
                worker[v].at = "snapped" /\ worker[v].job = worker[w].job =>
                    worker[v].view = worker[w].view
           /\ Reading /\ reader.rev = worker[w].job =>
                  reader.view = worker[w].view
    /\ Op(graph.rev) = "project" /\ graph.rev = revision => graph.view = View
    /\ Reading => /\ Op(reader.rev) = "project"
                  /\ reader.rev = revision => reader.view = View
                  /\ reader.rev = graph.rev => reader.view = graph.view

\* Memory is enabled only in project revisions; a recall began while it was.
EnabledProjects ==
    /\ settings.enabled => Op(revision) = "project" /\ ~settings.purging
    /\ Reading /\ reader.rev = revision => settings.enabled

\* purge_pending is cleared only after the graph has reached the generation.
PurgeProgress ==
    /\ ~settings.purging => graph.gen = settings.generation
    /\ \A w \in Workers :
           worker[w].at = "purged" => graph.rev >= worker[w].job

\* What a delete_all deleted stays deleted, and only views of an earlier
\* generation still hold it.
WipedGone ==
    /\ \A f \in wiped : facts[f] = "deleted"
    /\ \A p \in graph.view : p[1] \in wiped => graph.gen < settings.generation
    /\ \A w \in Workers : worker[w].at = "snapped" =>
           \A p \in worker[w].view :
               p[1] \in wiped => worker[w].gen < settings.generation

Inv == /\ TypeOK /\ WorkersOnJobs /\ Generations /\ ViewsAgree
       /\ EnabledProjects /\ PurgeProgress /\ WipedGone

-----------------------------------------------------------------------------
(***************************************************************************)
(* Lemmas about the operators.                                             *)
(***************************************************************************)

LEMMA JobSequences ==
    ASSUME NEW n \in Nat, NEW s \in [1..n -> Job]
    PROVE  s \in Seq(Job) /\ Len(s) = n /\ DOMAIN s = 1..n
OBVIOUS

LEMMA JobsByRevision ==
    ASSUME TypeOK
    PROVE  /\ revision \in Nat
           /\ DOMAIN jobs = 1..revision
           /\ \A r \in 1..revision : jobs[r] \in Job
BY DEF TypeOK, revision

\* jobs' has the same revisions as jobs, with the same kinds and generations.
JobsKept ==
    /\ jobs' \in Seq(Job)
    /\ Len(jobs') = Len(jobs)
    /\ \A r \in 1..revision : jobs'[r].op = jobs[r].op /\ jobs'[r].gen = jobs[r].gen

\* jobs' has one revision more.
JobsGrow(op, gen) ==
    /\ jobs' \in Seq(Job)
    /\ Len(jobs') = Len(jobs) + 1
    /\ \A r \in 1..revision : jobs'[r].op = jobs[r].op /\ jobs'[r].gen = jobs[r].gen
    /\ jobs'[revision + 1].op = op /\ jobs'[revision + 1].gen = gen

LEMMA BumpGrows ==
    ASSUME TypeOK, NEW op \in {"project", "purge"}, NEW gen \in Nat,
           jobs' = Bumped(op, gen)
    PROVE  JobsGrow(op, gen)
<1>1. \A r \in 1..revision : jobs[r] \in Job
    BY JobsByRevision
<1>2. revision + 1 \in Nat /\ revision \in Nat
    BY JobsByRevision
<1>3. jobs' \in [1..(revision + 1) -> Job]
    BY <1>1, <1>2 DEF Bumped, Job, JobStatuses
<1>4. jobs' \in Seq(Job) /\ Len(jobs') = revision + 1
    BY <1>2, <1>3, JobSequences
<1>5. \A r \in 1..revision : jobs'[r].op = jobs[r].op /\ jobs'[r].gen = jobs[r].gen
    BY <1>1, <1>2 DEF Bumped, Job
<1>6. jobs'[revision + 1].op = op /\ jobs'[revision + 1].gen = gen
    BY <1>2 DEF Bumped
<1> QED BY <1>4, <1>5, <1>6 DEF JobsGrow, revision

LEMMA TakeKeepsJobs ==
    ASSUME TypeOK, NEW w \in Workers, NEW r \in DOMAIN jobs, TakeJob(w, r)
    PROVE  JobsKept
<1>1. \A q \in 1..revision : jobs[q] \in Job
    BY JobsByRevision
<1>2. revision \in Nat /\ DOMAIN jobs = 1..revision
    BY JobsByRevision
<1>3. jobs' \in [1..revision -> Job]
    BY <1>1, <1>2 DEF TakeJob, Job, TypeOK, JobStatuses
<1>4. jobs' \in Seq(Job) /\ Len(jobs') = revision
    BY <1>2, <1>3, JobSequences
<1>5. \A q \in 1..revision : jobs'[q].op = jobs[q].op /\ jobs'[q].gen = jobs[q].gen
    BY <1>1, <1>2 DEF TakeJob, Job, TypeOK
<1> QED BY <1>4, <1>5 DEF JobsKept, revision

LEMMA EndKeepsJobs ==
    ASSUME TypeOK, NEW w \in Workers, NEW status \in JobStatuses,
           JobEnds(w, status)
    PROVE  JobsKept
<1>1. \A q \in 1..revision : jobs[q] \in Job
    BY JobsByRevision
<1>2. revision \in Nat /\ DOMAIN jobs = 1..revision
    BY JobsByRevision
<1>3. jobs' \in [1..revision -> Job]
    BY <1>1, <1>2 DEF JobEnds, Job
<1>4. jobs' \in Seq(Job) /\ Len(jobs') = revision
    BY <1>2, <1>3, JobSequences
<1>5. \A q \in 1..revision : jobs'[q].op = jobs[q].op /\ jobs'[q].gen = jobs[q].gen
    BY <1>1, <1>2 DEF JobEnds, Job
<1> QED BY <1>4, <1>5 DEF JobsKept, revision

LEMMA PurgeKeepsJobs ==
    ASSUME TypeOK, NEW w \in Workers, FinishPurge(w)
    PROVE  JobsKept
<1>1. \A q \in 1..revision : jobs[q] \in Job
    BY JobsByRevision
<1>2. revision \in Nat /\ DOMAIN jobs = 1..revision
    BY JobsByRevision
<1>3. CASE jobs' = jobs
    BY <1>3 DEF JobsKept, TypeOK
<1>4. CASE jobs' = [r \in DOMAIN jobs |->
                        IF jobs[r].gen < worker[w].gen
                           /\ jobs[r].status \in {"pending", "running"}
                        THEN [jobs[r] EXCEPT !.status = "over"]
                        ELSE jobs[r]]
    <2>1. jobs' \in [1..revision -> Job]
        BY <1>1, <1>2, <1>4 DEF Job, JobStatuses
    <2>2. jobs' \in Seq(Job) /\ Len(jobs') = revision
        BY <1>2, <2>1, JobSequences
    <2>3. \A q \in 1..revision :
              jobs'[q].op = jobs[q].op /\ jobs'[q].gen = jobs[q].gen
        BY <1>1, <1>2, <1>4 DEF Job
    <2> QED BY <2>2, <2>3 DEF JobsKept, revision
<1> QED BY <1>3, <1>4 DEF FinishPurge

LEMMA ViewType == TypeOK => View \in Views
BY DEF TypeOK, View, Views, Active

LEMMA ViewSame ==
    ASSUME UNCHANGED <<facts, links, revoked>>
    PROVE  View' = View
BY DEF View, Active

\* finish_purge clears links of deleted facts and revoked sources nobody links
\* to: neither is in the view.
LEMMA PurgeKeepsView ==
    ASSUME TypeOK, NEW w \in Workers, FinishPurge(w)
    PROVE  View' = View
<1>1. facts' = facts /\ Active' = Active
    BY DEF FinishPurge, Active
<1>2. \A f \in Active : links'[f] \ revoked' = links[f] \ revoked
    BY DEF FinishPurge, Active, TypeOK
<1> QED BY <1>1, <1>2 DEF View

-----------------------------------------------------------------------------
(***************************************************************************)
(* Types.                                                                  *)
(***************************************************************************)

LEMMA EmptyView == {} \in Views
BY DEF Views

LEMMA Idle == IdleWorker \in WorkerState /\ IdleReader \in ReaderState
BY EmptyView DEF IdleWorker, WorkerState, IdleReader, ReaderState

LEMMA TypeInit == Init => TypeOK
<1> SUFFICES ASSUME Init PROVE TypeOK
    OBVIOUS
<1>1. /\ facts \in [Facts -> Statuses] /\ links \in [Facts -> SUBSET Sources]
      /\ revoked \in SUBSET Sources
      /\ sweep \in SUBSET Facts /\ wiped \in SUBSET Facts
    BY DEF Init, Statuses
<1>2. settings \in [enabled : BOOLEAN, generation : Nat, purging : BOOLEAN]
    BY DEF Init
<1>3. jobs \in Seq(Job)
    BY DEF Init
<1>4. configured \in BOOLEAN
    BY MemoryConstants DEF Init
<1>5. graph \in [rev : Nat, gen : Nat, view : Views]
    BY EmptyView DEF Init
<1>6. worker \in [Workers -> WorkerState] /\ reader \in ReaderState
    BY Idle DEF Init
<1> QED BY <1>1, <1>2, <1>3, <1>4, <1>5, <1>6 DEF Init, TypeOK

LEMMA BumpType == ASSUME TypeOK, Bump PROVE jobs' \in Seq(Job)
BY BumpGrows DEF Bump, TypeOK, JobsGrow

\* Commands, writers and readers.
LEMMA AuthorityType ==
    ASSUME TypeOK,
           \/ Commands \/ CommitDeleteAll
           \/ Recall \/ CheckRecall \/ ServeRecall \/ Restart,
           UNCHANGED configured
    PROVE  TypeOK'
<1> USE DEF TypeOK, Statuses, processes, authority
<1>1. CASE AuthorizeWrite
    BY <1>1 DEF AuthorizeWrite
<1>2. CASE SaveFact
    <2>1. facts' \in [Facts -> Statuses] /\ links' \in [Facts -> SUBSET Sources]
        <3>1. PICK f \in Unused, ref \in Sources :
                  /\ facts' = [facts EXCEPT ![f] = "active"]
                  /\ links' = [links EXCEPT ![f] = {ref}]
            BY <1>2 DEF SaveFact
        <3> QED BY <3>1
    <2> QED BY <1>2, <2>1, BumpType DEF SaveFact, WriteEnds
<1>3. CASE AddSource
    BY <1>3, BumpType DEF AddSource, WriteEnds
<1>4. CASE ReplaceFact
    <2>1. facts' \in [Facts -> Statuses] /\ links' \in [Facts -> SUBSET Sources]
        <3>1. PICK p \in Active, f \in Unused, ref \in Sources :
                  /\ Unlocked(p)
                  /\ facts' = [facts EXCEPT ![f] = "active", ![p] = "superseded"]
                  /\ links' = [links EXCEPT ![f] = {ref}]
            BY <1>4 DEF ReplaceFact
        <3> QED BY <3>1
    <2> QED BY <1>4, <2>1, BumpType DEF ReplaceFact, WriteEnds
<1>5. CASE AbandonWrite
    BY <1>5 DEF AbandonWrite
<1>6. ASSUME NEW f \in Facts, Forget(f) PROVE TypeOK'
    BY <1>6, BumpType DEF Forget
<1>7. CASE ExpireDue
    BY <1>7, BumpType DEF ExpireDue
<1>8. ASSUME NEW s \in Sources, RevokeSource(s) PROVE TypeOK'
    BY <1>8, BumpType DEF RevokeSource
<1>9. ASSUME NEW on \in BOOLEAN, SetEnabled(on) PROVE TypeOK'
    BY <1>9, BumpType DEF SetEnabled
<1>10. CASE DisableNotPersisted
    BY <1>10 DEF DisableNotPersisted
<1>11. CASE BeginDeleteAll
    BY <1>11 DEF BeginDeleteAll, Active
<1>12. CASE MarkOwnerDeleting \/ FinishOwnerDeletion
    BY <1>12 DEF MarkOwnerDeleting, FinishOwnerDeletion
<1>13. CASE CommitDeleteAll
    <2>1. jobs' \in Seq(Job)
        BY <1>13, BumpGrows DEF CommitDeleteAll, JobsGrow
    <2>2. facts' \in [Facts -> Statuses] /\ wiped' \in SUBSET Facts
        BY <1>13 DEF CommitDeleteAll
    <2>3. settings' \in [enabled : BOOLEAN, generation : Nat, purging : BOOLEAN]
        BY <1>13 DEF CommitDeleteAll
    <2> QED BY <1>13, <2>1, <2>2, <2>3 DEF CommitDeleteAll
<1>14. CASE Recall
    BY <1>14, ViewType, JobsByRevision DEF Recall, ReaderState
<1>15. CASE CheckRecall
    BY <1>15, Idle DEF CheckRecall, ReaderState
<1>16. CASE ServeRecall
    BY <1>16, Idle DEF ServeRecall, ReaderState
<1>17. CASE Restart
    BY <1>17, Idle DEF Restart
<1> QED
    BY <1>1, <1>2, <1>3, <1>4, <1>5, <1>6, <1>7, <1>8, <1>9, <1>10, <1>11,
       <1>12, <1>13, <1>14, <1>15, <1>16, <1>17 DEF Commands

\* Claims and dispatches.
LEMMA WorkerType ==
    ASSUME TypeOK, UNCHANGED configured, NEW w \in Workers,
           (\E r \in DOMAIN jobs : Claim(w, r)) \/ Dispatch(w) \/ Fault(w)
    PROVE  TypeOK'
<1> USE DEF TypeOK, processes, authority
<1>1. ASSUME NEW r \in DOMAIN jobs, TakeJob(w, r), faults' \in Nat
      PROVE  TypeOK'
    <2>1. jobs' \in Seq(Job)
        BY <1>1, TakeKeepsJobs DEF JobsKept
    <2>2. r \in Nat /\ jobs[r].gen \in Nat
        <3>1. r \in 1..revision /\ revision \in Nat /\ jobs[r] \in Job
            BY <1>1, JobsByRevision
        <3> QED BY <3>1 DEF Job
    <2>3. worker' \in [Workers -> WorkerState]
        BY <1>1, <2>2, EmptyView DEF TakeJob, WorkerState
    <2> QED BY <1>1, <2>1, <2>3 DEF TakeJob
<1>2. ASSUME NEW r \in DOMAIN jobs, Claim(w, r) \/ Reclaim(w, r)
      PROVE  TypeOK'
    BY <1>1, <1>2 DEF Claim, Reclaim
<1>3. CASE PurgeGraph(w)
    BY <1>3, EmptyView DEF PurgeGraph, WorkerAt, WorkerState
<1>4. CASE FinishPurge(w)
    <2>1. jobs' \in Seq(Job)
        BY <1>4, PurgeKeepsJobs DEF JobsKept
    <2>2. links' \in [Facts -> SUBSET Sources] /\ revoked' \in SUBSET Sources
        BY <1>4 DEF FinishPurge
    <2>3. settings' \in [enabled : BOOLEAN, generation : Nat, purging : BOOLEAN]
        BY <1>4 DEF FinishPurge
    <2>4. worker' \in [Workers -> WorkerState]
        <3>1. worker' = [worker EXCEPT ![w].at = "closing"]
            BY <1>4 DEF FinishPurge, WorkerAt
        <3> QED BY <3>1 DEF WorkerState
    <2> QED BY <1>4, <2>1, <2>2, <2>3, <2>4 DEF FinishPurge, WorkerAt
<1>5. CASE CheckSettings(w)
    BY <1>5 DEF CheckSettings, WorkerAt, WorkerState
<1>6. CASE TakeSnapshot(w)
    <2>1. PICK at \in {"closing", "snapped"}, view \in Views :
              worker' = [worker EXCEPT ![w].at = at, ![w].view = view]
        BY <1>6, EmptyView, ViewType DEF TakeSnapshot
    <2>2. worker' \in [Workers -> WorkerState]
        BY <2>1 DEF WorkerState
    <2> QED BY <1>6, <2>2 DEF TakeSnapshot
<1>7. CASE ReplaceGraph(w)
    BY <1>7 DEF ReplaceGraph, WorkerAt, WorkerState
<1>8. CASE CloseJob(w)
    <2>1. jobs' \in Seq(Job)
        BY <1>8, EndKeepsJobs DEF CloseJob, JobsKept, JobStatuses
    <2> QED BY <1>8, <2>1, Idle DEF CloseJob
<1>9. CASE GraphDisabled(w) \/ DispatchFails(w)
    <2>1. jobs' \in Seq(Job)
        BY <1>9, EndKeepsJobs
        DEF GraphDisabled, DispatchFails, Retry, JobsKept, JobStatuses
    <2>2. worker' \in [Workers -> WorkerState] /\ faults' \in Nat
        BY <1>9, Idle DEF GraphDisabled, DispatchFails, Retry
    <2> QED BY <1>9, <2>1, <2>2 DEF GraphDisabled, DispatchFails, Retry
<1>10. CASE WorkerCrash(w)
    BY <1>10, Idle DEF WorkerCrash
<1> QED
    BY <1>2, <1>3, <1>4, <1>5, <1>6, <1>7, <1>8, <1>9, <1>10
    DEF Dispatch, Fault

LEMMA TypeStep == TypeOK /\ [Next]_vars => TypeOK'
<1>1. ASSUME TypeOK, Next PROVE TypeOK'
    BY <1>1, AuthorityType, WorkerType DEF Next, Step
<1>2. ASSUME TypeOK, UNCHANGED vars PROVE TypeOK'
    BY <1>2 DEF TypeOK, vars, authority, processes
<1> QED BY <1>1, <1>2

\* Every reachable state is well typed: every revision's job keeps a status
\* that claim_jobs and retry_job understand, whatever fails or is retried.
THEOREM TypeCorrect == Spec => []TypeOK
BY TypeInit, TypeStep, PTL DEF Spec

-----------------------------------------------------------------------------
(***************************************************************************)
(* The inductive invariant.  Every action falls under one of a few shapes: *)
(* it adds a revision, it changes one worker, or it changes the reader.    *)
(***************************************************************************)

LEMMA GenerationOrder ==
    ASSUME Inv
    PROVE  /\ \A r \in 0..revision : GenAt(r) \in Nat /\ GenAt(r) <= settings.generation
           /\ \A q, r \in 0..revision : q <= r => GenAt(q) <= GenAt(r)
           /\ \A w \in Workers : worker[w].at # "idle" =>
                  /\ worker[w].job \in 0..revision
                  /\ worker[w].gen = GenAt(worker[w].job)
           /\ revision \in Nat /\ settings.generation \in Nat
           /\ graph.rev \in 0..revision /\ graph.gen = GenAt(graph.rev)
<1>1. revision \in Nat /\ \A r \in 1..revision : jobs[r] \in Job
    BY JobsByRevision DEF Inv
<1>2. \A r \in 0..revision : GenAt(r) \in Nat
    BY <1>1 DEF GenAt, Job
<1>3. \A q, r \in 0..revision : q <= r => GenAt(q) <= GenAt(r)
    <2> SUFFICES ASSUME NEW q \in 0..revision, NEW r \in 0..revision, q <= r
                 PROVE  GenAt(q) <= GenAt(r)
        OBVIOUS
    <2>1. CASE q = 0
        BY <1>2, <2>1 DEF GenAt
    <2>2. CASE q # 0
        BY <1>1, <2>2 DEF GenAt, Inv, Generations
    <2> QED BY <2>1, <2>2
<1>4. \A r \in 0..revision : GenAt(r) <= settings.generation
    BY <1>1, <1>3 DEF Inv, Generations
<1>5. settings.generation \in Nat
    BY DEF Inv, TypeOK
<1>6. \A w \in Workers : worker[w].at # "idle" =>
          worker[w].job \in 0..revision /\ worker[w].gen = GenAt(worker[w].job)
    BY <1>1 DEF Inv, WorkersOnJobs, GenAt
<1> QED BY <1>1, <1>2, <1>3, <1>4, <1>5, <1>6 DEF Inv, Generations

\* A step that adds a revision and no view of it.
LEMMA RevisionAdded ==
    ASSUME Inv, TypeOK', NEW op \in {"project", "purge"},
           JobsGrow(op, settings'.generation),
           settings'.generation \in {settings.generation, settings.generation + 1},
           UNCHANGED <<graph, worker, reader>>,
           settings'.enabled => op = "project" /\ ~settings'.purging,
           \/ settings'.purging
           \/ settings'.generation = settings.generation /\ ~settings.purging,
           \A f \in wiped' : facts'[f] = "deleted",
           wiped' = wiped \/ settings'.generation = settings.generation + 1
    PROVE  Inv'
<1>1. revision \in Nat /\ revision' = revision + 1
    BY JobsByRevision DEF Inv, JobsGrow, revision
<1>2. \A r \in 0..revision : Op(r)' = Op(r) /\ GenAt(r)' = GenAt(r)
    BY <1>1 DEF Op, GenAt, JobsGrow
<1>3. Op(revision)' = op /\ (GenAt(revision) = settings.generation)'
    BY <1>1 DEF Op, GenAt, JobsGrow
<1>4. settings.generation \in Nat /\ settings'.generation \in Nat
    BY DEF Inv, TypeOK
<1>5. WorkersOnJobs'
    BY <1>1 DEF Inv, WorkersOnJobs, JobsGrow
<1>6. Generations'
    <2>1. \A q, r \in 1..(revision + 1) : q <= r => jobs'[q].gen <= jobs'[r].gen
        <3> SUFFICES ASSUME NEW q \in 1..(revision + 1),
                            NEW r \in 1..(revision + 1), q <= r
                     PROVE  jobs'[q].gen <= jobs'[r].gen
            OBVIOUS
        <3>1. CASE r = revision + 1 /\ q = revision + 1
            BY <3>1, <1>4 DEF JobsGrow
        <3>2. CASE r = revision + 1 /\ q \in 1..revision
            <4>1. jobs[q].gen <= settings.generation /\ jobs[q].gen \in Nat
                BY <1>1, <3>2, GenerationOrder DEF GenAt
            <4> QED BY <3>2, <4>1, <1>4 DEF JobsGrow
        <3>3. CASE r \in 1..revision /\ q \in 1..revision
            BY <3>3 DEF Inv, Generations, JobsGrow
        <3> QED BY <1>1, <3>1, <3>2, <3>3
    <2>2. (GenAt(revision) = settings.generation)'
        BY <1>3
    <2>3. (graph.rev \in 0..revision /\ graph.gen = GenAt(graph.rev))'
        BY <1>1, <1>2, GenerationOrder DEF GenAt
    <2>4. (Reading => reader.rev \in 0..revision /\ reader.gen = GenAt(reader.rev))'
        BY <1>1, <1>2 DEF Inv, Generations, Reading, GenAt
    <2> QED BY <1>1, <2>1, <2>2, <2>3, <2>4 DEF Generations
<1>7. ViewsAgree'
    <2>1. \A w \in Workers : worker[w].at = "snapped" => worker[w].job # revision'
        BY <1>1 DEF Inv, WorkersOnJobs
    <2>2. graph.rev # revision' /\ graph.rev \in 0..revision
        BY <1>1 DEF Inv, Generations
    <2>3. Reading => /\ reader.rev # revision' /\ reader.rev \in 0..revision
                     /\ (Op(reader.rev) = "project")'
        <3>1. Reading => reader.rev # revision' /\ reader.rev \in 0..revision
            BY <1>1 DEF Inv, Generations
        <3>2. Reading => Op(reader.rev) = "project"
            BY DEF Inv, ViewsAgree
        <3> QED BY <1>2, <3>1, <3>2 DEF Op, GenAt
    <2> QED BY <2>1, <2>2, <2>3 DEF Inv, ViewsAgree, Reading
<1>8. EnabledProjects'
    <2>1. Reading => reader.rev # revision'
        BY <1>1 DEF Inv, Generations
    <2> QED BY <1>3, <2>1 DEF EnabledProjects, Reading
<1>9. PurgeProgress'
    BY DEF Inv, PurgeProgress
<1>10. WipedGone'
    <2>1. graph.gen \in Nat /\ graph.gen <= settings.generation
        BY GenerationOrder
    <2>2. \A w \in Workers : worker[w].at = "snapped" =>
              worker[w].gen \in Nat /\ worker[w].gen <= settings.generation
        BY GenerationOrder
    <2>3. CASE wiped' = wiped
        BY <1>4, <2>1, <2>2, <2>3 DEF Inv, WipedGone
    <2>4. CASE settings'.generation = settings.generation + 1
        BY <1>4, <2>1, <2>2, <2>4 DEF WipedGone
    <2> QED BY <2>3, <2>4
<1> QED BY <1>5, <1>6, <1>7, <1>8, <1>9, <1>10 DEF Inv

LEMMA RevisionsKept ==
    ASSUME Inv, JobsKept
    PROVE  /\ revision' = revision /\ revision \in Nat
           /\ \A r \in 0..revision : Op(r)' = Op(r) /\ GenAt(r)' = GenAt(r)
<1>1. revision \in Nat /\ revision' = revision
    BY JobsByRevision DEF Inv, JobsKept, revision
<1> QED BY <1>1 DEF JobsKept, Op, GenAt

\* A step of one dispatch that leaves the graph alone.
LEMMA DispatchMoves ==
    ASSUME Inv, TypeOK', JobsKept, View' = View, NEW w \in Workers,
           UNCHANGED <<facts, wiped, graph, reader>>,
           settings'.enabled = settings.enabled,
           settings'.generation = settings.generation,
           \/ settings'.purging = settings.purging
           \/ ~settings'.purging /\ graph.gen = settings.generation,
           \A v \in Workers \ {w} : worker'[v] = worker[v],
           worker'[w].at # "idle" =>
               /\ worker'[w].job \in 1..revision
               /\ worker'[w].gen = jobs[worker'[w].job].gen,
           worker'[w].at \in {"allowed", "snapped"} =>
               jobs[worker'[w].job].op = "project",
           worker'[w].at = "purged" =>
               /\ jobs[worker'[w].job].op = "purge"
               /\ graph.rev >= worker'[w].job,
           worker'[w].at = "snapped" =>
               worker'[w].job = revision /\ worker'[w].view = View
    PROVE  Inv'
<1>1. revision' = revision /\ revision \in Nat
    BY RevisionsKept
<1>2. \A r \in 0..revision : Op(r)' = Op(r) /\ GenAt(r)' = GenAt(r)
    BY RevisionsKept
<1>3. \A r \in 1..revision : jobs'[r].op = jobs[r].op /\ jobs'[r].gen = jobs[r].gen
    BY DEF JobsKept
<1>4. WorkersOnJobs'
    BY <1>1, <1>3 DEF Inv, WorkersOnJobs
<1>5. Generations'
    <2>1. \A q, r \in 1..revision : q <= r => jobs'[q].gen <= jobs'[r].gen
        BY <1>3 DEF Inv, Generations
    <2>2. (GenAt(revision) = settings.generation)'
        BY <1>1, <1>2 DEF Inv, Generations, GenAt
    <2>3. (graph.rev \in 0..revision /\ graph.gen = GenAt(graph.rev))'
        BY <1>1, <1>2 DEF Inv, Generations, GenAt
    <2>4. (Reading => reader.rev \in 0..revision /\ reader.gen = GenAt(reader.rev))'
        BY <1>1, <1>2 DEF Inv, Generations, Reading, GenAt
    <2> QED BY <1>1, <2>1, <2>2, <2>3, <2>4 DEF Generations
<1>6. ViewsAgree'
    <2>1. ASSUME NEW v \in Workers, worker'[v].at = "snapped"
          PROVE  /\ worker'[v].job = revision => worker'[v].view = View
                 /\ Reading /\ reader.rev = worker'[v].job =>
                        reader.view = worker'[v].view
        BY <2>1 DEF Inv, ViewsAgree
    <2>2. ASSUME NEW u \in Workers, NEW v \in Workers,
                 worker'[u].at = "snapped", worker'[v].at = "snapped",
                 worker'[v].job = worker'[u].job
          PROVE  worker'[v].view = worker'[u].view
        <3>1. CASE u = w \/ v = w
            BY <2>1, <2>2, <3>1
        <3>2. CASE u # w /\ v # w
            BY <2>2, <3>2 DEF Inv, ViewsAgree
        <3> QED BY <3>1, <3>2
    <2>3. (Op(graph.rev) = "project" /\ graph.rev = revision => graph.view = View)'
        <3>1. graph.rev \in 0..revision
            BY DEF Inv, Generations
        <3>2. Op(graph.rev)' = Op(graph.rev)
            BY <1>2, <3>1 DEF Op, GenAt
        <3> QED BY <1>1, <3>2 DEF Inv, ViewsAgree
    <2>4. Reading => (Op(reader.rev) = "project")'
        <3>1. Reading => reader.rev \in 0..revision /\ Op(reader.rev) = "project"
            BY DEF Inv, Generations, ViewsAgree
        <3> QED BY <1>2, <3>1 DEF Op, GenAt
    <2>5. Reading' = Reading
        BY DEF Reading
    <2> QED BY <1>1, <2>1, <2>2, <2>3, <2>4, <2>5 DEF Inv, ViewsAgree
<1>7. EnabledProjects'
    <2>1. Op(revision)' = Op(revision) /\ Reading' = Reading
        BY <1>1, <1>2 DEF Op, GenAt, Reading
    <2> QED BY <1>1, <2>1 DEF Inv, EnabledProjects
<1>8. PurgeProgress'
    BY DEF Inv, PurgeProgress
<1>9. WipedGone'
    <2>1. ASSUME worker'[w].at = "snapped"
          PROVE  \A p \in worker'[w].view : p[1] \notin wiped
        BY <2>1 DEF Inv, WipedGone, View, Active
    <2> QED BY <2>1 DEF Inv, WipedGone
<1> QED BY <1>4, <1>5, <1>6, <1>7, <1>8, <1>9 DEF Inv

\* A step of the reader, or one that touches nothing the invariant is about.
LEMMA ReaderMoves ==
    ASSUME Inv, TypeOK',
           UNCHANGED <<facts, settings, jobs, wiped, graph, worker>>,
           View' = View,
           Reading' => \/ /\ reader'.rev = revision
                          /\ reader'.gen = settings.generation
                          /\ reader'.view = View
                          /\ settings.enabled
                       \/ /\ Reading
                          /\ reader'.rev = reader.rev
                          /\ reader'.gen = reader.gen
                          /\ reader'.view = reader.view
    PROVE  Inv'
<1>1. revision' = revision /\ revision \in Nat
    BY JobsByRevision DEF Inv, revision
<1>2. WorkersOnJobs'
    BY <1>1 DEF Inv, WorkersOnJobs
<1>3. Reading' => (reader.rev \in 0..revision /\ reader.gen = GenAt(reader.rev))'
    BY <1>1 DEF Inv, Generations, GenAt
<1>4. Generations'
    BY <1>1, <1>3 DEF Inv, Generations, GenAt
<1>5. Reading' => (Op(reader.rev) = "project")'
    BY <1>1 DEF Inv, ViewsAgree, EnabledProjects, Op
<1>6. Reading' => /\ reader'.rev = revision => reader'.view = View
                  /\ reader'.rev = graph.rev => reader'.view = graph.view
    BY DEF Inv, ViewsAgree, EnabledProjects
<1>7. \A w \in Workers : worker[w].at = "snapped" =>
          (Reading' /\ reader'.rev = worker[w].job => reader'.view = worker[w].view)
    BY DEF Inv, ViewsAgree
<1>8. ViewsAgree'
    BY <1>1, <1>5, <1>6, <1>7 DEF Inv, ViewsAgree, Op
<1>9. EnabledProjects'
    BY <1>1 DEF Inv, EnabledProjects, Op
<1>10. PurgeProgress' /\ WipedGone'
    BY DEF Inv, PurgeProgress, WipedGone
<1> QED BY <1>2, <1>4, <1>8, <1>9, <1>10 DEF Inv

\* A step of one dispatch that gives the graph a newer revision, or leaves it.
LEMMA GraphMoves ==
    ASSUME Inv, TypeOK', NEW w \in Workers, worker[w].at # "idle",
           UNCHANGED <<facts, links, revoked, settings, jobs, wiped, reader>>,
           \/ graph' = graph
           \/ /\ graph'.rev = worker[w].job /\ graph'.gen = worker[w].gen
              /\ graph'.rev > graph.rev
              /\ \/ graph'.view = {} /\ jobs[worker[w].job].op = "purge"
                 \/ graph'.view = worker[w].view /\ worker[w].at = "snapped",
           \A v \in Workers \ {w} : worker'[v] = worker[v],
           worker'[w] = [worker[w] EXCEPT !.at = worker'[w].at],
           \/ worker'[w].at = "closing"
           \/ /\ worker'[w].at = "purged" /\ jobs[worker[w].job].op = "purge"
              /\ graph'.rev >= worker[w].job
    PROVE  Inv'
<1>1. revision' = revision /\ revision \in Nat /\ View' = View /\ Reading' = Reading
    BY ViewSame, JobsByRevision DEF Inv, revision, Reading
<1>2. worker'[w].job = worker[w].job /\ worker'[w].gen = worker[w].gen
    BY DEF Inv, TypeOK, WorkerState
<1>3. worker[w].job \in 1..revision /\ worker[w].gen = jobs[worker[w].job].gen
    BY DEF Inv, WorkersOnJobs
<1>4. WorkersOnJobs'
    BY <1>1, <1>2, <1>3 DEF Inv, WorkersOnJobs
<1>5. Generations'
    <2>1. (graph.rev \in 0..revision /\ graph.gen = GenAt(graph.rev))'
        BY <1>1, <1>3 DEF Inv, Generations, GenAt
    <2> QED BY <1>1, <2>1 DEF Inv, Generations, GenAt
<1>6. ViewsAgree'
    <2>1. \A v \in Workers : worker'[v].at = "snapped" => v # w
        OBVIOUS
    <2>2. (Op(graph.rev) = "project" /\ graph.rev = revision => graph.view = View)'
        BY <1>1, <1>3 DEF Inv, ViewsAgree, Op
    <2>3. Reading => /\ Op(reader.rev) = "project"
                     /\ reader.rev = graph'.rev => reader.view = graph'.view
        <3>1. Reading => Op(reader.rev) = "project"
            BY DEF Inv, ViewsAgree
        <3>2. CASE graph' = graph
            BY <3>1, <3>2 DEF Inv, ViewsAgree
        <3>3. CASE graph'.rev = worker[w].job /\ jobs[worker[w].job].op = "purge"
            BY <1>3, <3>1, <3>3 DEF Op
        <3>4. CASE /\ graph'.rev = worker[w].job
                   /\ graph'.view = worker[w].view /\ worker[w].at = "snapped"
            BY <3>1, <3>4 DEF Inv, ViewsAgree
        <3> QED BY <3>2, <3>3, <3>4
    <2>4. Reading => (Op(reader.rev) = "project")'
        BY <2>3 DEF Op
    <2> QED BY <1>1, <2>1, <2>2, <2>3, <2>4 DEF Inv, ViewsAgree
<1>7. EnabledProjects'
    BY <1>1 DEF Inv, EnabledProjects, Op
<1>8. PurgeProgress'
    <2>1. graph.rev \in Nat /\ graph'.rev \in Nat /\ graph'.rev >= graph.rev
        BY DEF Inv, TypeOK
    <2>2. ~settings.purging => graph'.gen = settings.generation
        <3>1. CASE graph' = graph
            BY <3>1 DEF Inv, PurgeProgress
        <3>2. CASE /\ graph'.rev = worker[w].job /\ graph'.gen = worker[w].gen
                   /\ graph'.rev > graph.rev
            <4>1. /\ worker[w].gen = GenAt(worker[w].job)
                  /\ worker[w].job \in 0..revision /\ graph.rev \in 0..revision
                  /\ graph.gen = GenAt(graph.rev)
                BY GenerationOrder
            <4>2. graph.gen <= worker[w].gen /\ worker[w].gen <= settings.generation
                BY <1>1, <3>2, <4>1, GenerationOrder
            <4>3. /\ worker[w].gen \in Nat /\ settings.generation \in Nat
                  /\ graph.gen \in Nat
                BY DEF Inv, TypeOK, WorkerState
            <4> QED BY <3>2, <4>2, <4>3 DEF Inv, PurgeProgress
        <3> QED BY <3>1, <3>2
    <2>3. \A v \in Workers : worker'[v].at = "purged" => graph'.rev >= worker'[v].job
        <3> SUFFICES ASSUME NEW v \in Workers, worker'[v].at = "purged"
                     PROVE  graph'.rev >= worker'[v].job
            OBVIOUS
        <3>1. CASE v = w
            BY <1>2, <3>1
        <3>2. CASE v # w
            <4>1. graph.rev >= worker[v].job /\ worker[v].job \in Nat
                BY <3>2 DEF Inv, PurgeProgress, TypeOK, WorkerState
            <4> QED BY <2>1, <3>2, <4>1
        <3> QED BY <3>1, <3>2
    <2> QED BY <2>2, <2>3 DEF PurgeProgress
<1>9. WipedGone'
    BY DEF Inv, WipedGone
<1> QED BY <1>4, <1>5, <1>6, <1>7, <1>8, <1>9 DEF Inv

LEMMA InvInit == Init => Inv
<1> SUFFICES ASSUME Init PROVE Inv
    OBVIOUS
<1>1. TypeOK
    BY TypeInit
<1>2. revision = 0 /\ View = {} /\ ~Reading
    BY DEF Init, revision, View, Active, Reading, IdleReader
<1>3. \A w \in Workers : worker[w].at = "idle"
    BY DEF Init, IdleWorker
<1> QED BY <1>1, <1>2, <1>3
    DEF Init, Inv, WorkersOnJobs, Generations, ViewsAgree, EnabledProjects,
        PurgeProgress, WipedGone, Op, GenAt

\* A Bump and what else it may come with.
LEMMA ProjectAdded ==
    ASSUME Inv, TypeOK', Bump,
           UNCHANGED <<graph, worker, reader, wiped>>,
           settings'.generation = settings.generation,
           settings'.purging = settings.purging,
           settings'.enabled => ~settings'.purging,
           \A f \in Facts : facts[f] = "deleted" => facts'[f] = "deleted"
    PROVE  Inv'
<1>1. JobsGrow("project", settings'.generation)
    BY BumpGrows DEF Inv, TypeOK, Bump
<1>2. \A f \in wiped' : facts'[f] = "deleted"
    BY DEF Inv, WipedGone, TypeOK
<1>3. settings.purging \in BOOLEAN
    BY DEF Inv, TypeOK
<1> QED BY <1>1, <1>2, <1>3, RevisionAdded DEF Inv, TypeOK

LEMMA InvAuthority ==
    ASSUME Inv, TypeOK',
           \/ Commands \/ CommitDeleteAll
           \/ Recall \/ CheckRecall \/ ServeRecall \/ Restart
    PROVE  Inv'
<1> USE DEF processes, authority
<1>0. /\ settings.enabled => ~settings.purging
      /\ facts \in [Facts -> Statuses]
      /\ settings \in [enabled : BOOLEAN, generation : Nat, purging : BOOLEAN]
    BY DEF Inv, EnabledProjects, TypeOK
<1>1. CASE AuthorizeWrite \/ AbandonWrite \/ DisableNotPersisted
    BY <1>1, ReaderMoves, ViewSame
    DEF AuthorizeWrite, AbandonWrite, DisableNotPersisted, Reading
<1>2. CASE BeginDeleteAll \/ MarkOwnerDeleting \/ FinishOwnerDeletion
    BY <1>2, ReaderMoves, ViewSame
    DEF BeginDeleteAll, MarkOwnerDeleting, FinishOwnerDeletion, Reading
<1>3. CASE SaveFact
    <2>1. \A f \in Facts : facts[f] = "deleted" => facts'[f] = "deleted"
        BY <1>0, <1>3 DEF SaveFact, Unused
    <2> QED BY <1>0, <1>3, <2>1, ProjectAdded DEF SaveFact
<1>4. CASE AddSource
    BY <1>0, <1>4, ProjectAdded DEF AddSource
<1>5. CASE ReplaceFact
    <2>1. \A f \in Facts : facts[f] = "deleted" => facts'[f] = "deleted"
        BY <1>0, <1>5 DEF ReplaceFact, Unused, Active
    <2> QED BY <1>0, <1>5, <2>1, ProjectAdded DEF ReplaceFact
<1>6. ASSUME NEW f \in Facts, Forget(f) PROVE Inv'
    BY <1>0, <1>6, ProjectAdded DEF Forget
<1>7. CASE ExpireDue
    <2>1. \A f \in Facts : facts[f] = "deleted" => facts'[f] = "deleted"
        BY <1>0, <1>7 DEF ExpireDue
    <2> QED BY <1>0, <1>7, <2>1, ProjectAdded DEF ExpireDue
<1>8. ASSUME NEW s \in Sources, RevokeSource(s) PROVE Inv'
    <2>1. \A f \in Facts : facts[f] = "deleted" => facts'[f] = "deleted"
        BY <1>0, <1>8 DEF RevokeSource
    <2>2. CASE Bump
        BY <1>0, <1>8, <2>1, <2>2, ProjectAdded DEF RevokeSource
    <2>3. CASE UNCHANGED jobs /\ \A f \in Active : s \notin links[f]
        <3>1. facts' = facts
            BY <1>0, <1>8, <2>3 DEF RevokeSource
        <3>2. \A f \in Active : links'[f] \ revoked' = links[f] \ revoked
            BY <1>8, <2>3 DEF RevokeSource
        <3>3. View' = View
            BY <3>1, <3>2 DEF View, Active
        <3> QED BY <1>8, <2>3, <3>1, <3>3, ReaderMoves DEF RevokeSource, Reading
    <2> QED BY <1>8, <2>2, <2>3 DEF RevokeSource
<1>9. ASSUME NEW on \in BOOLEAN, SetEnabled(on) PROVE Inv'
    <2>1. /\ settings'.generation = settings.generation
          /\ settings'.purging = settings.purging
          /\ settings'.enabled => ~settings'.purging
        BY <1>0, <1>9 DEF SetEnabled
    <2>2. CASE Bump
        BY <1>9, <2>1, <2>2, ProjectAdded DEF SetEnabled
    <2>3. CASE settings.enabled = on /\ UNCHANGED jobs
        <3>1. settings' = settings
            BY <1>0, <1>9, <2>3 DEF SetEnabled
        <3> QED BY <1>9, <2>3, <3>1, ReaderMoves, ViewSame DEF SetEnabled, Reading
    <2> QED BY <1>9, <2>2, <2>3 DEF SetEnabled
<1>10. CASE CommitDeleteAll
    <2>1. /\ settings'.generation = settings.generation + 1
          /\ settings'.purging /\ ~settings'.enabled
        BY <1>10 DEF CommitDeleteAll
    <2>2. JobsGrow("purge", settings'.generation)
        BY <1>0, <1>10, <2>1, BumpGrows DEF CommitDeleteAll, Inv
    <2>3. \A f \in wiped' : facts'[f] = "deleted"
        BY <1>10 DEF CommitDeleteAll, Inv, WipedGone, TypeOK
    <2> QED BY <1>10, <2>1, <2>2, <2>3, RevisionAdded DEF CommitDeleteAll
<1>11. CASE Recall
    BY <1>11, ReaderMoves, ViewSame DEF Recall
<1>12. CASE CheckRecall \/ ServeRecall \/ Restart
    <2>1. Reading' => /\ Reading /\ reader'.rev = reader.rev
                      /\ reader'.gen = reader.gen /\ reader'.view = reader.view
        BY <1>12
        DEF CheckRecall, ServeRecall, Restart, Reading, IdleReader, Inv,
            TypeOK, ReaderState
    <2> QED BY <1>12, <2>1, ReaderMoves, ViewSame
        DEF CheckRecall, ServeRecall, Restart
<1> QED
    BY <1>1, <1>2, <1>3, <1>4, <1>5, <1>6, <1>7, <1>8, <1>9, <1>10, <1>11,
       <1>12 DEF Commands

LEMMA InvWorker ==
    ASSUME Inv, TypeOK', NEW w \in Workers,
           (\E r \in DOMAIN jobs : Claim(w, r)) \/ Dispatch(w) \/ Fault(w)
    PROVE  Inv'
<1> USE DEF processes, authority
<1>0. /\ worker \in [Workers -> WorkerState]
      /\ settings \in [enabled : BOOLEAN, generation : Nat, purging : BOOLEAN]
      /\ graph \in [rev : Nat, gen : Nat, view : Views]
    BY DEF Inv, TypeOK
<1>1. worker[w].at # "idle" =>
          /\ worker[w].job \in 1..revision
          /\ worker[w].gen = jobs[worker[w].job].gen
          /\ worker[w].at \in {"allowed", "snapped"} =>
                 jobs[worker[w].job].op = "project"
          /\ worker[w].at = "purged" => jobs[worker[w].job].op = "purge"
    BY DEF Inv, WorkersOnJobs
<1>2. ASSUME NEW r \in DOMAIN jobs, Claim(w, r) \/ Reclaim(w, r) PROVE Inv'
    <2>1. TakeJob(w, r)
        BY <1>2 DEF Claim, Reclaim
    <2>2. JobsKept
        BY <2>1, TakeKeepsJobs DEF Inv
    <2>3. r \in 1..revision
        BY JobsByRevision DEF Inv
    <2>4. worker'[w] = [at |-> "claimed", job |-> r, gen |-> jobs[r].gen,
                        view |-> {}]
        BY <1>0, <2>1 DEF TakeJob
    <2>5. \A v \in Workers \ {w} : worker'[v] = worker[v]
        BY <1>0, <2>1 DEF TakeJob
    <2>6. View' = View
        BY <2>1, ViewSame DEF TakeJob
    <2> QED BY <2>1, <2>2, <2>3, <2>4, <2>5, <2>6, DispatchMoves DEF TakeJob
\* The worker goes idle and its job is ended, put back, or left as it is.
<1>3. ASSUME worker' = [worker EXCEPT ![w] = IdleWorker], JobsKept,
             UNCHANGED <<facts, links, revoked, settings, wiped, graph, reader>>
      PROVE  Inv'
    <2>1. worker'[w].at = "idle"
        BY <1>0, <1>3 DEF IdleWorker
    <2>2. \A v \in Workers \ {w} : worker'[v] = worker[v]
        BY <1>0, <1>3
    <2>3. View' = View
        BY <1>3, ViewSame
    <2> QED BY <1>3, <2>1, <2>2, <2>3, DispatchMoves
<1>4. CASE CloseJob(w)
    <2>1. JobsKept
        BY <1>4, EndKeepsJobs DEF CloseJob, JobStatuses, Inv
    <2> QED BY <1>3, <1>4, <2>1 DEF CloseJob
<1>5. CASE GraphDisabled(w) \/ DispatchFails(w)
    <2>1. Retry(w)
        BY <1>5 DEF GraphDisabled, DispatchFails
    <2>2. JobsKept
        BY <2>1, EndKeepsJobs DEF Retry, JobStatuses, Inv
    <2> QED BY <1>3, <2>1, <2>2 DEF Retry
<1>6. CASE WorkerCrash(w)
    <2>1. JobsKept
        BY <1>6 DEF WorkerCrash, JobsKept, Inv, TypeOK
    <2> QED BY <1>3, <1>6, <2>1 DEF WorkerCrash
<1>7. CASE CheckSettings(w)
    <2>1. PICK at \in {"allowed", "closing"} :
              worker' = [worker EXCEPT ![w].at = at]
        BY <1>7 DEF CheckSettings, WorkerAt
    <2>2. /\ worker'[w].at = at /\ worker'[w].job = worker[w].job
          /\ worker'[w].gen = worker[w].gen
        BY <1>0, <2>1 DEF WorkerState
    <2>3. \A v \in Workers \ {w} : worker'[v] = worker[v]
        BY <1>0, <2>1
    <2>4. JobsKept /\ View' = View
        BY <1>7, ViewSame DEF CheckSettings, JobsKept, Inv, TypeOK
    <2> QED BY <1>1, <1>7, <2>2, <2>3, <2>4, DispatchMoves
        DEF CheckSettings, WorkerAt
<1>8. CASE TakeSnapshot(w)
    <2>1. /\ worker[w].at = "allowed"
          /\ \A v \in Workers \ {w} : worker'[v] = worker[v]
          /\ worker'[w].job = worker[w].job /\ worker'[w].gen = worker[w].gen
        BY <1>0, <1>8 DEF TakeSnapshot, WorkerState
    <2>2. \/ worker'[w].at = "closing"
          \/ /\ worker'[w].at = "snapped" /\ worker'[w].view = View
             /\ ~(revision > worker[w].job)
        BY <1>0, <1>8 DEF TakeSnapshot, WorkerState
    <2>3. JobsKept /\ View' = View
        BY <1>8, ViewSame DEF TakeSnapshot, JobsKept, Inv, TypeOK
    <2>4. revision \in Nat
        BY JobsByRevision DEF Inv
    <2>5. worker'[w].at = "snapped" => worker'[w].job = revision
        BY <1>1, <2>1, <2>2, <2>4
    <2> QED BY <1>1, <1>8, <2>1, <2>2, <2>3, <2>5, DispatchMoves DEF TakeSnapshot
<1>9. CASE FinishPurge(w)
    <2>1. worker[w].at = "purged" /\ worker' = [worker EXCEPT ![w].at = "closing"]
        BY <1>9 DEF FinishPurge, WorkerAt
    <2>2. /\ worker'[w].at = "closing" /\ worker'[w].job = worker[w].job
          /\ worker'[w].gen = worker[w].gen
          /\ \A v \in Workers \ {w} : worker'[v] = worker[v]
        BY <1>0, <2>1 DEF WorkerState
    <2>3. graph.gen >= worker[w].gen /\ graph.gen <= settings.generation
        <3>1. /\ worker[w].job \in 0..revision /\ worker[w].gen = GenAt(worker[w].job)
              /\ graph.rev \in 0..revision /\ graph.gen = GenAt(graph.rev)
            BY <2>1, GenerationOrder
        <3>2. worker[w].job <= graph.rev
            BY <1>0, <2>1 DEF Inv, PurgeProgress, WorkerState
        <3>3. GenAt(worker[w].job) <= GenAt(graph.rev)
            BY <3>1, <3>2, GenerationOrder
        <3> QED BY <1>0, <3>1, <3>3, GenerationOrder DEF WorkerState
    <2>4. /\ settings'.enabled = settings.enabled
          /\ settings'.generation = settings.generation
          /\ \/ settings' = settings
             \/ ~settings'.purging /\ settings.generation = worker[w].gen
        BY <1>0, <1>9 DEF FinishPurge
    <2>5. settings.generation = worker[w].gen => graph.gen = settings.generation
        BY <1>0, <2>3 DEF WorkerState
    <2>6. JobsKept /\ View' = View
        BY <1>9, PurgeKeepsJobs, PurgeKeepsView DEF Inv
    <2>7. UNCHANGED <<facts, wiped, graph, reader>>
        BY <1>9 DEF FinishPurge, WorkerAt
    <2> QED BY <1>1, <2>1, <2>2, <2>4, <2>5, <2>6, <2>7, DispatchMoves
<1>10. CASE PurgeGraph(w)
    <2>1. /\ worker[w].at = "claimed" /\ jobs[worker[w].job].op = "purge"
          /\ worker' = [worker EXCEPT ![w].at = "purged"]
        BY <1>10 DEF PurgeGraph, WorkerAt
    <2>2. /\ worker'[w] = [worker[w] EXCEPT !.at = "purged"]
          /\ worker'[w].at = "purged"
          /\ \A v \in Workers \ {w} : worker'[v] = worker[v]
        BY <1>0, <2>1 DEF WorkerState
    <2>3. /\ worker[w].job \in Nat /\ worker[w].gen \in Nat
          /\ graph.rev \in Nat /\ graph.gen \in Nat
        BY <1>0 DEF WorkerState
    <2>4. worker[w].gen < graph.gen => worker[w].job < graph.rev
        <3>1. /\ worker[w].job \in 0..revision /\ worker[w].gen = GenAt(worker[w].job)
              /\ graph.rev \in 0..revision /\ graph.gen = GenAt(graph.rev)
            BY <2>1, GenerationOrder
        <3>2. graph.rev <= worker[w].job => GenAt(graph.rev) <= GenAt(worker[w].job)
            BY <3>1, GenerationOrder
        <3> QED BY <2>3, <3>1, <3>2
    <2>5. worker[w].job = graph.rev => worker[w].gen = graph.gen
        BY <2>1, GenerationOrder
    <2>6. \/ graph' = graph /\ graph.rev >= worker[w].job
          \/ /\ graph'.rev = worker[w].job /\ graph'.gen = worker[w].gen
             /\ graph'.view = {} /\ graph'.rev > graph.rev
        BY <1>10, <2>3, <2>4, <2>5 DEF PurgeGraph
    <2> QED BY <1>10, <2>1, <2>2, <2>3, <2>6, GraphMoves DEF PurgeGraph, WorkerAt
<1>11. CASE ReplaceGraph(w)
    <2>1. /\ worker[w].at = "snapped"
          /\ worker' = [worker EXCEPT ![w].at = "closing"]
        BY <1>11 DEF ReplaceGraph, WorkerAt
    <2>2. /\ worker'[w] = [worker[w] EXCEPT !.at = "closing"]
          /\ worker'[w].at = "closing"
          /\ \A v \in Workers \ {w} : worker'[v] = worker[v]
        BY <1>0, <2>1 DEF WorkerState
    <2>3. worker[w].job \in Nat /\ graph.rev \in Nat
        BY <1>0 DEF WorkerState
    <2>4. worker[w].job = graph.rev => worker[w].gen = graph.gen
        BY <2>1, GenerationOrder
    <2>5. \/ graph' = graph
          \/ /\ graph'.rev = worker[w].job /\ graph'.gen = worker[w].gen
             /\ graph'.view = worker[w].view /\ graph'.rev > graph.rev
        BY <1>11, <2>3, <2>4 DEF ReplaceGraph
    <2> QED BY <1>11, <2>1, <2>2, <2>5, GraphMoves DEF ReplaceGraph, WorkerAt
<1> QED
    BY <1>2, <1>4, <1>5, <1>6, <1>7, <1>8, <1>9, <1>10, <1>11
    DEF Dispatch, Fault

LEMMA InvStep == Inv /\ [Next]_vars => Inv'
<1>1. ASSUME Inv, Next PROVE Inv'
    <2>1. TypeOK'
        BY <1>1, TypeStep DEF Inv
    <2> QED BY <1>1, <2>1, InvAuthority, InvWorker DEF Next, Step
<1>2. ASSUME Inv, UNCHANGED vars PROVE Inv'
    <2>1. TypeOK'
        BY <1>2, TypeStep DEF Inv
    <2> QED BY <1>2, <2>1, ReaderMoves, ViewSame
        DEF vars, authority, processes, Reading
<1> QED BY <1>1, <1>2

\* The inductive invariant holds in every reachable state of the store, the
\* workers and the reader.
THEOREM Invariance == Spec => []Inv
BY InvInit, InvStep, PTL DEF Spec

\* A graph at the authority's revision is the graph of the facts and sources
\* that are active now, for any number of facts, workers and faults.
THEOREM GraphIsTrue == Spec => []GraphTellsTheTruth
<1>1. Inv => GraphTellsTheTruth
    <2> SUFFICES ASSUME Inv, settings.enabled, graph.rev = revision
                 PROVE  graph.view = View /\ graph.gen = settings.generation
        BY DEF GraphTellsTheTruth
    <2>1. Op(graph.rev) = "project"
        BY DEF Inv, EnabledProjects
    <2>2. graph.gen = GenAt(revision)
        BY DEF Inv, Generations
    <2> QED BY <2>1, <2>2 DEF Inv, ViewsAgree, Generations
<1> QED BY <1>1, Invariance, PTL

\* A recall whose revision the graph has reached joins facts and edges of one
\* and the same snapshot.
THEOREM EdgesAgree == Spec => []EdgesMatchFacts
<1>1. Inv => EdgesMatchFacts
    BY DEF Inv, ViewsAgree, Reading, EdgesMatchFacts
<1> QED BY <1>1, Invariance, PTL

\* Once purge_pending is clear, what delete_all deleted is in no graph, and no
\* stale project job brings it back.
THEOREM PurgedForGood == Spec => []PurgeIsReal
<1>1. Inv => PurgeIsReal
    <2> SUFFICES ASSUME Inv, ~settings.purging, NEW p \in graph.view,
                        p[1] \in wiped
                 PROVE  FALSE
        BY DEF PurgeIsReal
    <2>1. graph.gen = settings.generation /\ graph.gen < settings.generation
        BY DEF Inv, PurgeProgress, WipedGone
    <2>2. graph.gen \in Nat
        BY DEF Inv, TypeOK
    <2> QED BY <2>1, <2>2
<1> QED BY <1>1, Invariance, PTL

\* Recall hands out only facts that are active, with an active source, while
\* memory is enabled at that very moment.
THEOREM RecallIsCurrent == Spec => RecallServesCurrent
<1> DEFINE Current ==
        reader'.at = "served" /\ reader.at # "served" =>
            /\ settings.enabled /\ ~settings.purging
            /\ Recallable(reader.view) \subseteq Recallable(View)
<1>1. Inv /\ [Next]_vars => [Current]_vars
    <2> SUFFICES ASSUME Inv, Next, reader'.at = "served", reader.at # "served"
                 PROVE  /\ settings.enabled /\ ~settings.purging
                        /\ Recallable(reader.view) \subseteq Recallable(View)
        OBVIOUS
    <2>1. ServeRecall
        <3>1. Commands \/ CommitDeleteAll => UNCHANGED reader
            BY DEF Commands, processes, AuthorizeWrite, SaveFact, AddSource,
                ReplaceFact, AbandonWrite, Forget, ExpireDue, RevokeSource,
                SetEnabled, DisableNotPersisted, BeginDeleteAll,
                CommitDeleteAll, MarkOwnerDeleting, FinishOwnerDeletion
        <3>2. ASSUME NEW w \in Workers,
                     (\E r \in DOMAIN jobs : Claim(w, r)) \/ Dispatch(w) \/ Fault(w)
              PROVE  UNCHANGED reader
            BY <3>2 DEF Dispatch, Fault, Claim, Reclaim, TakeJob, PurgeGraph,
                FinishPurge, CheckSettings, TakeSnapshot, ReplaceGraph,
                CloseJob, GraphDisabled, DispatchFails, Retry, WorkerCrash,
                WorkerAt
        <3>3. Recall \/ CheckRecall \/ Restart => reader'.at # "served"
            BY DEF Recall, CheckRecall, Restart, IdleReader, Inv, TypeOK,
                ReaderState
        <3> QED BY <3>1, <3>2, <3>3 DEF Next, Step
    <2>2. reader.at = "checked" /\ reader.rev = revision
        BY <2>1 DEF ServeRecall, IdleReader
    <2> QED BY <2>2 DEF Inv, ViewsAgree, EnabledProjects, Reading
<1> QED BY <1>1, Invariance, PTL DEF Spec, RecallServesCurrent
=============================================================================
