--------------------------- MODULE Consolidation ---------------------------
(***************************************************************************)
(* How what a user says becomes long-term memory (src/src/memory/jobs.py,  *)
(* long_term/writer.py, service.py, repo/postgresql/memory/jobs.py).  When *)
(* a run has answered, the end of its message is recorded in the cursor of *)
(* the conversation; a full window, or a conversation gone quiet, enqueues *)
(* a job for the window; a worker claims it, extracts facts segment by     *)
(* segment, merges them with the facts there are and advances the cursor.  *)
(* "Remember this" is written at once by the run itself.  Meanwhile the    *)
(* owner turns memory off and on, forgets a fact or deletes everything.    *)
(*                                                                         *)
(* One owner, active throughout, one conversation, and one slot, so that   *)
(* any two facts of different value conflict.  Of other owners there is    *)
(* what they do to the workers' scan for quiet conversations.  Of the jobs *)
(* there are those that consolidate and those that purge; MemoryGraph has  *)
(* the graph projections.  Time is left out: a lease may lapse and a       *)
(* conversation may fall quiet at any moment.                              *)
(***************************************************************************)
EXTENDS Naturals, Sequences, FiniteSets, SequencesExt, FiniteSetsExt

CONSTANTS
    Values,         \* what a fact may say
    Contents,       \* what a user message may be
    Workers,        \* maintenance workers, one for a process
    Window,         \* window_messages
    SegmentSize,    \* messages that fit max_input_tokens
    MaxAttempts,    \* max_attempts of a job
    OtherOwners,    \* whether there are other owners
    MaxTurns,       \* bound: user messages
    MaxFacts,       \* bound: facts ever written
    MaxChanges,     \* bound: commands of the owner
    MaxFaults       \* bound: crashes, lapsed leases and failed calls

\* A message without a fact, or one with a credential, has no value; a correction
\* says so ("I am now called ..."); a remember is the explicit command.
ASSUME ContentsAssumption ==
    Contents \subseteq [kind : {"statement", "correction", "remember"}, value : Values]
                  \cup [kind : {"secret", "talk"}]

ASSUME SegmentAssumption == SegmentSize \in Nat \ {0}

ASSUME OthersAssumption == OtherOwners \in BOOLEAN

\* The run that answers is a writer beside the workers.
ASSUME WritersAssumption == "run" \notin Workers

VARIABLES
    messages,       \* the conversation; users and assistant take turns
    run,            \* the run that answers the last message
    recorders,      \* threads that record an answered message
    cursor,         \* memory_consolidation_cursor: last message, last consolidated
    quiet,          \* no activity for idle_seconds
    jobs,           \* memory_jobs by idempotency key
    enabled, generation, purging,       \* memory_settings
    facts,          \* memory_facts in the order of their creation
    confirmation,   \* the sets of facts that tokens for a delete-all were issued for
    work,           \* what each worker is doing
    extracted,      \* history: messages whose segment has been written
    overlapped,     \* history: two writers were between reading and writing
    changes, faults

settings == <<enabled, generation, purging>>
bounds == <<changes, faults>>
vars == <<messages, run, recorders, cursor, quiet, jobs, settings, facts,
          confirmation, work, extracted, overlapped, bounds>>

NoRun == [step |-> "none"]
Idle == [step |-> "idle"]
Nothing == 0

Init ==
    /\ messages = <<>>
    /\ run = NoRun
    /\ recorders = {}
    /\ cursor = [last |-> 0, done |-> 0]
    /\ quiet = FALSE
    /\ jobs = <<>>
    /\ enabled = TRUE /\ generation = 0 /\ purging = FALSE
    /\ facts = <<>>
    /\ confirmation = {}
    /\ work = [w \in Workers |-> Idle]
    /\ extracted = {} /\ overlapped = FALSE
    /\ changes = 0 /\ faults = 0

Change == changes < MaxChanges /\ changes' = changes + 1
Fault == faults < MaxFaults /\ faults' = faults + 1

----------------------------------------------------------------------------
(* Settings and authorization.                                             *)

\* MemoryAuthorizer.authorize for a write; with memory off it raises MemoryDisabled.
authorize == enabled

\* capture_snapshot has one more reason to raise it.
capture_snapshot == enabled /\ ~purging

----------------------------------------------------------------------------
(* Facts.                                                                  *)

Active == {i \in DOMAIN facts : facts[i].status = "active"}

\* find_active_by_slot: the one updated last; should there be several, any of them,
\* since a source added to an older one makes it the last.
find_active_by_slot == IF Active = {} THEN {Nothing} ELSE Active

Fact(v, s) == [value |-> v, status |-> s]

\* Faulty: a fact that is there already is added again.
DecideMergeAgain(c, previous) ==
    IF previous = Nothing THEN "ADD"
    ELSE IF facts[previous].value = c.value THEN "ADD"
    ELSE IF c.kind = "correction" THEN "UPDATE" ELSE "QUARANTINE"

\* decide_merge: the model that judges conflicts can only confirm the quarantine.
decide_merge(c, previous) ==
    IF previous = Nothing THEN "ADD"
    ELSE IF facts[previous].value = c.value THEN "NOOP"
    ELSE IF c.kind = "correction" THEN "UPDATE" ELSE "QUARANTINE"

\* The facts of the slot in quarantine are settled by an accepted one.
resolve_quarantine(fs) ==
    [i \in DOMAIN fs |-> IF fs[i].status = "quarantine"
                         THEN [fs[i] EXCEPT !.status = "superseded"] ELSE fs[i]]

\* replace_fact refuses a fact that has been deactivated since it was read.
MayReplace(decision, previous) == decision = "UPDATE" => facts[previous].status = "active"

\* _remember_candidate: the decision was made on the fact that was read; nothing
\* is locked, and neither save_fact nor add_source looks at the slot again.  The
\* content of a deleted fact is gone, but not from the copy that was read.
remember_candidate(c, previous, decision) ==
    /\ decision # "NOOP" => Len(facts) < MaxFacts
    /\ facts' = CASE decision = "QUARANTINE" -> Append(facts, Fact(c.value, "quarantine"))
                  [] decision = "NOOP" -> resolve_quarantine(facts)
                  [] decision = "ADD" ->
                        resolve_quarantine(Append(facts, Fact(c.value, "active")))
                  [] decision = "UPDATE" ->
                        resolve_quarantine(Append([facts EXCEPT ![previous].status = "superseded"],
                                                  Fact(c.value, "active")))

\* Another writer has read the slot and has not written yet.
Writing(w) == (w # "run" /\ run.step = "save") \/ \E x \in Workers \ {w} : work[x].step = "save"

ReadSlot(w) == overlapped' = (overlapped \/ Writing(w))

----------------------------------------------------------------------------
(* The conversation.                                                       *)

Turns == Cardinality({i \in DOMAIN messages : messages[i].role = "user"})

send_message(c) ==
    /\ run = NoRun /\ Turns < MaxTurns
    /\ messages' = Append(messages, [role |-> "user", says |-> c])
    /\ run' = [step |-> IF c.kind = "remember" THEN "remember" ELSE "answer"]
    /\ UNCHANGED <<recorders, cursor, quiet, jobs, settings, facts, confirmation,
                   work, extracted, overlapped, bounds>>

Said == Last(messages).says

\* The explicit command is authorized, and the slot read.
process_natural_intent ==
    /\ authorize
    /\ \E p \in find_active_by_slot :
          run' = [step |-> "save", previous |-> p, decision |-> decide_merge(Said, p)]
    /\ ReadSlot("run")

\* _process_natural_memory_once, inside the run: whatever goes wrong, the run answers.
process_natural_memory_once ==
    /\ run.step = "remember"
    /\ \/ process_natural_intent
       \/ /\ ~authorize
          /\ run' = [step |-> "answer"]
          /\ overlapped' = overlapped
    /\ UNCHANGED <<messages, recorders, cursor, quiet, jobs, settings, facts,
                   confirmation, work, extracted, bounds>>

remember_all_result ==
    /\ run.step = "save"
    /\ remember_candidate(Said, run.previous, run.decision)
    /\ run' = [step |-> "answer"]
    /\ UNCHANGED <<messages, recorders, cursor, quiet, jobs, settings, confirmation,
                   work, extracted, overlapped, bounds>>

\* The reply is committed; only then, and unless the message was a command, a thread
\* starts to record it.
complete_run ==
    /\ run.step = "answer"
    /\ messages' = Append(messages, [role |-> "assistant"])
    /\ recorders' = IF Said.kind = "remember" THEN recorders
                    ELSE recorders \cup {[step |-> "read", seq |-> Len(messages)]}
    /\ run' = NoRun
    /\ UNCHANGED <<cursor, quiet, jobs, settings, facts, confirmation, work,
                   extracted, overlapped, bounds>>

\* A run that fails leaves its message without a reply, and not recorded.
fail_run ==
    /\ run.step = "answer" /\ Fault
    /\ run' = NoRun
    /\ UNCHANGED <<messages, recorders, cursor, quiet, jobs, settings, facts,
                   confirmation, work, extracted, overlapped, changes>>

----------------------------------------------------------------------------
(* The cursor.                                                             *)

\* A MemoryJob as it is created.
NewJob(g) == [status |-> "pending", attempts |-> 0, token |-> Nothing, generation |-> g]

\* enqueue_job does nothing when the key is there, whatever became of that job.
enqueue_job(key, g) ==
    jobs' = IF key \in DOMAIN jobs THEN jobs
            ELSE [k \in DOMAIN jobs \cup {key} |-> IF k = key THEN NewJob(g) ELSE jobs[k]]

\* enqueue_consolidation: the key is the window.
enqueue_consolidation(from, to) == enqueue_job(<<"consolidate", from, to>>, generation)

Become(r, new) == recorders' = (recorders \ {r}) \cup new

\* record_user_message_for_consolidation: the cursor is read ...
get_consolidation_cursor(r) ==
    /\ r.step = "read"
    /\ Become(r, IF capture_snapshot
                 THEN {[step |-> "upsert", seq |-> r.seq, previous |-> cursor]} ELSE {})
    /\ UNCHANGED <<messages, run, cursor, quiet, jobs, settings, facts, confirmation,
                   work, extracted, overlapped, bounds>>

\* ... and a window that this message has filled is enqueued; if the one before had
\* filled it already, its job is under way and the rest waits for the quiet.
WindowFilled(previous, now) ==
    /\ now.last - now.done >= Window
    /\ previous.last < now.last
    /\ previous.last - previous.done < Window

\* ... then moved forward, never back ...
upsert_consolidation_cursor(r) ==
    LET now == [cursor EXCEPT !.last = Max({@, r.seq})] IN
    /\ r.step = "upsert"
    /\ cursor' = now
    /\ quiet' = FALSE
    /\ Become(r, IF WindowFilled(r.previous, now)
                 THEN {[step |-> "enqueue", from |-> now.done, to |-> now.last]} ELSE {})
    /\ UNCHANGED <<messages, run, jobs, settings, facts, confirmation, work,
                   extracted, overlapped, bounds>>

record_user_message(r) ==
    /\ r.step = "enqueue"
    /\ IF capture_snapshot THEN enqueue_consolidation(r.from, r.to) ELSE jobs' = jobs
    /\ Become(r, {})
    /\ UNCHANGED <<messages, run, cursor, quiet, settings, facts, confirmation, work,
                   extracted, overlapped, bounds>>

\* Time passes without a message that is recorded.
FallQuiet ==
    /\ ~quiet /\ cursor.last > 0
    /\ quiet' = TRUE
    /\ UNCHANGED <<messages, run, recorders, cursor, jobs, settings, facts,
                   confirmation, work, extracted, overlapped, bounds>>

----------------------------------------------------------------------------
(* A worker: one round of process_pending_jobs.                            *)

To(w, label) == work' = [work EXCEPT ![w].step = label]

workRest == <<messages, run, recorders, quiet, settings, confirmation, changes>>

\* Faulty: only a window that is full is looked for.
FindFullWindows == quiet /\ cursor.last - cursor.done >= Window

\* find_idle_consolidations
find_idle_consolidations == quiet /\ cursor.last > cursor.done

\* The round begins with the eight conversations that have been quiet the longest. Those
\* of other owners may crowd this one out, for good when their jobs have failed or been
\* cancelled, since their keys are used; or one is of an owner whose memory is off.
process_pending_jobs(w) ==
    /\ work[w].step = "idle"
    /\ \E crowded \in BOOLEAN, found \in BOOLEAN :
          /\ crowded => OtherOwners
          /\ found => find_idle_consolidations
          /\ find_idle_consolidations => found \/ crowded
          /\ work' = [work EXCEPT ![w] =
                [step |-> "scan", crowded |-> crowded, from |-> cursor.done,
                 to |-> IF found THEN cursor.last ELSE cursor.done]]
    /\ UNCHANGED <<workRest, cursor, jobs, facts, extracted, overlapped, faults>>

\* _enqueue_idle_consolidations.  For an owner with memory off the enqueueing raises
\* MemoryDisabled, which is neither of the two errors it ignores: the round ends before
\* a claim, for every owner.
enqueue_idle_consolidations(w) ==
    LET found == work[w].from < work[w].to
        raises == found /\ ~capture_snapshot
    IN  /\ work[w].step = "scan"
        /\ IF found /\ ~raises THEN enqueue_consolidation(work[w].from, work[w].to)
           ELSE jobs' = jobs
        /\ \/ /\ ~raises
              /\ work' = [work EXCEPT ![w] = [step |-> "claim"]]
           \/ /\ raises \/ work[w].crowded
              /\ work' = [work EXCEPT ![w] = Idle]
        /\ UNCHANGED <<workRest, cursor, facts, extracted, overlapped, faults>>

\* A running job whose lease has lapsed is claimed like a pending one.
Claimable == {k \in DOMAIN jobs : jobs[k].status \in {"pending", "lapsed"}}

\* claim_jobs: all in one transaction, each with a fresh token.
claim_jobs(w) ==
    /\ work[w].step = "claim"
    /\ jobs' = [k \in DOMAIN jobs |->
          IF k \in Claimable
          THEN [jobs[k] EXCEPT !.status = "running", !.attempts = @ + 1, !.token = w]
          ELSE jobs[k]]
    /\ work' = [work EXCEPT ![w] =
          IF Claimable = {} THEN Idle ELSE [step |-> "next", queue |-> Claimable]]
    /\ UNCHANGED <<workRest, cursor, facts, extracted, overlapped, faults>>

\* The token is what a worker has of a job: once another has claimed it, it is lost.
HasToken(w, k) == jobs[k].status \in {"running", "lapsed"} /\ jobs[k].token = w

\* _update_job_terminal and retry_job: nothing happens without the token.
update_job(w, k, status) ==
    jobs' = IF HasToken(w, k)
            THEN [jobs EXCEPT ![k].status = status, ![k].token = Nothing] ELSE jobs

Next_job(w, k) ==
    work' = [work EXCEPT ![w] =
        IF work[w].queue = {k} THEN Idle
        ELSE [step |-> "next", queue |-> work[w].queue \ {k}]]

\* retry_job: a job of the graph never runs out of attempts.
Exhausted(k) == jobs[k].attempts >= MaxAttempts /\ k[1] = "consolidate"

\* _retry
retry(w, k) ==
    /\ update_job(w, k, IF Exhausted(k) THEN "failed" ELSE "pending")
    /\ Next_job(w, k)

\* _message_line and _segment_transcript: the messages of the window but those with
\* a credential, in order, as many in a segment as fit.  A segment is the set of the
\* places of its messages.
segment_transcript(from, to) ==
    LET ids == {i \in DOMAIN messages : from < i /\ i <= to /\
                    ~(messages[i].role = "user" /\ messages[i].says.kind = "secret")}
        before(i) == Cardinality({x \in ids : x < i})
        n == (Cardinality(ids) + SegmentSize - 1) \div SegmentSize
    IN  [j \in 1..n |-> {i \in ids : before(i) \div SegmentSize = j - 1}]

\* _dispatch of a job to consolidate.  One from before a deletion, or with memory
\* off, is cancelled, and its cursor stays.
dispatch(w, k) ==
    /\ work[w].step = "next" /\ k \in work[w].queue /\ k[1] = "consolidate"
    /\ IF enabled /\ ~purging /\ jobs[k].generation = generation
       THEN /\ work' = [work EXCEPT ![w] =
                  [step |-> "extract", queue |-> work[w].queue, job |-> k,
                   segments |-> segment_transcript(k[2], k[3])]]
            /\ jobs' = jobs
       ELSE update_job(w, k, "cancelled") /\ Next_job(w, k)
    /\ UNCHANGED <<workRest, cursor, facts, extracted, overlapped, faults>>

Stated(segment) ==
    {i \in segment : messages[i].role = "user" /\ messages[i].says.kind # "talk"}

\* extract_window with _latest_candidates: what the last statement of the segment
\* says.  What a model reads into a text is taken to be right.
latest_candidates(segment) == messages[Max(Stated(segment))].says

\* _dispatch_consolidation for the next segment: the model extracts, which may fail;
\* the writer asks for authorization before it looks at what was found, and reads the
\* slot if there is something to remember.
extract_window(w) ==
    LET segment == Head(work[w].segments) IN
    /\ work[w].step = "extract" /\ work[w].segments # <<>>
    /\ \/ /\ authorize /\ Stated(segment) = {}
          /\ extracted' = extracted \cup segment
          /\ work' = [work EXCEPT ![w].segments = Tail(@)]
          /\ UNCHANGED <<jobs, overlapped, faults>>
       \/ /\ authorize /\ Stated(segment) # {}
          /\ LET c == latest_candidates(segment) IN
             \E p \in find_active_by_slot :
                work' = [work EXCEPT ![w] =
                    [step |-> "save", queue |-> work[w].queue, job |-> work[w].job,
                     segments |-> work[w].segments, candidate |-> c, previous |-> p,
                     decision |-> decide_merge(c, p)]]
          /\ ReadSlot(w)
          /\ UNCHANGED <<jobs, extracted, faults>>
       \/ /\ IF authorize THEN Fault ELSE faults' = faults
          /\ retry(w, work[w].job)
          /\ UNCHANGED <<extracted, overlapped>>
    /\ UNCHANGED <<workRest, cursor, facts>>

write_segment(w) ==
    LET at == work[w] IN
    /\ at.step = "save"
    /\ IF MayReplace(at.decision, at.previous)
       THEN /\ remember_candidate(at.candidate, at.previous, at.decision)
            /\ extracted' = extracted \cup Head(at.segments)
            /\ work' = [work EXCEPT ![w] =
                  [step |-> "extract", queue |-> at.queue, job |-> at.job,
                   segments |-> Tail(at.segments)]]
            /\ jobs' = jobs
       ELSE /\ retry(w, at.job)
            /\ UNCHANGED <<facts, extracted>>
    /\ UNCHANGED <<workRest, cursor, overlapped, faults>>

\* Faulty: the cursor moves before the last segment is written.
AdvanceEarly(w) ==
    /\ work[w].step = "extract" /\ Len(work[w].segments) <= 1
    /\ cursor' = [cursor EXCEPT !.done = Max({@, work[w].job[3]})]
    /\ To(w, "complete")
    /\ UNCHANGED <<workRest, jobs, facts, extracted, overlapped, faults>>

\* advance_consolidation_cursor, forward only, before the job is completed.  It asks
\* for no token: a worker that lost the job still advances.
advance_consolidation_cursor(w) ==
    /\ work[w].step = "extract" /\ work[w].segments = <<>>
    /\ cursor' = [cursor EXCEPT !.done = Max({@, work[w].job[3]})]
    /\ To(w, "complete")
    /\ UNCHANGED <<workRest, jobs, facts, extracted, overlapped, faults>>

complete_job(w) ==
    /\ work[w].step = "complete"
    /\ update_job(w, work[w].job, "succeeded")
    /\ Next_job(w, work[w].job)
    /\ UNCHANGED <<workRest, cursor, facts, extracted, overlapped, faults>>

\* _dispatch of a purge and finish_purge: the graph is purged (MemoryGraph), then in
\* one transaction the purge ends and jobs from before it are cancelled.
finish_purge(w, k) ==
    LET current == purging /\ generation = k[2] IN
    /\ work[w].step = "next" /\ k \in work[w].queue /\ k[1] = "purge"
    /\ \/ /\ purging' = (purging /\ ~current)
          /\ jobs' = [j \in DOMAIN jobs |->
                IF j = k /\ HasToken(w, k)
                THEN [jobs[j] EXCEPT !.status = IF current THEN "succeeded" ELSE "cancelled",
                                     !.token = Nothing]
                ELSE IF current /\ jobs[j].generation < k[2]
                        /\ jobs[j].status \in {"pending", "running", "lapsed"}
                THEN [jobs[j] EXCEPT !.status = "cancelled"] ELSE jobs[j]]
          /\ Next_job(w, k)
          /\ faults' = faults
       \/ Fault /\ retry(w, k) /\ purging' = purging
    /\ UNCHANGED <<messages, run, recorders, cursor, quiet, enabled, generation, facts,
                   confirmation, extracted, overlapped, changes>>

\* Thirty seconds after the claim.
LeaseLapses(k) ==
    /\ jobs[k].status = "running" /\ Fault
    /\ jobs' = [jobs EXCEPT ![k].status = "lapsed"]
    /\ UNCHANGED <<messages, run, recorders, cursor, quiet, settings, facts,
                   confirmation, work, extracted, overlapped, changes>>

----------------------------------------------------------------------------
(* Commands of the owner.                                                  *)

ownerRest == <<messages, run, recorders, cursor, quiet, work, extracted, overlapped, faults>>

\* MemoryManager.set_enabled: memory is not turned on while a purge is pending.
MayEnable(on) == on => ~purging

set_enabled(on) ==
    /\ enabled # on /\ Change
    /\ MayEnable(on)
    /\ enabled' = on
    /\ UNCHANGED <<ownerRest, jobs, generation, purging, facts, confirmation>>

deactivate_fact(i) == facts' = [facts EXCEPT ![i].status = "deleted"]

\* forget by id, or by a text that matches one fact.
forget(i) ==
    /\ i \in Active /\ Change
    /\ deactivate_fact(i)
    /\ UNCHANGED <<ownerRest, jobs, settings, confirmation>>

\* update: the fact shown is replaced, whatever its slot has; it must still be active.
update(i, v) ==
    /\ authorize /\ i \in Active /\ v # facts[i].value
    /\ Len(facts) < MaxFacts /\ Change
    /\ facts' = resolve_quarantine(Append([facts EXCEPT ![i].status = "superseded"],
                                          Fact(v, "active")))
    /\ UNCHANGED <<ownerRest, jobs, settings, confirmation>>

\* The facts a token is good for.
issue_confirmation(ids) == confirmation' = confirmation \cup {ids}

\* request_delete_all counts the active facts and hands out a token for them.
request_delete_all ==
    /\ Change
    /\ issue_confirmation(Active)
    /\ UNCHANGED <<ownerRest, jobs, settings, facts>>

\* _delete_all_in_connection: memory is off until the purge is done and the owner
\* turns it on again.
delete_all ==
    /\ facts' = [i \in DOMAIN facts |->
          IF facts[i].status \in {"active", "quarantine"}
          THEN [facts[i] EXCEPT !.status = "deleted"] ELSE facts[i]]
    /\ enabled' = FALSE
    /\ generation' = generation + 1
    /\ purging' = TRUE
    /\ enqueue_job(<<"purge", generation + 1>>, generation + 1)

\* _consume_confirmation: a token is good once, and only while the active facts are
\* the ones it was handed out for.
consume_confirmation ==
    /\ Active \in confirmation
    /\ confirmation' = confirmation \ {Active}

confirm_delete_all ==
    /\ consume_confirmation
    /\ delete_all
    /\ UNCHANGED <<ownerRest, changes>>

\* The commands that change something; revoke-source is in module MemoryGraph.
MemoryCommand ==
    \/ \E on \in BOOLEAN : set_enabled(on)
    \/ \E i \in DOMAIN facts : forget(i) \/ \E v \in Values : update(i, v)
    \/ request_delete_all \/ confirm_delete_all

----------------------------------------------------------------------------
\* The server stops and starts again: threads are gone, rows stay, and the run is
\* taken up from its beginning.  The leases of its jobs lapse.
Crash ==
    /\ Fault
    /\ recorders' = {}
    /\ work' = [w \in Workers |-> Idle]
    /\ run' = IF run = NoRun THEN NoRun
              ELSE [step |-> IF Said.kind = "remember" THEN "remember" ELSE "answer"]
    /\ jobs' = [k \in DOMAIN jobs |-> IF jobs[k].status = "running"
                  THEN [jobs[k] EXCEPT !.status = "lapsed"] ELSE jobs[k]]
    /\ UNCHANGED <<messages, cursor, quiet, settings, facts, confirmation, extracted,
                   overlapped, changes>>

Record == \E r \in recorders :
    get_consolidation_cursor(r) \/ upsert_consolidation_cursor(r) \/ record_user_message(r)

Work(w) ==
    \/ process_pending_jobs(w) \/ enqueue_idle_consolidations(w) \/ claim_jobs(w)
    \/ \E k \in DOMAIN jobs : dispatch(w, k) \/ finish_purge(w, k)
    \/ extract_window(w) \/ write_segment(w)
    \/ advance_consolidation_cursor(w) \/ complete_job(w)

Next ==
    \/ \E c \in Contents : send_message(c)
    \/ process_natural_memory_once \/ remember_all_result \/ complete_run \/ fail_run
    \/ Record \/ FallQuiet
    \/ \E w \in Workers : Work(w)
    \/ \E k \in DOMAIN jobs : LeaseLapses(k)
    \/ MemoryCommand
    \/ Crash

\* Threads run, the worker's loop goes round once a second, and time passes.
Fairness ==
    /\ WF_vars(Record) /\ WF_vars(FallQuiet)
    /\ \A w \in Workers : WF_vars(Work(w))

Spec == Init /\ [][Next]_vars /\ Fairness

----------------------------------------------------------------------------
(* Properties.                                                             *)

\* _dispatch_consolidation: the cursor passes over no message.  Whatever order the
\* jobs of overlapping windows run in, whichever fails, is cancelled, repeated or
\* finished by a worker that lost its lease, every user message up to the cursor was
\* in a segment that was written, unless it holds a credential.
CursorSkipsNothing ==
    \A i \in 1..cursor.done :
        \/ i \in extracted
        \/ messages[i].role = "user" /\ messages[i].says.kind = "secret"

\* "崩溃重放时同窗口消息已被 decide_merge 收敛，不会产生重复事实": as long as no two
\* writers overlap between reading the slot and writing it, repeated windows, retried
\* jobs, commands repeated by a run that is taken up again and messages that are both
\* command and part of a window leave one active fact for the slot at most.
OneActiveFact == ~overlapped => Cardinality(Active) <= 1

GaveUp == \E k \in DOMAIN jobs : jobs[k].status = "failed"

\* Other owners are in the way of a scan.
Crowded == \E w \in Workers : work[w].step = "scan" /\ work[w].crowded

\* "残余消息由空闲兜底扫描补齐": while memory stays on, no job runs out of attempts and
\* the scans are not crowded by other owners for ever, every recorded message is
\* consolidated in the end, whether its window was filled or the conversation fell
\* quiet, and in spite of crashes, lapsed leases and rounds that others cut short.
ConsolidationConverges ==
    [](enabled /\ ~GaveUp) /\ <>[]~Crowded =>
        (cursor.done < cursor.last ~> cursor.done = cursor.last)

\* A deletion of everything is carried out to its end by the worker.
PurgeFinishes == purging ~> ~purging
============================================================================
