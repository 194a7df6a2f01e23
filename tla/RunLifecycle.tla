---------------------------- MODULE RunLifecycle ----------------------------
(***************************************************************************)
(* What the run lifecycle promises to its callers: the statuses of         *)
(* src/src/agent/runs.py and the transitions AgentRunLifecycle offers on   *)
(* them, without leases, claims, attempts, tasks, checkpoints or events.   *)
(* AgentRuns implements this specification.                                *)
(***************************************************************************)
EXTENDS Naturals

CONSTANTS Runs, Conversations

VARIABLES
    phase,     \* the status of each run
    thread,    \* the conversation of each run
    question,  \* the place of its input message in the conversation
    stop,      \* cancellation has been requested
    open,      \* the conversation accepts new runs
    answered   \* the input messages of a conversation that have an answer

avars == <<phase, thread, question, stop, open, answered>>

Active   == {"queued", "running", "waiting_approval"}
Terminal == {"succeeded", "failed", "cancelled", "incompatible"}

LifecycleInit ==
    /\ phase = [r \in Runs |-> "absent"]
    /\ thread \in [Runs -> Conversations]
    /\ question = [r \in Runs |-> 0]
    /\ stop = [r \in Runs |-> FALSE]
    /\ open = [c \in Conversations |-> TRUE]
    /\ answered = [c \in Conversations |-> {}]

\* A run is created, or retried, for a message of an open conversation that
\* has no active run.
Submit(r, c) ==
    /\ phase[r] = "absent"
    /\ open[c]
    /\ \A s \in Runs : phase[s] \in Active => thread[s] # c
    /\ phase' = [phase EXCEPT ![r] = "queued"]
    /\ thread' = [thread EXCEPT ![r] = c]
    /\ question'[r] \in Nat
    /\ question' = [question EXCEPT ![r] = question'[r]]
    /\ UNCHANGED <<stop, open, answered>>

Move(r, from, to) ==
    /\ phase[r] = from
    /\ phase' = [phase EXCEPT ![r] = to]
    /\ UNCHANGED <<thread, question, stop, open, answered>>

Start(r)  == Move(r, "queued", "running")
Pause(r)  == Move(r, "running", "waiting_approval")
Resume(r) == Move(r, "waiting_approval", "queued")

\* A run that is not answered ends while it runs, or is cancelled while it
\* waits for a human.
End(r) ==
    \/ \E s \in {"failed", "cancelled", "incompatible"} : Move(r, "running", s)
    \/ Move(r, "waiting_approval", "cancelled")

\* Success answers the run's message, in an open conversation and only if
\* nobody asked the run to stop.
Answer(r) ==
    /\ phase[r] = "running"
    /\ ~stop[r]
    /\ open[thread[r]]
    /\ phase' = [phase EXCEPT ![r] = "succeeded"]
    /\ answered' = [answered EXCEPT ![thread[r]] = @ \cup {question[r]}]
    /\ UNCHANGED <<thread, question, stop, open>>

\* A cancel request reaches an active run; a request that comes too late
\* changes nothing.
AskToStop(r) ==
    /\ phase[r] \in Active
    /\ stop' = [stop EXCEPT ![r] = TRUE]
    /\ UNCHANGED <<phase, thread, question, open, answered>>

\* Closing a conversation stops all its active runs in the same step.
Close(c) ==
    /\ open[c]
    /\ open' = [open EXCEPT ![c] = FALSE]
    /\ stop' = [r \in Runs |->
           stop[r] \/ (thread[r] = c /\ phase[r] \in Active)]
    /\ UNCHANGED <<phase, thread, question, answered>>

\* A closed conversation is forgotten once none of its runs is active.
Forget(c) ==
    /\ ~open[c]
    /\ \A r \in Runs : thread[r] = c => phase[r] \notin Active
    /\ phase' = [r \in Runs |->
           IF thread[r] = c /\ phase[r] \in Terminal THEN "deleted" ELSE phase[r]]
    /\ answered' = [answered EXCEPT ![c] = {}]
    /\ UNCHANGED <<thread, question, stop, open>>

LifecycleNext ==
    \/ \E r \in Runs, c \in Conversations : Submit(r, c)
    \/ \E r \in Runs : Start(r) \/ Pause(r) \/ Resume(r) \/ End(r)
                         \/ Answer(r) \/ AskToStop(r)
    \/ \E c \in Conversations : Close(c) \/ Forget(c)

LifecycleSpec == LifecycleInit /\ [][LifecycleNext]_avars
=============================================================================
