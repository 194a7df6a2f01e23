------------------------- MODULE ConsolidationProofs -------------------------
(***************************************************************************)
(* Proofs about Consolidation, how a conversation becomes facts, for every *)
(* set of workers, every length of a window and of a segment, and every    *)
(* bound on turns, facts, commands and faults.                             *)
(***************************************************************************)
EXTENDS Consolidation, Integers, FiniteSetTheorems, TLAPS

Message == [role : {"user"}, says : Contents] \cup [role : {"assistant"}]

Decisions == {"ADD", "NOOP", "UPDATE", "QUARANTINE"}

Run ==
    [step : {"none", "remember", "answer"}]
    \cup [step : {"save"}, previous : Nat, decision : Decisions]

Cursor == [last : Nat, done : Nat]

Recorder ==
    [step : {"read"}, seq : Nat]
    \cup [step : {"upsert"}, seq : Nat, previous : Cursor]
    \cup [step : {"enqueue"}, from : Nat, to : Nat]

WindowKey == {"consolidate"} \X Nat \X Nat
JobKey == WindowKey \cup ({"purge"} \X Nat)

Job == [status : {"pending", "running", "lapsed", "succeeded", "failed", "cancelled"},
        attempts : Nat, token : Workers \cup {Nothing}, generation : Nat]

FactRecord == [value : Values, status : {"active", "quarantine", "superseded", "deleted"}]

\* Where a worker is, and what it remembers there.
Between == [step : {"idle", "claim"}]
       \cup [step : {"scan"}, crowded : BOOLEAN, from : Nat, to : Nat]
Round == [step : {"next"}, queue : SUBSET JobKey]
Segmented == [step : {"extract", "complete"}, queue : SUBSET JobKey, job : WindowKey,
              segments : Seq(SUBSET Nat)]
Saving == [step : {"save"}, queue : SUBSET JobKey, job : WindowKey,
           segments : Seq(SUBSET Nat), candidate : Contents, previous : Nat,
           decision : Decisions]

WorkState == Between \cup Round \cup Segmented \cup Saving

JobsOK == jobs \in [DOMAIN jobs -> Job] /\ DOMAIN jobs \subseteq JobKey

TypeOK ==
    /\ messages \in Seq(Message)
    /\ run \in Run
    /\ recorders \subseteq Recorder
    /\ cursor \in Cursor
    /\ quiet \in BOOLEAN
    /\ JobsOK
    /\ enabled \in BOOLEAN /\ generation \in Nat /\ purging \in BOOLEAN
    /\ facts \in Seq(FactRecord)
    /\ confirmation \subseteq SUBSET Nat
    /\ work \in [Workers -> WorkState]
    /\ extracted \subseteq Nat
    /\ overlapped \in BOOLEAN
    /\ changes \in Nat /\ faults \in Nat

\* The message that a run answers is the last one, and a user's.
RunOK == run.step # "none" =>
    /\ messages # <<>> /\ messages[Len(messages)] \in [role : {"user"}, says : Contents]
    /\ run.step \in {"remember", "save"} => Said.kind = "remember"

\* What has a value can be a fact.
HasValue(c) == c.kind \in {"statement", "correction", "remember"}

\* A worker works on jobs there are.
WorkOK == \A w \in Workers :
    /\ work[w].step \in {"next", "extract", "save", "complete"} =>
           work[w].queue \subseteq DOMAIN jobs
    /\ work[w].step \in {"extract", "save", "complete"} => work[w].job \in DOMAIN jobs
    /\ work[w].step = "save" => /\ work[w].segments # <<>>
                                /\ HasValue(work[w].candidate)

\* A message with a credential is in no segment.
Secret(i) == messages[i].role = "user" /\ messages[i].says.kind = "secret"

Segmenting == {w \in Workers : work[w].step \in {"extract", "save"}}

SegmentsOK == \A w \in Segmenting : \A j \in DOMAIN work[w].segments :
    work[w].segments[j] \subseteq {i \in DOMAIN messages : ~Secret(i)}

TypeInv == TypeOK /\ RunOK /\ WorkOK /\ SegmentsOK

-----------------------------------------------------------------------------
(* What lies behind the cursor.                                             *)

\* What is recorded, enqueued or looked at has been said, and a window begins where the
\* cursor has been.
RecorderOK(r) ==
    /\ r.step \in {"read", "upsert"} => r.seq <= Len(messages)
    /\ r.step = "enqueue" => r.from <= cursor.done /\ r.to <= Len(messages)

WindowOK(k) == k[1] = "consolidate" => k[2] <= cursor.done /\ k[3] <= Len(messages)

ScanOK(w) == work[w].step = "scan" =>
    work[w].from <= cursor.done /\ work[w].to <= Len(messages)

\* What a worker has not yet extracted of its window is in the segments before it.
Covered(w) == work[w].step \in {"extract", "save"} =>
    \A i \in (work[w].job[2] + 1)..work[w].job[3] :
        \/ i \in extracted \/ Secret(i)
        \/ \E j \in DOMAIN work[w].segments : i \in work[w].segments[j]

CursorInv ==
    /\ cursor.last <= Len(messages) /\ cursor.done <= Len(messages)
    /\ \A r \in recorders : RecorderOK(r)
    /\ \A k \in DOMAIN jobs : WindowOK(k)
    /\ \A w \in Workers : ScanOK(w) /\ Covered(w)
    /\ CursorSkipsNothing

-----------------------------------------------------------------------------
(* Who writes the slot.                                                     *)

SavingWorkers == {w \in Workers : work[w].step = "save"}

\* A command adds a fact or finds it there, and what a worker replaces has been there.
CommandOK == run.step = "save" => run.decision # "UPDATE"

ReplacedOK == \A w \in SavingWorkers :
    work[w].decision = "UPDATE" => work[w].previous \in DOMAIN facts

\* As long as no two writers overlapped: one at most is about to write, and one that
\* found the slot empty finds it empty still.
OneWriter == ~overlapped =>
    /\ \A i, j \in Active : i = j
    /\ \A v, w \in SavingWorkers : v = w
    /\ run.step = "save" => SavingWorkers = {}
    /\ run.step = "save" /\ run.decision = "ADD" => Active = {}
    /\ \A w \in SavingWorkers : work[w].decision = "ADD" => Active = {}

FactInv == CommandOK /\ ReplacedOK /\ OneWriter

-----------------------------------------------------------------------------
(* The operators.                                                           *)

\* A set of numbers that is not empty has a least one.
LEMMA LeastNumber ==
    ASSUME NEW T \in SUBSET Nat, T # {}
    PROVE  \E m \in T : \A k \in T : m <= k
<1> DEFINE R == OpToRel(<, Nat)
<1>1. IsWellFoundedOn(R, Nat)
    BY NatLessThanWellFounded
<1>2. \A x, y \in Nat : <<x, y>> \in R <=> x < y
    BY DEF OpToRel
<1> HIDE DEF R
<1>3. PICK x \in T : \A y \in T : ~ (<<y, x>> \in R)
    BY <1>1, WFMin
<1>4. \A y \in T : ~(y < x)
    BY <1>2, <1>3
<1>5. \A y \in T : x <= y
    BY <1>4
<1> QED BY <1>5

\* The maximum of two numbers is one of them, and neither is above it.
LEMMA MaxOfTwo ==
    ASSUME NEW x \in Nat, NEW y \in Nat
    PROVE  Max({x, y}) \in Nat /\ Max({x, y}) >= x /\ Max({x, y}) >= y
           /\ Max({x, y}) \in {x, y}
<1>1. \E m \in {x, y} : \A z \in {x, y} : m >= z
    OBVIOUS
<1> QED BY <1>1 DEF Max

\* A finite set of numbers that is not empty has its maximum in it.
LEMMA MaxOfSome ==
    ASSUME NEW n \in Nat, NEW S \in SUBSET (1..n), S # {}
    PROVE  Max(S) \in S
<1> DEFINE T == {k \in Nat : \A x \in S : x <= k}
<1>1. PICK m \in T : \A k \in T : m <= k
    <2>1. n \in T
        OBVIOUS
    <2> QED BY <2>1, LeastNumber
<1>2. m \in S
    <2> SUFFICES ASSUME m \notin S PROVE FALSE
        OBVIOUS
    <2>1. \A x \in S : x < m /\ x >= 1
        OBVIOUS
    <2>2. m >= 1 /\ m - 1 \in Nat
        <3>1. PICK x \in S : TRUE
            OBVIOUS
        <3> QED BY <2>1, <3>1
    <2>3. m - 1 \in T
        BY <2>1, <2>2
    <2> QED BY <1>1, <2>3
<1>3. \A x \in S : m >= x
    BY <1>1
<1> QED BY <1>2, <1>3 DEF Max

\* The messages of a window that go to the model, cut into segments: none is left
\* out and none comes in from elsewhere.
Readable(from, to) == {i \in DOMAIN messages : from < i /\ i <= to /\ ~Secret(i)}

\* A message before the end is in a segment before the end.
LEMMA QuotientBound ==
    ASSUME NEW c \in Nat, NEW b \in Nat, NEW s \in Nat \ {0}, b < c
    PROVE  b \div s \in Nat /\ b \div s + 1 <= (c + s - 1) \div s
OBVIOUS

\* _segment_transcript: the segments of a window hold its readable messages, all of them.
LEMMA SegmentsPartition ==
    ASSUME TypeOK, NEW from \in Nat, NEW to \in Nat
    PROVE  /\ segment_transcript(from, to) \in Seq(SUBSET Nat)
           /\ \A j \in DOMAIN segment_transcript(from, to) :
                  segment_transcript(from, to)[j] \subseteq Readable(from, to)
           /\ \A i \in Readable(from, to) : \E j \in DOMAIN segment_transcript(from, to) :
                  i \in segment_transcript(from, to)[j]
<1> DEFINE ids == Readable(from, to)
           before(i) == Cardinality({x \in ids : x < i})
           n == (Cardinality(ids) + SegmentSize - 1) \div SegmentSize
           cut == [j \in 1..n |-> {i \in ids : before(i) \div SegmentSize = j - 1}]
<1>1. segment_transcript(from, to) = cut
    BY DEF segment_transcript, Readable, Secret
<1>2. ids \in SUBSET Nat /\ IsFiniteSet(ids) /\ Cardinality(ids) \in Nat
    <2>1. Len(messages) \in Nat /\ DOMAIN messages = 1..Len(messages)
        BY DEF TypeOK
    <2>2. ids \in SUBSET (1..Len(messages))
        BY <2>1 DEF Readable
    <2>3. IsFiniteSet(1..Len(messages))
        BY <2>1, FS_Interval
    <2> QED BY <2>2, <2>3, FS_Subset, FS_CardinalityType
<1>3. n \in Nat
    BY <1>2, SegmentAssumption
<1>4. ASSUME NEW i \in ids
      PROVE  /\ before(i) \in Nat /\ before(i) < Cardinality(ids)
    <2> DEFINE B == {x \in ids : x < i}
    <2>1. B \in SUBSET ids /\ i \notin B
        BY <1>2
    <2>2. IsFiniteSet(B) /\ Cardinality(B) <= Cardinality(ids) /\ Cardinality(B) \in Nat
          /\ Cardinality(B) # Cardinality(ids)
        BY <1>2, <2>1, FS_Subset, FS_CardinalityType
    <2> QED BY <1>2, <2>2
<1>5. ASSUME NEW i \in ids
      PROVE  \E j \in 1..n : before(i) \div SegmentSize = j - 1
    <2> HIDE DEF before
    <2>1. before(i) \div SegmentSize \in Nat /\ before(i) \div SegmentSize + 1 <= n
        BY <1>2, <1>4, QuotientBound, SegmentAssumption
    <2> DEFINE q == before(i) \div SegmentSize
    <2>2. q \in Nat /\ q + 1 <= n
        BY <2>1
    <2> HIDE DEF q, n
    <2>3. q + 1 \in 1..n /\ q = (q + 1) - 1
        BY <1>3, <2>2
    <2> QED BY <2>3 DEF q
<1>6. cut \in Seq(SUBSET Nat) /\ DOMAIN cut = 1..n
    <2>1. \A j \in 1..n : {i \in ids : before(i) \div SegmentSize = j - 1} \in SUBSET Nat
        BY <1>2
    <2> HIDE DEF before, n, ids
    <2>2. cut \in [1..n -> SUBSET Nat]
        BY <2>1
    <2> HIDE DEF cut
    <2> QED BY <1>3, <2>2
<1> HIDE DEF before, n
<1> QED BY <1>1, <1>5, <1>6

-----------------------------------------------------------------------------
(* What steps do to the parts of the state.                                 *)

MessagesGrow ==
    /\ Len(messages) <= Len(messages')
    /\ \A i \in DOMAIN messages : i \in DOMAIN messages' /\ messages'[i] = messages[i]

LEMMA AppendGrows ==
    ASSUME TypeOK, NEW m \in Message, messages' = Append(messages, m)
    PROVE  /\ messages' \in Seq(Message) /\ MessagesGrow
           /\ Len(messages') = Len(messages) + 1 /\ messages'[Len(messages')] = m
BY DEF TypeOK, MessagesGrow

LEMMA RunFrame ==
    ASSUME RunOK, UNCHANGED <<messages, run>>
    PROVE  RunOK'
BY DEF RunOK, Said, Last

LEMMA WorkFrame ==
    ASSUME WorkOK, work' = work, DOMAIN jobs \subseteq DOMAIN jobs'
    PROVE  WorkOK'
BY DEF WorkOK

LEMMA SegmentsFrame ==
    ASSUME SegmentsOK, work' = work, MessagesGrow
    PROVE  SegmentsOK'
<1> SUFFICES ASSUME NEW w \in Segmenting, NEW j \in DOMAIN work[w].segments,
                    NEW i \in work[w].segments[j]
             PROVE  i \in DOMAIN messages' /\ ~Secret(i)'
    BY DEF SegmentsOK, Segmenting
<1>1. i \in DOMAIN messages /\ ~Secret(i)
    BY DEF SegmentsOK
<1> QED BY <1>1 DEF MessagesGrow, Secret

LEMMA StaysGrown == messages' = messages => MessagesGrow
BY DEF MessagesGrow

\* A worker moves to a place of its own; the others stay where they are.
LEMMA WorkerMoves ==
    ASSUME TypeOK, NEW w \in Workers, NEW q \in WorkState, work' = [work EXCEPT ![w] = q]
    PROVE  /\ work' \in [Workers -> WorkState] /\ work'[w] = q
           /\ \A x \in Workers : x # w => work'[x] = work[x]
BY DEF TypeOK

WorkOKAt(q) ==
    /\ q.step \in {"next", "extract", "save", "complete"} => q.queue \subseteq DOMAIN jobs
    /\ q.step \in {"extract", "save", "complete"} => q.job \in DOMAIN jobs
    /\ q.step = "save" => q.segments # <<>> /\ HasValue(q.candidate)

SegmentsOKAt(q) ==
    q.step \in {"extract", "save"} =>
        \A j \in DOMAIN q.segments :
            q.segments[j] \subseteq {i \in DOMAIN messages : ~Secret(i)}

LEMMA WorkerStaysOK ==
    ASSUME TypeInv, NEW w \in Workers, NEW q \in WorkState, work' = [work EXCEPT ![w] = q],
           DOMAIN jobs \subseteq DOMAIN jobs', messages' = messages,
           WorkOKAt(q), SegmentsOKAt(q)
    PROVE  work' \in [Workers -> WorkState] /\ WorkOK' /\ SegmentsOK'
<1>1. /\ work' \in [Workers -> WorkState] /\ work'[w] = q
      /\ \A x \in Workers : x # w => work'[x] = work[x]
    BY WorkerMoves DEF TypeInv
<1>2. ASSUME NEW x \in Workers PROVE WorkOKAt(work'[x])
    BY <1>1, <1>2 DEF TypeInv, WorkOK, WorkOKAt
<1>3. WorkOK'
    BY <1>2 DEF WorkOK, WorkOKAt
<1>4. ASSUME NEW x \in Workers PROVE SegmentsOKAt(work'[x])
    BY <1>1, <1>4 DEF TypeInv, SegmentsOK, SegmentsOKAt, Segmenting
<1>5. SegmentsOK'
    BY <1>4 DEF SegmentsOK, SegmentsOKAt, Segmenting, Secret
<1> QED BY <1>1, <1>3, <1>5

LEMMA PlaceOfWorker ==
    ASSUME TypeOK, NEW w \in Workers
    PROVE  /\ work[w] \in WorkState
           /\ work[w].step = "scan" => work[w] \in Between
           /\ work[w].step = "next" => work[w] \in Round
           /\ work[w].step \in {"extract", "complete"} => work[w] \in Segmented
           /\ work[w].step = "save" => work[w] \in Saving
BY DEF TypeOK, WorkState, Between, Round, Segmented, Saving

\* Jobs are added and change their status; none disappears.
LEMMA JobAdded ==
    ASSUME TypeOK, NEW k \in JobKey, NEW g \in Nat, enqueue_job(k, g)
    PROVE  JobsOK' /\ DOMAIN jobs' = DOMAIN jobs \cup {k}
<1>1. CASE k \in DOMAIN jobs
    BY <1>1 DEF TypeOK, JobsOK, enqueue_job
<1>2. CASE k \notin DOMAIN jobs
    <2>1. NewJob(g) \in Job
        BY DEF NewJob, Job, Nothing
    <2>2. jobs' = [j \in DOMAIN jobs \cup {k} |-> IF j = k THEN NewJob(g) ELSE jobs[j]]
        BY <1>2 DEF enqueue_job
    <2> QED BY <2>1, <2>2 DEF TypeOK, JobsOK
<1> QED BY <1>1, <1>2

LEMMA JobUpdated ==
    ASSUME TypeOK, NEW w \in Workers, NEW k \in DOMAIN jobs,
           NEW status \in {"pending", "failed", "cancelled", "succeeded"},
           update_job(w, k, status)
    PROVE  JobsOK' /\ DOMAIN jobs' = DOMAIN jobs
<1>1. CASE HasToken(w, k)
    <2> DEFINE new == [[jobs[k] EXCEPT !.status = status] EXCEPT !.token = Nothing]
    <2>1. jobs[k] \in Job
        BY DEF TypeOK, JobsOK
    <2>2. new \in Job
        BY <2>1 DEF Job, Nothing
    <2>3. jobs' = [jobs EXCEPT ![k] = new]
        BY <1>1 DEF update_job, TypeOK, JobsOK
    <2> HIDE DEF new
    <2> QED BY <2>2, <2>3 DEF TypeOK, JobsOK
<1>2. CASE ~HasToken(w, k)
    BY <1>2 DEF update_job, TypeOK, JobsOK
<1> QED BY <1>1, <1>2

-----------------------------------------------------------------------------
(* Types.                                                                   *)

LEMMA InitType == Init => TypeInv
<1> SUFFICES ASSUME Init PROVE TypeInv
    OBVIOUS
<1>1. messages \in Seq(Message) /\ facts \in Seq(FactRecord)
    BY DEF Init
<1>2. JobsOK
    BY DEF Init, JobsOK
<1>3. work \in [Workers -> WorkState] /\ \A w \in Workers : work[w].step = "idle"
    BY DEF Init, Idle, WorkState, Between
<1>4. TypeOK
    BY <1>1, <1>2, <1>3 DEF Init, TypeOK, NoRun, Run, Cursor
<1>5. RunOK /\ WorkOK /\ SegmentsOK
    BY <1>3 DEF Init, NoRun, RunOK, WorkOK, SegmentsOK, Segmenting
<1> QED BY <1>4, <1>5 DEF TypeInv

LEMMA SendType ==
    ASSUME TypeInv, NEW c \in Contents, send_message(c)
    PROVE  TypeInv'
<1> DEFINE m == [role |-> "user", says |-> c]
<1>1. m \in Message /\ m \in [role : {"user"}, says : Contents]
    BY DEF Message
<1>2. /\ messages' \in Seq(Message) /\ MessagesGrow
      /\ Len(messages') = Len(messages) + 1 /\ messages'[Len(messages')] = m
    BY <1>1, AppendGrows DEF TypeInv, send_message
<1>3. run' \in Run /\ (run'.step = "remember" => c.kind = "remember") /\ run'.step # "save"
    BY DEF send_message, Run
<1>4. RunOK'
    BY <1>1, <1>2, <1>3 DEF RunOK, Said, Last, TypeInv, TypeOK
<1>5. TypeOK'
    BY <1>2, <1>3 DEF send_message, TypeInv, TypeOK, settings, bounds, JobsOK
<1>6. WorkOK' /\ SegmentsOK'
    BY <1>2, WorkFrame, SegmentsFrame DEF send_message, TypeInv
<1> QED BY <1>4, <1>5, <1>6 DEF TypeInv

\* decide_merge on a fact that the slot was found to have: only an empty slot is added to,
\* and only a correction replaces.
LEMMA SlotFound ==
    ASSUME TypeOK, NEW c \in Contents, NEW p \in find_active_by_slot
    PROVE  /\ p \in Nat /\ decide_merge(c, p) \in Decisions
           /\ decide_merge(c, p) = "ADD" <=> p = Nothing
           /\ decide_merge(c, p) = "ADD" => Active = {}
           /\ decide_merge(c, p) # "ADD" => p \in Active
           /\ decide_merge(c, p) = "UPDATE" => c.kind = "correction"
<1>1. Active \subseteq Nat \ {0}
    BY DEF TypeOK, Active
<1>2. CASE Active = {}
    BY <1>2 DEF find_active_by_slot, decide_merge, Decisions, Nothing
<1>3. CASE Active # {}
    <2>1. p \in Active /\ p # Nothing /\ p \in Nat
        BY <1>1, <1>3 DEF find_active_by_slot, Nothing
    <2>2. decide_merge(c, p) \in {"NOOP", "UPDATE", "QUARANTINE"}
        BY <2>1 DEF decide_merge
    <2>3. decide_merge(c, p) = "UPDATE" => c.kind = "correction"
        BY <2>1 DEF decide_merge
    <2> HIDE DEF decide_merge
    <2> QED BY <2>1, <2>2, <2>3 DEF Decisions
<1> QED BY <1>2, <1>3

LEMMA RememberType ==
    ASSUME TypeInv, process_natural_memory_once
    PROVE  TypeInv'
<1>1. run.step = "remember" /\ Said \in Contents /\ Said.kind = "remember"
    BY DEF process_natural_memory_once, TypeInv, RunOK, Said, Last
<1>2. run' \in Run /\ overlapped' \in BOOLEAN
    <2>1. CASE process_natural_intent
        <3>1. PICK p \in find_active_by_slot :
                 run' = [step |-> "save", previous |-> p,
                         decision |-> decide_merge(Said, p)]
            BY <2>1 DEF process_natural_intent
        <3>2. p \in Nat /\ decide_merge(Said, p) \in Decisions
            BY <1>1, SlotFound DEF TypeInv
        <3> QED BY <2>1, <3>1, <3>2
                DEF process_natural_intent, Run, ReadSlot, Writing, TypeInv, TypeOK
    <2>2. CASE ~process_natural_intent
        BY <2>2 DEF process_natural_memory_once, Run, TypeInv, TypeOK
    <2> QED BY <2>1, <2>2
<1>3. TypeOK'
    BY <1>2 DEF process_natural_memory_once, TypeInv, TypeOK, settings, bounds, JobsOK
<1>4. RunOK'
    BY <1>1 DEF process_natural_memory_once, TypeInv, RunOK, Said, Last
<1>5. WorkOK' /\ SegmentsOK'
    BY WorkFrame, SegmentsFrame, StaysGrown DEF process_natural_memory_once, TypeInv
<1> QED BY <1>3, <1>4, <1>5 DEF TypeInv

\* What is written into the slot, whoever writes it.
LEMMA Resolved ==
    ASSUME NEW fs \in Seq(FactRecord)
    PROVE  /\ resolve_quarantine(fs) \in Seq(FactRecord)
           /\ DOMAIN resolve_quarantine(fs) = DOMAIN fs
           /\ \A i \in DOMAIN fs :
                  resolve_quarantine(fs)[i].status = "active" <=> fs[i].status = "active"
<1> DEFINE new(i) == IF fs[i].status = "quarantine"
                     THEN [fs[i] EXCEPT !.status = "superseded"] ELSE fs[i]
<1>1. ASSUME NEW i \in DOMAIN fs
      PROVE  new(i) \in FactRecord /\ (new(i).status = "active" <=> fs[i].status = "active")
    <2>1. fs[i] \in FactRecord
        OBVIOUS
    <2> QED BY <2>1 DEF FactRecord
<1>2. resolve_quarantine(fs) = [i \in 1..Len(fs) |-> new(i)]
    BY DEF resolve_quarantine
<1> HIDE DEF new
<1>3. resolve_quarantine(fs) \in [1..Len(fs) -> FactRecord]
    BY <1>1, <1>2
<1> QED BY <1>1, <1>2, <1>3

\* One fact is deactivated and the others stay what they were.
LEMMA Superseded ==
    ASSUME TypeOK, NEW p, NEW s \in {"superseded", "deleted"}
    PROVE  LET fs == [facts EXCEPT ![p].status = s]
           IN  /\ fs \in Seq(FactRecord) /\ DOMAIN fs = DOMAIN facts
               /\ \A i \in DOMAIN facts :
                      fs[i].status = "active" <=> i # p /\ facts[i].status = "active"
<1> DEFINE old == [facts[p] EXCEPT !.status = s]
           fs == [facts EXCEPT ![p] = old]
<1>0. /\ facts \in [1..Len(facts) -> FactRecord] /\ Len(facts) \in Nat
      /\ DOMAIN facts = 1..Len(facts)
    BY DEF TypeOK
<1>1. ASSUME p \in DOMAIN facts PROVE old \in FactRecord /\ old.status = s
    <2>1. facts[p] \in FactRecord
        BY <1>0, <1>1
    <2> QED BY <2>1 DEF FactRecord
<1>2. [facts EXCEPT ![p].status = s] = fs
    BY DEF TypeOK
<1> HIDE DEF old
<1>3. fs \in [1..Len(facts) -> FactRecord] /\ DOMAIN fs = DOMAIN facts
    BY <1>0, <1>1
<1>4. \A i \in DOMAIN facts : fs[i] = IF i = p THEN old ELSE facts[i]
    BY <1>0
<1>5. fs \in Seq(FactRecord)
    BY <1>0, <1>3
<1> QED BY <1>1, <1>2, <1>3, <1>4, <1>5

\* A new fact at the end: it alone is active beside those that were.
LEMMA Appended ==
    ASSUME NEW fs \in Seq(FactRecord), NEW v \in Values, NEW s \in {"active", "quarantine"}
    PROVE  LET new == Append(fs, Fact(v, s))
           IN  /\ new \in Seq(FactRecord) /\ DOMAIN new = DOMAIN fs \cup {Len(fs) + 1}
               /\ \A i \in DOMAIN fs : new[i] = fs[i]
               /\ new[Len(fs) + 1].status = s
               /\ Len(fs) + 1 \notin DOMAIN fs
<1>1. Fact(v, s) \in FactRecord /\ Fact(v, s).status = s
    BY DEF Fact, FactRecord
<1> QED BY <1>1

\* _remember_candidate: what becomes of the active facts for each decision.
LEMMA FactsWritten ==
    ASSUME TypeOK, NEW c \in Contents, HasValue(c), NEW p, NEW d \in Decisions,
           remember_candidate(c, p, d)
    PROVE  /\ facts' \in Seq(FactRecord)
           /\ DOMAIN facts \subseteq DOMAIN facts'
           /\ d \in {"NOOP", "QUARANTINE"} => Active' = Active
           /\ d \in {"ADD", "UPDATE"} =>
                  \E n \in DOMAIN facts' :
                      Active' = (IF d = "ADD" THEN Active ELSE Active \ {p}) \cup {n}
<1>1. c.value \in Values
    BY ContentsAssumption DEF HasValue
<1>2. facts \in Seq(FactRecord)
    BY DEF TypeOK
<1>3. CASE d = "QUARANTINE"
    <2>1. facts' = Append(facts, Fact(c.value, "quarantine"))
        BY <1>3 DEF remember_candidate
    <2> QED BY <1>1, <1>2, <1>3, <2>1, Appended DEF Active
<1>4. CASE d = "NOOP"
    <2>1. facts' = resolve_quarantine(facts)
        BY <1>4 DEF remember_candidate
    <2> QED BY <1>2, <1>4, <2>1, Resolved DEF Active
<1>5. CASE d = "ADD"
    <2> DEFINE fs == Append(facts, Fact(c.value, "active"))
    <2>1. facts' = resolve_quarantine(fs)
        BY <1>5 DEF remember_candidate
    <2>2. /\ fs \in Seq(FactRecord) /\ DOMAIN fs = DOMAIN facts \cup {Len(facts) + 1}
          /\ \A i \in DOMAIN facts : fs[i] = facts[i]
          /\ fs[Len(facts) + 1].status = "active"
        BY <1>1, <1>2, Appended
    <2> HIDE DEF fs
    <2> QED BY <1>2, <1>5, <2>1, <2>2, Resolved DEF Active
<1>6. CASE d = "UPDATE"
    <2> DEFINE old == [facts EXCEPT ![p].status = "superseded"]
               fs == Append(old, Fact(c.value, "active"))
    <2>1. facts' = resolve_quarantine(fs)
        BY <1>6 DEF remember_candidate
    <2>2. /\ old \in Seq(FactRecord) /\ DOMAIN old = DOMAIN facts
          /\ \A i \in DOMAIN facts :
                 old[i].status = "active" <=> i # p /\ facts[i].status = "active"
        BY Superseded
    <2> HIDE DEF old
    <2>3. /\ fs \in Seq(FactRecord) /\ DOMAIN fs = DOMAIN old \cup {Len(old) + 1}
          /\ \A i \in DOMAIN old : fs[i] = old[i]
          /\ fs[Len(old) + 1].status = "active" /\ Len(old) + 1 \notin DOMAIN old
        BY <1>1, <2>2, Appended
    <2> HIDE DEF fs
    <2>4. DOMAIN facts' = DOMAIN fs /\ facts' \in Seq(FactRecord)
          /\ \A i \in DOMAIN fs : facts'[i].status = "active" <=> fs[i].status = "active"
        BY <2>1, <2>3, Resolved
    <2>5. Active' = (Active \ {p}) \cup {Len(old) + 1}
        BY <2>2, <2>3, <2>4 DEF Active
    <2> QED BY <1>6, <2>2, <2>3, <2>4, <2>5
<1> QED BY <1>3, <1>4, <1>5, <1>6 DEF Decisions

LEMMA SavedType ==
    ASSUME TypeInv, remember_all_result
    PROVE  TypeInv'
<1>1. run.step = "save" /\ Said \in Contents /\ Said.kind = "remember"
    BY DEF remember_all_result, TypeInv, RunOK, Said, Last
<1>2. run.decision \in Decisions
    BY <1>1 DEF TypeInv, TypeOK, Run
<1>3. facts' \in Seq(FactRecord)
    BY <1>1, <1>2, FactsWritten DEF remember_all_result, TypeInv, HasValue
<1>4. TypeOK'
    BY <1>3 DEF remember_all_result, TypeInv, TypeOK, settings, bounds, JobsOK, Run
<1>5. RunOK'
    BY <1>1 DEF remember_all_result, TypeInv, RunOK, Said, Last
<1>6. WorkOK' /\ SegmentsOK'
    BY WorkFrame, SegmentsFrame, StaysGrown DEF remember_all_result, TypeInv
<1> QED BY <1>4, <1>5, <1>6 DEF TypeInv

LEMMA CompleteType ==
    ASSUME TypeInv, complete_run
    PROVE  TypeInv'
<1>1. [role |-> "assistant"] \in Message
    BY DEF Message
<1>2. messages' \in Seq(Message) /\ MessagesGrow
    BY <1>1, AppendGrows DEF TypeInv, complete_run
<1>3. recorders' \subseteq Recorder
    BY DEF complete_run, TypeInv, TypeOK, Recorder
<1>4. run' \in Run /\ run'.step = "none"
    BY DEF complete_run, NoRun, Run
<1>5. TypeOK'
    BY <1>2, <1>3, <1>4 DEF complete_run, TypeInv, TypeOK, settings, bounds, JobsOK
<1>6. RunOK'
    BY <1>4 DEF RunOK
<1>7. WorkOK' /\ SegmentsOK'
    BY <1>2, WorkFrame, SegmentsFrame DEF complete_run, TypeInv
<1> QED BY <1>5, <1>6, <1>7 DEF TypeInv

LEMMA FailType ==
    ASSUME TypeInv, fail_run
    PROVE  TypeInv'
<1>1. run' \in Run /\ run'.step = "none"
    BY DEF fail_run, NoRun, Run
<1>2. TypeOK'
    BY <1>1 DEF fail_run, Fault, TypeInv, TypeOK, settings, JobsOK
<1>3. RunOK'
    BY <1>1 DEF RunOK
<1>4. WorkOK' /\ SegmentsOK'
    BY WorkFrame, SegmentsFrame, StaysGrown DEF fail_run, TypeInv
<1> QED BY <1>2, <1>3, <1>4 DEF TypeInv

LEMMA RecorderAt ==
    ASSUME TypeOK, NEW r \in recorders
    PROVE  /\ r.step \in {"read", "upsert"} => r.seq \in Nat
           /\ r.step = "upsert" => r.previous \in Cursor
           /\ r.step = "enqueue" => r.from \in Nat /\ r.to \in Nat
           /\ r.step \in {"read", "upsert", "enqueue"}
BY DEF TypeOK, Recorder

LEMMA RecordType ==
    ASSUME TypeInv, NEW r \in recorders,
           \/ get_consolidation_cursor(r)
           \/ upsert_consolidation_cursor(r)
           \/ record_user_message(r)
    PROVE  TypeInv'
<1>1. CASE get_consolidation_cursor(r)
    <2>1. recorders' \subseteq Recorder
        BY <1>1, RecorderAt DEF get_consolidation_cursor, Become, TypeInv, TypeOK, Recorder
    <2>2. TypeOK'
        BY <1>1, <2>1
           DEF get_consolidation_cursor, TypeInv, TypeOK, settings, bounds, JobsOK
    <2> QED BY <1>1, <2>2, RunFrame, WorkFrame, SegmentsFrame, StaysGrown
            DEF get_consolidation_cursor, TypeInv
<1>2. CASE upsert_consolidation_cursor(r)
    <2> DEFINE now == [cursor EXCEPT !.last = Max({@, r.seq})]
    <2>1. r.seq \in Nat /\ cursor \in Cursor
        BY <1>2, RecorderAt DEF upsert_consolidation_cursor, TypeInv, TypeOK
    <2>2. Max({cursor.last, r.seq}) \in Nat
        BY <2>1, MaxOfTwo DEF Cursor
    <2>3. now \in Cursor /\ now.done = cursor.done
        BY <2>1, <2>2 DEF Cursor
    <2> HIDE DEF now
    <2>4. /\ cursor' = now /\ quiet' = FALSE
          /\ \/ recorders' = recorders \ {r}
             \/ recorders' = (recorders \ {r}) \cup
                    {[step |-> "enqueue", from |-> now.done, to |-> now.last]}
        BY <1>2 DEF upsert_consolidation_cursor, Become, now
    <2>5. recorders' \subseteq Recorder
        BY <2>3, <2>4 DEF TypeInv, TypeOK, Recorder, Cursor
    <2>6. TypeOK'
        BY <1>2, <2>3, <2>4, <2>5
           DEF upsert_consolidation_cursor, TypeInv, TypeOK, settings, bounds, JobsOK
    <2> QED BY <1>2, <2>6, RunFrame, WorkFrame, SegmentsFrame, StaysGrown
            DEF upsert_consolidation_cursor, TypeInv
<1>3. CASE record_user_message(r)
    <2>1. recorders' \subseteq Recorder
        BY <1>3 DEF record_user_message, Become, TypeInv, TypeOK
    <2>2. JobsOK' /\ DOMAIN jobs \subseteq DOMAIN jobs'
        <3>1. CASE capture_snapshot
            <4>1. <<"consolidate", r.from, r.to>> \in JobKey
                BY <1>3, RecorderAt DEF record_user_message, TypeInv, JobKey, WindowKey
            <4>2. enqueue_job(<<"consolidate", r.from, r.to>>, generation)
                BY <1>3, <3>1 DEF record_user_message, enqueue_consolidation
            <4>3. generation \in Nat /\ TypeOK
                BY DEF TypeInv, TypeOK
            <4> QED BY <4>1, <4>2, <4>3, JobAdded
        <3>2. CASE ~capture_snapshot
            BY <1>3, <3>2 DEF record_user_message, TypeInv, TypeOK, JobsOK
        <3> QED BY <3>1, <3>2
    <2>3. TypeOK'
        BY <1>3, <2>1, <2>2
           DEF record_user_message, TypeInv, TypeOK, settings, bounds
    <2> QED BY <1>3, <2>2, <2>3, RunFrame, WorkFrame, SegmentsFrame, StaysGrown
            DEF record_user_message, TypeInv
<1> QED BY <1>1, <1>2, <1>3

LEMMA QuietType ==
    ASSUME TypeInv, FallQuiet
    PROVE  TypeInv'
<1>1. TypeOK'
    BY DEF FallQuiet, TypeInv, TypeOK, settings, bounds, JobsOK
<1> QED BY <1>1, RunFrame, WorkFrame, SegmentsFrame, StaysGrown DEF FallQuiet, TypeInv

\* With one job done, a worker takes the next of its round or is done with the round.
LEMMA NextJob ==
    ASSUME TypeInv, NEW w \in Workers, NEW k,
           work[w].step \in {"next", "extract", "save", "complete"}, Next_job(w, k)
    PROVE  \E q \in WorkState :
               /\ work' = [work EXCEPT ![w] = q]
               /\ q.step \in {"idle", "next"}
               /\ WorkOKAt(q) /\ SegmentsOKAt(q)
<1> DEFINE q == IF work[w].queue = {k} THEN Idle
                ELSE [step |-> "next", queue |-> work[w].queue \ {k}]
<1>1. work' = [work EXCEPT ![w] = q]
    BY DEF Next_job
<1>2. work[w].queue \in SUBSET JobKey /\ work[w].queue \subseteq DOMAIN jobs
    <2>1. work[w] \in Round \cup Segmented \cup Saving
        BY PlaceOfWorker DEF TypeInv
    <2> QED BY <2>1 DEF TypeInv, WorkOK, Round, Segmented, Saving
<1>3. q \in Between \cup Round /\ q.step \in {"idle", "next"}
    BY <1>2 DEF Between, Round, Idle
<1>4. WorkOKAt(q) /\ SegmentsOKAt(q)
    BY <1>2 DEF WorkOKAt, SegmentsOKAt, Idle
<1>5. q \in WorkState
    BY <1>3 DEF WorkState
<1> HIDE DEF q
<1> QED BY <1>1, <1>3, <1>4, <1>5

LEMMA RetryMoves ==
    ASSUME TypeInv, NEW w \in Workers, NEW k \in DOMAIN jobs,
           work[w].step \in {"next", "extract", "save", "complete"}, retry(w, k)
    PROVE  /\ JobsOK' /\ DOMAIN jobs' = DOMAIN jobs
           /\ \E q \in WorkState :
                  /\ work' = [work EXCEPT ![w] = q]
                  /\ q.step \in {"idle", "next"}
                  /\ WorkOKAt(q) /\ SegmentsOKAt(q)
<1>1. JobsOK' /\ DOMAIN jobs' = DOMAIN jobs
    <2>1. PICK status \in {"pending", "failed", "cancelled", "succeeded"} :
             update_job(w, k, status)
        BY DEF retry
    <2> QED BY <2>1, JobUpdated DEF TypeInv
<1>2. Next_job(w, k)
    BY DEF retry
<1> QED BY <1>1, <1>2, NextJob

\* A step of a worker that keeps to its own place and to the jobs.
LEMMA WorkerKeepsType ==
    ASSUME TypeInv, NEW w \in Workers, NEW q \in WorkState,
           work' = [work EXCEPT ![w] = q], WorkOKAt(q), SegmentsOKAt(q),
           JobsOK', DOMAIN jobs \subseteq DOMAIN jobs',
           UNCHANGED <<messages, run, recorders, quiet, enabled, generation, confirmation,
                       changes>>,
           cursor' \in Cursor, purging' \in BOOLEAN, facts' \in Seq(FactRecord),
           extracted' \subseteq Nat, overlapped' \in BOOLEAN, faults' \in Nat
    PROVE  TypeInv'
<1>1. work' \in [Workers -> WorkState] /\ WorkOK' /\ SegmentsOK'
    BY WorkerStaysOK
<1>2. TypeOK'
    BY <1>1 DEF TypeInv, TypeOK
<1>3. RunOK'
    BY RunFrame DEF TypeInv
<1> QED BY <1>1, <1>2, <1>3 DEF TypeInv

LEMMA PendingType ==
    ASSUME TypeInv, NEW w \in Workers, process_pending_jobs(w)
    PROVE  TypeInv'
<1>1. PICK crowded \in BOOLEAN, to \in {cursor.last, cursor.done} :
          work' = [work EXCEPT ![w] = [step |-> "scan", crowded |-> crowded,
                                       from |-> cursor.done, to |-> to]]
    BY DEF process_pending_jobs
<1> DEFINE q == [step |-> "scan", crowded |-> crowded, from |-> cursor.done, to |-> to]
<1>2. q \in WorkState /\ WorkOKAt(q) /\ SegmentsOKAt(q)
    BY DEF TypeInv, TypeOK, Cursor, WorkState, Between, WorkOKAt, SegmentsOKAt
<1>3. work' = [work EXCEPT ![w] = q]
    BY <1>1
<1> HIDE DEF q
<1>4. /\ UNCHANGED <<messages, run, recorders, quiet, enabled, generation, purging,
                     confirmation, changes, cursor, jobs, facts, extracted, overlapped, faults>>
    BY DEF process_pending_jobs, workRest, settings
<1> QED BY <1>2, <1>3, <1>4, WorkerKeepsType DEF TypeInv, TypeOK, JobsOK

LEMMA ScanType ==
    ASSUME TypeInv, NEW w \in Workers, enqueue_idle_consolidations(w)
    PROVE  TypeInv'
<1> DEFINE k == <<"consolidate", work[w].from, work[w].to>>
<1>1. work[w].step = "scan" /\ work[w].from \in Nat /\ work[w].to \in Nat
    BY PlaceOfWorker DEF enqueue_idle_consolidations, TypeInv, Between
<1>2. k \in JobKey
    BY <1>1 DEF JobKey, WindowKey
<1>3. /\ UNCHANGED <<messages, run, recorders, quiet, enabled, generation, purging,
                     confirmation, changes, cursor, facts, extracted, overlapped, faults>>
    BY DEF enqueue_idle_consolidations, workRest, settings
<1>4. PICK q \in {[step |-> "claim"], Idle} : work' = [work EXCEPT ![w] = q]
    BY DEF enqueue_idle_consolidations
<1>5. q \in WorkState /\ WorkOKAt(q) /\ SegmentsOKAt(q)
    BY <1>4 DEF Idle, WorkState, Between, WorkOKAt, SegmentsOKAt
<1>6. JobsOK' /\ DOMAIN jobs \subseteq DOMAIN jobs'
    <2>1. CASE jobs' = jobs
        BY <2>1 DEF TypeInv, TypeOK, JobsOK
    <2>2. CASE enqueue_job(k, generation)
        BY <1>2, <2>2, JobAdded DEF TypeInv, TypeOK
    <2> QED BY <2>1, <2>2 DEF enqueue_idle_consolidations, enqueue_consolidation
<1> QED BY <1>3, <1>4, <1>5, <1>6, WorkerKeepsType DEF TypeInv, TypeOK

LEMMA ClaimType ==
    ASSUME TypeInv, NEW w \in Workers, claim_jobs(w)
    PROVE  TypeInv'
<1> DEFINE new(k) == IF k \in Claimable
                     THEN [jobs[k] EXCEPT !.status = "running", !.attempts = @ + 1, !.token = w]
                     ELSE jobs[k]
           q == IF Claimable = {} THEN Idle ELSE [step |-> "next", queue |-> Claimable]
<1>1. jobs' = [k \in DOMAIN jobs |-> new(k)] /\ work' = [work EXCEPT ![w] = q]
    BY DEF claim_jobs
<1>2. ASSUME NEW k \in DOMAIN jobs PROVE new(k) \in Job
    <2>1. jobs[k] \in Job
        BY DEF TypeInv, TypeOK, JobsOK
    <2>2. ASSUME NEW j \in Job
          PROVE  [j EXCEPT !.status = "running", !.attempts = @ + 1, !.token = w] \in Job
        <3> DEFINE s == [j EXCEPT !.status = "running"]
                   t == [s EXCEPT !.attempts = j.attempts + 1]
        <3>1. s \in Job
            BY DEF Job
        <3>2. j.attempts + 1 \in Nat
            BY DEF Job
        <3> HIDE DEF s
        <3>3. t \in Job
            BY <3>1, <3>2 DEF Job
        <3> HIDE DEF t
        <3>4. [t EXCEPT !.token = w] \in Job
            BY <3>3 DEF Job
        <3>5. [j EXCEPT !.status = "running", !.attempts = @ + 1, !.token = w] =
                  [t EXCEPT !.token = w]
            BY DEF s, t, Job
        <3> QED BY <3>4, <3>5
    <2> QED BY <2>1, <2>2
<1>3. q \in WorkState /\ WorkOKAt(q) /\ SegmentsOKAt(q)
    <2>1. Claimable \subseteq DOMAIN jobs /\ Claimable \in SUBSET JobKey
        BY DEF Claimable, TypeInv, TypeOK, JobsOK
    <2> HIDE DEF Claimable
    <2> QED BY <2>1 DEF Idle, WorkState, Between, Round, WorkOKAt, SegmentsOKAt
<1> HIDE DEF new, q
<1>4. JobsOK' /\ DOMAIN jobs' = DOMAIN jobs
    BY <1>1, <1>2 DEF TypeInv, TypeOK, JobsOK
<1>5. /\ UNCHANGED <<messages, run, recorders, quiet, enabled, generation, purging,
                     confirmation, changes, cursor, facts, extracted, overlapped, faults>>
    BY DEF claim_jobs, workRest, settings
<1> QED BY <1>1, <1>3, <1>4, <1>5, WorkerKeepsType DEF TypeInv, TypeOK

\* What a worker keeps of the window it is working on.
LEMMA WindowAt ==
    ASSUME TypeInv, NEW w \in Workers, work[w].step \in {"extract", "save", "complete"}
    PROVE  /\ work[w].queue \in SUBSET JobKey /\ work[w].queue \subseteq DOMAIN jobs
           /\ work[w].job \in WindowKey /\ work[w].job \in DOMAIN jobs
           /\ work[w].job[1] = "consolidate"
           /\ work[w].job[2] \in Nat /\ work[w].job[3] \in Nat
           /\ work[w].segments \in Seq(SUBSET Nat)
<1>1. work[w] \in Segmented \cup Saving
    BY PlaceOfWorker DEF TypeInv
<1>2. work[w].job \in WindowKey
    BY <1>1 DEF Segmented, Saving
<1> QED BY <1>1, <1>2 DEF TypeInv, WorkOK, Segmented, Saving, WindowKey

LEMMA KeyKinds ==
    ASSUME NEW k \in JobKey
    PROVE  /\ k[1] = "consolidate" => k \in WindowKey /\ k[2] \in Nat /\ k[3] \in Nat
           /\ k[1] = "purge" => k[2] \in Nat
BY DEF JobKey, WindowKey

LEMMA DispatchType ==
    ASSUME TypeInv, NEW w \in Workers, NEW k \in DOMAIN jobs, dispatch(w, k)
    PROVE  TypeInv'
<1>1. /\ work[w].step = "next" /\ k \in work[w].queue /\ k[1] = "consolidate"
      /\ UNCHANGED <<messages, run, recorders, quiet, enabled, generation, purging,
                     confirmation, changes, cursor, facts, extracted, overlapped, faults>>
    BY DEF dispatch, workRest, settings
<1>2. k \in WindowKey /\ k[2] \in Nat /\ k[3] \in Nat
    BY <1>1, KeyKinds DEF TypeInv, TypeOK, JobsOK
<1>3. CASE enabled /\ ~purging /\ jobs[k].generation = generation
    <2> DEFINE cut == segment_transcript(k[2], k[3])
               q == [step |-> "extract", queue |-> work[w].queue, job |-> k, segments |-> cut]
    <2>1. work' = [work EXCEPT ![w] = q] /\ jobs' = jobs
        BY <1>3 DEF dispatch
    <2>2. cut \in Seq(SUBSET Nat)
          /\ \A j \in DOMAIN cut : cut[j] \subseteq Readable(k[2], k[3])
        BY <1>2, SegmentsPartition DEF TypeInv
    <2>3. work[w].queue \in SUBSET JobKey /\ work[w].queue \subseteq DOMAIN jobs
        BY <1>1, PlaceOfWorker DEF TypeInv, WorkOK, Round
    <2> HIDE DEF cut
    <2>4. q \in WorkState
        BY <1>2, <2>2, <2>3 DEF WorkState, Segmented
    <2>5. WorkOKAt(q) /\ SegmentsOKAt(q)
        BY <2>2, <2>3 DEF WorkOKAt, SegmentsOKAt, Readable
    <2> HIDE DEF q
    <2> QED BY <1>1, <2>1, <2>4, <2>5, WorkerKeepsType DEF TypeInv, TypeOK, JobsOK
<1>4. CASE ~(enabled /\ ~purging /\ jobs[k].generation = generation)
    <2>1. update_job(w, k, "cancelled") /\ Next_job(w, k)
        BY <1>4 DEF dispatch
    <2>2. JobsOK' /\ DOMAIN jobs' = DOMAIN jobs
        BY <2>1, JobUpdated DEF TypeInv
    <2>3. PICK q \in WorkState : /\ work' = [work EXCEPT ![w] = q]
                                 /\ WorkOKAt(q) /\ SegmentsOKAt(q)
        BY <1>1, <2>1, NextJob
    <2> QED BY <1>1, <2>2, <2>3, WorkerKeepsType DEF TypeInv, TypeOK
<1> QED BY <1>3, <1>4

\* The latest statement of a segment that has one is a message with a value.
LEMMA LatestHasValue ==
    ASSUME TypeInv, NEW s, s \subseteq {i \in DOMAIN messages : ~Secret(i)},
           Stated(s) # {}
    PROVE  latest_candidates(s) \in Contents /\ HasValue(latest_candidates(s))
<1> DEFINE S == Stated(s)
           i == Max(S)
<1>1. Len(messages) \in Nat /\ DOMAIN messages = 1..Len(messages)
      /\ \A n \in DOMAIN messages : messages[n] \in Message
    BY DEF TypeInv, TypeOK
<1>2. S \in SUBSET (1..Len(messages))
    BY <1>1 DEF Stated
<1>3. i \in S
    BY <1>1, <1>2, MaxOfSome
<1> HIDE DEF i
<1>4. /\ i \in DOMAIN messages /\ ~Secret(i)
      /\ messages[i].role = "user" /\ messages[i].says.kind # "talk"
    BY <1>3 DEF Stated
<1>5. messages[i].says \in Contents /\ messages[i].says.kind # "secret"
    BY <1>1, <1>4 DEF Message, Secret
<1>6. HasValue(messages[i].says)
    BY <1>4, <1>5, ContentsAssumption DEF HasValue
<1> QED BY <1>5, <1>6 DEF latest_candidates, i

\* The three ways on from a segment: nothing is stated in it, the slot is read for
\* what is, or the extraction fails and the job is tried again.
NothingStated(w) ==
    /\ Stated(Head(work[w].segments)) = {}
    /\ extracted' = extracted \cup Head(work[w].segments)
    /\ work' = [work EXCEPT ![w].segments = Tail(@)]
    /\ UNCHANGED <<jobs, overlapped, faults>>

SlotRead(w) ==
    /\ Stated(Head(work[w].segments)) # {}
    /\ \E p \in find_active_by_slot :
          work' = [work EXCEPT ![w] =
              [step |-> "save", queue |-> work[w].queue, job |-> work[w].job,
               segments |-> work[w].segments,
               candidate |-> latest_candidates(Head(work[w].segments)), previous |-> p,
               decision |-> decide_merge(latest_candidates(Head(work[w].segments)), p)]]
    /\ ReadSlot(w)
    /\ UNCHANGED <<jobs, extracted, faults>>

ExtractionFails(w) ==
    /\ faults' \in {faults, faults + 1}
    /\ retry(w, work[w].job)
    /\ UNCHANGED <<extracted, overlapped>>

LEMMA ExtractCases ==
    ASSUME NEW w \in Workers, extract_window(w)
    PROVE  /\ work[w].step = "extract" /\ work[w].segments # <<>>
           /\ NothingStated(w) \/ SlotRead(w) \/ ExtractionFails(w)
           /\ UNCHANGED <<messages, run, recorders, quiet, enabled, generation, purging,
                          confirmation, changes, cursor, facts>>
BY DEF extract_window, Fault, workRest, settings,
       NothingStated, SlotRead, ExtractionFails

LEMMA HeadAndTail ==
    ASSUME NEW s \in Seq(SUBSET Nat), s # <<>>
    PROVE  /\ Head(s) = s[1] /\ Head(s) \in SUBSET Nat /\ 1 \in DOMAIN s
           /\ Tail(s) \in Seq(SUBSET Nat)
           /\ \A j \in DOMAIN Tail(s) : j + 1 \in DOMAIN s /\ Tail(s)[j] = s[j + 1]
           /\ \A j \in DOMAIN s : j # 1 => j - 1 \in DOMAIN Tail(s) /\ Tail(s)[j - 1] = s[j]
OBVIOUS

LEMMA ExtractType ==
    ASSUME TypeInv, NEW w \in Workers, extract_window(w)
    PROVE  TypeInv'
<1> DEFINE s == work[w].segments
<1>1. /\ work[w].step = "extract" /\ s # <<>>
      /\ UNCHANGED <<messages, run, recorders, quiet, enabled, generation, purging,
                     confirmation, changes, cursor, facts>>
    BY ExtractCases
<1>2. /\ work[w] \in Segmented /\ work[w].queue \in SUBSET JobKey
      /\ work[w].queue \subseteq DOMAIN jobs
      /\ work[w].job \in WindowKey /\ work[w].job \in DOMAIN jobs /\ s \in Seq(SUBSET Nat)
    BY <1>1, WindowAt, PlaceOfWorker DEF TypeInv
<1>3. \A j \in DOMAIN s : s[j] \subseteq {i \in DOMAIN messages : ~Secret(i)}
    BY <1>1 DEF TypeInv, SegmentsOK, Segmenting
<1>4. CASE NothingStated(w)
    <2> DEFINE q == [work[w] EXCEPT !.segments = Tail(s)]
    <2>1. work' = [work EXCEPT ![w] = q]
        BY <1>4 DEF NothingStated, TypeInv, TypeOK
    <2>2. q \in Segmented /\ q.segments = Tail(s) /\ q.queue = work[w].queue
          /\ q.job = work[w].job /\ q.step = "extract"
        BY <1>1, <1>2, HeadAndTail DEF Segmented
    <2> HIDE DEF q
    <2>3. q \in WorkState /\ WorkOKAt(q)
        BY <1>2, <2>2 DEF WorkState, WorkOKAt
    <2>4. SegmentsOKAt(q)
        BY <1>1, <1>2, <1>3, <2>2, HeadAndTail DEF SegmentsOKAt
    <2>5. extracted' \subseteq Nat
        BY <1>1, <1>2, <1>4, HeadAndTail DEF NothingStated, TypeInv, TypeOK
    <2> QED BY <1>1, <1>4, <2>1, <2>3, <2>4, <2>5, WorkerKeepsType
            DEF NothingStated, TypeInv, TypeOK, JobsOK
<1>5. CASE SlotRead(w)
    <2> DEFINE c == latest_candidates(Head(s))
    <2>1. c \in Contents /\ HasValue(c)
        BY <1>1, <1>2, <1>3, <1>5, LatestHasValue, HeadAndTail DEF SlotRead
    <2> HIDE DEF c
    <2>2. PICK p \in find_active_by_slot :
             work' = [work EXCEPT ![w] =
                 [step |-> "save", queue |-> work[w].queue, job |-> work[w].job,
                  segments |-> s, candidate |-> c, previous |-> p,
                  decision |-> decide_merge(c, p)]]
        BY <1>5 DEF SlotRead, c
    <2>3. p \in Nat /\ decide_merge(c, p) \in Decisions
        BY <2>1, SlotFound DEF TypeInv
    <2> DEFINE q == [step |-> "save", queue |-> work[w].queue, job |-> work[w].job,
                     segments |-> s, candidate |-> c, previous |-> p,
                     decision |-> decide_merge(c, p)]
    <2>4. q \in WorkState
        BY <1>2, <2>1, <2>3 DEF WorkState, Saving
    <2>5. WorkOKAt(q) /\ SegmentsOKAt(q)
        BY <1>1, <1>2, <1>3, <2>1 DEF WorkOKAt, SegmentsOKAt
    <2>6. overlapped' \in BOOLEAN
        BY <1>5 DEF SlotRead, ReadSlot, Writing, TypeInv, TypeOK
    <2> HIDE DEF q
    <2>7. work' = [work EXCEPT ![w] = q]
        BY <2>2 DEF q
    <2> QED BY <1>1, <1>5, <2>4, <2>5, <2>6, <2>7, WorkerKeepsType
            DEF SlotRead, TypeInv, TypeOK, JobsOK
<1>6. CASE ExtractionFails(w)
    <2>1. /\ JobsOK' /\ DOMAIN jobs' = DOMAIN jobs
          /\ \E q \in WorkState : /\ work' = [work EXCEPT ![w] = q]
                                  /\ WorkOKAt(q) /\ SegmentsOKAt(q)
        BY <1>1, <1>2, <1>6, RetryMoves DEF ExtractionFails
    <2>2. faults' \in Nat
        BY <1>6 DEF ExtractionFails, TypeInv, TypeOK
    <2> QED BY <1>1, <1>6, <2>1, <2>2, WorkerKeepsType DEF ExtractionFails, TypeInv, TypeOK
<1> QED BY <1>4, <1>5, <1>6, ExtractCases

LEMMA WriteCases ==
    ASSUME NEW w \in Workers, write_segment(w)
    PROVE  /\ work[w].step = "save"
           /\ UNCHANGED <<messages, run, recorders, quiet, enabled, generation, purging,
                          confirmation, changes, cursor, overlapped, faults>>
           /\ \/ /\ MayReplace(work[w].decision, work[w].previous)
                 /\ remember_candidate(work[w].candidate, work[w].previous, work[w].decision)
                 /\ extracted' = extracted \cup Head(work[w].segments)
                 /\ work' = [work EXCEPT ![w] =
                       [step |-> "extract", queue |-> work[w].queue, job |-> work[w].job,
                        segments |-> Tail(work[w].segments)]]
                 /\ jobs' = jobs
              \/ /\ ~MayReplace(work[w].decision, work[w].previous)
                 /\ retry(w, work[w].job) /\ UNCHANGED <<facts, extracted>>
BY DEF write_segment, workRest, settings

LEMMA SavingAt ==
    ASSUME TypeInv, NEW w \in Workers, work[w].step = "save"
    PROVE  /\ work[w].candidate \in Contents /\ HasValue(work[w].candidate)
           /\ work[w].decision \in Decisions /\ work[w].previous \in Nat
           /\ work[w].segments # <<>> /\ work[w].segments \in Seq(SUBSET Nat)
           /\ \A j \in DOMAIN work[w].segments :
                  work[w].segments[j] \subseteq {i \in DOMAIN messages : ~Secret(i)}
<1>1. work[w] \in Saving
    BY PlaceOfWorker DEF TypeInv
<1> QED BY <1>1 DEF Saving, TypeInv, WorkOK, SegmentsOK, Segmenting

LEMMA WriteType ==
    ASSUME TypeInv, NEW w \in Workers, write_segment(w)
    PROVE  TypeInv'
<1> DEFINE s == work[w].segments
<1>1. /\ work[w].step = "save"
      /\ UNCHANGED <<messages, run, recorders, quiet, enabled, generation, purging,
                     confirmation, changes, cursor, overlapped, faults>>
    BY WriteCases
<1>2. CASE MayReplace(work[w].decision, work[w].previous)
    <2> DEFINE q == [step |-> "extract", queue |-> work[w].queue, job |-> work[w].job,
                     segments |-> Tail(s)]
    <2>1. /\ work' = [work EXCEPT ![w] = q] /\ jobs' = jobs
          /\ extracted' = extracted \cup Head(s)
          /\ remember_candidate(work[w].candidate, work[w].previous, work[w].decision)
        BY <1>2, WriteCases
    <2>2. Tail(s) \in Seq(SUBSET Nat) /\ Head(s) \in SUBSET Nat
          /\ \A j \in DOMAIN Tail(s) :
                 Tail(s)[j] \subseteq {i \in DOMAIN messages : ~Secret(i)}
        BY <1>1, SavingAt, HeadAndTail
    <2>3. q \in Segmented
        BY <1>1, <2>2, WindowAt DEF Segmented
    <2>4. WorkOKAt(q)
        BY <1>1, WindowAt DEF WorkOKAt
    <2>5. SegmentsOKAt(q)
        BY <2>2 DEF SegmentsOKAt
    <2>6. facts' \in Seq(FactRecord)
        BY <1>1, <2>1, SavingAt, FactsWritten DEF TypeInv
    <2>7. extracted' \subseteq Nat
        BY <2>1, <2>2 DEF TypeInv, TypeOK
    <2> HIDE DEF q
    <2>8. q \in WorkState
        BY <2>3 DEF WorkState
    <2> QED BY <1>1, <2>1, <2>4, <2>5, <2>6, <2>7, <2>8, WorkerKeepsType
            DEF TypeInv, TypeOK, JobsOK
<1>3. CASE ~MayReplace(work[w].decision, work[w].previous)
    <2>1. retry(w, work[w].job) /\ UNCHANGED <<facts, extracted>>
        BY <1>3, WriteCases
    <2>2. /\ JobsOK' /\ DOMAIN jobs' = DOMAIN jobs
          /\ \E q \in WorkState : /\ work' = [work EXCEPT ![w] = q]
                                  /\ WorkOKAt(q) /\ SegmentsOKAt(q)
        BY <1>1, <2>1, RetryMoves, WindowAt
    <2> QED BY <1>1, <2>1, <2>2, WorkerKeepsType DEF TypeInv, TypeOK
<1> QED BY <1>2, <1>3

LEMMA AdvanceMoves ==
    ASSUME TypeInv, NEW w \in Workers, advance_consolidation_cursor(w)
    PROVE  /\ work[w].step = "extract" /\ work[w].segments = <<>>
           /\ UNCHANGED <<messages, run, recorders, quiet, enabled, generation, purging,
                          confirmation, changes, jobs, facts, extracted, overlapped, faults>>
           /\ cursor' \in Cursor /\ cursor'.last = cursor.last
           /\ cursor'.done \in {cursor.done, work[w].job[3]} /\ cursor'.done >= cursor.done
           /\ \E q \in WorkState : /\ work' = [work EXCEPT ![w] = q] /\ q.step = "complete"
                                   /\ WorkOKAt(q) /\ SegmentsOKAt(q)
<1>1. /\ work[w].step = "extract" /\ work[w].segments = <<>>
      /\ UNCHANGED <<messages, run, recorders, quiet, enabled, generation, purging,
                     confirmation, changes, jobs, facts, extracted, overlapped, faults>>
      /\ cursor' = [cursor EXCEPT !.done = Max({@, work[w].job[3]})]
      /\ work' = [work EXCEPT ![w].step = "complete"]
    BY DEF advance_consolidation_cursor, To, workRest, settings
<1> DEFINE q == [work[w] EXCEPT !.step = "complete"]
           m == Max({cursor.done, work[w].job[3]})
<1>2. /\ work[w] \in Segmented /\ work[w].job[3] \in Nat
      /\ work[w].queue \subseteq DOMAIN jobs /\ work[w].job \in DOMAIN jobs
    BY <1>1, WindowAt, PlaceOfWorker DEF TypeInv
<1>3. work' = [work EXCEPT ![w] = q]
    BY <1>1 DEF TypeInv, TypeOK
<1>4. q \in Segmented /\ q.step = "complete" /\ q.queue = work[w].queue
      /\ q.job = work[w].job
    BY <1>2 DEF Segmented
<1> HIDE DEF q
<1>5. q \in WorkState /\ WorkOKAt(q) /\ SegmentsOKAt(q)
    BY <1>2, <1>4 DEF WorkState, WorkOKAt, SegmentsOKAt
<1>6. cursor \in Cursor
    BY DEF TypeInv, TypeOK
<1>7. m \in Nat /\ m >= cursor.done /\ m \in {cursor.done, work[w].job[3]}
    BY <1>2, <1>6, MaxOfTwo DEF Cursor
<1> HIDE DEF m
<1>8. cursor' = [cursor EXCEPT !.done = m]
    BY <1>1 DEF m
<1>9. cursor' \in Cursor /\ cursor'.last = cursor.last /\ cursor'.done = m
    BY <1>6, <1>7, <1>8 DEF Cursor
<1> QED BY <1>1, <1>3, <1>4, <1>5, <1>7, <1>9

LEMMA AdvanceType ==
    ASSUME TypeInv, NEW w \in Workers, advance_consolidation_cursor(w)
    PROVE  TypeInv'
BY AdvanceMoves, WorkerKeepsType DEF TypeInv, TypeOK, JobsOK

LEMMA CompleteJobMoves ==
    ASSUME TypeInv, NEW w \in Workers, complete_job(w)
    PROVE  /\ UNCHANGED <<messages, run, recorders, quiet, enabled, generation, purging,
                          confirmation, changes, cursor, facts, extracted, overlapped, faults>>
           /\ JobsOK' /\ DOMAIN jobs' = DOMAIN jobs
           /\ \E q \in WorkState : /\ work' = [work EXCEPT ![w] = q]
                                   /\ q.step \in {"idle", "next"}
                                   /\ WorkOKAt(q) /\ SegmentsOKAt(q)
<1>1. /\ work[w].step = "complete"
      /\ UNCHANGED <<messages, run, recorders, quiet, enabled, generation, purging,
                     confirmation, changes, cursor, facts, extracted, overlapped, faults>>
      /\ update_job(w, work[w].job, "succeeded") /\ Next_job(w, work[w].job)
    BY DEF complete_job, workRest, settings
<1>2. work[w].job \in DOMAIN jobs
    BY <1>1, WindowAt
<1>3. JobsOK' /\ DOMAIN jobs' = DOMAIN jobs
    BY <1>1, <1>2, JobUpdated DEF TypeInv
<1> QED BY <1>1, <1>3, NextJob

LEMMA CompleteJobType ==
    ASSUME TypeInv, NEW w \in Workers, complete_job(w)
    PROVE  TypeInv'
BY CompleteJobMoves, WorkerKeepsType DEF TypeInv, TypeOK

\* What the end of a purge does to a job.
PurgedJob(w, k, j) ==
    IF j = k /\ HasToken(w, k)
    THEN [jobs[j] EXCEPT !.status = IF purging /\ generation = k[2] THEN "succeeded"
                                    ELSE "cancelled",
                         !.token = Nothing]
    ELSE IF purging /\ generation = k[2] /\ jobs[j].generation < k[2]
            /\ jobs[j].status \in {"pending", "running", "lapsed"}
    THEN [jobs[j] EXCEPT !.status = "cancelled"] ELSE jobs[j]

LEMMA PurgeMoves ==
    ASSUME TypeInv, NEW w \in Workers, NEW k \in DOMAIN jobs, finish_purge(w, k)
    PROVE  /\ work[w].step = "next"
           /\ UNCHANGED <<messages, run, recorders, cursor, quiet, enabled, generation, facts,
                          confirmation, extracted, overlapped, changes>>
           /\ purging' \in BOOLEAN /\ faults' \in Nat
           /\ JobsOK' /\ DOMAIN jobs' = DOMAIN jobs
           /\ \E q \in WorkState : /\ work' = [work EXCEPT ![w] = q]
                                   /\ q.step \in {"idle", "next"}
                                   /\ WorkOKAt(q) /\ SegmentsOKAt(q)
<1>1. /\ work[w].step = "next"
      /\ UNCHANGED <<messages, run, recorders, cursor, quiet, enabled, generation, facts,
                     confirmation, extracted, overlapped, changes>>
      /\ \/ /\ purging' = (purging /\ ~(purging /\ generation = k[2]))
            /\ jobs' = [j \in DOMAIN jobs |-> PurgedJob(w, k, j)]
            /\ Next_job(w, k)
            /\ faults' = faults
         \/ Fault /\ retry(w, k) /\ purging' = purging
    BY DEF finish_purge, PurgedJob
<1>2. CASE Fault /\ retry(w, k) /\ purging' = purging
    BY <1>1, <1>2, RetryMoves DEF Fault, TypeInv, TypeOK
<1>3. CASE /\ purging' = (purging /\ ~(purging /\ generation = k[2]))
           /\ jobs' = [j \in DOMAIN jobs |-> PurgedJob(w, k, j)]
           /\ Next_job(w, k)
           /\ faults' = faults
    <2>1. ASSUME NEW j \in DOMAIN jobs PROVE PurgedJob(w, k, j) \in Job
        <3>1. jobs[j] \in Job
            BY DEF TypeInv, TypeOK, JobsOK
        <3>2. ASSUME NEW b \in Job, NEW st \in {"succeeded", "cancelled"}
              PROVE  /\ [b EXCEPT !.status = st, !.token = Nothing] \in Job
                     /\ [b EXCEPT !.status = "cancelled"] \in Job
            BY DEF Job, Nothing
        <3> QED BY <3>1, <3>2 DEF PurgedJob
    <2>2. JobsOK' /\ DOMAIN jobs' = DOMAIN jobs
        BY <1>3, <2>1 DEF TypeInv, TypeOK, JobsOK
    <2>3. purging' \in BOOLEAN /\ faults' \in Nat
        BY <1>3 DEF TypeInv, TypeOK
    <2> QED BY <1>1, <1>3, <2>2, <2>3, NextJob
<1> QED BY <1>1, <1>2, <1>3

LEMMA PurgeType ==
    ASSUME TypeInv, NEW w \in Workers, NEW k \in DOMAIN jobs, finish_purge(w, k)
    PROVE  TypeInv'
BY PurgeMoves, WorkerKeepsType DEF TypeInv, TypeOK

LEMMA LapseMoves ==
    ASSUME TypeOK, NEW k \in DOMAIN jobs, LeaseLapses(k)
    PROVE  /\ JobsOK' /\ DOMAIN jobs' = DOMAIN jobs /\ faults' \in Nat
           /\ UNCHANGED <<messages, run, recorders, cursor, quiet, enabled, generation,
                          purging, facts, confirmation, work, extracted, overlapped, changes>>
<1> DEFINE new == [jobs[k] EXCEPT !.status = "lapsed"]
<1>1. jobs[k] \in Job
    BY DEF TypeOK, JobsOK
<1>2. new \in Job
    BY <1>1 DEF Job
<1>3. jobs' = [jobs EXCEPT ![k] = new]
    BY DEF LeaseLapses, TypeOK, JobsOK
<1> HIDE DEF new
<1>4. JobsOK' /\ DOMAIN jobs' = DOMAIN jobs
    BY <1>2, <1>3 DEF TypeOK, JobsOK
<1> QED BY <1>4 DEF LeaseLapses, Fault, TypeOK, settings

LEMMA LapseType ==
    ASSUME TypeInv, NEW k \in DOMAIN jobs, LeaseLapses(k)
    PROVE  TypeInv'
<1>1. TypeOK'
    BY LapseMoves DEF TypeInv, TypeOK
<1> QED BY <1>1, LapseMoves, RunFrame, WorkFrame, SegmentsFrame, StaysGrown DEF TypeInv

\* What the owner changes: settings, facts and the job of a purge.
OwnerMoves ==
    /\ UNCHANGED <<messages, run, recorders, cursor, quiet, work, extracted,
                   overlapped, faults>>
    /\ enabled' \in BOOLEAN /\ purging' \in BOOLEAN /\ generation' \in Nat
    /\ changes' \in Nat /\ confirmation' \subseteq SUBSET Nat
    /\ JobsOK' /\ DOMAIN jobs \subseteq DOMAIN jobs'
    /\ \A k \in DOMAIN jobs' \ DOMAIN jobs : k[1] = "purge"
    /\ facts' \in Seq(FactRecord) /\ DOMAIN facts \subseteq DOMAIN facts'
    /\ \/ Active' \subseteq Active
       \/ \E i \in Active, n \in DOMAIN facts' :
             Active' = (Active \ {i}) \cup {n}

\* A fact is shown to be wrong, and the one that replaces it is added.
LEMMA FactUpdated ==
    ASSUME TypeOK, NEW i \in DOMAIN facts, NEW v \in Values,
           facts' = resolve_quarantine(Append([facts EXCEPT ![i].status = "superseded"],
                                                Fact(v, "active")))
    PROVE  /\ facts' \in Seq(FactRecord) /\ DOMAIN facts \subseteq DOMAIN facts'
           /\ \E n \in DOMAIN facts' : Active' = (Active \ {i}) \cup {n}
<1> DEFINE old == [facts EXCEPT ![i].status = "superseded"]
           fs == Append(old, Fact(v, "active"))
<1>1. facts' = resolve_quarantine(fs)
    OBVIOUS
<1>2. /\ old \in Seq(FactRecord) /\ DOMAIN old = DOMAIN facts
      /\ \A j \in DOMAIN facts :
             old[j].status = "active" <=> j # i /\ facts[j].status = "active"
    BY Superseded
<1> HIDE DEF old
<1>3. /\ fs \in Seq(FactRecord) /\ DOMAIN fs = DOMAIN old \cup {Len(old) + 1}
      /\ \A j \in DOMAIN old : fs[j] = old[j]
      /\ fs[Len(old) + 1].status = "active" /\ Len(old) + 1 \notin DOMAIN old
    BY <1>2, Appended
<1> HIDE DEF fs
<1>4. DOMAIN facts' = DOMAIN fs /\ facts' \in Seq(FactRecord)
      /\ \A j \in DOMAIN fs : facts'[j].status = "active" <=> fs[j].status = "active"
    BY <1>1, <1>3, Resolved
<1>5. Active' = (Active \ {i}) \cup {Len(old) + 1}
    BY <1>2, <1>3, <1>4 DEF Active
<1> QED BY <1>2, <1>3, <1>4, <1>5

\* delete_all leaves no active fact.
LEMMA EverythingDeleted ==
    ASSUME TypeOK, delete_all
    PROVE  /\ facts' \in Seq(FactRecord) /\ DOMAIN facts' = DOMAIN facts
           /\ Active' = {}
<1> DEFINE new(i) == IF facts[i].status \in {"active", "quarantine"}
                     THEN [facts[i] EXCEPT !.status = "deleted"] ELSE facts[i]
<1>1. ASSUME NEW i \in DOMAIN facts PROVE new(i) \in FactRecord /\ new(i).status # "active"
    <2>1. facts[i] \in FactRecord
        BY DEF TypeOK
    <2>2. [facts[i] EXCEPT !.status = "deleted"] \in FactRecord
          /\ [facts[i] EXCEPT !.status = "deleted"].status = "deleted"
        BY <2>1 DEF FactRecord
    <2> QED BY <2>1, <2>2
<1>2. facts' = [i \in 1..Len(facts) |-> new(i)] /\ Len(facts) \in Nat
      /\ DOMAIN facts = 1..Len(facts)
    BY DEF delete_all, TypeOK
<1> HIDE DEF new
<1>3. facts' \in [1..Len(facts) -> FactRecord]
    BY <1>1, <1>2
<1>4. facts' \in Seq(FactRecord)
    BY <1>2, <1>3
<1> QED BY <1>1, <1>2, <1>4 DEF Active

\* Whatever the owner commands is a move of the owner.
LEMMA OwnerStep ==
    ASSUME TypeOK, MemoryCommand
    PROVE  OwnerMoves
<1>0. Active \subseteq Nat /\ Active \subseteq DOMAIN facts
    BY DEF TypeOK, Active
<1> USE DEF OwnerMoves
<1>1. CASE \E on \in BOOLEAN : set_enabled(on)
    BY <1>1 DEF set_enabled, Change, ownerRest, TypeOK, JobsOK, Active
<1>2. CASE request_delete_all
    BY <1>0, <1>2 DEF request_delete_all, issue_confirmation, Change, ownerRest,
                      settings, TypeOK, JobsOK, Active
<1>3. ASSUME NEW i \in DOMAIN facts, forget(i)
      PROVE  OwnerMoves
    <2>1. facts' = [facts EXCEPT ![i].status = "deleted"]
        BY <1>3 DEF forget, deactivate_fact
    <2>2. /\ facts' \in Seq(FactRecord) /\ DOMAIN facts' = DOMAIN facts
          /\ Active' \subseteq Active
        BY <2>1, Superseded DEF Active
    <2> QED BY <1>3, <2>2 DEF forget, Change, ownerRest, settings, TypeOK, JobsOK
<1>4. ASSUME NEW i \in DOMAIN facts, NEW v \in Values, update(i, v)
      PROVE  OwnerMoves
    <2>1. /\ facts' \in Seq(FactRecord) /\ DOMAIN facts \subseteq DOMAIN facts'
          /\ \E n \in DOMAIN facts' : Active' = (Active \ {i}) \cup {n}
          /\ i \in Active
        BY <1>4, FactUpdated DEF update
    <2>2. \E x \in Active, n \in DOMAIN facts' : Active' = (Active \ {x}) \cup {n}
        BY <2>1
    <2>3. UNCHANGED <<messages, run, recorders, cursor, quiet, work, extracted, overlapped,
                      faults, jobs, enabled, generation, purging, confirmation>>
          /\ changes' = changes + 1
        BY <1>4 DEF update, Change, ownerRest, settings
    <2> QED BY <2>1, <2>2, <2>3 DEF TypeOK, JobsOK
<1>5. CASE confirm_delete_all
    <2>1. delete_all /\ consume_confirmation
          /\ UNCHANGED <<messages, run, recorders, cursor, quiet, work, extracted,
                         overlapped, faults, changes>>
        BY <1>5 DEF confirm_delete_all, ownerRest
    <2>2. /\ facts' \in Seq(FactRecord) /\ DOMAIN facts' = DOMAIN facts
          /\ Active' = {}
        BY <2>1, EverythingDeleted
    <2>3. generation + 1 \in Nat /\ <<"purge", generation + 1>> \in JobKey
        BY DEF TypeOK, JobKey
    <2>4. enqueue_job(<<"purge", generation + 1>>, generation + 1)
        BY <2>1 DEF delete_all
    <2>5. JobsOK' /\ DOMAIN jobs' = DOMAIN jobs \cup {<<"purge", generation + 1>>}
        BY <2>3, <2>4, JobAdded
    <2>6. \A k \in DOMAIN jobs' \ DOMAIN jobs : k[1] = "purge"
        BY <2>5
    <2>7. enabled' \in BOOLEAN /\ purging' \in BOOLEAN /\ generation' \in Nat
          /\ confirmation' \subseteq SUBSET Nat /\ changes' \in Nat
        BY <2>1, <2>3 DEF delete_all, consume_confirmation, TypeOK
    <2> QED BY <2>1, <2>2, <2>5, <2>6, <2>7
<1> QED BY <1>1, <1>2, <1>3, <1>4, <1>5 DEF MemoryCommand

LEMMA OwnerType ==
    ASSUME TypeInv, MemoryCommand
    PROVE  TypeInv'
<1>1. OwnerMoves
    BY OwnerStep DEF TypeInv
<1>2. TypeOK'
    BY <1>1 DEF OwnerMoves, TypeInv, TypeOK
<1> QED BY <1>1, <1>2, RunFrame, WorkFrame, SegmentsFrame, StaysGrown DEF OwnerMoves, TypeInv

LEMMA CrashMoves ==
    ASSUME TypeInv, Crash
    PROVE  /\ UNCHANGED <<messages, cursor, quiet, enabled, generation, purging, facts,
                          confirmation, extracted, overlapped, changes>>
           /\ faults' \in Nat /\ recorders' = {}
           /\ work' = [w \in Workers |-> Idle]
           /\ JobsOK' /\ DOMAIN jobs' = DOMAIN jobs
           /\ run' \in Run /\ run'.step # "save"
           /\ run'.step # "none" => run # NoRun
           /\ run'.step = "remember" => Said.kind = "remember"
<1> DEFINE new(k) == IF jobs[k].status = "running"
                     THEN [jobs[k] EXCEPT !.status = "lapsed"] ELSE jobs[k]
<1>1. ASSUME NEW k \in DOMAIN jobs PROVE new(k) \in Job
    <2>1. jobs[k] \in Job
        BY DEF TypeInv, TypeOK, JobsOK
    <2>2. [jobs[k] EXCEPT !.status = "lapsed"] \in Job
        BY <2>1 DEF Job
    <2> QED BY <2>1, <2>2
<1>2. jobs' = [k \in DOMAIN jobs |-> new(k)]
    BY DEF Crash
<1> HIDE DEF new
<1>3. JobsOK' /\ DOMAIN jobs' = DOMAIN jobs
    BY <1>1, <1>2 DEF TypeInv, TypeOK, JobsOK
<1>4. /\ run' \in Run /\ run'.step # "save"
      /\ run'.step # "none" => run # NoRun
      /\ run'.step = "remember" => Said.kind = "remember"
    BY DEF Crash, NoRun, Run
<1> QED BY <1>3, <1>4 DEF Crash, Fault, TypeInv, TypeOK, settings

LEMMA CrashType ==
    ASSUME TypeInv, Crash
    PROVE  TypeInv'
<1>1. work' \in [Workers -> WorkState] /\ \A w \in Workers : work'[w].step = "idle"
    BY CrashMoves DEF Idle, WorkState, Between
<1>2. TypeOK'
    BY <1>1, CrashMoves DEF TypeInv, TypeOK
<1>3. WorkOK' /\ SegmentsOK'
    BY <1>1 DEF WorkOK, SegmentsOK, Segmenting
<1>4. RunOK'
    <2>1. run # NoRun => run.step # "none"
        BY DEF TypeInv, TypeOK, Run, NoRun
    <2> QED BY <2>1, CrashMoves DEF TypeInv, RunOK, Said, Last
<1> QED BY <1>2, <1>3, <1>4 DEF TypeInv

LEMMA WorkerStepType ==
    ASSUME TypeInv, NEW w \in Workers, Work(w)
    PROVE  TypeInv'
BY PendingType, ScanType, ClaimType, DispatchType, PurgeType, ExtractType, WriteType,
   AdvanceType, CompleteJobType
   DEF Work

\* Every step keeps the types.
LEMMA ConsolidationStep ==
    ASSUME TypeInv, [Next]_vars
    PROVE  TypeInv'
<1>1. CASE Next
    <2>1. ASSUME Record PROVE TypeInv'
        BY <2>1, RecordType DEF Record
    <2> QED BY <1>1, <2>1, SendType, RememberType, SavedType, CompleteType, FailType, QuietType,
               WorkerStepType, LapseType, OwnerType, CrashType
            DEF Next
<1>2. CASE UNCHANGED vars
    <2>1. TypeOK'
        BY <1>2 DEF vars, settings, bounds, TypeInv, TypeOK, JobsOK
    <2> QED BY <1>2, <2>1, RunFrame, WorkFrame, SegmentsFrame, StaysGrown
            DEF vars, settings, bounds, TypeInv
<1> QED BY <1>1, <1>2

\* Types: whatever the conversation, the owner and the workers do, a job, a recorder and
\* a worker are in one of the states that memory/jobs.py gives them, the run that saves a
\* command has the command as its message, and no credential is in a segment.
THEOREM ConsolidationTypes == Spec => []TypeInv
<1>1. Init => TypeInv
    BY InitType
<1>2. TypeInv /\ [Next]_vars => TypeInv'
    BY ConsolidationStep
<1> QED BY <1>1, <1>2, PTL DEF Spec

-----------------------------------------------------------------------------
(* The cursor.                                                              *)

\* What every step does as far as the cursor is concerned.
CursorStep ==
    /\ MessagesGrow /\ extracted \subseteq extracted' /\ cursor'.done >= cursor.done
    /\ cursor'.last <= Len(messages') /\ cursor'.done <= Len(messages')
    /\ \A r \in recorders' \ recorders : RecorderOK(r)'
    /\ \A k \in DOMAIN jobs' \ DOMAIN jobs : WindowOK(k)'
    /\ \A w \in Workers : work'[w] = work[w] \/ (ScanOK(w) /\ Covered(w))'
    /\ \A i \in (cursor.done + 1)..cursor'.done : i \in extracted' \/ Secret(i)'

\* A step that is right about what it adds keeps what lies behind the cursor.
LEMMA CursorStepKeeps ==
    ASSUME TypeInv, TypeInv', CursorInv, CursorStep
    PROVE  CursorInv'
<1>1. /\ Len(messages) \in Nat /\ Len(messages') \in Nat /\ Len(messages) <= Len(messages')
      /\ DOMAIN messages = 1..Len(messages)
      /\ cursor.done \in Nat /\ cursor'.done \in Nat /\ cursor.done <= cursor'.done
    BY DEF TypeInv, TypeOK, Cursor, CursorStep, MessagesGrow
<1>2. ASSUME NEW r \in recorders' PROVE RecorderOK(r)'
    <2>1. CASE r \in recorders
        <3>1. RecorderOK(r)
            BY <2>1 DEF CursorInv
        <3>2. /\ r.step \in {"read", "upsert"} => r.seq \in Nat
              /\ r.step = "enqueue" => r.from \in Nat /\ r.to \in Nat
            BY <2>1, RecorderAt DEF TypeInv
        <3> QED BY <1>1, <3>1, <3>2 DEF RecorderOK
    <2> QED BY <1>2, <2>1 DEF CursorStep
<1>3. ASSUME NEW k \in DOMAIN jobs' PROVE WindowOK(k)'
    <2>1. CASE k \in DOMAIN jobs
        <3>1. WindowOK(k)
            BY <2>1 DEF CursorInv
        <3>2. k[1] = "consolidate" => k[2] \in Nat /\ k[3] \in Nat
            BY <2>1, KeyKinds DEF TypeInv, TypeOK, JobsOK
        <3> QED BY <1>1, <3>1, <3>2 DEF WindowOK
    <2> QED BY <1>3, <2>1 DEF CursorStep
<1>4. ASSUME NEW w \in Workers, work'[w] = work[w] PROVE ScanOK(w)'
    <2>1. ScanOK(w)
        BY DEF CursorInv
    <2>2. work[w].step = "scan" => work[w].from \in Nat /\ work[w].to \in Nat
        BY PlaceOfWorker DEF TypeInv, Between
    <2> QED BY <1>1, <1>4, <2>1, <2>2 DEF ScanOK
<1>5. ASSUME NEW w \in Workers, work'[w] = work[w] PROVE Covered(w)'
    <2> SUFFICES ASSUME work[w].step \in {"extract", "save"},
                        NEW i \in (work[w].job[2] + 1)..work[w].job[3],
                        i \notin extracted',
                        ~ \E j \in DOMAIN work[w].segments : i \in work[w].segments[j]
                 PROVE  Secret(i)'
        BY <1>5 DEF Covered
    <2>1. i \in DOMAIN messages
        <3>1. work[w].job \in DOMAIN jobs /\ work[w].job[1] = "consolidate"
              /\ work[w].job[2] \in Nat /\ work[w].job[3] \in Nat
            BY WindowAt
        <3>2. work[w].job[3] <= Len(messages)
            BY <3>1 DEF CursorInv, WindowOK
        <3> QED BY <1>1, <3>1, <3>2
    <2>2. Secret(i)
        BY DEF CursorInv, Covered, CursorStep
    <2> QED BY <2>1, <2>2 DEF Secret, CursorStep, MessagesGrow
<1>6. CursorSkipsNothing'
    <2> SUFFICES ASSUME NEW i \in 1..cursor'.done
                 PROVE  i \in extracted' \/ Secret(i)'
        BY DEF CursorSkipsNothing, Secret
    <2>1. CASE i <= cursor.done
        <3>1. i \in 1..cursor.done /\ i \in DOMAIN messages
            BY <1>1, <2>1 DEF CursorInv
        <3>2. i \in extracted \/ Secret(i)
            BY <3>1 DEF CursorInv, CursorSkipsNothing, Secret
        <3> QED BY <3>1, <3>2 DEF CursorStep, MessagesGrow, Secret
    <2>2. CASE i > cursor.done
        BY <1>1, <2>2 DEF CursorStep
    <2> QED BY <1>1, <2>1, <2>2
<1> QED BY <1>2, <1>3, <1>4, <1>5, <1>6 DEF CursorInv, CursorStep

LEMMA InitCursor == Init => CursorInv
BY DEF Init, CursorInv, Covered, ScanOK, RecorderOK, WindowOK, Idle, CursorSkipsNothing

\* A step of which the cursor does not depend.
CursorApart ==
    /\ MessagesGrow /\ extracted' = extracted /\ cursor' = cursor
    /\ recorders' \subseteq recorders
    /\ \A k \in DOMAIN jobs' \ DOMAIN jobs : k[1] # "consolidate"
    /\ \A w \in Workers : work'[w] = work[w] \/ work'[w].step \notin {"scan", "extract", "save"}

LEMMA ApartKeeps ==
    ASSUME TypeInv, TypeInv', CursorInv, CursorApart
    PROVE  CursorStep
<1>1. /\ Len(messages) \in Nat /\ Len(messages') \in Nat /\ Len(messages') >= Len(messages)
      /\ cursor.last \in Nat /\ cursor.done \in Nat
    BY DEF TypeInv, TypeOK, Cursor, CursorApart, MessagesGrow
<1> QED BY <1>1 DEF CursorApart, CursorStep, CursorInv, WindowOK, ScanOK, Covered

\* Neither what is said nor the commands of the owner nor time touches the cursor.
LEMMA TalkCursor ==
    ASSUME TypeInv,
           \/ \E c \in Contents : send_message(c)
           \/ process_natural_memory_once \/ remember_all_result \/ fail_run
           \/ FallQuiet \/ MemoryCommand \/ \E k \in DOMAIN jobs : LeaseLapses(k)
           \/ Crash
    PROVE  CursorApart
<1>1. ASSUME NEW c \in Contents, send_message(c) PROVE CursorApart
    <2>1. [role |-> "user", says |-> c] \in Message
        BY DEF Message
    <2>2. MessagesGrow
        BY <1>1, <2>1, AppendGrows DEF send_message, TypeInv
    <2> QED BY <1>1, <2>2 DEF send_message, CursorApart
<1>2. CASE process_natural_memory_once \/ remember_all_result \/ fail_run \/ FallQuiet
    <2>1. UNCHANGED <<messages, recorders, cursor, jobs, work, extracted>>
        BY <1>2
           DEF process_natural_memory_once, remember_all_result, fail_run, FallQuiet
    <2> QED BY <2>1, StaysGrown DEF CursorApart
<1>3. CASE MemoryCommand
    <2>1. OwnerMoves
        BY <1>3, OwnerStep DEF TypeInv
    <2> QED BY <2>1, StaysGrown DEF OwnerMoves, CursorApart
<1>4. ASSUME NEW k \in DOMAIN jobs, LeaseLapses(k) PROVE CursorApart
    BY <1>4, LapseMoves, StaysGrown DEF CursorApart, TypeInv
<1>5. CASE Crash
    BY <1>5, CrashMoves, StaysGrown DEF CursorApart, Idle
<1> QED BY <1>1, <1>2, <1>3, <1>4, <1>5

\* A worker that leaves a window or a round, or has not begun one.
LEMMA WorkerLeaves ==
    ASSUME TypeInv, NEW w \in Workers, NEW q \in WorkState, work' = [work EXCEPT ![w] = q],
           q.step \notin {"scan", "extract", "save"}, DOMAIN jobs' = DOMAIN jobs,
           UNCHANGED <<messages, recorders, cursor, extracted>>
    PROVE  CursorApart
BY WorkerMoves, StaysGrown DEF CursorApart, TypeInv

\* A worker that comes to a place where it answers for a part of the conversation.
LEMMA WorkerCovers ==
    ASSUME TypeInv, CursorInv, NEW w \in Workers, NEW q \in WorkState,
           work' = [work EXCEPT ![w] = q],
           ScanOK(w)', Covered(w)', DOMAIN jobs' = DOMAIN jobs, extracted \subseteq extracted',
           UNCHANGED <<messages, recorders, cursor>>
    PROVE  CursorStep
<1>1. cursor.done \in Nat
    BY DEF TypeInv, TypeOK, Cursor
<1> QED BY <1>1, WorkerMoves, StaysGrown DEF CursorStep, CursorInv, TypeInv

\* The message that is recorded is the one that was answered.
LEMMA CompleteCursor ==
    ASSUME TypeInv, TypeInv', CursorInv, complete_run
    PROVE  CursorStep
<1>1. [role |-> "assistant"] \in Message
    BY DEF Message
<1>2. MessagesGrow /\ Len(messages) \in Nat /\ Len(messages') \in Nat
      /\ Len(messages) <= Len(messages')
    BY <1>1, AppendGrows DEF TypeInv, TypeOK, complete_run, MessagesGrow
<1>3. ASSUME NEW r \in recorders' \ recorders PROVE RecorderOK(r)'
    <2>1. r = [step |-> "read", seq |-> Len(messages)]
        BY <1>3 DEF complete_run
    <2> QED BY <1>2, <2>1 DEF RecorderOK
<1>4. cursor.last \in Nat /\ cursor.done \in Nat
    BY DEF TypeInv, TypeOK, Cursor
<1> QED BY <1>2, <1>3, <1>4 DEF complete_run, CursorStep, CursorInv

\* A thread that records a message records and enqueues what has been said.
LEMMA RecordCursor ==
    ASSUME TypeInv, CursorInv, NEW r \in recorders,
           \/ get_consolidation_cursor(r)
           \/ upsert_consolidation_cursor(r)
           \/ record_user_message(r)
    PROVE  CursorStep
<1>0. /\ cursor \in Cursor /\ cursor.last \in Nat /\ cursor.done \in Nat
      /\ Len(messages) \in Nat
      /\ cursor.last <= Len(messages) /\ cursor.done <= Len(messages) /\ RecorderOK(r)
    BY DEF TypeInv, TypeOK, Cursor, CursorInv
<1>1. CASE get_consolidation_cursor(r)
    <2>1. /\ UNCHANGED <<messages, cursor, jobs, work, extracted>>
          /\ \A x \in recorders' \ recorders :
                 x = [step |-> "upsert", seq |-> r.seq, previous |-> cursor]
          /\ r.step = "read"
        BY <1>1 DEF get_consolidation_cursor, Become
    <2>2. \A x \in recorders' \ recorders : RecorderOK(x)'
        BY <1>0, <2>1 DEF RecorderOK
    <2> QED BY <1>0, <2>1, <2>2, StaysGrown DEF CursorStep
<1>2. CASE upsert_consolidation_cursor(r)
    <2> DEFINE now == [cursor EXCEPT !.last = Max({@, r.seq})]
    <2>1. /\ UNCHANGED <<messages, jobs, work, extracted>>
          /\ r.step = "upsert" /\ cursor' = now
          /\ \A x \in recorders' \ recorders :
                 x = [step |-> "enqueue", from |-> now.done, to |-> now.last]
        BY <1>2 DEF upsert_consolidation_cursor, Become
    <2>2. r.seq \in Nat /\ r.seq <= Len(messages)
        BY <1>0, <2>1, RecorderAt DEF RecorderOK, TypeInv
    <2>3. Max({cursor.last, r.seq}) \in {cursor.last, r.seq}
        BY <1>0, <2>2, MaxOfTwo
    <2>4. now.done = cursor.done /\ now.last \in Nat /\ now.last <= Len(messages)
        BY <1>0, <2>2, <2>3 DEF Cursor
    <2> HIDE DEF now
    <2>5. \A x \in recorders' \ recorders : RecorderOK(x)'
        BY <1>0, <2>1, <2>4 DEF RecorderOK
    <2> QED BY <1>0, <2>1, <2>4, <2>5, StaysGrown DEF CursorStep
<1>3. CASE record_user_message(r)
    <2>1. /\ UNCHANGED <<messages, cursor, work, extracted>> /\ recorders' \subseteq recorders
          /\ r.step = "enqueue"
          /\ jobs' = jobs \/ enqueue_job(<<"consolidate", r.from, r.to>>, generation)
        BY <1>3 DEF record_user_message, Become, enqueue_consolidation
    <2>2. r.from \in Nat /\ r.to \in Nat
        BY <2>1, RecorderAt DEF TypeInv
    <2>3. <<"consolidate", r.from, r.to>> \in JobKey
        BY <2>2 DEF JobKey, WindowKey
    <2>4. DOMAIN jobs' \subseteq DOMAIN jobs \cup {<<"consolidate", r.from, r.to>>}
        BY <2>1, <2>3, JobAdded DEF TypeInv, TypeOK
    <2>5. \A k \in DOMAIN jobs' \ DOMAIN jobs : WindowOK(k)'
        BY <1>0, <2>1, <2>4 DEF RecorderOK, WindowOK
    <2> QED BY <1>0, <2>1, <2>5, StaysGrown DEF CursorStep
<1> QED BY <1>1, <1>2, <1>3

\* The window that is looked at for a quiet conversation begins at its cursor.
LEMMA PendingCursor ==
    ASSUME TypeInv, CursorInv, NEW w \in Workers, process_pending_jobs(w)
    PROVE  CursorStep
<1>1. /\ \E crowded \in BOOLEAN, to \in {cursor.last, cursor.done} :
            work' = [work EXCEPT ![w] = [step |-> "scan", crowded |-> crowded,
                                         from |-> cursor.done, to |-> to]]
      /\ UNCHANGED <<messages, recorders, cursor, jobs, extracted>>
    BY DEF process_pending_jobs, workRest
<1>2. PICK crowded \in BOOLEAN, to \in {cursor.last, cursor.done} :
          work' = [work EXCEPT ![w] = [step |-> "scan", crowded |-> crowded,
                                       from |-> cursor.done, to |-> to]]
    BY <1>1
<1> DEFINE q == [step |-> "scan", crowded |-> crowded, from |-> cursor.done, to |-> to]
<1>3. cursor.done \in Nat /\ to <= Len(messages)
    BY DEF TypeInv, TypeOK, Cursor, CursorInv
<1>4. q \in WorkState
    BY DEF TypeInv, TypeOK, Cursor, WorkState, Between
<1>5. q.step = "scan" /\ q.from = cursor.done /\ q.to = to
    OBVIOUS
<1>6. work' = [work EXCEPT ![w] = q]
    BY <1>2
<1> HIDE DEF q
<1>7. work'[w] = q
    BY <1>4, <1>6, WorkerMoves DEF TypeInv
<1>8. ScanOK(w)' /\ Covered(w)'
    BY <1>1, <1>3, <1>5, <1>7 DEF ScanOK, Covered
<1> QED BY <1>1, <1>4, <1>6, <1>8, WorkerCovers

LEMMA ScanCursor ==
    ASSUME TypeInv, CursorInv, NEW w \in Workers, enqueue_idle_consolidations(w)
    PROVE  CursorStep
<1> DEFINE k == <<"consolidate", work[w].from, work[w].to>>
<1>1. /\ work[w].step = "scan"
      /\ UNCHANGED <<messages, recorders, cursor, extracted>>
      /\ jobs' = jobs \/ enqueue_job(k, generation)
      /\ \E q \in {[step |-> "claim"], Idle} : work' = [work EXCEPT ![w] = q]
    BY DEF enqueue_idle_consolidations, enqueue_consolidation, workRest
<1>2. /\ work[w].from \in Nat /\ work[w].to \in Nat
      /\ work[w].from <= cursor.done /\ work[w].to <= Len(messages)
    BY <1>1, PlaceOfWorker DEF TypeInv, Between, CursorInv, ScanOK
<1>3. k \in JobKey
    BY <1>2 DEF JobKey, WindowKey
<1>4. DOMAIN jobs' \subseteq DOMAIN jobs \cup {k}
    BY <1>1, <1>3, JobAdded DEF TypeInv, TypeOK
<1>5. \A j \in DOMAIN jobs' \ DOMAIN jobs : WindowOK(j)'
    BY <1>1, <1>2, <1>4 DEF WindowOK
<1>6. PICK q \in WorkState : work' = [work EXCEPT ![w] = q] /\ q.step \in {"claim", "idle"}
    <2>1. \A q \in {[step |-> "claim"], Idle} :
              q \in WorkState /\ q.step \in {"claim", "idle"}
        BY DEF Idle, WorkState, Between
    <2> QED BY <1>1, <2>1
<1>7. /\ work'[w].step \in {"claim", "idle"}
      /\ \A x \in Workers : x # w => work'[x] = work[x]
    BY <1>6, WorkerMoves DEF TypeInv
<1>8. (ScanOK(w) /\ Covered(w))'
    BY <1>7 DEF ScanOK, Covered
<1>9. cursor.done \in Nat
    BY DEF TypeInv, TypeOK, Cursor
<1> QED BY <1>1, <1>5, <1>7, <1>8, <1>9, StaysGrown DEF CursorStep, CursorInv

LEMMA ClaimCursor ==
    ASSUME TypeInv, NEW w \in Workers, claim_jobs(w)
    PROVE  CursorApart
<1> DEFINE q == IF Claimable = {} THEN Idle ELSE [step |-> "next", queue |-> Claimable]
<1>1. /\ work' = [work EXCEPT ![w] = q] /\ DOMAIN jobs' = DOMAIN jobs
      /\ UNCHANGED <<messages, recorders, cursor, extracted>>
    BY DEF claim_jobs, workRest
<1>2. q \in WorkState /\ q.step \in {"idle", "next"}
    <2>1. Claimable \in SUBSET JobKey
        BY DEF Claimable, TypeInv, TypeOK, JobsOK
    <2> HIDE DEF Claimable
    <2> QED BY <2>1 DEF Idle, WorkState, Between, Round
<1> HIDE DEF q
<1> QED BY <1>1, <1>2, WorkerLeaves

\* A window is cut into segments that hold all of it.
LEMMA DispatchCursor ==
    ASSUME TypeInv, TypeInv', CursorInv, NEW w \in Workers,
           NEW k \in DOMAIN jobs, dispatch(w, k)
    PROVE  CursorStep
<1>1. /\ work[w].step = "next" /\ k \in work[w].queue /\ k[1] = "consolidate"
      /\ UNCHANGED <<messages, recorders, cursor, extracted>>
    BY DEF dispatch, workRest
<1>2. /\ k \in WindowKey /\ k[2] \in Nat /\ k[3] \in Nat /\ k[3] <= Len(messages)
      /\ Len(messages) \in Nat /\ DOMAIN messages = 1..Len(messages)
    BY <1>1, KeyKinds DEF TypeInv, TypeOK, JobsOK, CursorInv, WindowOK
<1>3. CASE enabled /\ ~purging /\ jobs[k].generation = generation
    <2> DEFINE cut == segment_transcript(k[2], k[3])
               q == [step |-> "extract", queue |-> work[w].queue, job |-> k, segments |-> cut]
    <2>1. work' = [work EXCEPT ![w] = q] /\ jobs' = jobs
        BY <1>3 DEF dispatch
    <2>2. /\ cut \in Seq(SUBSET Nat)
          /\ \A i \in Readable(k[2], k[3]) : \E j \in DOMAIN cut : i \in cut[j]
        BY <1>2, SegmentsPartition DEF TypeInv
    <2>3. work[w].queue \in SUBSET JobKey
        BY <1>1, PlaceOfWorker DEF TypeInv, Round
    <2> HIDE DEF cut
    <2>4. q \in WorkState
        BY <1>2, <2>2, <2>3 DEF WorkState, Segmented
    <2>5. work'[w] = q
        BY <2>1, <2>4, WorkerMoves DEF TypeInv
    <2>6. Covered(w)'
        <3> SUFFICES ASSUME NEW i \in (k[2] + 1)..k[3], ~Secret(i)
                     PROVE  \E j \in DOMAIN cut : i \in cut[j]
            BY <1>1, <2>5 DEF Covered, Secret
        <3>1. i \in Readable(k[2], k[3])
            BY <1>2 DEF Readable
        <3> QED BY <2>2, <3>1
    <2>7. ScanOK(w)'
        BY <2>5 DEF ScanOK
    <2> HIDE DEF q
    <2> QED BY <1>1, <2>1, <2>4, <2>6, <2>7, WorkerCovers
<1>4. CASE ~(enabled /\ ~purging /\ jobs[k].generation = generation)
    <2>1. update_job(w, k, "cancelled") /\ Next_job(w, k)
        BY <1>4 DEF dispatch
    <2>2. DOMAIN jobs' = DOMAIN jobs
        BY <2>1, JobUpdated DEF TypeInv
    <2>3. PICK q \in WorkState : work' = [work EXCEPT ![w] = q] /\ q.step \in {"idle", "next"}
        BY <1>1, <2>1, NextJob
    <2> QED BY <1>1, <2>2, <2>3, WorkerLeaves, ApartKeeps
<1> QED BY <1>3, <1>4

\* When the first of its segments is extracted, a worker still answers for the window.
LEMMA HeadExtracted ==
    ASSUME TypeInv, CursorInv, NEW w \in Workers, work[w].step \in {"extract", "save"},
           work[w].segments # <<>>, NEW q \in Segmented,
           q.segments = Tail(work[w].segments), q.job = work[w].job,
           extracted' = extracted \cup Head(work[w].segments), work' = [work EXCEPT ![w] = q],
           UNCHANGED <<messages, recorders, cursor, jobs>>
    PROVE  CursorStep
<1> DEFINE s == work[w].segments
<1>1. q \in WorkState
    BY DEF WorkState
<1>2. work'[w] = q
    BY <1>1, WorkerMoves DEF TypeInv
<1>3. s \in Seq(SUBSET Nat)
    BY WindowAt
<1>4. Covered(w)'
    <2> SUFFICES ASSUME NEW i \in (q.job[2] + 1)..q.job[3],
                        i \notin extracted', ~Secret(i)
                 PROVE  \E j \in DOMAIN Tail(s) : i \in Tail(s)[j]
        BY <1>2 DEF Covered, Secret
    <2>1. PICK j \in DOMAIN s : i \in s[j]
        BY DEF CursorInv, Covered
    <2>2. j # 1
        BY <1>3, <2>1, HeadAndTail
    <2> QED BY <1>3, <2>1, <2>2, HeadAndTail
<1>5. ScanOK(w)'
    BY <1>2 DEF ScanOK, Segmented
<1> QED BY <1>1, <1>4, <1>5, WorkerCovers

LEMMA RetryCursor ==
    ASSUME TypeInv, NEW w \in Workers, NEW k \in DOMAIN jobs,
           work[w].step \in {"next", "extract", "save", "complete"}, retry(w, k),
           UNCHANGED <<messages, recorders, cursor, extracted>>
    PROVE  CursorApart
<1>1. PICK q \in WorkState : work' = [work EXCEPT ![w] = q] /\ q.step \in {"idle", "next"}
    BY RetryMoves
<1>2. DOMAIN jobs' = DOMAIN jobs
    BY RetryMoves
<1> QED BY <1>1, <1>2, WorkerLeaves

LEMMA ExtractCursor ==
    ASSUME TypeInv, TypeInv', CursorInv, NEW w \in Workers,
           extract_window(w)
    PROVE  CursorStep
<1> DEFINE s == work[w].segments
<1>1. /\ work[w].step = "extract" /\ s # <<>>
      /\ UNCHANGED <<messages, recorders, cursor>>
    BY ExtractCases
<1>2. /\ work[w] \in Segmented /\ work[w].job \in DOMAIN jobs
      /\ work[w].queue \in SUBSET JobKey /\ work[w].job \in WindowKey
      /\ s \in Seq(SUBSET Nat)
    BY <1>1, WindowAt, PlaceOfWorker DEF TypeInv
<1>3. CASE NothingStated(w)
    <2> DEFINE q == [work[w] EXCEPT !.segments = Tail(s)]
    <2>1. work' = [work EXCEPT ![w] = q] /\ extracted' = extracted \cup Head(s)
          /\ jobs' = jobs
        BY <1>3 DEF NothingStated, TypeInv, TypeOK
    <2>2. q \in Segmented /\ q.segments = Tail(s) /\ q.job = work[w].job
        BY <1>1, <1>2, HeadAndTail DEF Segmented
    <2> HIDE DEF q
    <2> QED BY <1>1, <2>1, <2>2, HeadExtracted
<1>4. CASE SlotRead(w)
    <2>1. PICK p \in find_active_by_slot :
             work' = [work EXCEPT ![w] =
                 [step |-> "save", queue |-> work[w].queue, job |-> work[w].job,
                  segments |-> s, candidate |-> latest_candidates(Head(s)), previous |-> p,
                  decision |-> decide_merge(latest_candidates(Head(s)), p)]]
        BY <1>4 DEF SlotRead
    <2>2. extracted' = extracted /\ jobs' = jobs
        BY <1>4 DEF SlotRead
    <2> DEFINE q == [step |-> "save", queue |-> work[w].queue, job |-> work[w].job,
                     segments |-> s, candidate |-> latest_candidates(Head(s)),
                     previous |-> p,
                     decision |-> decide_merge(latest_candidates(Head(s)), p)]
    <2>3. work'[w] = q
        BY <2>1 DEF TypeInv, TypeOK
    <2>4. q \in WorkState
        BY <2>3 DEF TypeInv, TypeOK
    <2>5. q.step = "save" /\ q.job = work[w].job /\ q.segments = s
        OBVIOUS
    <2> HIDE DEF q
    <2>6. Covered(w)
        BY DEF CursorInv
    <2>7. Covered(w)' /\ ScanOK(w)'
        BY <1>1, <2>2, <2>3, <2>5, <2>6 DEF Covered, ScanOK, Secret
    <2>8. work' = [work EXCEPT ![w] = q]
        BY <2>1 DEF q
    <2> QED BY <1>1, <2>2, <2>4, <2>7, <2>8, WorkerCovers
<1>5. CASE ExtractionFails(w)
    BY <1>1, <1>2, <1>5, RetryCursor, ApartKeeps DEF ExtractionFails
<1> QED BY <1>3, <1>4, <1>5, ExtractCases

LEMMA WriteCursor ==
    ASSUME TypeInv, TypeInv', CursorInv, NEW w \in Workers,
           write_segment(w)
    PROVE  CursorStep
<1> DEFINE s == work[w].segments
<1>1. work[w].step = "save" /\ UNCHANGED <<messages, recorders, cursor>>
    BY WriteCases
<1>2. /\ work[w].job \in DOMAIN jobs
      /\ work[w].queue \in SUBSET JobKey /\ work[w].job \in WindowKey
      /\ s \in Seq(SUBSET Nat) /\ s # <<>>
    BY <1>1, WindowAt, SavingAt
<1>3. CASE MayReplace(work[w].decision, work[w].previous)
    <2> DEFINE q == [step |-> "extract", queue |-> work[w].queue, job |-> work[w].job,
                     segments |-> Tail(s)]
    <2>1. work' = [work EXCEPT ![w] = q] /\ extracted' = extracted \cup Head(s)
          /\ jobs' = jobs
        BY <1>3, WriteCases
    <2>2. Tail(s) \in Seq(SUBSET Nat)
        BY <1>2, HeadAndTail
    <2>3. q \in Segmented /\ q.segments = Tail(s) /\ q.job = work[w].job
        BY <1>2, <2>2 DEF Segmented
    <2> HIDE DEF q
    <2> QED BY <1>1, <1>2, <2>1, <2>3, HeadExtracted
<1>4. CASE ~MayReplace(work[w].decision, work[w].previous)
    <2>1. retry(w, work[w].job) /\ extracted' = extracted
        BY <1>4, WriteCases
    <2> QED BY <1>1, <1>2, <2>1, RetryCursor, ApartKeeps
<1> QED BY <1>3, <1>4

\* The window is extracted up to its end, and begins where the cursor has been.
LEMMA AdvanceCursor ==
    ASSUME TypeInv, CursorInv, NEW w \in Workers, advance_consolidation_cursor(w)
    PROVE  CursorStep
<1> DEFINE k == work[w].job
<1>1. /\ work[w].step = "extract" /\ work[w].segments = <<>>
      /\ UNCHANGED <<messages, recorders, jobs, extracted>>
      /\ cursor'.last = cursor.last /\ cursor'.done >= cursor.done
      /\ cursor'.done \in {cursor.done, k[3]}
    BY AdvanceMoves
<1>2. k \in DOMAIN jobs /\ k[1] = "consolidate" /\ k[2] \in Nat /\ k[3] \in Nat
    BY <1>1, WindowAt
<1>3. /\ k[2] <= cursor.done /\ k[3] <= Len(messages)
      /\ cursor.last <= Len(messages) /\ cursor.done <= Len(messages) /\ cursor.done \in Nat
    BY <1>2 DEF CursorInv, WindowOK, TypeInv, TypeOK, Cursor
<1>4. ASSUME NEW i \in (cursor.done + 1)..cursor'.done PROVE i \in extracted' \/ Secret(i)'
    <2>1. i \in (k[2] + 1)..k[3]
        BY <1>1, <1>2, <1>3
    <2> QED BY <1>1, <2>1 DEF CursorInv, Covered, Secret
<1>5. PICK q \in WorkState : work' = [work EXCEPT ![w] = q] /\ q.step = "complete"
    BY AdvanceMoves
<1>6. work'[w].step = "complete" /\ \A x \in Workers : x # w => work'[x] = work[x]
    BY <1>5, WorkerMoves DEF TypeInv
<1>7. (ScanOK(w) /\ Covered(w))'
    BY <1>6 DEF ScanOK, Covered
<1> QED BY <1>1, <1>2, <1>3, <1>4, <1>6, <1>7, StaysGrown DEF CursorStep

LEMMA JobDoneCursor ==
    ASSUME TypeInv, NEW w \in Workers,
           complete_job(w) \/ \E k \in DOMAIN jobs : finish_purge(w, k)
    PROVE  CursorApart
<1>1. CASE complete_job(w)
    <2>1. PICK q \in WorkState : work' = [work EXCEPT ![w] = q] /\ q.step \in {"idle", "next"}
        BY <1>1, CompleteJobMoves
    <2> QED BY <1>1, <2>1, CompleteJobMoves, WorkerLeaves
<1>2. ASSUME NEW k \in DOMAIN jobs, finish_purge(w, k) PROVE CursorApart
    <2>1. PICK q \in WorkState : work' = [work EXCEPT ![w] = q] /\ q.step \in {"idle", "next"}
        BY <1>2, PurgeMoves
    <2> QED BY <1>2, <2>1, PurgeMoves, WorkerLeaves
<1> QED BY <1>1, <1>2

\* Every step is right about what it adds.
LEMMA NextCursor ==
    ASSUME TypeInv, TypeInv', CursorInv, Next
    PROVE  CursorStep
<1>1. CASE Record
    BY <1>1, RecordCursor DEF Record
<1>2. CASE complete_run
    BY <1>2, CompleteCursor
<1>3. ASSUME NEW w \in Workers, Work(w) PROVE CursorStep
    BY <1>3, PendingCursor, ScanCursor, ClaimCursor, DispatchCursor, ExtractCursor,
       WriteCursor, AdvanceCursor, JobDoneCursor, ApartKeeps
       DEF Work
<1> QED BY <1>1, <1>2, <1>3, TalkCursor, ApartKeeps DEF Next

\* _dispatch_consolidation: whichever jobs of overlapping windows run, fail, are cancelled,
\* repeated or finished by a worker that lost its lease, every message up to the cursor
\* was in a segment that was written, unless it holds a credential.
THEOREM CursorCovers == Spec => []CursorSkipsNothing
<1>1. Init => TypeInv /\ CursorInv
    BY InitType, InitCursor
<1>2. TypeInv /\ CursorInv /\ [Next]_vars => (TypeInv /\ CursorInv)'
    <2> SUFFICES ASSUME TypeInv, CursorInv, [Next]_vars
                 PROVE  TypeInv' /\ CursorInv'
        OBVIOUS
    <2>1. TypeInv'
        BY ConsolidationStep
    <2>2. CursorStep
        <3>1. CASE Next
            BY <2>1, <3>1, NextCursor
        <3>2. CASE UNCHANGED vars
            <4>1. CursorApart
                BY <3>2, StaysGrown DEF vars, CursorApart
            <4> QED BY <2>1, <4>1, ApartKeeps
        <3> QED BY <3>1, <3>2
    <2> QED BY <2>1, <2>2, CursorStepKeeps
<1>3. CursorInv => CursorSkipsNothing
    BY DEF CursorInv
<1> QED BY <1>1, <1>2, <1>3, PTL DEF Spec

-----------------------------------------------------------------------------
(* The slot.                                                                *)

\* A step at which nobody comes to save, and at most one fact takes the place of another.
SlotApart ==
    /\ overlapped' = overlapped /\ DOMAIN facts \subseteq DOMAIN facts'
    /\ run'.step = "save" => run' = run
    /\ \A w \in Workers : work'[w].step = "save" => work'[w] = work[w]
    /\ \/ Active' \subseteq Active
       \/ \E i \in Active, n \in DOMAIN facts' : Active' = (Active \ {i}) \cup {n}

LEMMA InitFacts == Init => FactInv
BY DEF Init, FactInv, CommandOK, ReplacedOK, OneWriter, SavingWorkers, Active, Idle,
       NoRun

\* A step apart from the slot leaves one writer.
LEMMA SlotApartKeeps ==
    ASSUME FactInv, SlotApart
    PROVE  FactInv'
<1>1. /\ SavingWorkers' \subseteq SavingWorkers
      /\ \A w \in SavingWorkers' : work'[w] = work[w]
    BY DEF SlotApart, SavingWorkers
<1>2. ASSUME ~overlapped, Active = {} PROVE Active' = {}
    BY <1>2 DEF SlotApart
<1>3. ASSUME ~overlapped, NEW i \in Active', NEW j \in Active' PROVE i = j
    <2>1. \A x, y \in Active : x = y
        BY <1>3 DEF FactInv, OneWriter
    <2> HIDE DEF Active
    <2> QED BY <1>3, <2>1 DEF SlotApart
<1> HIDE DEF Active
<1>4. CommandOK' /\ ReplacedOK'
    BY <1>1 DEF FactInv, CommandOK, ReplacedOK, SlotApart
<1>5. OneWriter'
    BY <1>1, <1>2, <1>3 DEF FactInv, OneWriter, SlotApart
<1> QED BY <1>4, <1>5 DEF FactInv

LEMMA ActiveStays ==
    ASSUME facts' = facts
    PROVE  Active' = Active /\ DOMAIN facts' = DOMAIN facts
BY DEF Active

\* A worker goes where it does not save.
LEMMA WorkerSavesNot ==
    ASSUME TypeInv, NEW w \in Workers, NEW q \in WorkState, q.step # "save",
           work' = [work EXCEPT ![w] = q], UNCHANGED <<run, facts, overlapped>>
    PROVE  SlotApart
BY WorkerMoves, ActiveStays DEF SlotApart, TypeInv

LEMMA TalkSlot ==
    ASSUME TypeInv,
           \/ \E c \in Contents : send_message(c)
           \/ complete_run \/ fail_run \/ Record
           \/ FallQuiet \/ MemoryCommand \/ \E k \in DOMAIN jobs : LeaseLapses(k)
           \/ Crash
    PROVE  SlotApart
<1>1. CASE \E c \in Contents : send_message(c)
    BY <1>1, ActiveStays DEF send_message, SlotApart
<1>2. CASE complete_run \/ fail_run
    BY <1>2, ActiveStays DEF complete_run, fail_run, NoRun, SlotApart
<1>3. CASE Record \/ FallQuiet
    BY <1>3, ActiveStays
       DEF Record, get_consolidation_cursor, upsert_consolidation_cursor,
           record_user_message, FallQuiet, SlotApart
<1>4. CASE MemoryCommand
    <2>1. OwnerMoves
        BY <1>4, OwnerStep DEF TypeInv
    <2> QED BY <2>1 DEF OwnerMoves, SlotApart
<1>5. ASSUME NEW k \in DOMAIN jobs, LeaseLapses(k) PROVE SlotApart
    BY <1>5, LapseMoves, ActiveStays DEF TypeInv, SlotApart
<1>6. CASE Crash
    BY <1>6, CrashMoves, ActiveStays DEF SlotApart, Idle
<1> QED BY <1>1, <1>2, <1>3, <1>4, <1>5, <1>6

LEMMA WorkerSlot ==
    ASSUME TypeInv, NEW w \in Workers,
           \/ process_pending_jobs(w) \/ enqueue_idle_consolidations(w)
           \/ claim_jobs(w) \/ advance_consolidation_cursor(w) \/ complete_job(w)
           \/ \E k \in DOMAIN jobs : dispatch(w, k) \/ finish_purge(w, k)
    PROVE  SlotApart
<1>1. UNCHANGED <<run, facts, overlapped>>
    BY DEF process_pending_jobs, enqueue_idle_consolidations, claim_jobs,
           advance_consolidation_cursor, complete_job, dispatch, finish_purge,
           workRest
<1>2. work \in [Workers -> WorkState] /\ work'[w].step # "save"
      /\ \A x \in Workers : x # w => work'[x] = work[x]
    <2>1. \E q : work' = [work EXCEPT ![w] = q] /\ q.step # "save"
        <3>1. CASE process_pending_jobs(w)
            <4>1. PICK crowded \in BOOLEAN, to \in {cursor.last, cursor.done} :
                work' = [work EXCEPT ![w] = [step |-> "scan", crowded |-> crowded,
                                             from |-> cursor.done, to |-> to]]
                BY <3>1 DEF process_pending_jobs
            <4>2. [step |-> "scan", crowded |-> crowded,
                   from |-> cursor.done, to |-> to].step # "save"
                OBVIOUS
            <4> QED BY <4>1, <4>2
        <3>2. CASE enqueue_idle_consolidations(w)
            <4>1. PICK q \in {[step |-> "claim"], Idle} : work' = [work EXCEPT ![w] = q]
                BY <3>2 DEF enqueue_idle_consolidations
            <4>2. q.step # "save"
                BY DEF Idle
            <4> QED BY <4>1, <4>2
        <3>3. CASE claim_jobs(w)
            <4>1. PICK q \in {Idle, [step |-> "next", queue |-> Claimable]} :
                     work' = [work EXCEPT ![w] = q]
                BY <3>3 DEF claim_jobs
            <4>2. q.step # "save"
                BY DEF Idle
            <4> QED BY <4>1, <4>2
        <3>4. CASE advance_consolidation_cursor(w)
            BY <3>4, AdvanceMoves
        <3>5. CASE complete_job(w)
            BY <3>5, CompleteJobMoves
        <3>6. ASSUME NEW k \in DOMAIN jobs, finish_purge(w, k)
              PROVE  \E q : work' = [work EXCEPT ![w] = q] /\ q.step # "save"
            BY <3>6, PurgeMoves
        <3>7. ASSUME NEW k \in DOMAIN jobs, dispatch(w, k)
              PROVE  \E q : work' = [work EXCEPT ![w] = q] /\ q.step # "save"
            <4>1. CASE Next_job(w, k)
                <5>1. PICK q \in {Idle, [step |-> "next", queue |-> work[w].queue \ {k}]} :
                         work' = [work EXCEPT ![w] = q]
                    BY <4>1 DEF Next_job
                <5>2. q.step # "save"
                    BY DEF Idle
                <5> QED BY <5>1, <5>2
            <4>2. CASE ~Next_job(w, k)
                <5> DEFINE q == [step |-> "extract", queue |-> work[w].queue, job |-> k,
                                 segments |-> segment_transcript(k[2], k[3])]
                <5>1. work' = [work EXCEPT ![w] = q]
                    BY <3>7, <4>2 DEF dispatch
                <5>2. q.step # "save"
                    OBVIOUS
                <5> HIDE DEF q
                <5> QED BY <5>1, <5>2
            <4> QED BY <4>1, <4>2
        <3> QED BY <3>1, <3>2, <3>3, <3>4, <3>5, <3>6, <3>7
    <2>2. work \in [Workers -> WorkState]
        BY DEF TypeInv, TypeOK
    <2> QED BY <2>1, <2>2
<1> QED BY <1>1, <1>2, ActiveStays DEF SlotApart

\* The run reads the slot: if nobody else is about to write, it is alone.
LEMMA RememberSlot ==
    ASSUME TypeInv, FactInv, process_natural_memory_once
    PROVE  FactInv'
<1>0. run.step = "remember" /\ Said \in Contents /\ Said.kind = "remember"
    BY DEF process_natural_memory_once, TypeInv, RunOK, Said, Last
<1>1. CASE process_natural_intent
    <2>1. PICK p \in find_active_by_slot :
             run' = [step |-> "save", previous |-> p, decision |-> decide_merge(Said, p)]
        BY <1>1 DEF process_natural_intent
    <2> DEFINE d == decide_merge(Said, p)
    <2>2. d # "UPDATE" /\ (d = "ADD" => Active = {})
        BY <1>0, SlotFound DEF TypeInv
    <2> HIDE DEF d
    <2>3. run'.step = "save" /\ run'.decision = d
        BY <2>1 DEF d
    <2>4. UNCHANGED <<facts, work>>
        BY DEF process_natural_memory_once
    <2>5. ~overlapped' => ~overlapped /\ SavingWorkers = {}
        BY <1>1, WritersAssumption DEF process_natural_intent, ReadSlot, Writing, SavingWorkers
    <2>6. Active' = Active /\ SavingWorkers' = SavingWorkers
        BY <2>4, ActiveStays DEF SavingWorkers
    <2> HIDE DEF Active
    <2> QED BY <2>2, <2>3, <2>4, <2>5, <2>6 DEF FactInv, CommandOK, ReplacedOK, OneWriter
<1>2. CASE ~process_natural_intent
    <2>1. SlotApart
        BY <1>2, ActiveStays DEF process_natural_memory_once, SlotApart
    <2> QED BY <2>1, SlotApartKeeps
<1> QED BY <1>1, <1>2

\* The run writes the slot: it adds a fact only where it found none.
LEMMA SavedSlot ==
    ASSUME TypeInv, FactInv, remember_all_result
    PROVE  FactInv'
<1>1. /\ run.step = "save" /\ Said \in Contents /\ HasValue(Said)
      /\ remember_candidate(Said, run.previous, run.decision)
      /\ run' = [step |-> "answer"] /\ UNCHANGED <<work, overlapped>>
    BY DEF remember_all_result, TypeInv, RunOK, Said, Last, HasValue
<1>2. run.decision \in Decisions /\ run.decision # "UPDATE"
    BY <1>1 DEF TypeInv, TypeOK, Run, FactInv, CommandOK
<1>3. /\ DOMAIN facts \subseteq DOMAIN facts'
      /\ run.decision # "ADD" => Active' = Active
      /\ run.decision = "ADD" => \E n \in DOMAIN facts' : Active' = Active \cup {n}
    BY <1>1, <1>2, FactsWritten DEF TypeInv, Decisions
<1>4. SavingWorkers' = SavingWorkers
    BY <1>1 DEF SavingWorkers
<1>5. ASSUME ~overlapped PROVE SavingWorkers = {} /\ \A i, j \in Active' : i = j
    <2>1. /\ SavingWorkers = {} /\ \A i, j \in Active : i = j
          /\ run.decision = "ADD" => Active = {}
        BY <1>1, <1>5 DEF FactInv, OneWriter
    <2> HIDE DEF Active
    <2> QED BY <1>3, <2>1
<1> HIDE DEF Active
<1> QED BY <1>1, <1>3, <1>4, <1>5 DEF FactInv, CommandOK, ReplacedOK, OneWriter

\* A worker reads the slot: if nobody else is about to write, it is alone.
LEMMA ExtractSlot ==
    ASSUME TypeInv, FactInv, NEW w \in Workers, extract_window(w)
    PROVE  FactInv'
<1> DEFINE s == work[w].segments
           c == latest_candidates(Head(s))
<1>1. /\ work[w].step = "extract" /\ s # <<>> /\ UNCHANGED <<run, facts>>
    BY ExtractCases
<1>2. /\ work[w].job \in DOMAIN jobs /\ s \in Seq(SUBSET Nat)
      /\ \A j \in DOMAIN s : s[j] \subseteq {i \in DOMAIN messages : ~Secret(i)}
      /\ work \in [Workers -> WorkState]
    BY <1>1, WindowAt DEF TypeInv, TypeOK, SegmentsOK, Segmenting
<1>3. CASE NothingStated(w)
    <2>1. work'[w].step = "extract" /\ \A x \in Workers : x # w => work'[x] = work[x]
        <3> DEFINE q == [work[w] EXCEPT !.segments = Tail(s)]
        <3>1. work' = [work EXCEPT ![w] = q]
            BY <1>2, <1>3 DEF NothingStated
        <3>2. work[w] \in Segmented
            BY <1>1, PlaceOfWorker DEF TypeInv
        <3>3. q.step = "extract"
            BY <1>1, <3>2 DEF Segmented
        <3> HIDE DEF q
        <3> QED BY <1>2, <3>1, <3>3
    <2>2. SlotApart
        BY <1>1, <1>3, <2>1, ActiveStays DEF SlotApart, NothingStated
    <2> QED BY <2>2, SlotApartKeeps
<1>4. CASE SlotRead(w)
    <2>1. PICK p \in find_active_by_slot :
             work' = [work EXCEPT ![w] =
                 [step |-> "save", queue |-> work[w].queue, job |-> work[w].job,
                  segments |-> s, candidate |-> c, previous |-> p,
                  decision |-> decide_merge(c, p)]]
        BY <1>4 DEF SlotRead
    <2>2. c \in Contents
        BY <1>1, <1>2, <1>4, LatestHasValue, HeadAndTail DEF SlotRead
    <2> DEFINE d == decide_merge(c, p)
    <2> HIDE DEF c
    <2>3. d = "ADD" => Active = {}
        BY <2>2, SlotFound DEF TypeInv
    <2>4. d = "UPDATE" => p \in Active
        BY <2>2, SlotFound DEF TypeInv
    <2> HIDE DEF d
    <2>5. /\ work'[w].step = "save" /\ work'[w].decision = d /\ work'[w].previous = p
          /\ \A x \in Workers : x # w => work'[x] = work[x]
        BY <1>2, <2>1 DEF d
    <2>6. p \in Active => p \in DOMAIN facts
        BY DEF Active
    <2>7. ~overlapped' => ~overlapped /\ run.step # "save" /\ SavingWorkers \subseteq {w}
        <3>1. w # "run"
            BY WritersAssumption
        <3> QED BY <1>4, <3>1 DEF SlotRead, ReadSlot, Writing, SavingWorkers
    <2>8. Active' = Active
        BY <1>1, ActiveStays
    <2>9. SavingWorkers' = SavingWorkers \cup {w}
        BY <2>5 DEF SavingWorkers
    <2> HIDE DEF Active
    <2>10. ASSUME NEW x \in SavingWorkers', work'[x].decision = "UPDATE"
           PROVE  work'[x].previous \in DOMAIN facts'
        <3>1. CASE x = w
            BY <1>1, <2>4, <2>5, <2>6, <2>10, <3>1
        <3>2. CASE x # w
            <4>1. x \in Workers /\ x \in SavingWorkers
                BY <2>9, <2>10, <3>2 DEF SavingWorkers
            <4> QED BY <1>1, <2>5, <2>10, <3>2, <4>1 DEF FactInv, ReplacedOK
        <3> QED BY <3>1, <3>2
    <2>11. ASSUME ~overlapped'
           PROVE  SavingWorkers' = {w} /\ run'.step # "save" /\ \A i, j \in Active' : i = j
        BY <1>1, <2>7, <2>8, <2>9, <2>11 DEF FactInv, OneWriter
    <2> QED BY <1>1, <2>3, <2>5, <2>8, <2>10, <2>11
            DEF FactInv, CommandOK, ReplacedOK, OneWriter
<1>5. CASE ExtractionFails(w)
    <2>1. PICK q \in WorkState : work' = [work EXCEPT ![w] = q] /\ q.step \in {"idle", "next"}
        BY <1>1, <1>2, <1>5, RetryMoves DEF ExtractionFails
    <2> QED BY <1>1, <1>5, <2>1, WorkerSavesNot, SlotApartKeeps DEF ExtractionFails
<1> QED BY <1>3, <1>4, <1>5, ExtractCases

\* A worker writes the slot: one fact is added where there was none, or takes the place
\* of the one that was read.
LEMMA WriteSlot ==
    ASSUME TypeInv, FactInv, NEW w \in Workers, write_segment(w)
    PROVE  FactInv'
<1> DEFINE d == work[w].decision
           p == work[w].previous
<1>1. work[w].step = "save" /\ UNCHANGED <<run, overlapped>>
    BY WriteCases
<1>2. CASE MayReplace(d, p)
    <2>1. /\ remember_candidate(work[w].candidate, p, d)
          /\ work' = [work EXCEPT ![w] =
                [step |-> "extract", queue |-> work[w].queue, job |-> work[w].job,
                 segments |-> Tail(work[w].segments)]]
        BY <1>2, WriteCases
    <2>2. work'[w].step = "extract" /\ \A x \in Workers : x # w => work'[x] = work[x]
        BY <2>1 DEF TypeInv, TypeOK
    <2>3. work[w].candidate \in Contents /\ HasValue(work[w].candidate) /\ d \in Decisions
        BY <1>1, SavingAt
    <2>4. /\ DOMAIN facts \subseteq DOMAIN facts'
          /\ d \in {"NOOP", "QUARANTINE"} => Active' = Active
          /\ d \in {"ADD", "UPDATE"} =>
                 \E n \in DOMAIN facts' :
                     Active' = (IF d = "ADD" THEN Active ELSE Active \ {p}) \cup {n}
        BY <2>1, <2>3, FactsWritten DEF TypeInv
    <2>5. w \in SavingWorkers
        BY <1>1 DEF SavingWorkers
    <2>6. d = "UPDATE" => p \in Active
        BY <1>2, <2>5 DEF MayReplace, Active, FactInv, ReplacedOK
    <2>7. SavingWorkers' = SavingWorkers \ {w}
        BY <2>2 DEF SavingWorkers
    <2>8. \A x \in SavingWorkers' : x \in SavingWorkers /\ work'[x] = work[x]
        BY <2>2, <2>7 DEF SavingWorkers
    <2> HIDE DEF d, p
    <2>9. ASSUME ~overlapped PROVE \A i, j \in Active' : i = j
        <3>1. (\A i, j \in Active : i = j) /\ (d = "ADD" => Active = {})
            BY <2>5, <2>9 DEF FactInv, OneWriter, d
        <3> HIDE DEF Active
        <3> QED BY <2>3, <2>4, <2>6, <3>1 DEF Decisions
    <2>10. ASSUME ~overlapped PROVE SavingWorkers' = {} /\ run.step # "save"
        BY <2>5, <2>7, <2>10 DEF FactInv, OneWriter
    <2> HIDE DEF Active
    <2> QED BY <1>1, <2>4, <2>8, <2>9, <2>10 DEF FactInv, CommandOK, ReplacedOK, OneWriter
<1>3. CASE ~MayReplace(d, p)
    <2>1. retry(w, work[w].job) /\ facts' = facts
        BY <1>3, WriteCases
    <2>2. PICK q \in WorkState : work' = [work EXCEPT ![w] = q] /\ q.step \in {"idle", "next"}
        BY <1>1, <2>1, RetryMoves, WindowAt
    <2> QED BY <1>1, <2>1, <2>2, WorkerSavesNot, SlotApartKeeps
<1> QED BY <1>2, <1>3

\* Every step leaves one writer, or two have overlapped.
LEMMA NextSlot ==
    ASSUME TypeInv, FactInv, [Next]_vars
    PROVE  FactInv'
<1>1. ASSUME NEW w \in Workers, Work(w) PROVE FactInv'
    BY <1>1, WorkerSlot, ExtractSlot, WriteSlot, SlotApartKeeps DEF Work
<1>2. CASE UNCHANGED vars
    <2>1. SlotApart
        BY <1>2, ActiveStays DEF vars, SlotApart
    <2> QED BY <2>1, SlotApartKeeps
<1> QED BY <1>1, <1>2, TalkSlot, RememberSlot, SavedSlot, SlotApartKeeps DEF Next

\* long_term/writer.py: as long as no two writers overlap between reading the slot and
\* writing it, repeated windows, retried jobs, commands repeated by a run that is taken
\* up again and commands of the owner leave one active fact for the slot at most.
THEOREM OneFact == Spec => []OneActiveFact
<1>1. Init => TypeInv /\ FactInv
    BY InitType, InitFacts
<1>2. TypeInv /\ FactInv /\ [Next]_vars => (TypeInv /\ FactInv)'
    BY ConsolidationStep, NextSlot
<1>3. FactInv => OneActiveFact
    <2> SUFFICES ASSUME FactInv, ~overlapped
                 PROVE  Cardinality(Active) <= 1
        BY DEF OneActiveFact
    <2>1. \A i, j \in Active : i = j
        BY DEF FactInv, OneWriter
    <2> HIDE DEF Active
    <2>2. CASE Active = {}
        BY <2>2, FS_EmptySet
    <2>3. ASSUME NEW i \in Active PROVE Cardinality(Active) = 1
        <3>1. Active = {i}
            BY <2>1
        <3> QED BY <3>1, FS_Singleton
    <2> QED BY <2>2, <2>3
<1> QED BY <1>1, <1>2, <1>3, PTL DEF Spec

=============================================================================
