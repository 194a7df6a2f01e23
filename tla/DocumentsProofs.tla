--------------------------- MODULE DocumentsProofs ---------------------------
(***************************************************************************)
(* Proofs about Documents, for any number of documents, threads, versions, *)
(* crashes and errors: what is shown as ready can be found, and what can   *)
(* be found is there.                                                      *)
(***************************************************************************)
EXTENDS Documents, FiniteSetTheorems, TLAPS

IngestSteps == {"parse", "version", "previous", "upsert", "stored", "dense",
                "keyword", "sweep", "ready", "graph"}

Statuses == {"none", "uploaded", "chunking", "indexing", "ready", "failed",
             "deleted", "gone"}

Entries == Docs \X Nat

IngestRequest ==
    [op : {"ingest"}, step : IngestSteps, doc : Docs, version : Nat,
     next : BOOLEAN, previous : SUBSET Entries, stored : SUBSET Entries]

DeleteRequest ==
    [op : {"delete"}, step : {"purge", "unindex"}, doc : Docs,
     stored : SUBSET Entries]

\* The types of the rows, the indexes and the requests at work.
TypeOK ==
    /\ status \in [Docs -> Statuses]
    /\ latest \in [Docs -> Nat]
    /\ chunks \in [Docs -> SUBSET Nat]
    /\ requests \in [Workers -> IngestRequest \cup DeleteRequest \cup {Idle}]

USE DEF IngestSteps, Statuses, Idle

LEMMA RequestKinds ==
    ASSUME NEW q \in IngestRequest \cup DeleteRequest \cup {Idle}
    PROVE  /\ q.step \in IngestSteps => q \in IngestRequest
           /\ q.step \in {"purge", "unindex"} => q \in DeleteRequest
           /\ q.step = "idle" => q = Idle
           /\ q.step \in IngestSteps \cup {"purge", "unindex", "idle"}
           /\ q.step # "idle" => q.doc \in Docs
           /\ q.step \in IngestSteps <=> q.step # "idle" /\ q.op = "ingest"
BY DEF IngestRequest, DeleteRequest

LEMMA ChunkEntries ==
    ASSUME TypeOK, NEW d \in Docs
    PROVE  /\ chunks_by_document(d) \in SUBSET Entries
           /\ \A e \in chunks_by_document(d) : e[1] = d
BY DEF chunks_by_document, TypeOK, Entries

-----------------------------------------------------------------------------
(* What the actions do, in terms of the worker that takes them.            *)

\* Only the request of w changes.
Mine(w) == \A x \in Workers : x # w => requests'[x] = requests[x]

\* The ingest of w goes on with step s.
GoesOn(w, s) ==
    /\ Mine(w)
    /\ requests'[w] \in IngestRequest
    /\ requests'[w].step = s
    /\ requests'[w].doc = requests[w].doc
    /\ requests'[w].next = requests[w].next

\* It keeps what it has read.
KeepsValues(w) ==
    /\ requests'[w].version = requests[w].version
    /\ requests'[w].previous = requests[w].previous
    /\ requests'[w].stored = requests[w].stored

Ends(w) == Mine(w) /\ requests'[w] = Idle

\* update_document_status(d, s), document by document.
Becomes(d, s) ==
    /\ status' \in [Docs -> Statuses]
    /\ \A e \in Docs :
           status'[e] = IF e = d /\ get_document(d) THEN s ELSE status[e]

LEMMA StatusBecomes ==
    ASSUME TypeOK, NEW d \in Docs, NEW s \in Statuses, update_document_status(d, s)
    PROVE  Becomes(d, s)
<1>1. CASE get_document(d)
    <2>1. status' = [status EXCEPT ![d] = s]
        BY <1>1 DEF update_document_status
    <2> QED BY <1>1, <2>1 DEF TypeOK, Becomes
<1>2. CASE ~get_document(d)
    <2>1. status' = status
        BY <1>2 DEF update_document_status
    <2> QED BY <1>2, <2>1 DEF TypeOK, Becomes
<1> QED BY <1>1, <1>2

LEMMA EndEnds ==
    ASSUME TypeOK, NEW w \in Workers, End(w)
    PROVE  /\ Ends(w)
           /\ requests' \in [Workers -> IngestRequest \cup DeleteRequest \cup {Idle}]
BY DEF End, Ends, Mine, TypeOK

LEMMA IngestAtStep ==
    ASSUME TypeOK, NEW w \in Workers, NEW s \in IngestSteps, Ingesting(w, s)
    PROVE  /\ requests[w] \in IngestRequest
           /\ requests[w].step = s
           /\ requests[w].doc \in Docs
           /\ requests[w].version \in Nat
           /\ requests[w].next \in BOOLEAN
           /\ requests[w].previous \in SUBSET Entries
           /\ requests[w].stored \in SUBSET Entries
<1>1. requests[w] \in IngestRequest
    BY RequestKinds DEF Ingesting, TypeOK
<1> QED BY <1>1 DEF IngestRequest, Ingesting

\* To(w, s) of an ingest.
LEMMA ToGoesOn ==
    ASSUME TypeOK, NEW w \in Workers, requests[w] \in IngestRequest,
           NEW s \in IngestSteps, To(w, s)
    PROVE  /\ GoesOn(w, s) /\ KeepsValues(w)
           /\ requests' \in [Workers -> IngestRequest \cup DeleteRequest \cup {Idle}]
<1>1. requests' = [requests EXCEPT ![w] = [requests[w] EXCEPT !.step = s]]
    BY DEF To
<1> DEFINE q == [requests[w] EXCEPT !.step = s]
<1>2. /\ q \in IngestRequest /\ q.step = s /\ q.doc = requests[w].doc
      /\ q.next = requests[w].next /\ q.version = requests[w].version
      /\ q.previous = requests[w].previous /\ q.stored = requests[w].stored
    BY DEF IngestRequest
<1> HIDE DEF q
<1>3. requests' = [requests EXCEPT ![w] = q]
    BY <1>1 DEF q
<1> QED BY <1>2, <1>3 DEF GoesOn, KeepsValues, Mine, TypeOK

AllRequests == [Workers -> IngestRequest \cup DeleteRequest \cup {Idle}]

LEMMA ParseMoves ==
    ASSUME TypeOK, NEW w \in Workers, parse(w)
    PROVE  LET d == requests[w].doc IN
           /\ requests[w] \in IngestRequest /\ requests[w].step = "parse"
           /\ requests' \in AllRequests
           /\ UNCHANGED <<latest, chunks, dense, keyword, excused>>
           /\ \/ /\ GoesOn(w, "version")
                 /\ requests'[w].version = IF requests[w].next THEN latest[d] + 1 ELSE 1
                 /\ requests'[w].previous = requests[w].previous
                 /\ requests'[w].stored = requests[w].stored
                 /\ UNCHANGED status
              \/ Ends(w) /\ Becomes(d, "failed")
<1> DEFINE d == requests[w].doc
           v == IF requests[w].next THEN latest[d] + 1 ELSE 1
           q == [requests[w] EXCEPT !.step = "version", !.version = v]
<1>1. /\ requests[w] \in IngestRequest /\ requests[w].step = "parse" /\ d \in Docs
    BY IngestAtStep DEF parse
<1>2. v \in Nat
    BY <1>1 DEF TypeOK
<1>3. /\ q \in IngestRequest /\ q.step = "version" /\ q.version = v
      /\ q.doc = requests[w].doc /\ q.next = requests[w].next
      /\ q.previous = requests[w].previous /\ q.stored = requests[w].stored
    <2> HIDE DEF v
    <2> QED BY <1>1, <1>2 DEF IngestRequest
<1>4. UNCHANGED <<latest, chunks, dense, keyword, excused>>
    BY DEF parse, rows, indexes, faults
<1>5. CASE fail(w)
    BY <1>1, <1>4, <1>5, EndEnds, StatusBecomes DEF fail, AllRequests
<1>6. CASE requests' = [requests EXCEPT ![w] = q] /\ UNCHANGED status
    <2> HIDE DEF q
    <2> QED BY <1>1, <1>3, <1>4, <1>6 DEF GoesOn, Mine, TypeOK, AllRequests
<1> QED BY <1>5, <1>6 DEF parse, latest_version, rows

LEMMA VersionMoves ==
    ASSUME TypeOK, NEW w \in Workers, create_version(w)
    PROVE  LET d == requests[w].doc
               v == requests[w].version
           IN
           /\ requests[w] \in IngestRequest /\ requests[w].step = "version"
           /\ requests' \in AllRequests
           /\ UNCHANGED <<chunks, dense, keyword, excused>>
           /\ \/ /\ GoesOn(w, "previous") /\ KeepsValues(w)
                 /\ get_document(d) /\ latest[d] < v
                 /\ latest' = [latest EXCEPT ![d] = v]
                 /\ Becomes(d, "chunking")
              \/ Ends(w) /\ UNCHANGED <<status, latest>>
<1>1. /\ requests[w] \in IngestRequest /\ requests[w].step = "version"
      /\ requests[w].doc \in Docs
    BY IngestAtStep DEF create_version
<1>2. UNCHANGED <<chunks, dense, keyword, excused>>
    BY DEF create_version, indexes, faults
<1> QED BY <1>1, <1>2, ToGoesOn, EndEnds, StatusBecomes DEF create_version, AllRequests

LEMMA PreviousMoves ==
    ASSUME TypeOK, NEW w \in Workers, read_previous(w)
    PROVE  LET d == requests[w].doc IN
           /\ requests[w] \in IngestRequest /\ requests[w].step = "previous"
           /\ requests' \in AllRequests
           /\ UNCHANGED <<status, latest, chunks, dense, keyword, excused>>
           /\ GoesOn(w, "upsert")
           /\ requests'[w].version = requests[w].version
           /\ requests'[w].stored = requests[w].stored
           /\ requests'[w].previous =
                  IF requests[w].next THEN chunks_by_document(d) ELSE {}
<1> DEFINE d == requests[w].doc
           p == IF requests[w].next THEN chunks_by_document(d) ELSE {}
           q == [requests[w] EXCEPT !.step = "upsert", !.previous = p]
<1>1. requests[w] \in IngestRequest /\ requests[w].step = "previous" /\ d \in Docs
    BY IngestAtStep DEF read_previous
<1>2. p \in SUBSET Entries
    BY <1>1, ChunkEntries
<1>3. /\ q \in IngestRequest /\ q.step = "upsert" /\ q.previous = p
      /\ q.doc = requests[w].doc /\ q.next = requests[w].next
      /\ q.version = requests[w].version /\ q.stored = requests[w].stored
    <2> HIDE DEF p
    <2> QED BY <1>1, <1>2 DEF IngestRequest
<1>4. /\ requests' = [requests EXCEPT ![w] = q]
      /\ UNCHANGED <<status, latest, chunks, dense, keyword, excused>>
    BY DEF read_previous, rows, indexes, faults
<1> HIDE DEF q
<1> QED BY <1>1, <1>3, <1>4 DEF GoesOn, Mine, TypeOK, AllRequests

LEMMA UpsertMoves ==
    ASSUME TypeOK, NEW w \in Workers, upsert_chunks(w)
    PROVE  LET d == requests[w].doc IN
           /\ requests[w] \in IngestRequest /\ requests[w].step = "upsert"
           /\ requests' \in AllRequests
           /\ UNCHANGED <<status, latest, dense, keyword, excused>>
           /\ \/ /\ get_document(d)
                 /\ chunks' = [chunks EXCEPT ![d] = {requests[w].version}]
                 /\ GoesOn(w, "stored") /\ KeepsValues(w)
              \/ ~get_document(d) /\ Ends(w) /\ UNCHANGED chunks
<1>1. requests[w] \in IngestRequest /\ requests[w].step = "upsert"
    BY IngestAtStep DEF upsert_chunks
<1>2. UNCHANGED <<status, latest, dense, keyword, excused>>
    BY DEF upsert_chunks, indexes, faults
<1> QED BY <1>1, <1>2, ToGoesOn, EndEnds DEF upsert_chunks, AllRequests

LEMMA StoredMoves ==
    ASSUME TypeOK, NEW w \in Workers, read_stored(w)
    PROVE  LET d == requests[w].doc IN
           /\ requests[w] \in IngestRequest /\ requests[w].step = "stored"
           /\ requests' \in AllRequests
           /\ UNCHANGED <<latest, chunks, dense, keyword, excused>>
           /\ Becomes(d, "indexing")
           /\ GoesOn(w, IF chunks[d] = {} THEN "ready" ELSE "dense")
           /\ requests'[w].version = requests[w].version
           /\ requests'[w].previous = requests[w].previous
           /\ requests'[w].stored = chunks_by_document(d)
<1> DEFINE d == requests[w].doc
           s == IF chunks[d] = {} THEN "ready" ELSE "dense"
           q == [requests[w] EXCEPT !.stored = chunks_by_document(d), !.step = s]
<1>1. requests[w] \in IngestRequest /\ requests[w].step = "stored" /\ d \in Docs
    BY IngestAtStep DEF read_stored
<1>2. chunks_by_document(d) \in SUBSET Entries /\ s \in IngestSteps
    BY <1>1, ChunkEntries
<1>3. /\ q \in IngestRequest /\ q.step = s /\ q.stored = chunks_by_document(d)
      /\ q.doc = requests[w].doc /\ q.next = requests[w].next
      /\ q.version = requests[w].version /\ q.previous = requests[w].previous
    <2> HIDE DEF s
    <2> QED BY <1>1, <1>2 DEF IngestRequest
<1>4. /\ requests' = [requests EXCEPT ![w] = q]
      /\ UNCHANGED <<latest, chunks, dense, keyword, excused>>
      /\ Becomes(d, "indexing")
    BY <1>1, StatusBecomes DEF read_stored, indexes, faults
<1> HIDE DEF q
<1> QED BY <1>1, <1>3, <1>4 DEF GoesOn, Mine, TypeOK, AllRequests

LEMMA IndexFailed ==
    ASSUME TypeOK, NEW w \in Workers, requests[w] \in IngestRequest, index_failed(w)
    PROVE  LET d == requests[w].doc IN
           /\ requests' \in AllRequests
           /\ UNCHANGED <<latest, chunks, dense, keyword>>
           /\ Ends(w) /\ Becomes(d, "failed")
           /\ excused' = excused \cup {d}
<1>1. requests[w].doc \in Docs
    BY DEF IngestRequest
<1> QED BY <1>1, EndEnds, StatusBecomes DEF index_failed, fail, indexes, AllRequests

LEMMA DenseMoves ==
    ASSUME TypeOK, NEW w \in Workers, write_dense(w)
    PROVE  LET d == requests[w].doc IN
           /\ requests[w] \in IngestRequest /\ requests[w].step = "dense"
           /\ requests' \in AllRequests
           /\ UNCHANGED <<latest, chunks, keyword>>
           /\ \/ /\ dense' = dense \cup requests[w].stored
                 /\ GoesOn(w, "keyword") /\ KeepsValues(w)
                 /\ UNCHANGED <<status, excused>>
              \/ /\ Ends(w) /\ Becomes(d, "failed")
                 /\ excused' = excused \cup {d}
                 /\ UNCHANGED dense
<1>1. requests[w] \in IngestRequest /\ requests[w].step = "dense"
    BY IngestAtStep DEF write_dense
<1> QED BY <1>1, ToGoesOn, IndexFailed DEF write_dense, AllRequests, rows, faults

LEMMA KeywordMoves ==
    ASSUME TypeOK, NEW w \in Workers, write_keyword(w)
    PROVE  LET d == requests[w].doc IN
           /\ requests[w] \in IngestRequest /\ requests[w].step = "keyword"
           /\ requests' \in AllRequests
           /\ UNCHANGED <<latest, chunks, dense>>
           /\ \/ /\ keyword' = keyword \cup requests[w].stored
                 /\ GoesOn(w, IF requests[w].next THEN "sweep" ELSE "ready")
                 /\ KeepsValues(w)
                 /\ UNCHANGED <<status, excused>>
              \/ /\ Ends(w) /\ Becomes(d, "failed")
                 /\ excused' = excused \cup {d}
                 /\ UNCHANGED keyword
<1>1. requests[w] \in IngestRequest /\ requests[w].step = "keyword"
    BY IngestAtStep DEF write_keyword
<1>2. CASE index_failed(w)
    BY <1>1, <1>2, IndexFailed
<1>3. CASE /\ keyword' = keyword \cup requests[w].stored
           /\ To(w, IF requests[w].next THEN "sweep" ELSE "ready")
           /\ UNCHANGED <<rows, dense, faults>>
    <2> DEFINE s == IF requests[w].next THEN "sweep" ELSE "ready"
    <2>1. s \in IngestSteps /\ To(w, s)
        BY <1>3
    <2> HIDE DEF s
    <2>2. /\ GoesOn(w, s) /\ KeepsValues(w) /\ requests' \in AllRequests
        BY <1>1, <2>1, ToGoesOn DEF AllRequests
    <2> QED BY <1>1, <1>3, <2>2 DEF s, rows, faults
<1> QED BY <1>2, <1>3 DEF write_keyword

LEMMA SweepMoves ==
    ASSUME TypeOK, NEW w \in Workers, sweep(w)
    PROVE  LET d == requests[w].doc IN
           /\ requests[w] \in IngestRequest /\ requests[w].step = "sweep"
           /\ requests' \in AllRequests
           /\ UNCHANGED <<status, latest, chunks>>
           /\ GoesOn(w, "ready") /\ KeepsValues(w)
           /\ dense' \in {dense, dense \ requests[w].previous}
           /\ keyword' \in {keyword, keyword \ requests[w].previous}
           /\ \/ /\ dense' = dense \ requests[w].previous
                 /\ keyword' = keyword \ requests[w].previous
                 /\ UNCHANGED excused
              \/ excused' = excused \cup {d}
<1>1. requests[w] \in IngestRequest /\ requests[w].step = "sweep"
    BY IngestAtStep DEF sweep
<1> QED BY <1>1, ToGoesOn DEF sweep, delete_chunks, rows, AllRequests

LEMMA ReadyMoves ==
    ASSUME TypeOK, NEW w \in Workers, set_ready(w)
    PROVE  /\ requests[w] \in IngestRequest /\ requests[w].step = "ready"
           /\ requests' \in AllRequests
           /\ UNCHANGED <<latest, chunks, dense, keyword, excused>>
           /\ GoesOn(w, "graph") /\ KeepsValues(w)
           /\ Becomes(requests[w].doc, "ready")
<1>1. /\ requests[w] \in IngestRequest /\ requests[w].step = "ready"
      /\ requests[w].doc \in Docs
    BY IngestAtStep DEF set_ready
<1> QED BY <1>1, ToGoesOn, StatusBecomes DEF set_ready, indexes, faults, AllRequests

LEMMA GraphMoves ==
    ASSUME TypeOK, NEW w \in Workers, write_kg(w)
    PROVE  /\ requests[w] \in IngestRequest /\ requests[w].step = "graph"
           /\ requests' \in AllRequests
           /\ UNCHANGED <<status, latest, chunks, dense, keyword, excused>>
           /\ Ends(w)
<1>1. requests[w] \in IngestRequest /\ requests[w].step = "graph"
    BY IngestAtStep DEF write_kg
<1> QED BY <1>1, EndEnds DEF write_kg, rows, indexes, faults, AllRequests

LEMMA UploadMoves ==
    ASSUME TypeOK, NEW w \in Workers, NEW d \in Docs, upload(w, d)
    PROVE  /\ requests[w] = Idle /\ Mine(w)
           /\ requests' \in AllRequests
           /\ requests'[w] \in IngestRequest
           /\ requests'[w].step = "parse" /\ requests'[w].doc = d
           /\ requests'[w].next = FALSE
           /\ requests'[w].previous = {} /\ requests'[w].stored = {}
           /\ status[d] = "none" /\ status' = [status EXCEPT ![d] = "uploaded"]
           /\ UNCHANGED <<latest, chunks, dense, keyword, excused, overlapped>>
<1> DEFINE q == [op |-> "ingest", step |-> "parse", doc |-> d, version |-> 1,
                 next |-> FALSE, previous |-> {}, stored |-> {}]
<1>1. /\ q \in IngestRequest /\ q.step = "parse" /\ q.doc = d /\ q.next = FALSE
      /\ q.previous = {} /\ q.stored = {}
    BY DEF IngestRequest
<1>2. /\ requests[w] = Idle /\ requests' = [requests EXCEPT ![w] = q]
      /\ status[d] = "none" /\ status' = [status EXCEPT ![d] = "uploaded"]
      /\ UNCHANGED <<latest, chunks, dense, keyword, excused, overlapped>>
    BY DEF upload, create_document, indexes, faults
<1> HIDE DEF q
<1> QED BY <1>1, <1>2 DEF Mine, TypeOK, AllRequests

LEMMA ReingestMoves ==
    ASSUME TypeOK, NEW d \in Docs, reingest(d)
    PROVE  /\ requests[Loop] = Idle /\ Mine(Loop)
           /\ requests' \in AllRequests
           /\ requests'[Loop] \in IngestRequest
           /\ requests'[Loop].step = "parse" /\ requests'[Loop].doc = d
           /\ requests'[Loop].next = TRUE
           /\ requests'[Loop].previous = {} /\ requests'[Loop].stored = {}
           /\ get_document(d)
           /\ overlapped' = overlapped \cup {<<d, requests[w].op>> : w \in Working(d)}
           /\ UNCHANGED <<status, latest, chunks, dense, keyword, excused>>
<1> DEFINE q == [op |-> "ingest", step |-> "parse", doc |-> d, version |-> 0,
                 next |-> TRUE, previous |-> {}, stored |-> {}]
<1>1. /\ q \in IngestRequest /\ q.step = "parse" /\ q.doc = d /\ q.next = TRUE
      /\ q.previous = {} /\ q.stored = {}
    BY DEF IngestRequest
<1>2. /\ requests[Loop] = Idle /\ requests' = [requests EXCEPT ![Loop] = q]
      /\ get_document(d)
      /\ overlapped' = overlapped \cup {<<d, requests[w].op>> : w \in Working(d)}
      /\ UNCHANGED <<status, latest, chunks, dense, keyword, excused>>
    BY DEF reingest, rows, indexes, faults
<1>3. Loop \in Workers
    BY DEF Workers
<1> HIDE DEF q
<1> QED BY <1>1, <1>2, <1>3 DEF Mine, TypeOK, AllRequests

LEMMA DeleteMoves ==
    ASSUME TypeOK, NEW t \in Threads, NEW d \in Docs, delete(t, d)
    PROVE  /\ requests[t] = Idle /\ Mine(t)
           /\ requests' \in AllRequests
           /\ requests'[t] \in DeleteRequest
           /\ requests'[t].step = "purge" /\ requests'[t].doc = d
           /\ get_document(d) /\ status' = [status EXCEPT ![d] = "deleted"]
           /\ overlapped' = overlapped \cup {<<d, "delete">> : w \in Working(d)}
           /\ UNCHANGED <<latest, chunks, dense, keyword, excused>>
<1> DEFINE q == [op |-> "delete", step |-> "purge", doc |-> d, stored |-> {}]
<1>1. q \in DeleteRequest /\ q.step = "purge" /\ q.doc = d
    BY DEF DeleteRequest
<1>2. /\ requests[t] = Idle /\ requests' = [requests EXCEPT ![t] = q]
      /\ get_document(d) /\ status' = [status EXCEPT ![d] = "deleted"]
      /\ overlapped' = overlapped \cup {<<d, "delete">> : w \in Working(d)}
      /\ UNCHANGED <<latest, chunks, dense, keyword, excused>>
    BY DEF delete, delete_document, indexes, faults
<1>3. t \in Workers
    BY DEF Workers
<1> HIDE DEF q
<1> QED BY <1>1, <1>2, <1>3 DEF Mine, TypeOK, AllRequests

LEMMA PurgeMoves ==
    ASSUME TypeOK, NEW t \in Threads, purge_document(t)
    PROVE  LET d == requests[t].doc IN
           /\ d \in Docs /\ requests[t].step = "purge" /\ Mine(t)
           /\ requests' \in AllRequests
           /\ requests'[t] \in DeleteRequest
           /\ requests'[t].step = "unindex" /\ requests'[t].doc = d
           /\ requests'[t].stored = chunks_by_document(d)
           /\ status' = [status EXCEPT ![d] = "gone"]
           /\ latest' = [latest EXCEPT ![d] = 0]
           /\ chunks' = [chunks EXCEPT ![d] = {}]
           /\ UNCHANGED <<dense, keyword, excused>>
<1> DEFINE d == requests[t].doc
           q == [requests[t] EXCEPT !.step = "unindex", !.stored = chunks_by_document(d)]
<1>1. t \in Workers
    BY DEF Workers
<1>2. requests[t].step = "purge" /\ requests[t] \in DeleteRequest
    BY <1>1, RequestKinds DEF purge_document, TypeOK
<1>3. d \in Docs
    BY <1>2 DEF DeleteRequest
<1>4. /\ q \in DeleteRequest /\ q.step = "unindex" /\ q.doc = requests[t].doc
      /\ q.stored = chunks_by_document(d)
    BY <1>2, <1>3, ChunkEntries DEF DeleteRequest
<1>5. /\ requests' = [requests EXCEPT ![t] = q]
      /\ status' = [status EXCEPT ![d] = "gone"]
      /\ latest' = [latest EXCEPT ![d] = 0]
      /\ chunks' = [chunks EXCEPT ![d] = {}]
      /\ UNCHANGED <<dense, keyword, excused>>
    BY DEF purge_document, indexes, faults
<1> HIDE DEF q
<1> QED BY <1>1, <1>2, <1>3, <1>4, <1>5 DEF Mine, TypeOK, AllRequests

LEMMA UnindexMoves ==
    ASSUME TypeOK, NEW t \in Threads, unindex(t)
    PROVE  /\ requests[t].doc \in Docs /\ requests[t].step = "unindex" /\ Ends(t)
           /\ requests' \in AllRequests
           /\ UNCHANGED <<status, latest, chunks>>
           /\ dense' \in {dense, dense \ requests[t].stored}
           /\ keyword' \in {keyword, keyword \ requests[t].stored}
           /\ \/ /\ dense' = dense \ requests[t].stored
                 /\ keyword' = keyword \ requests[t].stored
                 /\ UNCHANGED excused
              \/ excused' = excused \cup {requests[t].doc}
<1>1. t \in Workers
    BY DEF Workers
<1>2. requests[t].step = "unindex" /\ requests[t] \in DeleteRequest
    BY <1>1, RequestKinds DEF unindex, TypeOK
<1>3. requests[t].doc \in Docs
    BY <1>2 DEF DeleteRequest
<1> QED BY <1>1, <1>2, <1>3, EndEnds DEF unindex, delete_chunks, rows, AllRequests

LEMMA CrashMoves ==
    ASSUME TypeOK, Crash
    PROVE  /\ requests' \in AllRequests
           /\ \A w \in Workers : requests'[w] = Idle
           /\ excused' = excused \cup {d \in Docs : Working(d) # {}}
           /\ UNCHANGED <<status, latest, chunks, dense, keyword, overlapped>>
BY DEF Crash, rows, indexes, AllRequests

LEMMA TypeStep ==
    ASSUME TypeOK, Next
    PROVE  TypeOK'
<1> USE DEF AllRequests
<1>1. ASSUME NEW w \in Workers, Ingest(w)
      PROVE  TypeOK'
    <2>1. CASE parse(w)
        BY <2>1, ParseMoves DEF TypeOK, Becomes
    <2>2. CASE create_version(w)
        BY <2>2, VersionMoves DEF TypeOK, Becomes, IngestRequest
    <2>3. CASE read_previous(w)
        BY <2>3, PreviousMoves DEF TypeOK
    <2>4. CASE upsert_chunks(w)
        BY <2>4, UpsertMoves DEF TypeOK, IngestRequest
    <2>5. CASE read_stored(w)
        BY <2>5, StoredMoves DEF TypeOK, Becomes
    <2>6. CASE write_dense(w)
        BY <2>6, DenseMoves DEF TypeOK, Becomes
    <2>7. CASE write_keyword(w)
        BY <2>7, KeywordMoves DEF TypeOK, Becomes
    <2>8. CASE sweep(w)
        BY <2>8, SweepMoves DEF TypeOK
    <2>9. CASE set_ready(w)
        BY <2>9, ReadyMoves DEF TypeOK, Becomes
    <2>10. CASE write_kg(w)
        BY <2>10, GraphMoves DEF TypeOK
    <2> QED BY <1>1, <2>1, <2>2, <2>3, <2>4, <2>5, <2>6, <2>7, <2>8, <2>9, <2>10 DEF Ingest
<1>2. ASSUME NEW w \in Workers, NEW d \in Docs, upload(w, d)
      PROVE  TypeOK'
    <2>1. /\ TypeOK
          /\ requests' \in AllRequests
          /\ status' = [status EXCEPT ![d] = "uploaded"]
          /\ UNCHANGED <<latest, chunks>>
        BY <1>2, UploadMoves
    <2> QED BY <2>1 DEF TypeOK
<1>3. ASSUME NEW d \in Docs, reingest(d)
      PROVE  TypeOK'
    BY <1>3, ReingestMoves DEF TypeOK
<1>4. ASSUME NEW t \in Threads, NEW d \in Docs, delete(t, d)
      PROVE  TypeOK'
    BY <1>4, DeleteMoves DEF TypeOK
<1>5. ASSUME NEW t \in Threads, purge_document(t)
      PROVE  TypeOK'
    BY <1>5, PurgeMoves DEF TypeOK
<1>6. ASSUME NEW t \in Threads, unindex(t)
      PROVE  TypeOK'
    BY <1>6, UnindexMoves DEF TypeOK
<1>7. CASE Crash
    BY <1>7, CrashMoves DEF TypeOK
<1>8. Loop \in Workers /\ Threads \subseteq Workers
    BY DEF Workers
<1> QED BY <1>1, <1>2, <1>3, <1>4, <1>5, <1>6, <1>7, <1>8
        DEF Next, upload_document, reingest_document, execute_write_document, delete_route

-----------------------------------------------------------------------------
(* The inductive invariant, document by document.                          *)

IngestOf(w, d) == requests[w].step \in IngestSteps /\ requests[w].doc = d

\* A document that is worked on has had a row, a purged one has no chunks, and the
\* entries a request has read are those of its document.
Sound ==
    /\ \A w \in Workers :
           /\ requests[w].step # "idle" => status[requests[w].doc] # "none"
           /\ requests[w].step = "unindex" => status[requests[w].doc] = "gone"
           /\ requests[w].step \in IngestSteps =>
                  \A e \in requests[w].previous \cup requests[w].stored :
                      e[1] = requests[w].doc
           /\ requests[w].step = "unindex" =>
                  \A e \in requests[w].stored : e[1] = requests[w].doc
    /\ \A d \in Docs : ~get_document(d) => chunks[d] = {}

\* No two ingests of the document have overlapped.
Alone(d) == <<d, "ingest">> \notin overlapped

Good(d) == \E v \in chunks[d] : chunks[d] = {v} /\ <<d, v>> \in dense \cap keyword

\* What an ingest that is alone has done by its step, whatever deletes the document
\* beside it: the version it writes is above the stored ones, then the only one, then
\* in one index and in both; and the entries to sweep are older ones.
IngestOK(w) ==
    LET d == requests[w].doc
        v == requests[w].version
        s == requests[w].step
    IN  /\ s \in {"previous", "upsert"} => \A u \in chunks[d] : u < v
        /\ s \in {"previous", "upsert"} /\ get_document(d) => v <= latest[d]
        /\ s \in {"upsert", "stored", "dense", "keyword", "sweep", "ready"} =>
               \A e \in requests[w].previous : e[2] < v
        /\ s \in {"stored", "dense", "keyword", "sweep", "ready"} /\ get_document(d) =>
               chunks[d] = {v}
        /\ s \in {"dense", "keyword", "sweep"} => requests[w].stored = {<<d, v>>}
        /\ s \in {"keyword", "sweep", "ready"} /\ get_document(d) => <<d, v>> \in dense
        /\ s \in {"sweep", "ready"} /\ get_document(d) => <<d, v>> \in keyword
        /\ status[d] = "ready" => s \in {"parse", "version", "graph"}

Search(d) ==
    Alone(d) =>
        /\ \A w, x \in Workers : IngestOf(w, d) /\ IngestOf(x, d) => w = x
        /\ \A w \in Workers : IngestOf(w, d) => IngestOK(w)
        /\ status[d] = "ready" => Good(d)
        /\ \A u \in chunks[d] : u <= latest[d]

\* No request of the document has failed, died or overlapped another one.
Clean(d) == d \notin excused /\ \A o \in overlapped : o[1] # d

EntriesOf(d) == {e \in dense \cup keyword : e[1] = d}

\* Where the entries of a clean document come from while a request is at work: the
\* stored chunks, and between the replacement and the sweep (or the purge and the
\* removal of its entries) those the request has read before.
TraceOK(w) ==
    LET d == requests[w].doc
        s == requests[w].step
        c == chunks_by_document(d)
    IN  /\ s \in IngestSteps => get_document(d)
        /\ s \in {"parse", "version", "previous", "upsert"} =>
               EntriesOf(d) \subseteq c /\ (~requests[w].next => c = {})
        /\ s = "upsert" => requests[w].previous = c
        /\ s \in {"stored", "dense", "keyword", "sweep"} =>
               /\ EntriesOf(d) \subseteq requests[w].previous \cup c
               /\ ~requests[w].next => requests[w].previous = {}
        /\ s = "stored" => chunks[d] # {}
        /\ s \in {"dense", "keyword"} => requests[w].stored = c
        /\ s \in {"ready", "graph", "purge"} => EntriesOf(d) \subseteq c
        /\ s = "unindex" => EntriesOf(d) \subseteq requests[w].stored

Trace(d) ==
    Clean(d) =>
        /\ \A w, x \in Working(d) : w = x
        /\ Working(d) = {} => EntriesOf(d) \subseteq chunks_by_document(d)
        /\ \A w \in Working(d) : TraceOK(w)

Invariant ==
    /\ TypeOK /\ Sound
    /\ \A d \in Docs : Search(d) /\ Trace(d)

\* A step that is about another document.
Kept(d) ==
    /\ status'[d] = status[d] /\ latest'[d] = latest[d] /\ chunks'[d] = chunks[d]
    /\ \A e : e[1] = d => /\ e \in dense' <=> e \in dense
                          /\ e \in keyword' <=> e \in keyword
    /\ \A w \in Workers :
           \/ requests[w].step # "idle" /\ requests[w].doc = d
           \/ requests'[w].step # "idle" /\ requests'[w].doc = d
           => requests'[w] = requests[w]

LEMMA EntriesKept ==
    ASSUME NEW d \in Docs, Kept(d)
    PROVE  /\ EntriesOf(d)' = EntriesOf(d)
           /\ chunks_by_document(d)' = chunks_by_document(d)
           /\ get_document(d)' = get_document(d)
<1>1. \A e : e[1] = d => (e \in dense' \cup keyword' <=> e \in dense \cup keyword)
    BY DEF Kept
<1>2. EntriesOf(d)' = EntriesOf(d)
    BY <1>1 DEF EntriesOf
<1> QED BY <1>2 DEF Kept, chunks_by_document, get_document

LEMMA SearchKept ==
    ASSUME TypeOK, TypeOK', NEW d \in Docs, Kept(d), overlapped \subseteq overlapped',
           Search(d)
    PROVE  Search(d)'
<1> SUFFICES ASSUME Alone(d)'
             PROVE  Search(d)'
    BY DEF Search
<1>1. Alone(d)
    BY DEF Alone
<1>2. \A w \in Workers : IngestOf(w, d)' => IngestOf(w, d) /\ requests'[w] = requests[w]
    BY DEF IngestOf, Kept
<1>3. ASSUME NEW w \in Workers, IngestOf(w, d)'
      PROVE  IngestOK(w)'
    <2>1. IngestOf(w, d) /\ requests'[w] = requests[w] /\ IngestOK(w)
        BY <1>1, <1>2, <1>3 DEF Search
    <2>2. \A v : <<d, v>> \in dense => <<d, v>> \in dense'
        BY DEF Kept
    <2>3. \A v : <<d, v>> \in keyword => <<d, v>> \in keyword'
        BY DEF Kept
    <2>4. status'[d] = status[d] /\ latest'[d] = latest[d] /\ chunks'[d] = chunks[d]
        BY DEF Kept
    <2>5. get_document(d)' = get_document(d) /\ requests[w].doc = d
        BY <2>1, EntriesKept DEF IngestOf
    <2> QED BY <2>1, <2>2, <2>3, <2>4, <2>5 DEF IngestOK
<1>4. status'[d] = "ready" => Good(d)'
    BY <1>1 DEF Search, Kept, Good
<1>5. \A u \in chunks'[d] : u <= latest'[d]
    BY <1>1 DEF Search, Kept
<1> QED BY <1>1, <1>2, <1>3, <1>4, <1>5 DEF Search

LEMMA TraceKept ==
    ASSUME NEW d \in Docs, Kept(d),
           overlapped \subseteq overlapped', d \in excused => d \in excused', Trace(d)
    PROVE  Trace(d)'
<1> SUFFICES ASSUME Clean(d)'
             PROVE  Trace(d)'
    BY DEF Trace
<1>1. Clean(d)
    BY DEF Clean
<1>2. Working(d)' = Working(d) /\ \A w \in Working(d) : requests'[w] = requests[w]
    <2>1. \A w \in Workers : w \in Working(d)' <=> w \in Working(d)
        BY DEF Working, Kept
    <2> QED BY <2>1 DEF Working, Kept
<1>3. ASSUME NEW w \in Working(d)
      PROVE  TraceOK(w)'
    <2>1. requests'[w] = requests[w] /\ requests[w].doc = d /\ TraceOK(w)
        BY <1>1, <1>2, <1>3 DEF Trace, Working
    <2>2. chunks'[d] = chunks[d]
        BY DEF Kept
    <2> QED BY <2>1, <2>2, EntriesKept DEF TraceOK
<1> QED BY <1>1, <1>2, <1>3, EntriesKept DEF Trace

\* A step of the ingest that works on a document leaves the other documents alone.
LEMMA IngestKeeps ==
    ASSUME TypeOK, Sound, NEW w \in Workers, Ingest(w),
           NEW d \in Docs, requests[w].doc # d
    PROVE  Kept(d)
<1>1. /\ \A e \in requests[w].previous : e[1] # d
      /\ \A e \in requests[w].stored : e[1] # d
      /\ requests[w] \in IngestRequest
    BY IngestAtStep DEF Sound, Ingest, parse, create_version, read_previous,
       upsert_chunks, read_stored, write_dense, write_keyword, sweep, set_ready, write_kg
<1>2. requests[w].doc \in Docs
    BY <1>1 DEF IngestRequest
<1>3. ASSUME Ends(w) \/ \E s \in IngestSteps : GoesOn(w, s)
      PROVE  \A x \in Workers :
                 \/ requests[x].step # "idle" /\ requests[x].doc = d
                 \/ requests'[x].step # "idle" /\ requests'[x].doc = d
                 => requests'[x] = requests[x]
    BY <1>3 DEF Ends, GoesOn, Mine
<1>4. ASSUME NEW s, Becomes(requests[w].doc, s)
      PROVE  status'[d] = status[d]
    BY <1>4 DEF Becomes
<1> USE DEF Kept
<1>5. CASE parse(w)
    BY <1>3, <1>4, <1>5, ParseMoves
<1>6. CASE create_version(w)
    BY <1>2, <1>3, <1>4, <1>6, VersionMoves DEF TypeOK
<1>7. CASE read_previous(w)
    BY <1>3, <1>7, PreviousMoves
<1>8. CASE upsert_chunks(w)
    BY <1>2, <1>3, <1>8, UpsertMoves DEF TypeOK
<1>9. CASE read_stored(w)
    BY <1>3, <1>4, <1>9, StoredMoves
<1>10. CASE write_dense(w)
    BY <1>1, <1>3, <1>4, <1>10, DenseMoves
<1>11. CASE write_keyword(w)
    BY <1>1, <1>3, <1>4, <1>11, KeywordMoves
<1>12. CASE sweep(w)
    BY <1>1, <1>3, <1>12, SweepMoves
<1>13. CASE set_ready(w)
    BY <1>3, <1>4, <1>13, ReadyMoves
<1>14. CASE write_kg(w)
    BY <1>3, <1>14, GraphMoves
<1> QED BY <1>5, <1>6, <1>7, <1>8, <1>9, <1>10, <1>11, <1>12, <1>13, <1>14 DEF Ingest

\* Nobody else ingests a document that is alone, so a step of its ingest has to be
\* looked at for that ingest only.
LEMMA SearchByOne ==
    ASSUME NEW d \in Docs, NEW w \in Workers, IngestOf(w, d), Mine(w),
           overlapped \subseteq overlapped', Search(d),
           Alone(d) => /\ IngestOf(w, d)' => IngestOK(w)'
                       /\ status'[d] = "ready" => Good(d)'
                       /\ \A u \in chunks'[d] : u <= latest'[d]
    PROVE  Search(d)'
<1>1. Alone(d)' => Alone(d)
    BY DEF Alone
<1>2. Alone(d) => \A x \in Workers : IngestOf(x, d)' => x = w
    BY DEF Search, IngestOf, Mine
<1> QED BY <1>1, <1>2 DEF Search

LEMMA TraceByOne ==
    ASSUME NEW d \in Docs, NEW w \in Working(d), Mine(w),
           overlapped \subseteq overlapped', d \in excused => d \in excused', Trace(d),
           Clean(d) /\ Clean(d)' =>
               /\ w \in Working(d)' => TraceOK(w)'
               /\ w \notin Working(d)' => EntriesOf(d)' \subseteq chunks_by_document(d)'
    PROVE  Trace(d)'
<1>1. Clean(d)' => Clean(d)
    BY DEF Clean
<1>2. Clean(d) => \A x \in Working(d)' : x = w
    BY DEF Trace, Working, Mine
<1> QED BY <1>1, <1>2 DEF Trace

LEMMA SearchIngest ==
    ASSUME TypeOK, TypeOK', Sound, NEW w \in Workers, Ingest(w), UNCHANGED overlapped,
           NEW d \in Docs, d = requests[w].doc, Search(d)
    PROVE  Search(d)'
<1>1. IngestOf(w, d) /\ requests[w] \in IngestRequest
    BY IngestAtStep DEF Ingest, IngestOf, parse, create_version, read_previous,
       upsert_chunks, read_stored, write_dense, write_keyword, sweep, set_ready, write_kg
<1>2. Mine(w) /\ (IngestOf(w, d)' => requests'[w].step # "idle")
    BY ParseMoves, VersionMoves, PreviousMoves, UpsertMoves, StoredMoves, DenseMoves,
       KeywordMoves, SweepMoves, ReadyMoves, GraphMoves DEF Ingest, Ends, GoesOn, IngestOf
<1> SUFFICES ASSUME Alone(d)
             PROVE  /\ IngestOf(w, d)' => IngestOK(w)'
                    /\ status'[d] = "ready" => Good(d)'
                    /\ \A u \in chunks'[d] : u <= latest'[d]
    BY <1>1, <1>2, SearchByOne
<1> DEFINE v == requests[w].version
<1>3. /\ IngestOK(w) /\ (status[d] = "ready" => Good(d))
      /\ \A u \in chunks[d] : u <= latest[d]
      /\ v \in Nat /\ latest[d] \in Nat /\ chunks[d] \subseteq Nat
      /\ ~get_document(d) => chunks[d] = {}
    BY <1>1 DEF Search, IngestRequest, TypeOK, Sound
<1>4. get_document(d) <=> status[d] \notin {"none", "gone"}
    BY DEF get_document
<1>5. get_document(d)' <=> status'[d] \notin {"none", "gone"}
    BY DEF get_document
<1> HIDE DEF v
<1>6. ASSUME Ends(w)
      PROVE  ~IngestOf(w, d)'
    BY <1>6 DEF Ends, IngestOf
<1>7. CASE parse(w)
    BY <1>3, <1>4, <1>5, <1>6, <1>7, ParseMoves DEF IngestOK, GoesOn, Becomes, Good
<1>8. CASE create_version(w)
    BY <1>3, <1>4, <1>5, <1>6, <1>8, VersionMoves
       DEF IngestOK, GoesOn, KeepsValues, Becomes, Good, TypeOK, v
<1>9. CASE read_previous(w)
    <2>1. requests[w].step = "previous" /\ GoesOn(w, "upsert")
        BY <1>9, PreviousMoves
    <2>2. UNCHANGED <<status, latest, chunks, dense, keyword>> /\ requests'[w].version = v
        BY <1>9, PreviousMoves DEF v
    <2>3. requests'[w].previous \subseteq chunks_by_document(d)
        BY <1>9, PreviousMoves
    <2>4. \A u \in chunks[d] : u < v
        BY <1>3, <2>1 DEF IngestOK, v
    <2>5. \A e \in requests'[w].previous : e[2] < v
        BY <2>3, <2>4 DEF chunks_by_document
    <2>6. requests'[w].step = "upsert" /\ requests'[w].doc = d
        BY <2>1 DEF GoesOn
    <2>7. get_document(d)' => v <= latest[d]
        BY <1>3, <1>4, <1>5, <2>1, <2>2 DEF IngestOK, v
    <2>8. status[d] # "ready"
        BY <1>3, <2>1 DEF IngestOK
    <2>9. IngestOK(w)'
        BY <2>2, <2>4, <2>5, <2>6, <2>7, <2>8 DEF IngestOK
    <2> QED BY <1>3, <2>2, <2>8, <2>9
<1>10. CASE upsert_chunks(w)
    BY <1>3, <1>4, <1>5, <1>6, <1>10, UpsertMoves
       DEF IngestOK, GoesOn, KeepsValues, Good, TypeOK, v
<1>11. CASE read_stored(w)
    BY <1>3, <1>4, <1>5, <1>11, StoredMoves
       DEF IngestOK, GoesOn, Becomes, Good, chunks_by_document, v
<1>12. CASE write_dense(w)
    BY <1>3, <1>4, <1>5, <1>6, <1>12, DenseMoves
       DEF IngestOK, GoesOn, KeepsValues, Becomes, Good, v
<1>13. CASE write_keyword(w)
    BY <1>3, <1>4, <1>5, <1>6, <1>13, KeywordMoves
       DEF IngestOK, GoesOn, KeepsValues, Becomes, Good, v
<1>14. CASE sweep(w)
    BY <1>3, <1>4, <1>5, <1>14, SweepMoves
       DEF IngestOK, GoesOn, KeepsValues, Good, v
<1>15. CASE set_ready(w)
    BY <1>3, <1>4, <1>5, <1>15, ReadyMoves
       DEF IngestOK, GoesOn, KeepsValues, Becomes, Good, v
<1>16. CASE write_kg(w)
    BY <1>3, <1>4, <1>5, <1>6, <1>16, GraphMoves DEF Good
<1> QED BY <1>7, <1>8, <1>9, <1>10, <1>11, <1>12, <1>13, <1>14, <1>15, <1>16 DEF Ingest

LEMMA TraceIngest ==
    ASSUME TypeOK, TypeOK', Sound, NEW w \in Workers, Ingest(w), UNCHANGED overlapped,
           NEW d \in Docs, d = requests[w].doc, Trace(d)
    PROVE  Trace(d)'
<1>1. w \in Working(d) /\ requests[w] \in IngestRequest
    BY IngestAtStep DEF Ingest, Working, parse, create_version, read_previous,
       upsert_chunks, read_stored, write_dense, write_keyword, sweep, set_ready, write_kg
<1>2. Mine(w) /\ (d \in excused => d \in excused')
    BY ParseMoves, VersionMoves, PreviousMoves, UpsertMoves, StoredMoves, DenseMoves,
       KeywordMoves, SweepMoves, ReadyMoves, GraphMoves DEF Ingest, Ends, GoesOn
<1> SUFFICES ASSUME Clean(d), Clean(d)'
             PROVE  /\ w \in Working(d)' => TraceOK(w)'
                    /\ w \notin Working(d)' => EntriesOf(d)' \subseteq chunks_by_document(d)'
    BY <1>1, <1>2, TraceByOne
<1>3. TraceOK(w) /\ d \notin excused'
    BY <1>1 DEF Trace, Clean
<1>4. get_document(d) <=> status[d] \notin {"none", "gone"}
    BY DEF get_document
<1>5. get_document(d)' <=> status'[d] \notin {"none", "gone"}
    BY DEF get_document
<1>6. ASSUME Ends(w)
      PROVE  w \notin Working(d)'
    BY <1>6 DEF Ends, Working
<1>7. ASSUME UNCHANGED chunks
      PROVE  chunks_by_document(d)' = chunks_by_document(d)
    BY <1>7 DEF chunks_by_document
<1>8. ASSUME UNCHANGED <<dense, keyword>>
      PROVE  EntriesOf(d)' = EntriesOf(d)
    BY <1>8 DEF EntriesOf
<1>9. chunks_by_document(d) = {} <=> chunks[d] = {}
    BY DEF chunks_by_document
<1>10. CASE parse(w)
    BY <1>3, <1>4, <1>5, <1>6, <1>7, <1>8, <1>10, ParseMoves DEF TraceOK, GoesOn
<1>11. CASE create_version(w)
    BY <1>3, <1>4, <1>5, <1>6, <1>7, <1>8, <1>11, VersionMoves
       DEF TraceOK, GoesOn, Becomes
<1>12. CASE read_previous(w)
    BY <1>3, <1>4, <1>5, <1>7, <1>8, <1>12, PreviousMoves DEF TraceOK, GoesOn
<1>13. CASE upsert_chunks(w)
    <2>1. /\ requests[w].step = "upsert" /\ requests'[w].step = "stored"
          /\ requests'[w].doc = d /\ requests'[w].next = requests[w].next
          /\ requests'[w].previous = requests[w].previous
          /\ chunks' = [chunks EXCEPT ![d] = {requests[w].version}]
          /\ UNCHANGED <<status, dense, keyword>>
        BY <1>3, <1>13, UpsertMoves DEF TraceOK, GoesOn, KeepsValues
    <2>2. /\ requests[w].previous = chunks_by_document(d)
          /\ EntriesOf(d) \subseteq chunks_by_document(d)
          /\ ~requests[w].next => chunks_by_document(d) = {}
          /\ get_document(d)
        BY <1>3, <2>1 DEF TraceOK
    <2>3. chunks'[d] # {}
        BY <2>1 DEF TypeOK
    <2>4. EntriesOf(d)' = EntriesOf(d)
        BY <1>8, <2>1
    <2>5. TraceOK(w)'
        BY <1>4, <1>5, <2>1, <2>2, <2>3, <2>4 DEF TraceOK
    <2> QED BY <1>1, <2>1, <2>5 DEF Working
<1>14. CASE read_stored(w)
    <2>1. requests[w].step = "stored" /\ UNCHANGED <<chunks, dense, keyword>>
        BY <1>14, StoredMoves
    <2>2. chunks[d] # {}
        BY <1>3, <2>1 DEF TraceOK
    <2>3. /\ requests'[w].step = "dense" /\ requests'[w].doc = d
          /\ requests'[w].next = requests[w].next
          /\ requests'[w].previous = requests[w].previous
          /\ requests'[w].stored = chunks_by_document(d)
        BY <1>14, <2>2, StoredMoves DEF GoesOn
    <2>4. get_document(d)'
        BY <1>3, <1>4, <1>5, <1>14, <2>1, StoredMoves DEF TraceOK, Becomes
    <2>5. TraceOK(w)'
        BY <1>3, <1>7, <1>8, <2>1, <2>3, <2>4 DEF TraceOK
    <2> QED BY <1>1, <2>3, <2>5 DEF Working
<1>15. CASE write_dense(w)
    <2>1. requests[w].step = "dense" /\ UNCHANGED <<status, chunks, keyword>>
          /\ dense' = dense \cup requests[w].stored
          /\ GoesOn(w, "keyword") /\ KeepsValues(w)
        BY <1>3, <1>15, DenseMoves
    <2>2. requests[w].stored = chunks_by_document(d)
        BY <1>3, <2>1 DEF TraceOK
    <2>3. EntriesOf(d)' \subseteq EntriesOf(d) \cup chunks_by_document(d)
        BY <2>1, <2>2 DEF EntriesOf
    <2>4. TraceOK(w)'
        BY <1>3, <1>4, <1>5, <1>7, <2>1, <2>2, <2>3 DEF TraceOK, GoesOn, KeepsValues
    <2> QED BY <1>1, <2>1, <2>4 DEF Working, GoesOn
<1>16. CASE write_keyword(w)
    <2>1. /\ requests[w].step = "keyword" /\ UNCHANGED <<status, chunks, dense>>
          /\ keyword' = keyword \cup requests[w].stored
          /\ GoesOn(w, IF requests[w].next THEN "sweep" ELSE "ready") /\ KeepsValues(w)
        BY <1>3, <1>16, KeywordMoves
    <2>2. requests[w].stored = chunks_by_document(d)
        BY <1>3, <2>1 DEF TraceOK
    <2>3. EntriesOf(d)' \subseteq EntriesOf(d) \cup chunks_by_document(d)
        BY <2>1, <2>2 DEF EntriesOf
    <2>4. TraceOK(w)'
        BY <1>3, <1>4, <1>5, <1>7, <2>1, <2>2, <2>3 DEF TraceOK, GoesOn, KeepsValues
    <2> QED BY <1>1, <2>1, <2>4 DEF Working, GoesOn
<1>17. CASE sweep(w)
    <2>1. /\ requests[w].step = "sweep" /\ UNCHANGED <<status, chunks>>
          /\ dense' = dense \ requests[w].previous
          /\ keyword' = keyword \ requests[w].previous
          /\ GoesOn(w, "ready") /\ KeepsValues(w)
        BY <1>3, <1>17, SweepMoves
    <2>2. EntriesOf(d) \subseteq requests[w].previous \cup chunks_by_document(d)
        BY <1>3, <2>1 DEF TraceOK
    <2>3. EntriesOf(d)' \subseteq chunks_by_document(d)
        BY <2>1, <2>2 DEF EntriesOf
    <2>4. TraceOK(w)'
        BY <1>3, <1>4, <1>5, <1>7, <2>1, <2>3 DEF TraceOK, GoesOn, KeepsValues
    <2> QED BY <1>1, <2>1, <2>4 DEF Working, GoesOn
<1>18. CASE set_ready(w)
    BY <1>3, <1>4, <1>5, <1>7, <1>8, <1>18, ReadyMoves
       DEF TraceOK, GoesOn, KeepsValues, Becomes, Working
<1>19. CASE write_kg(w)
    BY <1>3, <1>6, <1>7, <1>8, <1>19, GraphMoves DEF TraceOK
<1> QED BY <1>10, <1>11, <1>12, <1>13, <1>14, <1>15, <1>16, <1>17, <1>18, <1>19 DEF Ingest

\* A step that neither brings a document into being nor removes one.
LEMMA SoundByOne ==
    ASSUME TypeOK, TypeOK', Sound, NEW w \in Workers, Mine(w),
           \A d \in Docs : /\ status'[d] = "none" <=> status[d] = "none"
                           /\ status'[d] = "gone" <=> status[d] = "gone"
                           /\ chunks'[d] # {} => chunks[d] # {} \/ get_document(d),
           requests'[w].step # "idle" =>
               /\ requests'[w].doc \in Docs /\ status'[requests'[w].doc] # "none"
               /\ requests'[w].step \in IngestSteps =>
                      \A e \in requests'[w].previous \cup requests'[w].stored :
                          e[1] = requests'[w].doc,
           requests'[w].step # "unindex"
    PROVE  Sound'
<1>1. \A x \in Workers : requests[x].step # "idle" => requests[x].doc \in Docs
    BY RequestKinds DEF TypeOK
<1>2. \A d \in Docs : ~get_document(d)' => chunks'[d] = {}
    BY DEF get_document, Sound
<1>3. ASSUME NEW x \in Workers
      PROVE  /\ requests'[x].step # "idle" => status'[requests'[x].doc] # "none"
             /\ requests'[x].step = "unindex" => status'[requests'[x].doc] = "gone"
             /\ requests'[x].step \in IngestSteps =>
                    \A e \in requests'[x].previous \cup requests'[x].stored :
                        e[1] = requests'[x].doc
             /\ requests'[x].step = "unindex" =>
                    \A e \in requests'[x].stored : e[1] = requests'[x].doc
    <2>1. CASE x = w
        BY <2>1
    <2>2. CASE x # w
        <3>1. requests'[x] = requests[x]
            BY <2>2 DEF Mine
        <3> QED BY <1>1, <3>1 DEF Sound
    <2> QED BY <2>1, <2>2
<1> QED BY <1>2, <1>3 DEF Sound

LEMMA SoundIngest ==
    ASSUME TypeOK, TypeOK', Sound, NEW w \in Workers, Ingest(w)
    PROVE  Sound'
<1> DEFINE d == requests[w].doc
<1>1. requests[w] \in IngestRequest /\ requests[w].step \in IngestSteps
    BY IngestAtStep DEF Ingest, parse, create_version, read_previous,
       upsert_chunks, read_stored, write_dense, write_keyword, sweep, set_ready, write_kg
<1>2. d \in Docs /\ status[d] # "none"
    BY <1>1 DEF IngestRequest, Sound
<1>3. \A e \in requests[w].previous \cup requests[w].stored : e[1] = d
    BY <1>1 DEF Sound
<1>4. \A e \in chunks_by_document(d) : e[1] = d
    BY <1>2, ChunkEntries
<1>5. Mine(w) /\ requests'[w].step # "unindex"
    BY ParseMoves, VersionMoves, PreviousMoves, UpsertMoves, StoredMoves, DenseMoves,
       KeywordMoves, SweepMoves, ReadyMoves, GraphMoves DEF Ingest, Ends, GoesOn
<1>6. ASSUME NEW s \in Statuses \ {"none", "gone"}, Becomes(d, s)
      PROVE  \A e \in Docs : /\ status'[e] = "none" <=> status[e] = "none"
                             /\ status'[e] = "gone" <=> status[e] = "gone"
    BY <1>6 DEF Becomes, get_document
<1>7. \A e \in Docs : /\ status'[e] = "none" <=> status[e] = "none"
                      /\ status'[e] = "gone" <=> status[e] = "gone"
    BY <1>6, ParseMoves, VersionMoves, PreviousMoves, UpsertMoves, StoredMoves, DenseMoves,
       KeywordMoves, SweepMoves, ReadyMoves, GraphMoves DEF Ingest
<1>8. \A e \in Docs : chunks'[e] # {} => chunks[e] # {} \/ get_document(e)
    BY <1>2, ParseMoves, VersionMoves, PreviousMoves, UpsertMoves, StoredMoves, DenseMoves,
       KeywordMoves, SweepMoves, ReadyMoves, GraphMoves DEF Ingest, TypeOK
<1>9. requests'[w].step # "idle" => requests'[w].doc = d
    BY ParseMoves, VersionMoves, PreviousMoves, UpsertMoves, StoredMoves, DenseMoves,
       KeywordMoves, SweepMoves, ReadyMoves, GraphMoves DEF Ingest, Ends, GoesOn
<1>10. requests'[w].step # "idle" =>
           \A e \in requests'[w].previous \cup requests'[w].stored : e[1] = d
    <2>1. CASE requests'[w].previous = requests[w].previous
              /\ requests'[w].stored = requests[w].stored
        BY <1>3, <2>1
    <2>2. CASE read_previous(w)
        BY <1>3, <1>4, <2>2, PreviousMoves
    <2>3. CASE read_stored(w)
        BY <1>3, <1>4, <2>3, StoredMoves
    <2> QED BY <2>1, <2>2, <2>3, ParseMoves, VersionMoves, UpsertMoves, DenseMoves,
               KeywordMoves, SweepMoves, ReadyMoves, GraphMoves DEF Ingest, Ends, KeepsValues
<1> HIDE DEF d
<1>11. requests'[w].step # "idle" =>
           /\ requests'[w].doc \in Docs /\ status'[requests'[w].doc] # "none"
           /\ requests'[w].step \in IngestSteps =>
                  \A e \in requests'[w].previous \cup requests'[w].stored :
                      e[1] = requests'[w].doc
    BY <1>2, <1>7, <1>9, <1>10
<1> QED BY <1>5, <1>7, <1>8, <1>11, SoundByOne

LEMMA IngestStep ==
    ASSUME Invariant, TypeOK', NEW w \in Workers, Ingest(w), UNCHANGED overlapped
    PROVE  Invariant'
<1>1. \A d \in Docs : d \in excused /\ requests[w].doc # d => d \in excused'
    BY ParseMoves, VersionMoves, PreviousMoves, UpsertMoves, StoredMoves, DenseMoves,
       KeywordMoves, SweepMoves, ReadyMoves, GraphMoves DEF Ingest, Invariant
<1>2. ASSUME NEW d \in Docs
      PROVE  Search(d)' /\ Trace(d)'
    <2>1. CASE requests[w].doc = d
        BY <2>1, SearchIngest, TraceIngest DEF Invariant
    <2>2. CASE requests[w].doc # d
        BY <1>1, <2>2, IngestKeeps, SearchKept, TraceKept DEF Invariant
    <2> QED BY <2>1, <2>2
<1> QED BY <1>2, SoundIngest DEF Invariant

-----------------------------------------------------------------------------
(* Requests that begin, deletions, and the end of the server.              *)

LEMMA UploadStep ==
    ASSUME Invariant, TypeOK', NEW w \in Workers, NEW d \in Docs, upload(w, d)
    PROVE  Invariant'
<1>1. /\ requests[w] = Idle /\ Mine(w) /\ requests'[w] \in IngestRequest
      /\ requests'[w].step = "parse" /\ requests'[w].doc = d
      /\ requests'[w].next = FALSE
      /\ requests'[w].previous = {} /\ requests'[w].stored = {}
      /\ status[d] = "none" /\ status' = [status EXCEPT ![d] = "uploaded"]
      /\ UNCHANGED <<latest, chunks, dense, keyword, excused, overlapped>>
    BY UploadMoves DEF Invariant
<1>2. \A x \in Workers : ~(requests[x].step # "idle" /\ requests[x].doc = d)
    BY <1>1 DEF Invariant, Sound
<1>3. chunks[d] = {} /\ status'[d] = "uploaded" /\ get_document(d)'
    BY <1>1 DEF Invariant, Sound, get_document, TypeOK
<1>4. \A x \in Workers : requests'[x].step # "idle" /\ requests'[x].doc = d => x = w
    BY <1>1, <1>2 DEF Mine
<1>5. Search(d)'
    <2>1. IngestOK(w)'
        BY <1>1, <1>3 DEF IngestOK
    <2> QED BY <1>1, <1>3, <1>4, <2>1 DEF Search, IngestOf
<1>6. Trace(d)'
    <2>1. Working(d) = {} /\ \A x \in Working(d)' : x = w
        BY <1>2, <1>4 DEF Working
    <2>2. w \in Working(d)'
        BY <1>1 DEF Working
    <2>3. EntriesOf(d)' = EntriesOf(d) /\ chunks_by_document(d)' = chunks_by_document(d)
        BY <1>1 DEF EntriesOf, chunks_by_document
    <2>4. chunks_by_document(d) = {}
        BY <1>3 DEF chunks_by_document
    <2>5. Clean(d)' => EntriesOf(d) \subseteq chunks_by_document(d)
        BY <1>1, <2>1 DEF Invariant, Trace, Clean
    <2>6. Clean(d)' => TraceOK(w)'
        BY <1>1, <1>3, <2>3, <2>4, <2>5 DEF TraceOK
    <2> QED BY <2>1, <2>2, <2>6 DEF Trace
<1>7. ASSUME NEW e \in Docs, e # d
      PROVE  Kept(e)
    BY <1>1, <1>7 DEF Kept, Mine, Invariant, TypeOK
<1>8. Sound'
    <2>1. \A x \in Workers : requests[x].step # "idle" => requests[x].doc \in Docs
        BY RequestKinds DEF Invariant, TypeOK
    <2>2. ASSUME NEW x \in Workers
          PROVE  /\ requests'[x].step # "idle" => status'[requests'[x].doc] # "none"
                 /\ requests'[x].step = "unindex" => status'[requests'[x].doc] = "gone"
                 /\ requests'[x].step \in IngestSteps =>
                        \A e \in requests'[x].previous \cup requests'[x].stored :
                            e[1] = requests'[x].doc
                 /\ requests'[x].step = "unindex" =>
                        \A e \in requests'[x].stored : e[1] = requests'[x].doc
        <3>1. CASE x = w
            BY <1>1, <1>3, <3>1
        <3>2. CASE x # w
            <4>1. requests'[x] = requests[x]
                BY <1>1, <3>2 DEF Mine
            <4> QED BY <1>1, <1>2, <2>1, <4>1 DEF Invariant, Sound, TypeOK
        <3> QED BY <3>1, <3>2
    <2>3. \A e \in Docs : ~get_document(e)' => chunks'[e] = {}
        BY <1>1, <1>3 DEF Invariant, Sound, get_document, TypeOK
    <2> QED BY <2>2, <2>3 DEF Sound
<1> QED BY <1>1, <1>5, <1>6, <1>7, <1>8, SearchKept, TraceKept DEF Invariant

LEMMA ReingestStep ==
    ASSUME Invariant, TypeOK', NEW d \in Docs, reingest(d)
    PROVE  Invariant'
<1> DEFINE w == Loop
<1>0. w \in Workers
    BY DEF Workers
<1>1. /\ requests[w] = Idle /\ Mine(w) /\ requests'[w] \in IngestRequest
      /\ requests'[w].step = "parse" /\ requests'[w].doc = d
      /\ requests'[w].next = TRUE
      /\ requests'[w].previous = {} /\ requests'[w].stored = {}
      /\ get_document(d)
      /\ overlapped' = overlapped \cup {<<d, requests[x].op>> : x \in Working(d)}
      /\ UNCHANGED <<status, latest, chunks, dense, keyword, excused>>
    BY ReingestMoves DEF Invariant
<1> HIDE DEF w
<1>2. overlapped \subseteq overlapped'
    BY <1>1
<1>3. /\ get_document(d)' = get_document(d)
      /\ EntriesOf(d)' = EntriesOf(d) /\ chunks_by_document(d)' = chunks_by_document(d)
      /\ Good(d)' = Good(d)
    BY <1>1 DEF get_document, EntriesOf, chunks_by_document, Good
<1>4. Search(d)'
    <2> SUFFICES ASSUME Alone(d)'
                 PROVE  Search(d)'
        BY DEF Search
    <2>1. Alone(d)
        BY <1>2 DEF Alone
    <2>2. \A x \in Workers : ~IngestOf(x, d)
        <3> SUFFICES ASSUME NEW x \in Workers, IngestOf(x, d)
                     PROVE  FALSE
            OBVIOUS
        <3>1. x \in Working(d) /\ requests[x].op = "ingest"
            BY RequestKinds DEF IngestOf, Working, Invariant, TypeOK
        <3> QED BY <1>1, <3>1 DEF Alone
    <2>3. \A x \in Workers : IngestOf(x, d)' => x = w
        BY <1>1, <2>2 DEF IngestOf, Mine
    <2>4. IngestOK(w)'
        BY <1>1 DEF IngestOK
    <2> QED BY <1>1, <1>3, <2>1, <2>3, <2>4 DEF Search, Invariant
<1>5. Trace(d)'
    <2> SUFFICES ASSUME Clean(d)'
                 PROVE  Trace(d)'
        BY DEF Trace
    <2>1. Clean(d)
        BY <1>1, <1>2 DEF Clean
    <2>2. Working(d) = {}
        <3> SUFFICES ASSUME NEW x \in Working(d)
                     PROVE  FALSE
            OBVIOUS
        <3>1. <<d, requests[x].op>> \in overlapped'
            BY <1>1
        <3> QED BY <3>1 DEF Clean
    <2>3. w \in Working(d)' /\ \A x \in Working(d)' : x = w
        BY <1>0, <1>1, <2>2 DEF Working, Mine
    <2>4. EntriesOf(d) \subseteq chunks_by_document(d)
        BY <2>1, <2>2 DEF Invariant, Trace
    <2>5. TraceOK(w)'
        BY <1>1, <1>3, <2>4 DEF TraceOK
    <2> QED BY <2>3, <2>5 DEF Trace
<1>6. ASSUME NEW e \in Docs, e # d
      PROVE  Kept(e)
    BY <1>1, <1>6 DEF Kept, Mine
<1>7. Sound'
    <2>1. requests'[w].doc \in Docs /\ status'[requests'[w].doc] # "none"
        BY <1>1 DEF get_document
    <2> QED BY <1>0, <1>1, <2>1, SoundByOne DEF Invariant
<1> QED BY <1>1, <1>2, <1>4, <1>5, <1>6, <1>7, SearchKept, TraceKept DEF Invariant

\* A deletion goes on beside the ingest of its document, if there is one.
LEMMA SearchBeside ==
    ASSUME NEW d \in Docs, NEW t \in Workers, Mine(t), ~IngestOf(t, d), ~IngestOf(t, d)',
           overlapped \subseteq overlapped', Search(d), status'[d] # "ready",
           \A x \in Workers :
               IngestOf(x, d) /\ requests'[x] = requests[x] /\ IngestOK(x) => IngestOK(x)',
           chunks'[d] \in {chunks[d], {}}, chunks'[d] # {} => latest'[d] = latest[d]
    PROVE  Search(d)'
<1> SUFFICES ASSUME Alone(d)'
             PROVE  Search(d)'
    BY DEF Search
<1>1. Alone(d)
    BY DEF Alone
<1>2. \A x \in Workers : IngestOf(x, d)' => IngestOf(x, d) /\ requests'[x] = requests[x]
    BY DEF IngestOf, Mine
<1>3. \A u \in chunks'[d] : u <= latest'[d]
    BY <1>1 DEF Search
<1> QED BY <1>1, <1>2, <1>3 DEF Search

LEMMA DeleteStep ==
    ASSUME Invariant, TypeOK', NEW t \in Threads, NEW d \in Docs, delete(t, d)
    PROVE  Invariant'
<1>0. t \in Workers
    BY DEF Workers
<1>1. /\ requests[t] = Idle /\ Mine(t) /\ requests'[t] \in DeleteRequest
      /\ requests'[t].step = "purge" /\ requests'[t].doc = d
      /\ get_document(d) /\ status' = [status EXCEPT ![d] = "deleted"]
      /\ overlapped' = overlapped \cup {<<d, "delete">> : w \in Working(d)}
      /\ UNCHANGED <<latest, chunks, dense, keyword, excused>>
    BY DeleteMoves DEF Invariant
<1>2. overlapped \subseteq overlapped' /\ status'[d] = "deleted"
    BY <1>1 DEF Invariant, TypeOK
<1>3. get_document(d)'
    BY <1>2 DEF get_document
<1>4. Search(d)'
    <2>1. ~IngestOf(t, d) /\ ~IngestOf(t, d)'
        BY <1>1 DEF IngestOf
    <2>2. ASSUME NEW x \in Workers, IngestOf(x, d), requests'[x] = requests[x], IngestOK(x)
          PROVE  IngestOK(x)'
        BY <1>1, <1>2, <1>3, <2>2 DEF IngestOK, IngestOf
    <2> QED BY <1>0, <1>1, <1>2, <2>1, <2>2, SearchBeside DEF Invariant
<1>5. Trace(d)'
    <2> SUFFICES ASSUME Clean(d)'
                 PROVE  Trace(d)'
        BY DEF Trace
    <2>1. Clean(d)
        BY <1>1, <1>2 DEF Clean
    <2>2. Working(d) = {}
        <3> SUFFICES ASSUME NEW x \in Working(d)
                     PROVE  FALSE
            OBVIOUS
        <3>1. <<d, "delete">> \in overlapped'
            BY <1>1
        <3> QED BY <3>1 DEF Clean
    <2>3. t \in Working(d)' /\ \A x \in Working(d)' : x = t
        BY <1>0, <1>1, <2>2 DEF Working, Mine
    <2>4. EntriesOf(d) \subseteq chunks_by_document(d)
        BY <2>1, <2>2 DEF Invariant, Trace
    <2>5. EntriesOf(d)' = EntriesOf(d) /\ chunks_by_document(d)' = chunks_by_document(d)
        BY <1>1 DEF EntriesOf, chunks_by_document
    <2>6. TraceOK(t)'
        BY <1>1, <2>4, <2>5 DEF TraceOK
    <2> QED BY <2>3, <2>6 DEF Trace
<1>6. ASSUME NEW e \in Docs, e # d
      PROVE  Kept(e)
    BY <1>1, <1>6 DEF Kept, Mine, Invariant, TypeOK
<1>7. Sound'
    <2>1. \A e \in Docs : /\ status'[e] = "none" <=> status[e] = "none"
                          /\ status'[e] = "gone" <=> status[e] = "gone"
        BY <1>1 DEF get_document, Invariant, TypeOK
    <2>2. /\ requests'[t].doc \in Docs /\ status'[requests'[t].doc] # "none"
          /\ requests'[t].step \notin IngestSteps /\ requests'[t].step # "unindex"
        BY <1>1, <1>2
    <2> QED BY <1>0, <1>1, <2>1, <2>2, SoundByOne DEF Invariant
<1> QED BY <1>1, <1>2, <1>4, <1>5, <1>6, <1>7, SearchKept, TraceKept DEF Invariant

LEMMA PurgeStep ==
    ASSUME Invariant, TypeOK', NEW t \in Threads, purge_document(t), UNCHANGED overlapped
    PROVE  Invariant'
<1>0. t \in Workers
    BY DEF Workers
<1>d. PICK d \in Docs : d = requests[t].doc
    BY PurgeMoves DEF Invariant
<1>1. /\ requests[t].step = "purge" /\ Mine(t)
      /\ requests'[t] \in DeleteRequest
      /\ requests'[t].step = "unindex" /\ requests'[t].doc = d
      /\ requests'[t].stored = chunks_by_document(d)
      /\ status' = [status EXCEPT ![d] = "gone"]
      /\ latest' = [latest EXCEPT ![d] = 0]
      /\ chunks' = [chunks EXCEPT ![d] = {}]
      /\ UNCHANGED <<dense, keyword, excused>>
    BY <1>d, PurgeMoves DEF Invariant
<1>2. status'[d] = "gone" /\ chunks'[d] = {}
    BY <1>1 DEF Invariant, TypeOK
<1>3. ~get_document(d)'
    BY <1>2 DEF get_document
<1>4. Search(d)'
    <2>1. ~IngestOf(t, d) /\ ~IngestOf(t, d)'
        BY <1>1 DEF IngestOf
    <2>2. ASSUME NEW x \in Workers, IngestOf(x, d), requests'[x] = requests[x], IngestOK(x)
          PROVE  IngestOK(x)'
        BY <1>2, <1>3, <2>2 DEF IngestOK, IngestOf
    <2> QED BY <1>0, <1>1, <1>2, <2>1, <2>2, SearchBeside DEF Invariant
<1>5. Trace(d)'
    <2>1. t \in Working(d) /\ t \in Working(d)'
        BY <1>d, <1>0, <1>1 DEF Working
    <2>2. EntriesOf(d)' = EntriesOf(d)
        BY <1>1 DEF EntriesOf
    <2>3. ASSUME Clean(d)
          PROVE  TraceOK(t)'
        <3>1. TraceOK(t)
            BY <1>1, <2>1, <2>3 DEF Invariant, Trace
        <3>2. EntriesOf(d) \subseteq chunks_by_document(d)
            BY <1>d, <1>1, <3>1 DEF TraceOK
        <3> QED BY <1>1, <2>2, <3>2 DEF TraceOK
    <2> QED BY <1>1, <2>1, <2>3, TraceByOne DEF Invariant
<1>6. ASSUME NEW e \in Docs, e # d
      PROVE  Kept(e)
    BY <1>d, <1>1, <1>6 DEF Kept, Mine, Invariant, TypeOK
<1>7. Sound'
    <2>1. \A x \in Workers : requests[x].step # "idle" => requests[x].doc \in Docs
        BY RequestKinds DEF Invariant, TypeOK
    <2>2. \A e \in chunks_by_document(d) : e[1] = d
        BY <1>1, ChunkEntries DEF Invariant
    <2>3. ASSUME NEW x \in Workers
          PROVE  /\ requests'[x].step # "idle" => status'[requests'[x].doc] # "none"
                 /\ requests'[x].step = "unindex" => status'[requests'[x].doc] = "gone"
                 /\ requests'[x].step \in IngestSteps =>
                        \A e \in requests'[x].previous \cup requests'[x].stored :
                            e[1] = requests'[x].doc
                 /\ requests'[x].step = "unindex" =>
                        \A e \in requests'[x].stored : e[1] = requests'[x].doc
        <3>1. CASE x = t
            BY <1>1, <1>2, <2>2, <3>1
        <3>2. CASE x # t
            <4>1. requests'[x] = requests[x]
                BY <1>1, <3>2 DEF Mine
            <4>2. \A e \in Docs : status'[e] = IF e = d THEN "gone" ELSE status[e]
                BY <1>1 DEF Invariant, TypeOK
            <4> QED BY <2>1, <4>1, <4>2 DEF Invariant, Sound
        <3> QED BY <3>1, <3>2
    <2>4. \A e \in Docs : ~get_document(e)' => chunks'[e] = {}
        BY <1>1 DEF Invariant, Sound, get_document, TypeOK
    <2> QED BY <2>3, <2>4 DEF Sound
<1> QED BY <1>1, <1>4, <1>5, <1>6, <1>7, SearchKept, TraceKept DEF Invariant

LEMMA UnindexStep ==
    ASSUME Invariant, TypeOK', NEW t \in Threads, unindex(t), UNCHANGED overlapped
    PROVE  Invariant'
<1>0. t \in Workers
    BY DEF Workers
<1>d. PICK d \in Docs : d = requests[t].doc
    BY UnindexMoves DEF Invariant
<1>1. /\ requests[t].step = "unindex" /\ Ends(t)
      /\ UNCHANGED <<status, latest, chunks>>
      /\ dense' \in {dense, dense \ requests[t].stored}
      /\ keyword' \in {keyword, keyword \ requests[t].stored}
      /\ \/ /\ dense' = dense \ requests[t].stored
            /\ keyword' = keyword \ requests[t].stored
            /\ UNCHANGED excused
         \/ excused' = excused \cup {d}
    BY <1>d, UnindexMoves DEF Invariant
<1>2. /\ status[d] = "gone" /\ ~get_document(d)' /\ chunks[d] = {}
      /\ \A e \in requests[t].stored : e[1] = d
    BY <1>d, <1>0, <1>1 DEF Invariant, Sound, get_document
<1>3. Mine(t) /\ requests'[t].step = "idle"
    BY <1>1 DEF Ends
<1>4. Search(d)'
    <2>1. ~IngestOf(t, d) /\ ~IngestOf(t, d)'
        BY <1>1, <1>3 DEF IngestOf
    <2>2. ASSUME NEW x \in Workers, IngestOf(x, d), requests'[x] = requests[x], IngestOK(x)
          PROVE  IngestOK(x)'
        BY <1>1, <1>2, <2>2 DEF IngestOK, IngestOf
    <2> QED BY <1>0, <1>1, <1>2, <1>3, <2>1, <2>2, SearchBeside DEF Invariant
<1>5. Trace(d)'
    <2>1. t \in Working(d) /\ t \notin Working(d)'
        BY <1>d, <1>0, <1>1, <1>3 DEF Working
    <2>2. ASSUME Clean(d), Clean(d)'
          PROVE  EntriesOf(d)' \subseteq chunks_by_document(d)'
        <3>1. TraceOK(t)
            BY <1>1, <2>1, <2>2 DEF Invariant, Trace
        <3>2. EntriesOf(d) \subseteq requests[t].stored
            BY <1>d, <1>1, <3>1 DEF TraceOK
        <3>3. dense' = dense \ requests[t].stored /\ keyword' = keyword \ requests[t].stored
            BY <1>1, <2>2 DEF Clean
        <3> QED BY <3>2, <3>3 DEF EntriesOf
    <2> QED BY <1>1, <1>3, <2>1, <2>2, TraceByOne DEF Invariant
<1>6. ASSUME NEW e \in Docs, e # d
      PROVE  Kept(e)
    BY <1>d, <1>1, <1>2, <1>3, <1>6 DEF Kept, Mine
<1>7. Sound'
    BY <1>0, <1>1, <1>3, SoundByOne DEF Invariant
<1> QED BY <1>1, <1>4, <1>5, <1>6, <1>7, SearchKept, TraceKept DEF Invariant

LEMMA CrashStep ==
    ASSUME Invariant, TypeOK', Crash
    PROVE  Invariant'
<1>1. /\ \A w \in Workers : requests'[w] = Idle
      /\ excused' = excused \cup {d \in Docs : Working(d) # {}}
      /\ UNCHANGED <<status, latest, chunks, dense, keyword, overlapped>>
    BY CrashMoves DEF Invariant
<1>2. ASSUME NEW d \in Docs
      PROVE  Search(d)' /\ Trace(d)'
    <2>1. Search(d)'
        BY <1>1 DEF Invariant, Search, IngestOf, Alone, Good
    <2>2. Working(d)' = {}
        BY <1>1 DEF Working
    <2>3. Clean(d)' => EntriesOf(d) \subseteq chunks_by_document(d)
        BY <1>1 DEF Invariant, Trace, Clean
    <2> QED BY <1>1, <2>1, <2>2, <2>3 DEF Trace, EntriesOf, chunks_by_document
<1>3. Sound'
    BY <1>1 DEF Invariant, Sound, get_document
<1> QED BY <1>2, <1>3 DEF Invariant

-----------------------------------------------------------------------------
LEMMA Invariance == Spec => []Invariant
<1>1. Init => Invariant
    <2> SUFFICES ASSUME Init
                 PROVE  Invariant
        OBVIOUS
    <2>1. TypeOK
        BY DEF Init, TypeOK
    <2>2. \A w \in Workers : requests[w].step = "idle"
        BY DEF Init
    <2>3. Sound
        BY <2>2 DEF Init, Sound
    <2>4. \A d \in Docs : Search(d) /\ Trace(d)
        BY <2>2 DEF Init, Search, Trace, IngestOf, EntriesOf, Working
    <2> QED BY <2>1, <2>3, <2>4 DEF Invariant
<1>2. Invariant /\ [Next]_vars => Invariant'
    <2> SUFFICES ASSUME Invariant, [Next]_vars
                 PROVE  Invariant'
        OBVIOUS
    <2>1. CASE UNCHANGED vars
        <3>1. UNCHANGED <<status, latest, chunks, dense, keyword, requests, overlapped, excused>>
            BY <2>1 DEF vars, rows, indexes, faults
        <3> QED BY <3>1 DEF Invariant, TypeOK, Sound, Search, Trace, IngestOK, TraceOK, Clean,
                   Alone, Good, IngestOf, EntriesOf, Working, get_document, chunks_by_document
    <2>2. CASE Next
        <3>1. TypeOK'
            BY <2>2, TypeStep DEF Invariant
        <3>2. Loop \in Workers /\ Threads \subseteq Workers
            BY DEF Workers
        <3> QED BY <2>2, <3>1, <3>2, UploadStep, ReingestStep, IngestStep, DeleteStep,
                   PurgeStep, UnindexStep, CrashStep
                   DEF Next, upload_document, reingest_document, execute_write_document,
                       delete_route
    <2> QED BY <2>1, <2>2
<1> QED BY <1>1, <1>2, PTL DEF Spec

\* The rows, the indexes and the requests of the library have their types whatever the
\* requests of _ingest and delete do beside each other.
THEOREM TypeCorrect == Spec => []TypeOK
<1>1. Invariant => TypeOK
    BY DEF Invariant
<1> QED BY <1>1, Invariance, PTL

\* What the user is told is ready can be found in both indexes, for any number of
\* documents, versions and requests, whatever failed, died or was deleted meanwhile.
THEOREM ReadyIsFound == Spec => []ReadyIsSearchable
<1>1. Invariant => ReadyIsSearchable
    <2> SUFFICES ASSUME Invariant, NEW d \in Docs, status[d] = "ready",
                        <<d, "ingest">> \notin overlapped
                 PROVE  /\ Cardinality(chunks[d]) = 1
                        /\ chunks_by_document(d) \subseteq dense \cap keyword
        BY DEF ReadyIsSearchable
    <2>1. PICK v \in chunks[d] : chunks[d] = {v} /\ <<d, v>> \in dense \cap keyword
        BY DEF Invariant, Search, Alone, Good
    <2> QED BY <2>1, FS_Singleton DEF chunks_by_document
<1> QED BY <1>1, Invariance, PTL

\* Once nobody works on a document whose requests went well one after the other, the
\* indexes hold no entry of it without its chunk: the sweep and the cascade of a
\* deletion miss nothing, through any number of versions.
THEOREM NothingStale == Spec => []NoStaleEntries
<1>1. Invariant => NoStaleEntries
    <2> SUFFICES ASSUME Invariant, NEW d \in Docs \ excused, Working(d) = {},
                        {o \in overlapped : o[1] = d} = {}, NEW e \in Orphans(d)
                 PROVE  FALSE
        BY DEF NoStaleEntries
    <2>1. Clean(d)
        BY DEF Clean
    <2>2. EntriesOf(d) \subseteq chunks_by_document(d)
        BY <2>1 DEF Invariant, Trace
    <2>3. e \in EntriesOf(d)
        BY DEF Orphans, EntriesOf
    <2>4. e[2] \in chunks[d]
        BY <2>2, <2>3 DEF chunks_by_document
    <2> QED BY <2>4 DEF Orphans
<1> QED BY <1>1, Invariance, PTL
=============================================================================
