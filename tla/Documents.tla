------------------------------ MODULE Documents ------------------------------
(***************************************************************************)
(* The document library (src/document, src/rag/indexer.py): documents with *)
(* immutable versions, the chunks of the latest version in PostgreSQL, and *)
(* their entries in two external indexes, Milvus (dense) and Elasticsearch *)
(* (keyword).                                                              *)
(*                                                                         *)
(* An upload or a new version over HTTP is worked off on the event loop of *)
(* the server and shuts out every other one; a deletion, or write_document *)
(* called by an agent, runs in a thread beside it. A worker makes its      *)
(* store and index calls one at a time; each may be the last one of its    *)
(* process, and each index call may fail. The chunks of a version stand    *)
(* for one chunk, named by document and version, which is their pg id.     *)
(* Reading documents and searching change nothing (Retrieval).             *)
(***************************************************************************)
EXTENDS Naturals, FiniteSets

CONSTANTS
    Loop,           \* the event loop of the server
    Threads,        \* threads beside it
    Docs,           \* fresh document ids, each used once
    MaxVersions,    \* bound on the versions of a document
    MaxCrashes,     \* bound on requests that die with their process
    MaxErrors       \* bound on index calls that fail

ASSUME DocumentsAssumption ==
    /\ Loop \notin Threads
    /\ MaxVersions \in Nat \ {0} /\ MaxCrashes \in Nat /\ MaxErrors \in Nat

Workers == {Loop} \cup Threads

VARIABLES
    status,     \* rag_documents.status; "none" before the insert, "gone" after the purge
    latest,     \* the highest version of a document in rag_document_versions
    chunks,     \* rag_chunks: the versions whose chunks are stored, by document
    dense,      \* entries of the Milvus collection
    keyword,    \* entries of the Elasticsearch index
    mentions,   \* chunks with MENTIONS edges in Neo4j
    requests,   \* what each worker is doing and the values it has read
    overlapped, \* <<d, o>>: d had a request of kind o overlapping an ingest of it
    excused,    \* documents of requests that failed or died before they were done
    crashes,
    errors

rows == <<status, latest, chunks>>

indexes == <<dense, keyword>>

faults == <<excused, crashes, errors>>

vars == <<rows, indexes, mentions, requests, overlapped, faults>>

Idle == [step |-> "idle"]

Init ==
    /\ status = [d \in Docs |-> "none"]
    /\ latest = [d \in Docs |-> 0]
    /\ chunks = [d \in Docs |-> {}]
    /\ dense = {} /\ keyword = {} /\ mentions = {}
    /\ requests = [w \in Workers |-> Idle]
    /\ overlapped = {} /\ excused = {}
    /\ crashes = 0 /\ errors = 0

-----------------------------------------------------------------------------
(* The store.                                                              *)

get_document(d) == status[d] \notin {"none", "gone"}

create_document(d) ==
    /\ status[d] = "none"
    /\ status' = [status EXCEPT ![d] = "uploaded"]

latest_version(d) == latest[d]

chunks_by_document(d) == {<<d, v>> : v \in chunks[d]}

\* update_document_status has no condition but the key: a document that is gone is
\* not brought back, one that is marked deleted is written over.
update_document_status(d, s) ==
    status' = IF get_document(d) THEN [status EXCEPT ![d] = s] ELSE status

Working(d) == {w \in Workers : requests[w].step # "idle" /\ requests[w].doc = d}

To(w, step) == requests' = [requests EXCEPT ![w].step = step]

End(w) == requests' = [requests EXCEPT ![w] = Idle]

Ingesting(w, step) == requests[w].step = step /\ requests[w].op = "ingest"

-----------------------------------------------------------------------------
(* Ingest.                                                                 *)

\* upload: the row is inserted and the content goes to _ingest.
upload(w, d) ==
    /\ requests[w] = Idle
    /\ create_document(d)
    /\ requests' = [requests EXCEPT ![w] =
           [op |-> "ingest", step |-> "parse", doc |-> d, version |-> 1,
            next |-> FALSE, previous |-> {}, stored |-> {}]]
    /\ UNCHANGED <<latest, chunks, indexes, mentions, overlapped, faults>>

upload_document(d) == upload(Loop, d)

execute_write_document(t, d) == upload(t, d)

\* reingest: any document that has a row.
reingest(d) ==
    /\ requests[Loop] = Idle
    /\ get_document(d)
    /\ requests' = [requests EXCEPT ![Loop] =
           [op |-> "ingest", step |-> "parse", doc |-> d, version |-> 0,
            next |-> TRUE, previous |-> {}, stored |-> {}]]
    /\ overlapped' = overlapped \cup {<<d, requests[w].op>> : w \in Working(d)}
    /\ UNCHANGED <<rows, indexes, mentions, faults>>

\* The route runs on the loop; other documents are answered with 404.
reingest_document(d) == reingest(d)

\* _fail
fail(w) ==
    /\ update_document_status(requests[w].doc, "failed")
    /\ End(w)

\* parse_document, which may refuse the content, and latest_version for a new version of a document.
parse(w) ==
    LET d == requests[w].doc IN
    /\ Ingesting(w, "parse")
    /\ \/ /\ requests' = [requests EXCEPT ![w].step = "version", ![w].version =
                 IF requests[w].next THEN latest_version(d) + 1 ELSE 1]
          /\ UNCHANGED rows
       \/ fail(w) /\ UNCHANGED <<latest, chunks>>
    /\ UNCHANGED <<indexes, mentions, faults>>

\* create_version, and the two updates to parsing and chunking. A document that is
\* gone, or a version that exists, ends the request with an error.
create_version(w) ==
    LET d == requests[w].doc
        v == requests[w].version
    IN  /\ Ingesting(w, "version")
        /\ \/ /\ get_document(d) /\ latest[d] < v /\ v <= MaxVersions
              /\ latest' = [latest EXCEPT ![d] = v]
              /\ update_document_status(d, "chunking")
              /\ To(w, "previous")
           \/ /\ ~get_document(d) \/ latest[d] >= v
              /\ End(w)
              /\ UNCHANGED <<status, latest>>
        /\ UNCHANGED <<chunks, indexes, mentions, faults>>

\* Faulty: the older chunks are read after they have been replaced.
ReadPreviousLate(w) ==
    /\ Ingesting(w, "previous")
    /\ requests' = [requests EXCEPT ![w].step = "upsert"]
    /\ UNCHANGED <<rows, indexes, mentions, faults>>

\* The chunks of the older version are read before they are replaced.
read_previous(w) ==
    LET d == requests[w].doc IN
    /\ Ingesting(w, "previous")
    /\ requests' = [requests EXCEPT ![w].step = "upsert", ![w].previous =
           IF requests[w].next THEN chunks_by_document(d) ELSE {}]
    /\ UNCHANGED <<rows, indexes, mentions, faults>>

\* upsert_chunks: in one transaction the chunks of all other versions go and those
\* of this one come. The foreign keys refuse it when document or version is gone.
upsert_chunks(w) ==
    LET d == requests[w].doc IN
    /\ Ingesting(w, "upsert")
    /\ \/ /\ get_document(d)
          /\ chunks' = [chunks EXCEPT ![d] = {requests[w].version}]
          /\ To(w, "stored")
       \/ ~get_document(d) /\ End(w) /\ UNCHANGED chunks
    /\ UNCHANGED <<status, latest, indexes, mentions, faults>>

\* The update to indexing, and the chunks read back with their ids.
read_stored(w) ==
    LET d == requests[w].doc IN
    /\ Ingesting(w, "stored")
    /\ update_document_status(d, "indexing")
    /\ requests' = [requests EXCEPT
           ![w].stored = chunks_by_document(d),
           ![w].step = IF chunks[d] = {} THEN "ready" ELSE "dense"]
    /\ UNCHANGED <<latest, chunks, indexes, mentions, faults>>

\* An index call that raises: _fail, with nothing undone.
index_failed(w) ==
    /\ errors < MaxErrors
    /\ errors' = errors + 1
    /\ excused' = excused \cup {requests[w].doc}
    /\ fail(w)
    /\ UNCHANGED <<latest, chunks, indexes, crashes>>

\* _write_dense: one upsert for all chunks. A deletion that purged the document
\* meanwhile does not stop it.
write_dense(w) ==
    /\ Ingesting(w, "dense")
    /\ \/ /\ dense' = dense \cup requests[w].stored
          /\ To(w, "keyword")
          /\ UNCHANGED <<rows, keyword, faults>>
       \/ index_failed(w)
    /\ UNCHANGED mentions

\* Faulty: a failed keyword write is only logged.
WriteKeywordLogged(w) ==
    /\ Ingesting(w, "keyword")
    /\ \/ keyword' = keyword \cup requests[w].stored /\ UNCHANGED errors
       \/ errors < MaxErrors /\ errors' = errors + 1 /\ UNCHANGED keyword
    /\ To(w, IF requests[w].next THEN "sweep" ELSE "ready")
    /\ UNCHANGED <<rows, dense, mentions, excused, crashes>>

\* _write_keyword
write_keyword(w) ==
    /\ Ingesting(w, "keyword")
    /\ \/ /\ keyword' = keyword \cup requests[w].stored
          /\ To(w, IF requests[w].next THEN "sweep" ELSE "ready")
          /\ UNCHANGED <<rows, dense, faults>>
       \/ index_failed(w)
    /\ UNCHANGED mentions

\* delete_chunks: Milvus first, then Elasticsearch chunk by chunk. A failure is
\* logged by _delete_indexed, and what was not deleted stays.
delete_chunks(w, ids) ==
    \/ /\ dense' = dense \ ids
       /\ keyword' = keyword \ ids
       /\ UNCHANGED <<excused, errors>>
    \/ /\ errors < MaxErrors
       /\ errors' = errors + 1
       /\ dense' \in {dense, dense \ ids}
       /\ keyword' = keyword
       /\ excused' = excused \cup {requests[w].doc}

\* The entries of the older version, as read before.
sweep(w) ==
    /\ Ingesting(w, "sweep")
    /\ delete_chunks(w, requests[w].previous)
    /\ To(w, "ready")
    /\ UNCHANGED <<rows, mentions, crashes>>

\* The update to ready.
set_ready(w) ==
    /\ Ingesting(w, "ready")
    /\ update_document_status(requests[w].doc, "ready")
    /\ To(w, "graph")
    /\ UNCHANGED <<latest, chunks, indexes, mentions, faults>>

\* The ids that _ingest hands to the graph are those of the chunks as they were
\* split, before the insert: they have none.
split_ids(w) == {}

\* write_extraction: an edge is merged where entity and chunk have nodes. Nothing
\* makes chunk nodes, and no id is handed over.
write_extraction(ids) == mentions' = mentions \cup ids

\* _write_kg: extraction and writing; a failure of either is only logged.
write_kg(w) ==
    /\ Ingesting(w, "graph")
    /\ UNCHANGED mentions \/ write_extraction(split_ids(w))
    /\ End(w)
    /\ UNCHANGED <<rows, indexes, faults>>

-----------------------------------------------------------------------------
(* Deletion.                                                               *)

\* The soft delete in the store.
delete_document(d) ==
    /\ get_document(d) /\ status[d] # "deleted"
    /\ status' = [status EXCEPT ![d] = "deleted"]

\* delete: the document is marked first; one that is marked already is answered
\* with 404.
delete(t, d) ==
    /\ requests[t] = Idle
    /\ delete_document(d)
    /\ requests' = [requests EXCEPT ![t] =
           [op |-> "delete", step |-> "purge", doc |-> d, stored |-> {}]]
    /\ overlapped' = overlapped \cup {<<d, "delete">> : w \in Working(d)}
    /\ UNCHANGED <<latest, chunks, indexes, mentions, faults>>

\* The route, in a thread.
delete_route(t, d) == delete(t, d)

\* purge_document: the ids are read and the row removed, with its versions and
\* chunks, in one transaction.
purge_document(t) ==
    LET d == requests[t].doc IN
    /\ requests[t].step = "purge"
    /\ status' = [status EXCEPT ![d] = "gone"]
    /\ latest' = [latest EXCEPT ![d] = 0]
    /\ chunks' = [chunks EXCEPT ![d] = {}]
    /\ requests' = [requests EXCEPT ![t].step = "unindex",
                                    ![t].stored = chunks_by_document(d)]
    /\ UNCHANGED <<indexes, mentions, faults>>

\* The entries of the chunks that were purged. The older ones that a sweep had not
\* reached, and the ones a request is about to write, are not among them.
unindex(t) ==
    /\ requests[t].step = "unindex"
    /\ delete_chunks(t, requests[t].stored)
    /\ End(t)
    /\ UNCHANGED <<rows, mentions, crashes>>

-----------------------------------------------------------------------------
\* The server ends, and every request with it, between two of their calls; nothing
\* resumes them.
Crash ==
    /\ \E d \in Docs : Working(d) # {}
    /\ crashes < MaxCrashes
    /\ crashes' = crashes + 1
    /\ excused' = excused \cup {d \in Docs : Working(d) # {}}
    /\ requests' = [w \in Workers |-> Idle]
    /\ UNCHANGED <<rows, indexes, mentions, errors, overlapped>>

Ingest(w) ==
    \/ parse(w)
    \/ create_version(w)
    \/ read_previous(w)
    \/ upsert_chunks(w)
    \/ read_stored(w)
    \/ write_dense(w)
    \/ write_keyword(w)
    \/ sweep(w)
    \/ set_ready(w)
    \/ write_kg(w)

Next ==
    \/ \E d \in Docs : upload_document(d) \/ reingest_document(d)
    \/ \E t \in Threads, d \in Docs : execute_write_document(t, d)
    \/ \E w \in Workers : Ingest(w) /\ UNCHANGED overlapped
    \/ \E t \in Threads, d \in Docs : delete_route(t, d)
    \/ \E t \in Threads : (purge_document(t) \/ unindex(t)) /\ UNCHANGED overlapped
    \/ Crash

Spec == Init /\ [][Next]_vars

-----------------------------------------------------------------------------
(* Properties.                                                             *)

\* _ingest: a document that is shown as ready, and that nobody is working on, has
\* the chunks of exactly one version, and both indexes know them: what the user is
\* told can be searched can be found, whatever failed, crashed or was deleted
\* meanwhile. Two ingests of a document at the same time are left out: the first to
\* end shows it as ready while the other has replaced its chunks.
ReadyIsSearchable ==
    \A d \in Docs : status[d] = "ready" /\ Working(d) = {} /\ <<d, "ingest">> \notin overlapped =>
        /\ Cardinality(chunks[d]) = 1
        /\ chunks_by_document(d) \subseteq dense \cap keyword

\* Entries of the indexes whose chunk is gone.
Orphans(d) == {e \in dense \cup keyword : e[1] = d /\ e[2] \notin chunks[d]}

\* The sweep of a new version and the cascade of a deletion: once nobody works on a
\* document the indexes hold no entry without its chunk, through any number of
\* versions and a deletion at the end, as long as no request failed, died, or
\* overlapped another one on the same document.
NoStaleEntries ==
    \A d \in Docs \ excused : Working(d) = {} /\ {o \in overlapped : o[1] = d} = {} =>
        Orphans(d) = {}

\* What rag/indexer.py says of deletion, that the ids purge returns take the entries
\* of both indexes along: without a failure a document that is gone has no entries.
DeletionCascades ==
    \A d \in Docs \ excused : status[d] = "gone" /\ Working(d) = {} => Orphans(d) = {}

=============================================================================
