------------------------------- MODULE Ingest -------------------------------
(***************************************************************************)
(* IngestionPipeline.ingest_one run by several workers, and the route that *)
(* deletes a document, against PostgreSQL and the object store.            *)
(*                                                                         *)
(* One database session spans an ingest. It takes the row lock (or the     *)
(* unique-index entry of a new row) at the flush of the document and keeps *)
(* it until its commit or rollback; nothing it writes is visible before    *)
(* the commit. Two effects escape that transaction: the old chunks of an   *)
(* updated document are deleted by a transaction of the vector store's     *)
(* own, on a connection of its own, and the bytes are put in the object    *)
(* store.                                                                  *)
(*                                                                         *)
(* No statement has a timeout. A wait for a lock is a guard of the action  *)
(* that waits: for the row of a URI (lock) or for the chunk rows of a      *)
(* document a delete request is removing (ChunksLocked).                   *)
(*                                                                         *)
(* Chunks are abstracted to the contents they were cut from. Titles,       *)
(* metadata and summaries are not part of this module.                     *)
(***************************************************************************)
EXTENDS Integers

CONSTANTS
    Worker,      \* Celery workers and API processes that run ingest_one
    Deleter,     \* API processes that serve DELETE /documents/{id}
    Uri,         \* source URIs of the tenant
    Content,     \* distinct document contents (equal iff their hash is)
    NoText,      \* contents whose parse yields no chunk
    Superseded,  \* contents detect_supersession recognises
    MaxIngests,  \* bound: ingests ever started
    None

ASSUME BoundAssumption == MaxIngests \in Nat

ASSUME ContentAssumption ==
    /\ NoText \subseteq Content
    /\ Superseded \subseteq Content

ASSUME NoneAssumption ==
    /\ None \notin Worker
    /\ None \notin Uri
    /\ None \notin Content
    /\ None \notin 1..MaxIngests

\* A fresh number per ingest stands for its two uuid4()s: the id of its job,
\* and the id of its document if it inserts one.
DocId == 1..MaxIngests
JobId == 1..MaxIngests

VARIABLES
    docs,      \* committed rows of documents, by source_uri
    chunks,    \* committed rows of chunks: the contents they came from, by document
    jobs,      \* committed rows of ingestion_jobs
    storage,   \* the object store: the bytes under tenants/../docs/{id}
    queued,    \* documents handed to the broker for summarisation
    lock,      \* who holds the row lock / unique entry of a source_uri
    nextId,    \* the number of the next ingest
    pc,        \* where each worker is in ingest_one
    wuri,      \* the source_uri each worker ingests
    wdata,     \* the content each worker ingests
    wdoc,      \* the id of the row each worker read or inserted
    wjob,      \* the job each worker opened
    dpc,       \* where each delete request is
    ddoc       \* the document each delete request removes

db == <<docs, chunks, jobs, lock>>
worker == <<pc, wuri, wdata, wdoc, wjob>>
deleter == <<dpc, ddoc>>
vars == <<db, storage, queued, nextId, worker, deleter>>

Row == [id : DocId, hash : Content, active : BOOLEAN]
Job == [status : {"running", "success", "skipped", "failed"}, doc : DocId \cup {None}]

ASSUME NoRowAssumption == None \notin Row /\ None \notin Job

\* Fault: errors after the commit are handled like those before it.
AnyErrorHandled == {"skip", "flush", "clear", "put", "write", "close", "enqueue"}
\* Where an error reaches the handler with nothing committed.
InSession == {"skip", "flush", "clear", "put", "write"}

Writing == {"clear", "put", "write"}  \* holding the row lock
Committed == {"close", "enqueue"}     \* after the commit

\* get_parser, get_chunker and embed_batch together: the chunks of a content.
TextOf(c) == {c} \ NoText

\* The committed row of source_uri u is document d.
RowIs(u, d) == docs[u] # None /\ docs[u].id = d

HasRow(d) == \E u \in Uri : RowIs(u, d)

TypeOK ==
    /\ docs \in [Uri -> Row \cup {None}]
    /\ chunks \in [DocId -> SUBSET Content]
    /\ jobs \in [JobId -> Job \cup {None}]
    /\ storage \in [DocId -> Content \cup {None}]
    /\ queued \in SUBSET DocId
    /\ lock \in [Uri -> Worker \cup {None}]
    /\ nextId \in 1..(MaxIngests + 1)
    /\ pc \in [Worker -> {"idle", "fail"} \cup InSession \cup Committed]
    /\ wuri \in [Worker -> Uri \cup {None}]
    /\ wdata \in [Worker -> Content \cup {None}]
    /\ wdoc \in [Worker -> DocId \cup {None}]
    /\ wjob \in [Worker -> JobId \cup {None}]
    /\ \A w \in Worker : pc[w] # "idle" =>
        wuri[w] \in Uri /\ wdata[w] \in Content /\ wjob[w] \in JobId
    /\ \A w \in Worker : pc[w] \in Writing \cup Committed => wdoc[w] \in DocId
    /\ dpc \in [Deleter -> {"idle", "chunks", "row", "locked", "object"}]
    /\ ddoc \in [Deleter -> DocId \cup {None}]
    /\ \A x \in Deleter : dpc[x] # "idle" => ddoc[x] \in DocId

Init ==
    /\ docs = [u \in Uri |-> None]
    /\ chunks = [d \in DocId |-> {}]
    /\ jobs = [j \in JobId |-> None]
    /\ storage = [d \in DocId |-> None]
    /\ queued = {}
    /\ lock = [u \in Uri |-> None]
    /\ nextId = 1
    /\ pc = [w \in Worker |-> "idle"]
    /\ wuri = [w \in Worker |-> None]
    /\ wdata = [w \in Worker |-> None]
    /\ wdoc = [w \in Worker |-> None]
    /\ wjob = [w \in Worker |-> None]
    /\ dpc = [x \in Deleter |-> "idle"]
    /\ ddoc = [x \in Deleter |-> None]
-----------------------------------------------------------------------------
(* ---- Shared pieces of the handlers ------------------------------------- *)

Goto(w, label) == pc' = [pc EXCEPT ![w] = label]

\* ingest_one returns or raises: its locals are gone.
Return(w) ==
    /\ Goto(w, "idle")
    /\ wuri' = [wuri EXCEPT ![w] = None]
    /\ wdata' = [wdata EXCEPT ![w] = None]
    /\ wdoc' = [wdoc EXCEPT ![w] = None]
    /\ wjob' = [wjob EXCEPT ![w] = None]

CloseJob(w, status, d) ==
    jobs' = [jobs EXCEPT ![wjob[w]] = [status |-> status, doc |-> d]]

\* Fault: the flush does not hold the row.
LockForgotten(w) == UNCHANGED lock
Lock(w) == lock' = [lock EXCEPT ![wuri[w]] = w]

\* The end of a session, committed or rolled back, frees what it locked.
\* Fault: a session is left open.
SessionLeftOpen(w) == UNCHANGED lock
Unlock(w) == lock' = [u \in Uri |-> IF lock[u] = w THEN None ELSE lock[u]]

(* ---- IngestionPipeline.ingest_one -------------------------------------- *)

\* Hash the bytes, open the job (flushed, so invisible to others) and read
\* the row of the source_uri. The same hash is skipped.
Start(w, u, c) ==
    /\ pc[w] = "idle"
    /\ nextId <= MaxIngests
    /\ wuri' = [wuri EXCEPT ![w] = u]
    /\ wdata' = [wdata EXCEPT ![w] = c]
    /\ wjob' = [wjob EXCEPT ![w] = nextId]
    /\ nextId' = nextId + 1
    /\ wdoc' = [wdoc EXCEPT ![w] = IF docs[u] = None THEN None ELSE docs[u].id]
    /\ Goto(w, IF docs[u] # None /\ docs[u].hash = c THEN "skip" ELSE "flush")
    /\ UNCHANGED <<db, storage, queued, deleter>>

\* Same hash: commit the job as skipped, return "already up to date".
CloseSkipped(w) ==
    /\ pc[w] = "skip"
    /\ CloseJob(w, "skipped", None)
    /\ Return(w)
    /\ UNCHANGED <<docs, chunks, lock, storage, queued, nextId, deleter>>

\* The id of the row w inserts, chosen before the flush.
\* Fault: the id is read before the flush that would default it.
IdNotYetSet(w) == None
NewId(w) == wjob[w]

\* The flush of a new row waits for whoever holds the source_uri, then either
\* inserts or meets the unique constraint. wdoc is None: nothing was read.
FlushInsert(w) ==
    /\ pc[w] = "flush"
    /\ wdoc[w] = None
    /\ lock[wuri[w]] = None
    /\ \/ /\ docs[wuri[w]] = None
          /\ wdoc' = [wdoc EXCEPT ![w] = NewId(w)]
          /\ Lock(w)
          /\ Goto(w, "put")
       \/ /\ docs[wuri[w]] # None
          /\ Goto(w, "fail")
          /\ UNCHANGED <<wdoc, lock>>
    /\ UNCHANGED <<docs, chunks, jobs, storage, queued, nextId, wuri, wdata, wjob,
                   deleter>>

\* The flush of an update waits likewise. If the row it read was deleted in
\* the meantime the UPDATE matches no row and the ORM raises.
FlushUpdate(w) ==
    /\ pc[w] = "flush"
    /\ wdoc[w] # None
    /\ lock[wuri[w]] = None
    /\ \/ /\ RowIs(wuri[w], wdoc[w])
          /\ Lock(w)
          /\ Goto(w, "clear")
       \/ /\ ~RowIs(wuri[w], wdoc[w])
          /\ Goto(w, "fail")
          /\ UNCHANGED lock
    /\ UNCHANGED <<docs, chunks, jobs, storage, queued, nextId, wuri, wdata, wdoc, wjob,
                   deleter>>

\* A delete request whose transaction has deleted the chunk rows of document
\* d holds their locks until it ends.
ChunksLocked(d) == \E x \in Deleter : dpc[x] = "locked" /\ ddoc[x] = d

\* vector_store.delete_document: a transaction of its own, committed here and
\* now, while the session of w is open and holds the document's row. It waits
\* for a delete request that has locked the chunks. (The DELETE that follows
\* it in the session finds nothing left.)
\* Fault: the old chunks wait for the commit, and are forgotten by it.
KeepChunks(w) ==
    /\ pc[w] = "clear"
    /\ Goto(w, "put")
    /\ UNCHANGED <<db, storage, queued, nextId, wuri, wdata, wdoc, wjob, deleter>>
\* Fault: the DELETE loses its document_id.
ClearAllChunks(w) ==
    /\ pc[w] = "clear"
    /\ ~ChunksLocked(wdoc[w])
    /\ chunks' = [d \in DocId |-> {}]
    /\ Goto(w, "put")
    /\ UNCHANGED <<docs, jobs, lock, storage, queued, nextId, wuri, wdata, wdoc, wjob,
                   deleter>>
ClearChunks(w) ==
    /\ pc[w] = "clear"
    /\ ~ChunksLocked(wdoc[w])
    /\ chunks' = [chunks EXCEPT ![wdoc[w]] = {}]
    /\ Goto(w, "put")
    /\ UNCHANGED <<docs, jobs, lock, storage, queued, nextId, wuri, wdata, wdoc, wjob,
                   deleter>>

\* storage.put: overwrites the object, outside any transaction.
\* Fault: a put that fails is only logged.
PutBestEffort(w) ==
    /\ pc[w] = "put"
    /\ storage' \in {storage, [storage EXCEPT ![wdoc[w]] = wdata[w]]}
    /\ Goto(w, "write")
    /\ UNCHANGED <<db, queued, nextId, wuri, wdata, wdoc, wjob, deleter>>
Put(w) ==
    /\ pc[w] = "put"
    /\ storage' = [storage EXCEPT ![wdoc[w]] = wdata[w]]
    /\ Goto(w, "write")
    /\ UNCHANGED <<db, queued, nextId, wuri, wdata, wdoc, wjob, deleter>>

\* The row as w leaves it. A document found superseded is marked so, and
\* nothing takes the mark away.
\* Fault: a re-ingest resets the mark.
RowWrittenActive(w) ==
    [id |-> wdoc[w], hash |-> wdata[w], active |-> wdata[w] \notin Superseded]
RowWritten(w) ==
    [id |-> wdoc[w], hash |-> wdata[w],
     active |-> /\ wdata[w] \notin Superseded
                /\ docs[wuri[w]] = None \/ docs[wuri[w]].active]

\* Parse, mark superseded, chunk, embed, and commit: the row and its chunks
\* appear together. The job row is committed with them, still "running".
Commit(w) ==
    /\ pc[w] = "write"
    /\ docs' = [docs EXCEPT ![wuri[w]] = RowWritten(w)]
    /\ chunks' = [chunks EXCEPT ![wdoc[w]] = @ \cup TextOf(wdata[w])]
    /\ CloseJob(w, "running", None)
    /\ Unlock(w)
    /\ Goto(w, "close")
    /\ UNCHANGED <<storage, queued, nextId, wuri, wdata, wdoc, wjob, deleter>>

\* The job becomes "success" and references the document. If the document was
\* deleted after the commit the foreign key refuses, and the handler of that
\* error cannot attach the job to its fresh session: the row stays "running".
CloseSuccess(w) ==
    /\ pc[w] = "close"
    /\ \/ /\ HasRow(wdoc[w])
          /\ CloseJob(w, "success", wdoc[w])
          /\ Goto(w, "enqueue")
          /\ UNCHANGED <<wuri, wdata, wdoc, wjob>>
       \/ /\ ~HasRow(wdoc[w])
          /\ Return(w)
          /\ UNCHANGED jobs
    /\ UNCHANGED <<docs, chunks, lock, storage, queued, nextId, deleter>>

\* Queue the summary when chunks were written and the tenant's toggle is on;
\* a broker that refuses is only logged.
Enqueue(w) ==
    /\ pc[w] = "enqueue"
    /\ \/ TextOf(wdata[w]) # {} /\ queued' = queued \cup {wdoc[w]}
       \/ UNCHANGED queued
    /\ Return(w)
    /\ UNCHANGED <<db, storage, nextId, deleter>>

\* Any call before the commit may raise: the object store, the parser, the
\* embeddings service, the database. The session rolls back.
Raise(w) ==
    /\ pc[w] \in InSession
    /\ Unlock(w)
    /\ Goto(w, "fail")
    /\ UNCHANGED <<docs, chunks, jobs, storage, queued, nextId, wuri, wdata, wdoc, wjob,
                   deleter>>

\* The handler records the failure in a fresh session and raises.
CloseFailed(w) ==
    /\ pc[w] = "fail"
    /\ CloseJob(w, "failed", None)
    /\ Return(w)
    /\ UNCHANGED <<docs, chunks, lock, storage, queued, nextId, deleter>>

\* The process dies; or the database refuses the handler's own session; or,
\* after the commit, an error finds the job still attached to the old session.
\* Nothing more is recorded and the database rolls back.
Crash(w) ==
    /\ pc[w] # "idle"
    /\ Unlock(w)
    /\ Return(w)
    /\ UNCHANGED <<docs, chunks, jobs, storage, queued, nextId, deleter>>

(* ---- DELETE /documents/{id} -------------------------------------------- *)

\* Load the row, remember its id and storage_key, and load its chunks (the
\* ORM's cascade).
RequestDelete(x, u) ==
    /\ dpc[x] = "idle"
    /\ docs[u] # None
    /\ dpc' = [dpc EXCEPT ![x] = IF chunks[docs[u].id] = {} THEN "row" ELSE "chunks"]
    /\ ddoc' = [ddoc EXCEPT ![x] = docs[u].id]
    /\ UNCHANGED <<db, storage, queued, nextId, worker>>

\* The flush first deletes the chunk rows it loaded, one by one by their ids,
\* which locks them; unless a re-ingest has replaced them since. Nothing is
\* committed yet.
DeleteChunks(x) ==
    /\ dpc[x] = "chunks"
    /\ ~ChunksLocked(ddoc[x])
    /\ \/ chunks[ddoc[x]] # {} /\ dpc' = [dpc EXCEPT ![x] = "locked"]
       \/ dpc' = [dpc EXCEPT ![x] = "row"]
    /\ UNCHANGED <<db, storage, queued, nextId, worker, ddoc>>

\* Fault: the foreign key of ingestion_jobs is missing.
NeverReferenced(d) == FALSE
Referenced(d) == \E j \in JobId : jobs[j] # None /\ jobs[j].doc = d

\* Delete the row once no ingest holds it, and commit; what chunks there are
\* cascade. The foreign key of ingestion_jobs has no ON DELETE, so a row that
\* some job references cannot be deleted: the request fails.
DeleteRow(x) ==
    /\ dpc[x] \in {"row", "locked"}
    /\ \A u \in Uri : RowIs(u, ddoc[x]) => lock[u] = None
    /\ dpc[x] = "row" => ~ChunksLocked(ddoc[x])
    /\ IF HasRow(ddoc[x]) /\ Referenced(ddoc[x])
       THEN /\ dpc' = [dpc EXCEPT ![x] = "idle"]
            /\ ddoc' = [ddoc EXCEPT ![x] = None]
            /\ UNCHANGED <<docs, chunks>>
       ELSE /\ docs' = [u \in Uri |-> IF RowIs(u, ddoc[x])
                                      THEN None ELSE docs[u]]
            /\ chunks' = [chunks EXCEPT ![ddoc[x]] = {}]
            /\ dpc' = [dpc EXCEPT ![x] = "object"]
            /\ UNCHANGED ddoc
    /\ UNCHANGED <<jobs, lock, storage, queued, nextId, worker>>

\* Remove the stored original, best effort.
DeleteObject(x) ==
    /\ dpc[x] = "object"
    /\ \/ storage' = [storage EXCEPT ![ddoc[x]] = None]
       \/ UNCHANGED storage
    /\ dpc' = [dpc EXCEPT ![x] = "idle"]
    /\ ddoc' = [ddoc EXCEPT ![x] = None]
    /\ UNCHANGED <<db, queued, nextId, worker>>

\* The request dies or the database is gone: no row, or no object, is removed.
CrashDelete(x) ==
    /\ dpc[x] # "idle"
    /\ dpc' = [dpc EXCEPT ![x] = "idle"]
    /\ ddoc' = [ddoc EXCEPT ![x] = None]
    /\ UNCHANGED <<db, storage, queued, nextId, worker>>

-----------------------------------------------------------------------------
\* Nothing is under way and no more ingests will be asked for.
Quiet ==
    /\ nextId > MaxIngests
    /\ \A w \in Worker : pc[w] = "idle"
    /\ \A x \in Deleter : dpc[x] = "idle"
    /\ UNCHANGED vars

\* The steps that go on without anything new being asked or going wrong.
Advance(w) ==
    \/ CloseSkipped(w) \/ FlushInsert(w) \/ FlushUpdate(w) \/ ClearChunks(w)
    \/ Put(w) \/ Commit(w) \/ CloseSuccess(w) \/ Enqueue(w) \/ CloseFailed(w)

AdvanceDelete(x) == DeleteChunks(x) \/ DeleteRow(x) \/ DeleteObject(x)

Next ==
    \/ \E w \in Worker :
        \/ \E u \in Uri, c \in Content : Start(w, u, c)
        \/ Advance(w)
        \/ Raise(w)
        \/ Crash(w)
    \/ \E x \in Deleter :
        \/ \E u \in Uri : RequestDelete(x, u)
        \/ AdvanceDelete(x)
        \/ CrashDelete(x)
    \/ Quiet

Spec == Init /\ [][Next]_vars

\* Assumed of the environment: the parser, the embeddings service and the
\* object store answer or fail, and so does a statement that need not wait for
\* a lock. Nothing bounds a wait for a lock: the engine sets no timeout, nor do
\* the tasks. PostgreSQL queues the waiters, so one whose lock comes free again
\* and again is served.
FairSpec ==
    /\ Spec
    /\ \A w \in Worker : SF_vars(Advance(w))
    /\ \A x \in Deleter : SF_vars(AdvanceDelete(x))

-----------------------------------------------------------------------------
(* ---- Properties -------------------------------------------------------- *)

\* What a reader is shown is what the model cited: the text indexed under a
\* document always comes from the bytes the file route would serve, at every
\* moment of a re-ingest and after any failure (documents.py, the file route).
ServedIsIndexed == \A d \in DocId : chunks[d] \subseteq {storage[d]}

\* The text indexed under a document is the whole of the version its row names
\* or nothing, and there is no text without a row: two ingests of one URI
\* never leave both their chunks behind.
TextOfOneVersion ==
    \A d \in DocId : chunks[d] # {} =>
        \E u \in Uri : RowIs(u, d) /\ chunks[d] = {docs[u].hash}

\* A document that exists has its original in the object store: no failed
\* insert, crash, late delete or re-creation of the URI takes it away.
RowsHaveOriginals == \A u \in Uri : docs[u] # None => storage[docs[u].id] # None

\* Only a success names a document, and the document a job names exists.
JobsNameRows ==
    \A j \in JobId : jobs[j] # None /\ jobs[j].doc # None =>
        jobs[j].status = "success" /\ HasRow(jobs[j].doc)

\* A re-ingest keeps the document's id, so external references survive.
IdPreserved ==
    [][\A u \in Uri : docs[u] # None /\ docs'[u] # None => docs'[u].id = docs[u].id]_vars

\* A job row that says how its ingest ended never says otherwise later, and
\* "running" is only ever followed by "success".
JobsMoveForward ==
    [][\A j \in JobId : jobs[j] # None /\ jobs'[j] # jobs[j] =>
        jobs[j].status = "running" /\ jobs'[j].status = "success"]_vars

\* The index a reader sees is the abstract one.
View == [u \in Uri |->
    IF docs[u] = None THEN None
    ELSE [id |-> docs[u].id, hash |-> docs[u].hash,
          text |-> chunks[docs[u].id], active |-> docs[u].active]]

Abstract == INSTANCE DocIndex WITH index <- View

ASSUME NoEntryAssumption == None \notin Abstract!Entry

\* Every step of the workers and deleters is a step of DocIndex or invisible.
ImplementsIndex == Abstract!Spec

\* A delete request has locked the chunks of document d and waits for its row;
\* the re-ingest that holds the row waits, on its second connection, for the
\* chunks. PostgreSQL sees an idle session there and no cycle.
Entangled(d) == \E w \in Worker :
    pc[w] = "clear" /\ wdoc[w] = d /\ ChunksLocked(d)

\* Every ingest and every delete request returns, except those of a document
\* that a delete and a re-ingest hold from each other: no other wait for a row,
\* a chunk or the entry of a URI is for ever, whoever failed or died before.
EveryRequestReturns ==
    /\ \A w \in Worker :
        pc[w] # "idle" ~> \/ pc[w] = "idle"
                          \/ \E d \in DocId : RowIs(wuri[w], d) /\ Entangled(d)
    /\ \A x \in Deleter : dpc[x] # "idle" ~> dpc[x] = "idle" \/ Entangled(ddoc[x])

(* ---- What the code's own comments say, and the code does not do -------- *)

\* "Already present, same hash -> no work to do": when an ingest decides to
\* skip, with no other ingest at work, the text of that content is indexed.
SkipMeansIndexed ==
    [][\A w \in Worker :
        /\ pc[w] = "idle"
        /\ pc'[w] = "skip"
        /\ \A v \in Worker \ {w} : pc[v] = "idle"
        => chunks[wdoc'[w]] = TextOf(wdata'[w])]_vars
=============================================================================
