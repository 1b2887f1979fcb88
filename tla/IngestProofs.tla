---------------------------- MODULE IngestProofs ----------------------------
(***************************************************************************)
(* Proofs about Ingest, for any number of workers, delete requests, URIs,  *)
(* contents and ingests.                                                   *)
(***************************************************************************)
EXTENDS Ingest, TLAPS

\* The database locks: exactly the session between its flush and its end
\* holds the source_uri it ingests.
LockInv ==
    \A w \in Worker, u \in Uri :
        lock[u] = w <=> pc[w] \in Writing /\ wuri[w] = u

\* No two rows share an id.
UniqueIds == \A u, v \in Uri : docs[u] # None /\ RowIs(v, docs[u].id) => u = v

\* Whatever names a document names one given out before.
Allocated ==
    /\ \A u \in Uri : docs[u] # None => docs[u].id < nextId
    /\ \A w \in Worker : pc[w] # "idle" => wjob[w] < nextId
    /\ \A w \in Worker : wdoc[w] # None => wdoc[w] < nextId
    /\ \A x \in Deleter : dpc[x] # "idle" => ddoc[x] < nextId
    /\ \A d \in DocId : chunks[d] # {} => d < nextId

\* Until its session commits, an ingest's number names nothing anyone else
\* can see: no row, no text, no other ingest's document, no delete request.
PrivateId ==
    \A w \in Worker : pc[w] \in InSession =>
        /\ ~HasRow(wjob[w])
        /\ chunks[wjob[w]] = {}
        /\ \A v \in Worker \ {w} : pc[v] # "idle" => wjob[v] # wjob[w] /\ wdoc[v] # wjob[w]
        /\ \A x \in Deleter : dpc[x] # "idle" => ddoc[x] # wjob[w]

\* What a session that holds the lock knows: the row is the one it read, or
\* there is none and it inserts under its own number; once past ClearChunks
\* the document has no text; once past Put its original is in place.
WriterInv ==
    \A w \in Worker :
        /\ pc[w] = "clear" => RowIs(wuri[w], wdoc[w])
        /\ pc[w] \in {"put", "write"} =>
            /\ RowIs(wuri[w], wdoc[w]) \/ (docs[wuri[w]] = None /\ wdoc[w] = wjob[w])
            /\ chunks[wdoc[w]] = {}
        /\ pc[w] = "write" => storage[wdoc[w]] = wdata[w]

\* A delete request touches the object store only once the row is gone.
DeleterInv == \A x \in Deleter : dpc[x] = "object" => ~HasRow(ddoc[x])

\* The inductive invariant.
IInv ==
    /\ TypeOK
    /\ LockInv
    /\ UniqueIds
    /\ Allocated
    /\ PrivateId
    /\ WriterInv
    /\ DeleterInv
    /\ TextOfOneVersion
    /\ ServedIsIndexed
    /\ RowsHaveOriginals
-----------------------------------------------------------------------------
LEMMA TypeInit == Init => TypeOK
<1> USE BoundAssumption
<1> QED BY DEF Init, TypeOK, InSession, Writing, Committed

\* The columns of a row have the column types.
LEMMA RowType ==
    ASSUME TypeOK, NEW u \in Uri, docs[u] # None
    PROVE  docs[u] \in Row /\ docs[u].id \in DocId /\ docs[u].hash \in Content
<1>1. docs[u] \in Row
  BY DEF TypeOK
<1>2. QED
  BY <1>1 DEF Row

\* Every action keeps the variables in their types.
LEMMA TypeStep == TypeOK /\ [Next]_vars => TypeOK'
<1> SUFFICES ASSUME TypeOK, [Next]_vars PROVE TypeOK'
  OBVIOUS
<1> USE BoundAssumption, NoneAssumption, ContentAssumption
    DEF InSession, Writing, Committed, Goto, Return, Unlock, Lock, NewId, RowWritten, db, worker, deleter
<1>1. ASSUME NEW w \in Worker, NEW u \in Uri, NEW c \in Content, Start(w, u, c)
      PROVE  TypeOK'
  <2>1. wdoc' \in [Worker -> DocId \cup {None}]
    BY <1>1, RowType DEF TypeOK, Start
  <2>2. wjob' \in [Worker -> JobId \cup {None}] /\ wjob'[w] \in JobId
    BY <1>1 DEF TypeOK, Start, JobId
  <2>3. nextId' \in 1..(MaxIngests + 1)
    BY <1>1 DEF TypeOK, Start
  <2>4. QED
    BY <1>1, <2>1, <2>2, <2>3 DEF TypeOK, Start
<1>2. ASSUME NEW w \in Worker, CloseSkipped(w) PROVE TypeOK'
  <2>1. jobs' \in [JobId -> Job \cup {None}]
    BY <1>2 DEF TypeOK, CloseSkipped, CloseJob, Job
  <2>2. QED
    BY <1>2, <2>1 DEF TypeOK, CloseSkipped
<1>3. ASSUME NEW w \in Worker, FlushInsert(w) PROVE TypeOK'
  <2>1. CASE docs[wuri[w]] = None
    <3>1. wjob[w] \in DocId
      BY <1>3 DEF TypeOK, FlushInsert, DocId, JobId
    <3>2. QED
      BY <1>3, <2>1, <3>1 DEF TypeOK, FlushInsert
  <2>2. CASE docs[wuri[w]] # None
    BY <1>3, <2>2 DEF TypeOK, FlushInsert
  <2>3. QED
    BY <2>1, <2>2
<1>4. ASSUME NEW w \in Worker, FlushUpdate(w) PROVE TypeOK'
  <2>1. CASE RowIs(wuri[w], wdoc[w])
    BY <1>4, <2>1 DEF TypeOK, FlushUpdate
  <2>2. CASE ~RowIs(wuri[w], wdoc[w])
    BY <1>4, <2>2 DEF TypeOK, FlushUpdate
  <2>3. QED
    BY <2>1, <2>2
<1>5. ASSUME NEW w \in Worker, ClearChunks(w) PROVE TypeOK'
  BY <1>5 DEF TypeOK, ClearChunks
<1>6. ASSUME NEW w \in Worker, Put(w) PROVE TypeOK'
  BY <1>6 DEF TypeOK, Put
<1>7. ASSUME NEW w \in Worker, Commit(w) PROVE TypeOK'
  BY <1>7 DEF TypeOK, Commit, CloseJob, Job, Row, TextOf
<1>8. ASSUME NEW w \in Worker, CloseSuccess(w) PROVE TypeOK'
  <2>1. CASE HasRow(wdoc[w])
    BY <1>8, <2>1 DEF TypeOK, CloseSuccess, CloseJob, Job
  <2>2. CASE ~HasRow(wdoc[w])
    BY <1>8, <2>2 DEF TypeOK, CloseSuccess
  <2>3. QED
    BY <2>1, <2>2
<1>9. ASSUME NEW w \in Worker, Enqueue(w) PROVE TypeOK'
  BY <1>9 DEF TypeOK, Enqueue
<1>10. ASSUME NEW w \in Worker, Raise(w) PROVE TypeOK'
  BY <1>10 DEF TypeOK, Raise
<1>11. ASSUME NEW w \in Worker, CloseFailed(w) PROVE TypeOK'
  BY <1>11 DEF TypeOK, CloseFailed, CloseJob, Job
<1>12. ASSUME NEW w \in Worker, Crash(w) PROVE TypeOK'
  BY <1>12 DEF TypeOK, Crash
<1>13. ASSUME NEW x \in Deleter, NEW u \in Uri, RequestDelete(x, u) PROVE TypeOK'
  BY <1>13, RowType DEF TypeOK, RequestDelete
<1>14. ASSUME NEW x \in Deleter, DeleteRow(x) PROVE TypeOK'
  <2>1. CASE HasRow(ddoc[x]) /\ Referenced(ddoc[x])
    BY <1>14, <2>1 DEF TypeOK, DeleteRow
  <2>2. CASE ~(HasRow(ddoc[x]) /\ Referenced(ddoc[x]))
    BY <1>14, <2>2 DEF TypeOK, DeleteRow
  <2>3. QED
    BY <2>1, <2>2
<1>15. ASSUME NEW x \in Deleter, DeleteObject(x) PROVE TypeOK'
  BY <1>15 DEF TypeOK, DeleteObject
<1>16. ASSUME NEW x \in Deleter, CrashDelete(x) PROVE TypeOK'
  BY <1>16 DEF TypeOK, CrashDelete
<1>17. ASSUME NEW x \in Deleter, DeleteChunks(x) PROVE TypeOK'
  BY <1>17 DEF TypeOK, DeleteChunks
<1>18. CASE UNCHANGED vars
  BY <1>18 DEF TypeOK, vars
<1>19. QED
  BY <1>1, <1>2, <1>3, <1>4, <1>5, <1>6, <1>7, <1>8, <1>9, <1>10, <1>11, <1>12,
     <1>13, <1>14, <1>15, <1>16, <1>17, <1>18
  DEF Next, Advance, AdvanceDelete, Quiet

\* The variables always hold values of their types.
THEOREM TypeCorrect == Spec => []TypeOK
BY TypeInit, TypeStep, PTL DEF Spec
-----------------------------------------------------------------------------
LEMMA IInvInit == Init => IInv
<1> SUFFICES ASSUME Init PROVE IInv
  OBVIOUS
<1>1. TypeOK
  BY TypeInit
<1>2. LockInv /\ UniqueIds /\ Allocated /\ PrivateId /\ WriterInv /\ DeleterInv
  BY NoneAssumption DEF Init, LockInv, UniqueIds, Allocated, PrivateId, WriterInv,
     DeleterInv, InSession, Writing, HasRow, RowIs
<1>3. TextOfOneVersion /\ ServedIsIndexed /\ RowsHaveOriginals
  BY DEF Init, TextOfOneVersion, ServedIsIndexed, RowsHaveOriginals
<1>4. QED
  BY <1>1, <1>2, <1>3 DEF IInv

\* Text that stays, or goes, with the rows as they were is still of one version.
LEMMA TextKept ==
    ASSUME TextOfOneVersion, docs' = docs,
           \A d \in DocId : chunks'[d] = chunks[d] \/ chunks'[d] = {}
    PROVE  TextOfOneVersion'
BY DEF TextOfOneVersion, RowIs

\* A session that holds a lock is alone on its URI and on its document, and no
\* delete request is about to touch the document's original.
LEMMA WriterIsAlone ==
    ASSUME IInv, NEW w \in Worker, pc[w] \in Writing
    PROVE  /\ wuri[w] \in Uri /\ wdoc[w] \in DocId /\ wjob[w] \in DocId
           /\ lock[wuri[w]] = w
           /\ \A u \in Uri : RowIs(u, wdoc[w]) => u = wuri[w]
           /\ \A v \in Worker \ {w} : pc[v] \in Writing =>
                wuri[v] # wuri[w] /\ wdoc[v] # wdoc[w]
           /\ \A x \in Deleter : dpc[x] = "object" => ddoc[x] # wdoc[w]
<1>1. wuri[w] \in Uri /\ wdoc[w] \in DocId /\ wjob[w] \in DocId
  BY DEF IInv, TypeOK, Writing, InSession, Committed, DocId, JobId
<1>2. lock[wuri[w]] = w
  BY <1>1 DEF IInv, LockInv
<1>3. RowIs(wuri[w], wdoc[w]) \/ wdoc[w] = wjob[w]
  BY DEF IInv, WriterInv, Writing
<1>4. pc[w] \in InSession
  BY DEF Writing, InSession
<1>5. \A u \in Uri : RowIs(u, wdoc[w]) => u = wuri[w]
  <2>1. CASE RowIs(wuri[w], wdoc[w])
    BY <2>1, <1>1 DEF IInv, UniqueIds, RowIs
  <2>2. CASE wdoc[w] = wjob[w]
    BY <2>2, <1>4 DEF IInv, PrivateId, HasRow
  <2>3. QED
    BY <1>3, <2>1, <2>2
<1>6. ASSUME NEW v \in Worker \ {w}, pc[v] \in Writing
      PROVE  wuri[v] # wuri[w] /\ wdoc[v] # wdoc[w]
  <2>1. wuri[v] \in Uri /\ lock[wuri[v]] = v /\ pc[v] \in InSession
    BY <1>6 DEF IInv, TypeOK, LockInv, Writing, InSession, Committed
  <2>2. wuri[v] # wuri[w]
    BY <1>2, <2>1
  <2>3. RowIs(wuri[v], wdoc[v]) \/ wdoc[v] = wjob[v]
    BY <1>6 DEF IInv, WriterInv, Writing
  <2>4. CASE wdoc[v] = wjob[v]
    <3>1. pc[w] # "idle" /\ w \in Worker \ {v}
      BY <1>4 DEF InSession
    <3>2. wdoc[w] # wjob[v]
      BY <2>1, <3>1 DEF IInv, PrivateId
    <3>3. QED
      BY <2>2, <2>4, <3>2
  <2>5. CASE RowIs(wuri[v], wdoc[v])
    BY <2>1, <2>2, <2>5, <1>5
  <2>6. QED
    BY <2>2, <2>3, <2>4, <2>5
<1>7. ASSUME NEW x \in Deleter, dpc[x] = "object"
      PROVE  ddoc[x] # wdoc[w]
  BY <1>1, <1>3, <1>4, <1>7 DEF IInv, PrivateId, DeleterInv, HasRow
<1>8. QED
  BY <1>1, <1>2, <1>5, <1>6, <1>7

\* An ingest starts under a number no one has seen.
LEMMA StartStep ==
    ASSUME IInv, NEW w \in Worker, NEW u \in Uri, NEW c \in Content, Start(w, u, c)
    PROVE  IInv'
<1> USE BoundAssumption, NoneAssumption
    DEF IInv, TypeOK, Start, Goto, Return, CloseJob, Unlock, Lock, NewId, RowWritten, db, worker, deleter,
        InSession, Writing, Committed, DocId, JobId
<1>1. TypeOK'
  BY TypeStep DEF Next, Advance, AdvanceDelete
<1>2. LockInv'
  BY <1>1 DEF LockInv, HasRow, RowIs
<1>3. UniqueIds'
  BY <1>1 DEF UniqueIds, HasRow, RowIs
<1>4. Allocated'
  BY <1>1, RowType DEF Allocated
<1>5. PrivateId'
  <2>1. ~HasRow(nextId) /\ chunks[nextId] = {}
    BY DEF Allocated, HasRow, RowIs
  <2>2. \A v \in Worker : pc[v] # "idle" => wjob[v] # nextId /\ wdoc[v] # nextId
    BY DEF Allocated
  <2>3. \A y \in Deleter : dpc[y] # "idle" => ddoc[y] # nextId
    BY DEF Allocated
  <2>4. \A v \in Worker : pc[v] \in InSession => wdoc'[w] # wjob[v]
    BY DEF PrivateId, HasRow, RowIs
  <2>5. QED
    BY <2>1, <2>2, <2>3, <2>4 DEF PrivateId, HasRow, RowIs
<1>6. WriterInv'
  BY <1>1 DEF WriterInv, HasRow, RowIs
<1>7. DeleterInv'
  BY <1>1 DEF DeleterInv, HasRow, RowIs
<1>8. TextOfOneVersion'
  BY TextKept
<1>9. ServedIsIndexed'
  BY <1>1 DEF ServedIsIndexed, HasRow, RowIs
<1>10. RowsHaveOriginals'
  BY <1>1 DEF RowsHaveOriginals, HasRow, RowIs
<1>11. QED
  BY <1>1, <1>2, <1>3, <1>4, <1>5, <1>6, <1>7, <1>8, <1>9, <1>10

\* A skipped ingest only closes its job.
LEMMA CloseSkippedStep ==
    ASSUME IInv, NEW w \in Worker, CloseSkipped(w)
    PROVE  IInv'
<1> USE BoundAssumption, NoneAssumption
    DEF IInv, TypeOK, CloseSkipped, Goto, Return, CloseJob, Unlock, Lock, NewId, RowWritten, db, worker, deleter,
        InSession, Writing, Committed, DocId, JobId
<1>1. TypeOK'
  BY TypeStep DEF Next, Advance, AdvanceDelete
<1>2. LockInv'
  BY <1>1 DEF LockInv, HasRow, RowIs
<1>3. UniqueIds'
  BY <1>1 DEF UniqueIds, HasRow, RowIs
<1>4. Allocated'
  BY <1>1 DEF Allocated, HasRow, RowIs
<1>5. PrivateId'
  BY <1>1 DEF PrivateId, HasRow, RowIs
<1>6. WriterInv'
  BY <1>1 DEF WriterInv, HasRow, RowIs
<1>7. DeleterInv'
  BY <1>1 DEF DeleterInv, HasRow, RowIs
<1>8. TextOfOneVersion'
  BY TextKept
<1>9. ServedIsIndexed'
  BY <1>1 DEF ServedIsIndexed, HasRow, RowIs
<1>10. RowsHaveOriginals'
  BY <1>1 DEF RowsHaveOriginals, HasRow, RowIs
<1>11. QED
  BY <1>1, <1>2, <1>3, <1>4, <1>5, <1>6, <1>7, <1>8, <1>9, <1>10

\* An insert takes the lock, or fails on the unique constraint.
LEMMA FlushInsertStep ==
    ASSUME IInv, NEW w \in Worker, FlushInsert(w)
    PROVE  IInv'
<1> USE BoundAssumption, NoneAssumption
    DEF IInv, TypeOK, FlushInsert, Goto, Return, CloseJob, Unlock, Lock, NewId, RowWritten, db, worker, deleter,
        InSession, Writing, Committed, DocId, JobId
<1>1. TypeOK'
  BY TypeStep DEF Next, Advance, AdvanceDelete
<1>2. LockInv'
  BY <1>1 DEF LockInv, HasRow, RowIs
<1>3. UniqueIds'
  BY <1>1 DEF UniqueIds, HasRow, RowIs
<1>4. Allocated'
  BY <1>1 DEF Allocated, HasRow, RowIs
<1>5. PrivateId'
  <2>1. UNCHANGED <<docs, chunks, wjob, dpc, ddoc>>
    OBVIOUS
  <2>2. \A v \in Worker : pc'[v] \in InSession => pc[v] \in InSession
    OBVIOUS
  <2>3. \A v \in Worker : pc'[v] # "idle" => pc[v] # "idle"
    OBVIOUS
  <2>4. \A v \in Worker : wdoc'[v] = wdoc[v] \/ (v = w /\ wdoc'[v] = wjob[w])
    OBVIOUS
  <2>5. QED
    BY <2>1, <2>2, <2>3, <2>4 DEF PrivateId, HasRow, RowIs
<1>6. WriterInv'
  <2>1. CASE docs[wuri[w]] = None
    <3>1. wdoc'[w] = wjob[w] /\ pc'[w] = "put" /\ chunks[wjob[w]] = {}
      BY <2>1 DEF PrivateId
    <3>2. QED
      BY <2>1, <3>1 DEF WriterInv, RowIs
  <2>2. CASE docs[wuri[w]] # None
    BY <2>2 DEF WriterInv, RowIs
  <2>3. QED
    BY <2>1, <2>2
<1>7. DeleterInv'
  BY <1>1 DEF DeleterInv, HasRow, RowIs
<1>8. TextOfOneVersion'
  BY TextKept
<1>9. ServedIsIndexed'
  BY <1>1 DEF ServedIsIndexed, HasRow, RowIs
<1>10. RowsHaveOriginals'
  BY <1>1 DEF RowsHaveOriginals, HasRow, RowIs
<1>11. QED
  BY <1>1, <1>2, <1>3, <1>4, <1>5, <1>6, <1>7, <1>8, <1>9, <1>10

\* An update takes the lock, or fails because its row is gone.
LEMMA FlushUpdateStep ==
    ASSUME IInv, NEW w \in Worker, FlushUpdate(w)
    PROVE  IInv'
<1> USE BoundAssumption, NoneAssumption
    DEF IInv, TypeOK, FlushUpdate, Goto, Return, CloseJob, Unlock, Lock, NewId, RowWritten, db, worker, deleter,
        InSession, Writing, Committed, DocId, JobId
<1>1. TypeOK'
  BY TypeStep DEF Next, Advance, AdvanceDelete
<1>2. LockInv'
  BY <1>1 DEF LockInv, HasRow, RowIs
<1>3. UniqueIds'
  BY <1>1 DEF UniqueIds, HasRow, RowIs
<1>4. Allocated'
  BY <1>1 DEF Allocated, HasRow, RowIs
<1>5. PrivateId'
  BY <1>1 DEF PrivateId, HasRow, RowIs
<1>6. WriterInv'
  BY <1>1 DEF WriterInv, HasRow, RowIs
<1>7. DeleterInv'
  BY <1>1 DEF DeleterInv, HasRow, RowIs
<1>8. TextOfOneVersion'
  BY TextKept
<1>9. ServedIsIndexed'
  BY <1>1 DEF ServedIsIndexed, HasRow, RowIs
<1>10. RowsHaveOriginals'
  BY <1>1 DEF RowsHaveOriginals, HasRow, RowIs
<1>11. QED
  BY <1>1, <1>2, <1>3, <1>4, <1>5, <1>6, <1>7, <1>8, <1>9, <1>10

\* Clearing the old text leaves the row with none.
LEMMA ClearChunksStep ==
    ASSUME IInv, NEW w \in Worker, ClearChunks(w)
    PROVE  IInv'
<1> USE BoundAssumption, NoneAssumption
    DEF IInv, TypeOK, ClearChunks, Goto, Return, CloseJob, Unlock, Lock, NewId, RowWritten, db, worker, deleter,
        InSession, Writing, Committed, DocId, JobId
<1>1. TypeOK'
  BY TypeStep DEF Next, Advance, AdvanceDelete
<1>2. LockInv'
  BY <1>1 DEF LockInv, HasRow, RowIs
<1>3. UniqueIds'
  BY <1>1 DEF UniqueIds, HasRow, RowIs
<1>4. Allocated'
  BY <1>1 DEF Allocated, HasRow, RowIs
<1>5. PrivateId'
  BY <1>1 DEF PrivateId, HasRow, RowIs
<1>6. WriterInv'
  BY <1>1 DEF WriterInv, HasRow, RowIs
<1>7. DeleterInv'
  BY <1>1 DEF DeleterInv, HasRow, RowIs
<1>8. TextOfOneVersion'
  BY TextKept
<1>9. ServedIsIndexed'
  BY <1>1 DEF ServedIsIndexed, HasRow, RowIs
<1>10. RowsHaveOriginals'
  BY <1>1 DEF RowsHaveOriginals, HasRow, RowIs
<1>11. QED
  BY <1>1, <1>2, <1>3, <1>4, <1>5, <1>6, <1>7, <1>8, <1>9, <1>10

\* The object of a document without text is overwritten.
LEMMA PutStep ==
    ASSUME IInv, NEW w \in Worker, Put(w)
    PROVE  IInv'
<1> USE BoundAssumption, NoneAssumption
    DEF IInv, TypeOK, Put, Goto, Return, CloseJob, Unlock, Lock, NewId, RowWritten, db, worker, deleter,
        InSession, Writing, Committed, DocId, JobId
<1>1. TypeOK'
  BY TypeStep DEF Next, Advance, AdvanceDelete
<1>2. LockInv'
  BY <1>1 DEF LockInv, HasRow, RowIs
<1>3. UniqueIds'
  BY <1>1 DEF UniqueIds, HasRow, RowIs
<1>4. Allocated'
  BY <1>1 DEF Allocated, HasRow, RowIs
<1>5. PrivateId'
  BY <1>1 DEF PrivateId, HasRow, RowIs
<1>6. WriterInv'
  BY <1>1, WriterIsAlone DEF WriterInv, HasRow, RowIs
<1>7. DeleterInv'
  BY <1>1 DEF DeleterInv, HasRow, RowIs
<1>8. TextOfOneVersion'
  BY TextKept
<1>9. ServedIsIndexed'
  <2>1. wdoc[w] \in DocId /\ chunks[wdoc[w]] = {} /\ chunks' = chunks
    BY WriterIsAlone DEF WriterInv
  <2>2. \A d \in DocId \ {wdoc[w]} : storage'[d] = storage[d]
    BY <2>1
  <2>3. QED
    BY <2>1, <2>2 DEF ServedIsIndexed
<1>10. RowsHaveOriginals'
  BY <1>1 DEF RowsHaveOriginals, HasRow, RowIs
<1>11. QED
  BY <1>1, <1>2, <1>3, <1>4, <1>5, <1>6, <1>7, <1>8, <1>9, <1>10

\* Row and text appear together, from the bytes put before.
LEMMA CommitStep ==
    ASSUME IInv, NEW w \in Worker, Commit(w)
    PROVE  IInv'
<1> USE BoundAssumption, NoneAssumption
    DEF IInv, TypeOK, Commit, Goto, Return, CloseJob, Unlock, Lock, NewId, RowWritten, db, worker, deleter,
        InSession, Writing, Committed, DocId, JobId
<1>1. TypeOK'
  BY TypeStep DEF Next, Advance, AdvanceDelete
<1>2. LockInv'
  BY <1>1 DEF LockInv, HasRow, RowIs
<1>3. UniqueIds'
  BY <1>1, WriterIsAlone DEF UniqueIds, RowIs
<1>4. Allocated'
  BY <1>1 DEF Allocated, HasRow, RowIs
<1>5. PrivateId'
  BY <1>1 DEF PrivateId, HasRow, RowIs
<1>6. WriterInv'
  BY <1>1, WriterIsAlone DEF WriterInv, RowIs
<1>7. DeleterInv'
  BY <1>1, WriterIsAlone DEF DeleterInv, HasRow, RowIs
<1>8. TextOfOneVersion'
  <2> SUFFICES ASSUME NEW d \in DocId, chunks'[d] # {}
               PROVE  \E u \in Uri : RowIs(u, d)' /\ chunks'[d] = {docs'[u].hash}
    BY DEF TextOfOneVersion
  <2>1. wuri[w] \in Uri /\ wdoc[w] \in DocId
    BY WriterIsAlone
  <2>2. docs'[wuri[w]].id = wdoc[w] /\ docs'[wuri[w]].hash = wdata[w] /\ docs'[wuri[w]] # None
    <3>1. PICK a \in BOOLEAN :
            docs'[wuri[w]] = [id |-> wdoc[w], hash |-> wdata[w], active |-> a]
      BY <2>1
    <3>2. wdata[w] \in Content
      OBVIOUS
    <3>3. docs'[wuri[w]] \in Row
      BY <2>1, <3>1, <3>2 DEF Row
    <3>4. QED
      BY <3>1, <3>3, NoRowAssumption
  <2>3. CASE d = wdoc[w]
    <3>1. chunks'[d] = {wdata[w]}
      BY <2>1, <2>3 DEF WriterInv, TextOf
    <3>2. QED
      BY <2>1, <2>2, <2>3, <3>1 DEF RowIs
  <2>4. CASE d # wdoc[w]
    <3>1. chunks'[d] = chunks[d]
      BY <2>1, <2>4
    <3>2. PICK u \in Uri : RowIs(u, d) /\ chunks[d] = {docs[u].hash}
      BY <3>1 DEF TextOfOneVersion
    <3>3. u # wuri[w]
      BY <3>2, <2>1, <2>4 DEF WriterInv, RowIs
    <3>4. docs'[u] = docs[u]
      BY <3>3, <2>1
    <3>5. QED
      BY <3>1, <3>2, <3>4 DEF RowIs
  <2>5. QED
    BY <2>3, <2>4
<1>9. ServedIsIndexed'
  <2>1. wdoc[w] \in DocId /\ chunks[wdoc[w]] = {} /\ storage[wdoc[w]] = wdata[w]
    BY WriterIsAlone DEF WriterInv
  <2>2. chunks'[wdoc[w]] \subseteq {wdata[w]} /\ storage' = storage
    BY <2>1 DEF TextOf
  <2>3. \A d \in DocId \ {wdoc[w]} : chunks'[d] = chunks[d]
    BY <2>1
  <2>4. QED
    BY <2>1, <2>2, <2>3 DEF ServedIsIndexed
<1>10. RowsHaveOriginals'
  <2>1. wuri[w] \in Uri /\ storage[wdoc[w]] = wdata[w] /\ wdata[w] # None
    BY WriterIsAlone DEF WriterInv
  <2>2. docs'[wuri[w]].id = wdoc[w] /\ storage' = storage
    BY <2>1
  <2>3. \A u \in Uri \ {wuri[w]} : docs'[u] = docs[u]
    BY <2>1
  <2>4. QED
    BY <2>1, <2>2, <2>3 DEF RowsHaveOriginals
<1>11. QED
  BY <1>1, <1>2, <1>3, <1>4, <1>5, <1>6, <1>7, <1>8, <1>9, <1>10

\* Numbers given out stay so when no number is given out and nothing new is named.
LEMMA AllocatedKept ==
    ASSUME Allocated, UNCHANGED <<docs, chunks, nextId, dpc, ddoc>>,
           \A w \in Worker : pc'[w] # "idle" => pc[w] # "idle" /\ wjob'[w] = wjob[w],
           \A w \in Worker : wdoc'[w] # None => wdoc'[w] = wdoc[w]
    PROVE  Allocated'
BY DEF Allocated

\* Closing the job touches neither rows nor text.
LEMMA CloseSuccessStep ==
    ASSUME IInv, NEW w \in Worker, CloseSuccess(w)
    PROVE  IInv'
<1> USE BoundAssumption, NoneAssumption
    DEF IInv, TypeOK, CloseSuccess, Goto, Return, CloseJob, Unlock, Lock, NewId, RowWritten, db, worker, deleter,
        InSession, Writing, Committed, DocId, JobId
<1>1. TypeOK'
  BY TypeStep DEF Next, Advance, AdvanceDelete
<1>2. LockInv'
  <2>1. lock' = lock /\ \A v \in Worker \ {w} : pc'[v] = pc[v] /\ wuri'[v] = wuri[v]
    OBVIOUS
  <2>2. pc[w] \notin Writing /\ pc'[w] \notin Writing
    OBVIOUS
  <2>3. QED
    BY <2>1, <2>2, SMTT(30) DEF LockInv
<1>3. UniqueIds'
  BY <1>1 DEF UniqueIds, HasRow, RowIs
<1>4. Allocated'
  <2>1. UNCHANGED <<docs, chunks, nextId, dpc, ddoc>>
    OBVIOUS
  <2>2. \A v \in Worker : pc'[v] # "idle" => pc[v] # "idle" /\ wjob'[v] = wjob[v]
    OBVIOUS
  <2>3. \A v \in Worker : wdoc'[v] # None => wdoc'[v] = wdoc[v]
    OBVIOUS
  <2>4. QED
    BY <2>1, <2>2, <2>3, AllocatedKept, Zenon
<1>5. PrivateId'
  <2>1. docs' = docs /\ chunks' = chunks /\ dpc' = dpc /\ ddoc' = ddoc
    OBVIOUS
  <2>2. \A v \in Worker : pc'[v] # "idle" =>
            pc[v] # "idle" /\ wjob'[v] = wjob[v] /\ wdoc'[v] = wdoc[v]
    OBVIOUS
  <2>3. \A v \in Worker : pc'[v] \in InSession => pc[v] \in InSession
    OBVIOUS
  <2>4. QED
    BY <2>1, <2>2, <2>3 DEF PrivateId, HasRow, RowIs
<1>6. WriterInv'
  BY <1>1 DEF WriterInv, RowIs
<1>7. DeleterInv'
  BY <1>1 DEF DeleterInv, HasRow, RowIs
<1>8. TextOfOneVersion'
  BY TextKept
<1>9. ServedIsIndexed'
  BY <1>1 DEF ServedIsIndexed, HasRow, RowIs
<1>10. RowsHaveOriginals'
  BY <1>1 DEF RowsHaveOriginals, HasRow, RowIs
<1>11. QED
  BY <1>1, <1>2, <1>3, <1>4, <1>5, <1>6, <1>7, <1>8, <1>9, <1>10

\* Neither does queueing the summary.
LEMMA EnqueueStep ==
    ASSUME IInv, NEW w \in Worker, Enqueue(w)
    PROVE  IInv'
<1> USE BoundAssumption, NoneAssumption
    DEF IInv, TypeOK, Enqueue, Goto, Return, CloseJob, Unlock, Lock, NewId, RowWritten, db, worker, deleter,
        InSession, Writing, Committed, DocId, JobId
<1>1. TypeOK'
  BY TypeStep DEF Next, Advance, AdvanceDelete
<1>2. LockInv'
  BY <1>1 DEF LockInv, HasRow, RowIs
<1>3. UniqueIds'
  BY <1>1 DEF UniqueIds, HasRow, RowIs
<1>4. Allocated'
  BY <1>1 DEF Allocated, HasRow, RowIs
<1>5. PrivateId'
  BY <1>1 DEF PrivateId, HasRow, RowIs
<1>6. WriterInv'
  BY <1>1 DEF WriterInv, HasRow, RowIs
<1>7. DeleterInv'
  BY <1>1 DEF DeleterInv, HasRow, RowIs
<1>8. TextOfOneVersion'
  BY TextKept
<1>9. ServedIsIndexed'
  BY <1>1 DEF ServedIsIndexed, HasRow, RowIs
<1>10. RowsHaveOriginals'
  BY <1>1 DEF RowsHaveOriginals, HasRow, RowIs
<1>11. QED
  BY <1>1, <1>2, <1>3, <1>4, <1>5, <1>6, <1>7, <1>8, <1>9, <1>10

\* A rollback frees the lock and leaves the text as it is.
LEMMA RaiseStep ==
    ASSUME IInv, NEW w \in Worker, Raise(w)
    PROVE  IInv'
<1> USE BoundAssumption, NoneAssumption
    DEF IInv, TypeOK, Raise, Goto, Return, CloseJob, Unlock, Lock, NewId, RowWritten, db, worker, deleter,
        InSession, Writing, Committed, DocId, JobId
<1>1. TypeOK'
  BY TypeStep DEF Next, Advance, AdvanceDelete
<1>2. LockInv'
  BY <1>1 DEF LockInv, HasRow, RowIs
<1>3. UniqueIds'
  BY <1>1 DEF UniqueIds, HasRow, RowIs
<1>4. Allocated'
  BY <1>1 DEF Allocated, HasRow, RowIs
<1>5. PrivateId'
  BY <1>1 DEF PrivateId, HasRow, RowIs
<1>6. WriterInv'
  BY <1>1 DEF WriterInv, HasRow, RowIs
<1>7. DeleterInv'
  BY <1>1 DEF DeleterInv, HasRow, RowIs
<1>8. TextOfOneVersion'
  BY TextKept
<1>9. ServedIsIndexed'
  BY <1>1 DEF ServedIsIndexed, HasRow, RowIs
<1>10. RowsHaveOriginals'
  BY <1>1 DEF RowsHaveOriginals, HasRow, RowIs
<1>11. QED
  BY <1>1, <1>2, <1>3, <1>4, <1>5, <1>6, <1>7, <1>8, <1>9, <1>10

\* Recording the failure touches only the job.
LEMMA CloseFailedStep ==
    ASSUME IInv, NEW w \in Worker, CloseFailed(w)
    PROVE  IInv'
<1> USE BoundAssumption, NoneAssumption
    DEF IInv, TypeOK, CloseFailed, Goto, Return, CloseJob, Unlock, Lock, NewId, RowWritten, db, worker, deleter,
        InSession, Writing, Committed, DocId, JobId
<1>1. TypeOK'
  BY TypeStep DEF Next, Advance, AdvanceDelete
<1>2. LockInv'
  BY <1>1 DEF LockInv, HasRow, RowIs
<1>3. UniqueIds'
  BY <1>1 DEF UniqueIds, HasRow, RowIs
<1>4. Allocated'
  BY <1>1 DEF Allocated, HasRow, RowIs
<1>5. PrivateId'
  BY <1>1 DEF PrivateId, HasRow, RowIs
<1>6. WriterInv'
  BY <1>1 DEF WriterInv, HasRow, RowIs
<1>7. DeleterInv'
  BY <1>1 DEF DeleterInv, HasRow, RowIs
<1>8. TextOfOneVersion'
  BY TextKept
<1>9. ServedIsIndexed'
  BY <1>1 DEF ServedIsIndexed, HasRow, RowIs
<1>10. RowsHaveOriginals'
  BY <1>1 DEF RowsHaveOriginals, HasRow, RowIs
<1>11. QED
  BY <1>1, <1>2, <1>3, <1>4, <1>5, <1>6, <1>7, <1>8, <1>9, <1>10

\* A crash is a rollback nobody records.
LEMMA CrashStep ==
    ASSUME IInv, NEW w \in Worker, Crash(w)
    PROVE  IInv'
<1> USE BoundAssumption, NoneAssumption
    DEF IInv, TypeOK, Crash, Goto, Return, CloseJob, Unlock, Lock, NewId, RowWritten, db, worker, deleter,
        InSession, Writing, Committed, DocId, JobId
<1>1. TypeOK'
  BY TypeStep DEF Next, Advance, AdvanceDelete
<1>2. LockInv'
  BY <1>1 DEF LockInv, HasRow, RowIs
<1>3. UniqueIds'
  BY <1>1 DEF UniqueIds, HasRow, RowIs
<1>4. Allocated'
  BY <1>1 DEF Allocated, HasRow, RowIs
<1>5. PrivateId'
  BY <1>1 DEF PrivateId, HasRow, RowIs
<1>6. WriterInv'
  BY <1>1 DEF WriterInv, HasRow, RowIs
<1>7. DeleterInv'
  BY <1>1 DEF DeleterInv, HasRow, RowIs
<1>8. TextOfOneVersion'
  BY TextKept
<1>9. ServedIsIndexed'
  BY <1>1 DEF ServedIsIndexed, HasRow, RowIs
<1>10. RowsHaveOriginals'
  BY <1>1 DEF RowsHaveOriginals, HasRow, RowIs
<1>11. QED
  BY <1>1, <1>2, <1>3, <1>4, <1>5, <1>6, <1>7, <1>8, <1>9, <1>10

\* A delete request remembers a row that exists.
LEMMA RequestDeleteStep ==
    ASSUME IInv, NEW x \in Deleter, NEW u \in Uri, RequestDelete(x, u)
    PROVE  IInv'
<1> USE BoundAssumption, NoneAssumption
    DEF IInv, TypeOK, RequestDelete, Goto, Return, CloseJob, Unlock, Lock, NewId, RowWritten, db, worker, deleter,
        InSession, Writing, Committed, DocId, JobId
<1>1. TypeOK'
  BY TypeStep DEF Next, Advance, AdvanceDelete
<1>2. LockInv'
  BY <1>1 DEF LockInv, HasRow, RowIs
<1>3. UniqueIds'
  BY <1>1 DEF UniqueIds, HasRow, RowIs
<1>4. Allocated'
  BY <1>1 DEF Allocated, HasRow, RowIs
<1>5. PrivateId'
  BY <1>1 DEF PrivateId, HasRow, RowIs
<1>6. WriterInv'
  BY <1>1 DEF WriterInv, HasRow, RowIs
<1>7. DeleterInv'
  BY <1>1 DEF DeleterInv, HasRow, RowIs
<1>8. TextOfOneVersion'
  BY TextKept
<1>9. ServedIsIndexed'
  BY <1>1 DEF ServedIsIndexed, HasRow, RowIs
<1>10. RowsHaveOriginals'
  BY <1>1 DEF RowsHaveOriginals, HasRow, RowIs
<1>11. QED
  BY <1>1, <1>2, <1>3, <1>4, <1>5, <1>6, <1>7, <1>8, <1>9, <1>10

\* The row goes only when no session holds it, and its text with it.
LEMMA DeleteRowStep ==
    ASSUME IInv, NEW x \in Deleter, DeleteRow(x)
    PROVE  IInv'
<1> USE BoundAssumption, NoneAssumption
    DEF IInv, TypeOK, DeleteRow, Goto, Return, CloseJob, Unlock, Lock, NewId, RowWritten, db, worker, deleter,
        InSession, Writing, Committed, DocId, JobId
<1>1. TypeOK'
  BY TypeStep DEF Next, Advance, AdvanceDelete
<1>2. LockInv'
  BY <1>1 DEF LockInv, HasRow, RowIs
<1>3. UniqueIds'
  BY <1>1 DEF UniqueIds, HasRow, RowIs
<1>4. Allocated'
  <2> dpc[x] # "idle"
    OBVIOUS
  <2>1. CASE HasRow(ddoc[x]) /\ Referenced(ddoc[x])
    BY <2>1 DEF Allocated
  <2>2. CASE ~(HasRow(ddoc[x]) /\ Referenced(ddoc[x]))
    <3>1. \A y \in Deleter : dpc'[y] # "idle" => dpc[y] # "idle" /\ ddoc'[y] = ddoc[y]
      BY <2>2
    <3>2. \A d \in DocId : chunks'[d] # {} => chunks[d] # {}
      BY <2>2
    <3>3. \A u \in Uri : docs'[u] # None => docs'[u] = docs[u]
      BY <2>2
    <3>4. UNCHANGED <<pc, wjob, wdoc, nextId>>
      OBVIOUS
    <3>5. QED
      BY <3>1, <3>2, <3>3, <3>4 DEF Allocated
  <2>3. QED
    BY <2>1, <2>2
<1>5. PrivateId'
  <2>1. CASE HasRow(ddoc[x]) /\ Referenced(ddoc[x])
    <3>1. UNCHANGED <<docs, chunks, pc, wdoc, wjob>>
      BY <2>1
    <3>2. \A y \in Deleter : dpc'[y] # "idle" => dpc[y] # "idle" /\ ddoc'[y] = ddoc[y]
      BY <2>1
    <3>3. QED
      BY <3>1, <3>2 DEF PrivateId, HasRow, RowIs
  <2>2. CASE ~(HasRow(ddoc[x]) /\ Referenced(ddoc[x]))
    BY <2>2 DEF PrivateId, HasRow, RowIs
  <2>3. QED
    BY <2>1, <2>2
<1>6. WriterInv'
  <2>1. CASE HasRow(ddoc[x]) /\ Referenced(ddoc[x])
    BY <2>1 DEF WriterInv, RowIs
  <2>2. CASE ~(HasRow(ddoc[x]) /\ Referenced(ddoc[x]))
    <3>1. \A v \in Worker : pc[v] \in Writing =>
              wuri[v] \in Uri /\ docs'[wuri[v]] = docs[wuri[v]] /\ wdoc[v] \in DocId
      BY <2>2, WriterIsAlone
    <3>2. \A d \in DocId : chunks[d] = {} => chunks'[d] = {}
      BY <2>2
    <3>3. UNCHANGED <<pc, wuri, wdata, wdoc, wjob, storage>>
      OBVIOUS
    <3>4. QED
      BY <3>1, <3>2, <3>3 DEF WriterInv, RowIs
  <2>3. QED
    BY <2>1, <2>2
<1>7. DeleterInv'
  <2>1. CASE HasRow(ddoc[x]) /\ Referenced(ddoc[x])
    <3>1. UNCHANGED docs
      BY <2>1
    <3>2. \A y \in Deleter : dpc'[y] = "object" => dpc[y] = "object" /\ ddoc'[y] = ddoc[y]
      BY <2>1
    <3>3. QED
      BY <3>1, <3>2 DEF DeleterInv, HasRow, RowIs
  <2>2. CASE ~(HasRow(ddoc[x]) /\ Referenced(ddoc[x]))
    <3>1. ~HasRow(ddoc[x])'
      BY <2>2 DEF HasRow, RowIs
    <3>2. \A d \in DocId : HasRow(d)' => HasRow(d)
      BY <2>2 DEF HasRow, RowIs
    <3>3. ddoc' = ddoc /\ \A y \in Deleter \ {x} : dpc'[y] = dpc[y]
      BY <2>2
    <3>4. \A y \in Deleter : dpc'[y] = "object" => ddoc[y] \in DocId
      BY <1>1, <3>3
    <3>5. QED
      BY <3>1, <3>2, <3>3, <3>4 DEF DeleterInv
  <2>3. QED
    BY <2>1, <2>2
<1>8. TextOfOneVersion'
  <2>1. CASE HasRow(ddoc[x]) /\ Referenced(ddoc[x])
    BY <2>1, TextKept
  <2>2. CASE ~(HasRow(ddoc[x]) /\ Referenced(ddoc[x]))
    <3> SUFFICES ASSUME NEW d \in DocId, chunks'[d] # {}
                 PROVE  \E u \in Uri : RowIs(u, d)' /\ chunks'[d] = {docs'[u].hash}
      BY DEF TextOfOneVersion
    <3>1. d # ddoc[x] /\ chunks'[d] = chunks[d]
      BY <2>2
    <3>2. PICK u \in Uri : RowIs(u, d) /\ chunks[d] = {docs[u].hash}
      BY <3>1 DEF TextOfOneVersion
    <3>3. docs'[u] = docs[u]
      BY <2>2, <3>1, <3>2 DEF RowIs
    <3>4. QED
      BY <3>1, <3>2, <3>3 DEF RowIs
  <2>3. QED
    BY <2>1, <2>2
<1>9. ServedIsIndexed'
  <2>1. \A d \in DocId : chunks'[d] \subseteq chunks[d]
    BY DEF HasRow
  <2>2. UNCHANGED storage
    OBVIOUS
  <2>3. QED
    BY <2>1, <2>2 DEF ServedIsIndexed
<1>10. RowsHaveOriginals'
  <2>1. \A u \in Uri : docs'[u] # None => docs'[u] = docs[u]
    BY DEF HasRow, RowIs
  <2>2. UNCHANGED storage
    OBVIOUS
  <2>3. QED
    BY <2>1, <2>2 DEF RowsHaveOriginals
<1>11. QED
  BY <1>1, <1>2, <1>3, <1>4, <1>5, <1>6, <1>7, <1>8, <1>9, <1>10

\* Deleting the chunk rows shows nobody anything before the commit.
LEMMA DeleteChunksStep ==
    ASSUME IInv, NEW x \in Deleter, DeleteChunks(x)
    PROVE  IInv'
<1> USE BoundAssumption, NoneAssumption
    DEF IInv, TypeOK, DeleteChunks, Goto, Return, CloseJob, Unlock, Lock, NewId, RowWritten, db, worker, deleter,
        InSession, Writing, Committed, DocId, JobId
<1>1. TypeOK'
  BY TypeStep DEF Next, Advance, AdvanceDelete
<1>2. LockInv'
  BY <1>1 DEF LockInv, HasRow, RowIs
<1>3. UniqueIds'
  BY <1>1 DEF UniqueIds, HasRow, RowIs
<1>4. Allocated'
  BY <1>1 DEF Allocated, HasRow, RowIs
<1>5. PrivateId'
  BY <1>1 DEF PrivateId, HasRow, RowIs
<1>6. WriterInv'
  BY <1>1 DEF WriterInv, HasRow, RowIs
<1>7. DeleterInv'
  BY <1>1 DEF DeleterInv, HasRow, RowIs
<1>8. TextOfOneVersion'
  BY TextKept
<1>9. ServedIsIndexed'
  BY <1>1 DEF ServedIsIndexed, HasRow, RowIs
<1>10. RowsHaveOriginals'
  BY <1>1 DEF RowsHaveOriginals, HasRow, RowIs
<1>11. QED
  BY <1>1, <1>2, <1>3, <1>4, <1>5, <1>6, <1>7, <1>8, <1>9, <1>10

\* The object goes only after the row.
LEMMA DeleteObjectStep ==
    ASSUME IInv, NEW x \in Deleter, DeleteObject(x)
    PROVE  IInv'
<1> USE BoundAssumption, NoneAssumption
    DEF IInv, TypeOK, DeleteObject, Goto, Return, CloseJob, Unlock, Lock, NewId, RowWritten, db, worker, deleter,
        InSession, Writing, Committed, DocId, JobId
<1>1. TypeOK'
  BY TypeStep DEF Next, Advance, AdvanceDelete
<1>2. LockInv'
  BY <1>1 DEF LockInv, HasRow, RowIs
<1>3. UniqueIds'
  BY <1>1 DEF UniqueIds, HasRow, RowIs
<1>4. Allocated'
  BY <1>1 DEF Allocated, HasRow, RowIs
<1>5. PrivateId'
  BY <1>1 DEF PrivateId, HasRow, RowIs
<1>6. WriterInv'
  <2>1. \A v \in Worker : pc[v] \in Writing =>
            wdoc[v] \in DocId /\ ddoc[x] # wdoc[v]
    BY WriterIsAlone
  <2>2. \A v \in Worker : pc[v] \in Writing => storage'[wdoc[v]] = storage[wdoc[v]]
    BY <2>1
  <2>3. UNCHANGED <<docs, chunks, pc, wuri, wdata, wdoc, wjob>>
    OBVIOUS
  <2>4. QED
    BY <2>2, <2>3 DEF WriterInv, RowIs
<1>7. DeleterInv'
  BY <1>1 DEF DeleterInv, HasRow, RowIs
<1>8. TextOfOneVersion'
  BY TextKept
<1>9. ServedIsIndexed'
  <2>1. ddoc[x] \in DocId /\ chunks[ddoc[x]] = {} /\ chunks' = chunks
    BY DEF DeleterInv, TextOfOneVersion, HasRow
  <2>2. \A d \in DocId \ {ddoc[x]} : storage'[d] = storage[d]
    BY <2>1
  <2>3. QED
    BY <2>1, <2>2 DEF ServedIsIndexed
<1>10. RowsHaveOriginals'
  <2>1. \A u \in Uri : docs[u] # None => docs[u].id \in DocId /\ docs[u].id # ddoc[x]
    BY RowType DEF DeleterInv, HasRow, RowIs
  <2>2. \A d \in DocId \ {ddoc[x]} : storage'[d] = storage[d]
    OBVIOUS
  <2>3. docs' = docs
    OBVIOUS
  <2>4. QED
    BY <2>1, <2>2, <2>3 DEF RowsHaveOriginals
<1>11. QED
  BY <1>1, <1>2, <1>3, <1>4, <1>5, <1>6, <1>7, <1>8, <1>9, <1>10

\* A dead delete request changes nothing.
LEMMA CrashDeleteStep ==
    ASSUME IInv, NEW x \in Deleter, CrashDelete(x)
    PROVE  IInv'
<1> USE BoundAssumption, NoneAssumption
    DEF IInv, TypeOK, CrashDelete, Goto, Return, CloseJob, Unlock, Lock, NewId, RowWritten, db, worker, deleter,
        InSession, Writing, Committed, DocId, JobId
<1>1. TypeOK'
  BY TypeStep DEF Next, Advance, AdvanceDelete
<1>2. LockInv'
  BY <1>1 DEF LockInv, HasRow, RowIs
<1>3. UniqueIds'
  BY <1>1 DEF UniqueIds, HasRow, RowIs
<1>4. Allocated'
  BY <1>1 DEF Allocated, HasRow, RowIs
<1>5. PrivateId'
  BY <1>1 DEF PrivateId, HasRow, RowIs
<1>6. WriterInv'
  BY <1>1 DEF WriterInv, HasRow, RowIs
<1>7. DeleterInv'
  BY <1>1 DEF DeleterInv, HasRow, RowIs
<1>8. TextOfOneVersion'
  BY TextKept
<1>9. ServedIsIndexed'
  BY <1>1 DEF ServedIsIndexed, HasRow, RowIs
<1>10. RowsHaveOriginals'
  BY <1>1 DEF RowsHaveOriginals, HasRow, RowIs
<1>11. QED
  BY <1>1, <1>2, <1>3, <1>4, <1>5, <1>6, <1>7, <1>8, <1>9, <1>10

\* The invariant is preserved by every step.
LEMMA IInvStep == IInv /\ [Next]_vars => IInv'
<1> SUFFICES ASSUME IInv, [Next]_vars PROVE IInv'
  OBVIOUS
<1>1. CASE UNCHANGED vars
  <2>1. TypeOK'
    BY TypeStep DEF IInv
  <2>2. QED
    BY <1>1, <2>1
    DEF IInv, vars, db, worker, deleter, LockInv, UniqueIds, Allocated, PrivateId,
        WriterInv, DeleterInv, TextOfOneVersion, ServedIsIndexed, RowsHaveOriginals,
        HasRow, RowIs
<1>2. ASSUME NEW w \in Worker, Advance(w) PROVE IInv'
  BY <1>2, CloseSkippedStep, FlushInsertStep, FlushUpdateStep, ClearChunksStep,
     PutStep, CommitStep, CloseSuccessStep, EnqueueStep, CloseFailedStep
  DEF Advance
<1>3. ASSUME NEW x \in Deleter, AdvanceDelete(x) PROVE IInv'
  BY <1>3, DeleteChunksStep, DeleteRowStep, DeleteObjectStep DEF AdvanceDelete
<1>4. QED
  BY <1>1, <1>2, <1>3, StartStep, RaiseStep, CrashStep, RequestDeleteStep,
     CrashDeleteStep
  DEF Next, Quiet

LEMMA Invariance == Spec => []IInv
BY IInvInit, IInvStep, PTL DEF Spec

\* At every moment the text indexed under a document comes from the bytes the
\* file route would serve for it.
THEOREM ServedText == Spec => []ServedIsIndexed
<1>1. IInv => ServedIsIndexed
  BY DEF IInv
<1>2. QED
  BY Invariance, <1>1, PTL

\* The text of a document is whole and of the version its row names, or absent.
THEOREM WholeText == Spec => []TextOfOneVersion
<1>1. IInv => TextOfOneVersion
  BY DEF IInv
<1>2. QED
  BY Invariance, <1>1, PTL

\* Every document has its original in the object store.
THEOREM OriginalsKept == Spec => []RowsHaveOriginals
<1>1. IInv => RowsHaveOriginals
  BY DEF IInv
<1>2. QED
  BY Invariance, <1>1, PTL

-----------------------------------------------------------------------------
\* A step that neither commits nor deletes a row changes at most the text of
\* one document, and only by removing it.
LEMMA OtherSteps ==
    ASSUME IInv, Next,
           \A w \in Worker : ~Commit(w), \A x \in Deleter : ~DeleteRow(x)
    PROVE  /\ docs' = docs
           /\ \/ chunks' = chunks
              \/ \E w \in Worker : ClearChunks(w)
<1> USE DEF Next, Advance, AdvanceDelete, db, Quiet, vars
<1>1. ASSUME NEW w \in Worker, NEW u \in Uri, NEW c \in Content, Start(w, u, c)
      PROVE  docs' = docs /\ chunks' = chunks
  BY <1>1 DEF Start
<1>2. ASSUME NEW w \in Worker, Advance(w)
      PROVE  docs' = docs /\ (chunks' = chunks \/ ClearChunks(w))
  BY <1>2 DEF CloseSkipped, FlushInsert, FlushUpdate, ClearChunks, Put, CloseSuccess,
     Enqueue, CloseFailed
<1>3. ASSUME NEW w \in Worker, Raise(w) \/ Crash(w)
      PROVE  docs' = docs /\ chunks' = chunks
  BY <1>3 DEF Raise, Crash
<1>4. ASSUME NEW x \in Deleter, NEW u \in Uri, RequestDelete(x, u)
      PROVE  docs' = docs /\ chunks' = chunks
  BY <1>4 DEF RequestDelete
<1>5. ASSUME NEW x \in Deleter, DeleteChunks(x) \/ DeleteObject(x) \/ CrashDelete(x)
      PROVE  docs' = docs /\ chunks' = chunks
  BY <1>5 DEF DeleteChunks, DeleteObject, CrashDelete
<1>6. QED
  BY <1>1, <1>2, <1>3, <1>4, <1>5

\* A re-ingest never gives a document another id.
THEOREM IdKept == Spec => IdPreserved
<1> DEFINE Kept == \A u \in Uri : docs[u] # None /\ docs'[u] # None => docs'[u].id = docs[u].id
<1>1. ASSUME IInv, [Next]_vars PROVE Kept
  <2>1. CASE docs' = docs
    BY <2>1
  <2>2. ASSUME NEW w \in Worker, Commit(w) PROVE Kept
    <3>1. pc[w] \in Writing /\ pc[w] = "write"
      BY <2>2 DEF Commit, RowWritten, Writing
    <3>2. wuri[w] \in Uri /\ (RowIs(wuri[w], wdoc[w]) \/ docs[wuri[w]] = None)
      BY <1>1, <3>1, WriterIsAlone DEF IInv, WriterInv
    <3>3. docs \in [Uri -> Row \cup {None}]
      BY <1>1 DEF IInv, TypeOK
    <3>4. QED
      BY <2>2, <3>2, <3>3 DEF Commit, RowWritten, RowIs
  <2>3. ASSUME NEW x \in Deleter, DeleteRow(x) PROVE Kept
    BY <2>3 DEF DeleteRow
  <2>4. QED
    BY <1>1, <2>1, <2>2, <2>3, OtherSteps DEF vars, db
<1>2. QED
  BY Invariance, <1>1, PTL DEF Spec, IdPreserved

-----------------------------------------------------------------------------
(* ---- Ingest implements DocIndex ---------------------------------------- *)

LEMMA ViewInit == Init => Abstract!Init
BY DEF Init, Abstract!Init, View

\* The view of a URI depends on its row and on that row's text only.
LEMMA ViewSame ==
    ASSUME NEW u \in Uri, docs'[u] = docs[u],
           docs[u] # None => chunks'[docs[u].id] = chunks[docs[u].id]
    PROVE  View'[u] = View[u]
BY DEF View

\* ClearChunks blanks the entry of the URI being updated.
LEMMA ClearChunksBlanks ==
    ASSUME IInv, NEW w \in Worker, ClearChunks(w)
    PROVE  Abstract!Blank(wuri[w])
<1> DEFINE u == wuri[w]
<1>1. pc[w] = "clear" /\ pc[w] \in Writing /\ docs' = docs
  BY DEF ClearChunks, Writing
<1>2. u \in Uri /\ wdoc[w] \in DocId /\ RowIs(u, wdoc[w])
  BY <1>1, WriterIsAlone DEF IInv, WriterInv
<1>3. \A v \in Uri \ {u} : docs[v] # None => docs[v].id # wdoc[w]
  BY <1>1, <1>2, WriterIsAlone DEF RowIs
<1>4. chunks' = [chunks EXCEPT ![wdoc[w]] = {}] /\ chunks \in [DocId -> SUBSET Content]
  BY DEF ClearChunks, IInv, TypeOK
<1>5. \A v \in Uri \ {u} : View'[v] = View[v]
  <2> TAKE v \in Uri \ {u}
  <2>1. docs[v] # None => docs[v].id \in DocId /\ docs[v].id # wdoc[w]
    BY <1>3, RowType DEF IInv
  <2>2. QED
    BY <1>1, <1>4, <2>1, ViewSame
<1>6. View[u] # None
  <2>1. View[u] \in Abstract!Entry
    <3>1. docs[u] \in Row /\ docs[u] # None
      BY <1>2, RowType DEF IInv, RowIs
    <3>2. chunks[docs[u].id] \in SUBSET Content
      BY <1>2, <1>4 DEF RowIs
    <3>3. QED
      BY <1>2, <3>1, <3>2 DEF View, Abstract!Entry, Row
  <2>2. QED
    BY <2>1, NoEntryAssumption
<1>7. View'[u] = [View[u] EXCEPT !.text = {}]
  <2>1. View[u] = [id |-> wdoc[w], hash |-> docs[u].hash, text |-> chunks[wdoc[w]],
                   active |-> docs[u].active]
    BY <1>2 DEF View, RowIs
  <2>2. View'[u] = [id |-> wdoc[w], hash |-> docs[u].hash, text |-> {},
                    active |-> docs[u].active]
    <3>1. chunks'[wdoc[w]] = {}
      BY <1>2, <1>4
    <3>2. QED
      BY <1>1, <1>2, <3>1 DEF View, RowIs
  <2>3. QED
    BY <2>1, <2>2
<1>8. View' = [View EXCEPT ![u].text = {}]
  BY <1>2, <1>5, <1>7 DEF View
<1>9. QED
  BY <1>6, <1>8 DEF Abstract!Blank

\* Commit creates the entry of a new row and replaces that of an updated one.
LEMMA CommitPublishes ==
    ASSUME IInv, NEW w \in Worker, Commit(w)
    PROVE  \/ Abstract!Create(wuri[w], wdata[w])
           \/ Abstract!Replace(wuri[w], wdata[w])
<1> DEFINE u == wuri[w]
           d == wdoc[w]
           c == wdata[w]
<1>1. pc[w] = "write" /\ pc[w] \in Writing /\ pc[w] # "idle"
  BY DEF Commit, RowWritten, Writing
<1>2. u \in Uri /\ d \in DocId /\ c \in Content
  BY <1>1, WriterIsAlone DEF IInv, TypeOK
<1>3. chunks[d] = {} /\ (RowIs(u, d) \/ docs[u] = None)
  BY <1>1 DEF IInv, WriterInv
<1>4. \A v \in Uri \ {u} : docs[v] # None => docs[v].id # d
  BY <1>1, <1>2, WriterIsAlone DEF RowIs
<1>5. chunks \in [DocId -> SUBSET Content] /\ docs \in [Uri -> Row \cup {None}]
  BY DEF IInv, TypeOK
<1>6. PICK a \in BOOLEAN :
        /\ docs' = [docs EXCEPT ![u] = [id |-> d, hash |-> c, active |-> a]]
        /\ docs[u] # None => (a => docs[u].active)
  BY DEF Commit, RowWritten
<1>7. chunks' = [chunks EXCEPT ![d] = TextOf(c)]
  BY <1>2, <1>3, <1>5 DEF Commit, RowWritten
<1>8. View'[u] = [id |-> d, hash |-> c, text |-> TextOf(c), active |-> a]
  <2>1. docs'[u] = [id |-> d, hash |-> c, active |-> a]
    BY <1>2, <1>5, <1>6
  <2>2. docs'[u] # None
    BY <1>2, <2>1, NoRowAssumption DEF Row
  <2>3. chunks'[d] = TextOf(c)
    BY <1>2, <1>5, <1>7
  <2>4. QED
    BY <1>2, <2>1, <2>2, <2>3 DEF View
<1>9. \A v \in Uri \ {u} : View'[v] = View[v]
  <2> TAKE v \in Uri \ {u}
  <2>1. docs'[v] = docs[v]
    BY <1>5, <1>6
  <2>2. docs[v] # None => docs[v].id \in DocId /\ docs[v].id # d
    BY <1>4, RowType DEF IInv
  <2>3. QED
    BY <1>5, <1>7, <2>1, <2>2, ViewSame
<1>10. View' = [View EXCEPT ![u] =
                 [id |-> d, hash |-> c, text |-> TextOf(c), active |-> a]]
  BY <1>2, <1>8, <1>9 DEF View
<1>11. \A v \in Uri : docs[v] # None => View[v].id = docs[v].id
  BY DEF View
<1>12. CASE docs[u] = None
  <2>1. View[u] = None
    BY <1>2, <1>12 DEF View
  <2>2. \A v \in Uri : View[v] # None => View[v].id # d
    BY <1>4, <1>11, <1>12 DEF View
  <2>3. QED
    BY <1>2, <1>10, <2>1, <2>2 DEF Abstract!Create, Abstract!TextOf, TextOf
<1>13. CASE docs[u] # None
  <2>1. RowIs(u, d) /\ docs[u] \in Row
    BY <1>2, <1>3, <1>13, RowType DEF IInv
  <2>2. View[u] = [id |-> d, hash |-> docs[u].hash, text |-> {}, active |-> docs[u].active]
    BY <1>2, <1>3, <2>1 DEF View, RowIs
  <2>3. View[u] # None
    BY <1>2, <2>1, <2>2, NoEntryAssumption DEF Abstract!Entry, Row
  <2>4. View[u].id = d /\ View[u].text = {} /\ View[u].active = docs[u].active
    BY <2>2
  <2>5. View' = [View EXCEPT ![u] =
                   [id |-> View[u].id, hash |-> c, text |-> TextOf(c), active |-> a]]
    BY <1>10, <2>4
  <2>6. a => View[u].active
    BY <1>6, <1>13, <2>4
  <2>7. QED
    BY <2>3, <2>4, <2>5, <2>6 DEF Abstract!Replace, Abstract!TextOf, TextOf
<1>14. QED
  BY <1>12, <1>13

\* DeleteRow removes the entry of the deleted row, if there was one to remove.
LEMMA DeleteRowRemoves ==
    ASSUME IInv, NEW x \in Deleter, DeleteRow(x)
    PROVE  View' = View \/ \E u \in Uri : Abstract!Remove(u)
<1> DEFINE d == ddoc[x]
<1>1. CASE HasRow(d) /\ Referenced(d)
  BY <1>1 DEF DeleteRow, View
<1>2. CASE ~(HasRow(d) /\ Referenced(d))
  <2>1. docs' = [u \in Uri |-> IF RowIs(u, d) THEN None ELSE docs[u]]
    BY <1>2 DEF DeleteRow
  <2>2. d \in DocId /\ chunks \in [DocId -> SUBSET Content]
    BY DEF DeleteRow, IInv, TypeOK
  <2>3. chunks' = [chunks EXCEPT ![d] = {}]
    BY <1>2 DEF DeleteRow
  <2>4. ASSUME NEW v \in Uri, ~RowIs(v, d)
        PROVE  View'[v] = View[v]
    <3>1. docs'[v] = docs[v]
      BY <2>1, <2>4
    <3>2. docs[v] # None => docs[v].id \in DocId /\ docs[v].id # d
      BY <2>4, RowType DEF IInv, RowIs
    <3>3. QED
      BY <2>2, <2>3, <3>1, <3>2, ViewSame
  <2>5. CASE ~HasRow(d)
    BY <2>4, <2>5 DEF HasRow, View
  <2>6. CASE HasRow(d)
    <3>1. PICK u \in Uri : RowIs(u, d)
      BY <2>6 DEF HasRow
    <3>2. \A v \in Uri \ {u} : View'[v] = View[v]
      BY <2>4, <3>1 DEF IInv, UniqueIds, RowIs
    <3>3. View'[u] = None
      BY <2>1, <3>1 DEF View
    <3>4. View' = [View EXCEPT ![u] = None]
      <4>1. View = [v \in Uri |-> View[v]] /\ View' = [v \in Uri |-> View'[v]]
        BY DEF View
      <4>2. QED
        BY <3>2, <3>3, <4>1
    <3>5. View[u] # None
      <4>1. docs[u] \in Row /\ docs[u] # None /\ docs[u].id \in DocId
        BY <3>1, RowType DEF IInv, RowIs
      <4>2. View[u] \in Abstract!Entry
        BY <2>2, <4>1 DEF View, Abstract!Entry, Row
      <4>3. QED
        BY <4>2, NoEntryAssumption
    <3>6. QED
      BY <3>4, <3>5 DEF Abstract!Remove
  <2>7. QED
    BY <2>5, <2>6
<1>3. QED
  BY <1>1, <1>2

\* Every step of the workers and deleters is a step of the abstract index or
\* invisible in it.
LEMMA StepImplements ==
    ASSUME IInv, [Next]_vars
    PROVE  [Abstract!Next]_View
<1>1. CASE UNCHANGED vars
  BY <1>1 DEF vars, db, View
<1>2. ASSUME NEW w \in Worker, Commit(w) PROVE [Abstract!Next]_View
  <2>1. wuri[w] \in Uri /\ wdata[w] \in Content
    BY <1>2 DEF Commit, RowWritten, IInv, TypeOK
  <2>2. QED
    BY <1>2, <2>1, CommitPublishes DEF Abstract!Next
<1>3. ASSUME NEW x \in Deleter, DeleteRow(x) PROVE [Abstract!Next]_View
  BY <1>3, DeleteRowRemoves DEF Abstract!Next
<1>4. ASSUME NEW w \in Worker, ClearChunks(w) PROVE [Abstract!Next]_View
  <2>1. wuri[w] \in Uri
    BY <1>4 DEF ClearChunks, IInv, TypeOK
  <2>2. QED
    BY <1>4, <2>1, ClearChunksBlanks DEF Abstract!Next
<1>5. CASE docs' = docs /\ chunks' = chunks
  BY <1>5 DEF View
<1>6. QED
  BY <1>1, <1>2, <1>3, <1>4, <1>5, OtherSteps

\* Ingest implements DocIndex: a reader sees, for each URI, nothing or one
\* entry with the whole of one version or no text, whatever workers, deletes,
\* failures and crashes do.
THEOREM Refinement == Spec => ImplementsIndex
<1>1. Init => Abstract!Init
  BY ViewInit
<1>2. IInv /\ [Next]_vars => [Abstract!Next]_View
  BY StepImplements
<1>3. QED
  BY Invariance, <1>1, <1>2, PTL DEF Spec, ImplementsIndex, Abstract!Spec
-----------------------------------------------------------------------------
(* ---- The job rows ------------------------------------------------------ *)

\* No two ingests under way share a job; a job has no row before its session
\* ends, and is "running" from the commit of the session to its close.
JobInv ==
    /\ \A j \in JobId : jobs[j] # None => j < nextId
    /\ \A w \in Worker : pc[w] # "idle" =>
        /\ wjob[w] < nextId
        /\ \A v \in Worker \ {w} : pc[v] # "idle" => wjob[v] # wjob[w]
    /\ \A w \in Worker : pc[w] \in InSession \cup {"fail"} => jobs[wjob[w]] = None
    /\ \A w \in Worker : pc[w] = "close" =>
        jobs[wjob[w]] = [status |-> "running", doc |-> None]
    /\ JobsNameRows

\* A row present before a step that is not its deletion is present after it.
LEMMA RowsStay ==
    ASSUME IInv, [Next]_vars, \A x \in Deleter : ~DeleteRow(x), NEW d \in DocId, HasRow(d)
    PROVE  HasRow(d)'
<1>1. CASE docs' = docs
  BY <1>1 DEF HasRow, RowIs
<1>2. ASSUME NEW w \in Worker, Commit(w) PROVE HasRow(d)'
  <2>1. pc[w] = "write" /\ pc[w] \in Writing
    BY <1>2 DEF Commit, RowWritten, Writing
  <2>2. wuri[w] \in Uri /\ (docs[wuri[w]] # None => RowIs(wuri[w], wdoc[w]))
    BY <2>1, WriterIsAlone DEF IInv, WriterInv
  <2>3. PICK u \in Uri : RowIs(u, d)
    BY DEF HasRow
  <2>4. TypeOK' /\ docs \in [Uri -> Row \cup {None}] /\ wdata[w] \in Content
    BY <2>1, TypeStep DEF IInv, TypeOK
  <2>5. CASE u # wuri[w]
    BY <1>2, <2>3, <2>4, <2>5 DEF Commit, RowWritten, HasRow, RowIs
  <2>6. CASE u = wuri[w]
    <3>1. wdoc[w] = d
      BY <2>2, <2>3, <2>6 DEF RowIs
    <3>2. PICK a \in BOOLEAN :
            docs'[u] = [id |-> d, hash |-> wdata[w], active |-> a]
      BY <1>2, <2>4, <2>6, <3>1 DEF Commit, RowWritten
    <3>3. docs'[u] # None
      BY <2>4, <3>2, NoRowAssumption DEF Row
    <3>4. QED
      BY <3>2, <3>3 DEF HasRow, RowIs
  <2>7. QED
    BY <2>5, <2>6
<1>3. QED
  BY <1>1, <1>2, OtherSteps DEF vars, db

\* A step that closes one job, of an ingest under way, with a status that fits.
LEMMA OneJobCloses ==
    ASSUME IInv, JobInv, IInv', NEW w \in Worker, pc[w] # "idle", nextId' = nextId,
           NEW job, jobs' = [jobs EXCEPT ![wjob[w]] = job],
           job.doc # None => job.status = "success" /\ HasRow(job.doc)',
           \A d \in DocId : HasRow(d) => HasRow(d)',
           \A v \in Worker \ {w} : pc'[v] = pc[v] /\ wjob'[v] = wjob[v],
           \/ pc'[w] \in {"idle", "enqueue"}
           \/ pc'[w] = "close" /\ job = [status |-> "running", doc |-> None],
           pc'[w] # "idle" => wjob'[w] = wjob[w]
    PROVE  JobInv'
<1> USE DEF IInv, TypeOK, DocId, JobId
<1>1. jobs \in [JobId -> Job \cup {None}] /\ wjob[w] \in JobId
  OBVIOUS
<1>2. jobs'[wjob[w]] = job /\ \A j \in JobId \ {wjob[w]} : jobs'[j] = jobs[j]
  BY <1>1
<1>3. (\A j \in JobId : jobs[j] # None => j < nextId)'
  BY <1>1, <1>2 DEF JobInv
<1>4. (\A v \in Worker : pc[v] # "idle" =>
        /\ wjob[v] < nextId
        /\ \A y \in Worker \ {v} : pc[y] # "idle" => wjob[y] # wjob[v])'
  BY DEF JobInv
<1>5. (\A v \in Worker : pc[v] \in InSession \cup {"fail"} => jobs[wjob[v]] = None)'
  BY <1>2 DEF JobInv, InSession
<1>6. (\A v \in Worker : pc[v] = "close" =>
        jobs[wjob[v]] = [status |-> "running", doc |-> None])'
  BY <1>2 DEF JobInv
<1>7. JobsNameRows'
  <2> SUFFICES ASSUME NEW j \in JobId, jobs'[j] # None, jobs'[j].doc # None
               PROVE  (jobs[j].status = "success" /\ HasRow(jobs[j].doc))'
    BY DEF JobsNameRows
  <2>1. CASE j = wjob[w]
    BY <1>2, <2>1
  <2>2. CASE j # wjob[w]
    <3>1. jobs'[j] = jobs[j] /\ jobs[j] \in Job
      BY <1>1, <1>2, <2>2
    <3>2. jobs[j].status = "success" /\ HasRow(jobs[j].doc) /\ jobs[j].doc \in DocId
      BY <3>1 DEF JobInv, JobsNameRows, Job
    <3>3. QED
      BY <3>1, <3>2
  <2>3. QED
    BY <2>1, <2>2
<1>8. QED
  BY <1>3, <1>4, <1>5, <1>6, <1>7 DEF JobInv

\* A step that touches no job row and takes no ingest back into a session.
LEMMA NoJobCloses ==
    ASSUME IInv, JobInv, IInv', jobs' = jobs, nextId' = nextId,
           \A d \in DocId : Referenced(d) /\ HasRow(d) => HasRow(d)',
           \A v \in Worker : pc'[v] # "idle" => pc[v] # "idle" /\ wjob'[v] = wjob[v],
           \A v \in Worker : pc'[v] \in InSession \cup {"fail"} =>
                pc[v] \in InSession \cup {"fail"},
           \A v \in Worker : pc'[v] = "close" => pc[v] = "close"
    PROVE  JobInv'
<1>1. JobsNameRows'
  <2> SUFFICES ASSUME NEW j \in JobId, jobs[j] # None, jobs[j].doc # None
               PROVE  jobs[j].status = "success" /\ HasRow(jobs[j].doc)'
    BY DEF JobsNameRows
  <2>1. jobs[j].status = "success" /\ HasRow(jobs[j].doc)
    BY DEF JobInv, JobsNameRows
  <2>2. Referenced(jobs[j].doc) /\ jobs[j].doc \in DocId
    BY DEF Referenced, IInv, TypeOK, Job
  <2>3. QED
    BY <2>1, <2>2
<1>2. QED
  BY <1>1 DEF JobInv, InSession

LEMMA JobInvInit == Init => JobInv
BY DEF Init, JobInv, JobsNameRows, InSession

LEMMA JobInvStep == IInv /\ JobInv /\ [Next]_vars => JobInv'
<1> SUFFICES ASSUME IInv, JobInv, [Next]_vars PROVE JobInv'
  OBVIOUS
<1>1. IInv'
  BY IInvStep
<1>2. (\A x \in Deleter : ~DeleteRow(x)) => \A d \in DocId : HasRow(d) => HasRow(d)'
  BY RowsStay
<1> USE DEF Goto, Return, CloseJob, db, worker, deleter, InSession
<1>3. CASE UNCHANGED vars
  BY <1>1, <1>3, NoJobCloses DEF vars, HasRow, RowIs
<1>4. ASSUME NEW w \in Worker, NEW u \in Uri, NEW c \in Content, Start(w, u, c)
      PROVE  JobInv'
  <2>1. docs' = docs /\ jobs' = jobs /\ nextId' = nextId + 1 /\ nextId \in JobId
    BY <1>4 DEF Start, IInv, TypeOK, JobId
  <2>2. wjob'[w] = nextId /\ \A v \in Worker \ {w} : pc'[v] = pc[v] /\ wjob'[v] = wjob[v]
    BY <1>4 DEF Start, IInv, TypeOK
  <2>3. jobs[nextId] = None /\ pc'[w] # "close"
    BY <1>4, <2>1 DEF Start, IInv, TypeOK, JobInv, JobId
  <2>4. JobsNameRows'
    BY <2>1 DEF JobInv, JobsNameRows, HasRow, RowIs
  <2>5. \A w2 \in Worker : pc[w2] # "idle" => wjob[w2] \in JobId /\ wjob[w2] < nextId
    BY DEF IInv, TypeOK, JobInv
  <2>6. QED
    BY <2>1, <2>2, <2>3, <2>4, <2>5 DEF JobInv, JobId
<1>5. ASSUME NEW w \in Worker, CloseSkipped(w) \/ CloseFailed(w) PROVE JobInv'
  <2>1. PICK job : jobs' = [jobs EXCEPT ![wjob[w]] = job] /\ job.doc = None
    BY <1>5 DEF CloseSkipped, CloseFailed
  <2>2. /\ docs' = docs /\ nextId' = nextId /\ pc[w] # "idle" /\ pc'[w] = "idle"
        /\ \A v \in Worker \ {w} : pc'[v] = pc[v] /\ wjob'[v] = wjob[v]
    BY <1>5 DEF CloseSkipped, CloseFailed, IInv, TypeOK
  <2>3. \A d \in DocId : HasRow(d) => HasRow(d)'
    BY <2>2 DEF HasRow, RowIs
  <2>4. QED
    BY <1>1, <2>1, <2>2, <2>3, OneJobCloses
<1>6. ASSUME NEW w \in Worker, Commit(w) PROVE JobInv'
  <2> DEFINE job == [status |-> "running", doc |-> None]
  <2>1. /\ jobs' = [jobs EXCEPT ![wjob[w]] = job] /\ nextId' = nextId
        /\ pc[w] = "write" /\ pc'[w] = "close" /\ wjob' = wjob
        /\ \A v \in Worker \ {w} : pc'[v] = pc[v]
    BY <1>6 DEF Commit, RowWritten, IInv, TypeOK
  <2>2. \A x \in Deleter : ~DeleteRow(x)
    BY <1>6, <2>1 DEF DeleteRow
  <2>3. QED
    BY <1>1, <1>2, <2>1, <2>2, OneJobCloses
<1>7. ASSUME NEW w \in Worker, CloseSuccess(w) PROVE JobInv'
  <2>1. /\ docs' = docs /\ nextId' = nextId /\ pc[w] # "idle"
        /\ \A v \in Worker \ {w} : pc'[v] = pc[v] /\ wjob'[v] = wjob[v]
    BY <1>7 DEF CloseSuccess, IInv, TypeOK
  <2>2. \A d \in DocId : HasRow(d) => HasRow(d)'
    BY <2>1 DEF HasRow, RowIs
  <2>3. CASE HasRow(wdoc[w])
    <3> DEFINE job == [status |-> "success", doc |-> wdoc[w]]
    <3>1. jobs' = [jobs EXCEPT ![wjob[w]] = job] /\ pc'[w] = "enqueue" /\ wjob' = wjob
      BY <1>7, <2>3 DEF CloseSuccess, IInv, TypeOK
    <3>2. wdoc[w] \in DocId
      BY <1>7 DEF CloseSuccess, IInv, TypeOK, Committed
    <3>3. QED
      BY <1>1, <2>1, <2>2, <2>3, <3>1, <3>2, OneJobCloses
  <2>4. CASE ~HasRow(wdoc[w])
    <3>1. jobs' = jobs /\ pc'[w] = "idle"
      BY <1>7, <2>4 DEF CloseSuccess, IInv, TypeOK
    <3>2. QED
      BY <1>1, <2>1, <2>2, <3>1, NoJobCloses
  <2>5. QED
    BY <2>3, <2>4
<1>8. ASSUME NEW w \in Worker,
             \/ FlushInsert(w) \/ FlushUpdate(w) \/ ClearChunks(w) \/ Put(w)
             \/ Enqueue(w) \/ Raise(w) \/ Crash(w)
      PROVE  JobInv'
  <2>1. docs' = docs /\ jobs' = jobs /\ nextId' = nextId
    BY <1>8 DEF FlushInsert, FlushUpdate, ClearChunks, Put, Enqueue, Raise, Crash
  <2>2. \A v \in Worker : pc'[v] # "idle" => pc[v] # "idle" /\ wjob'[v] = wjob[v]
    BY <1>8 DEF FlushInsert, FlushUpdate, ClearChunks, Put, Enqueue, Raise, Crash,
       IInv, TypeOK
  <2>3. \A v \in Worker : pc'[v] \in InSession \cup {"fail"} =>
            pc[v] \in InSession \cup {"fail"}
    BY <1>8 DEF FlushInsert, FlushUpdate, ClearChunks, Put, Enqueue, Raise, Crash,
       IInv, TypeOK
  <2>4. \A v \in Worker : pc'[v] = "close" => pc[v] = "close"
    BY <1>8 DEF FlushInsert, FlushUpdate, ClearChunks, Put, Enqueue, Raise, Crash,
       IInv, TypeOK
  <2>5. \A d \in DocId : HasRow(d) => HasRow(d)'
    BY <2>1 DEF HasRow, RowIs
  <2>6. QED
    BY <1>1, <2>1, <2>2, <2>3, <2>4, <2>5, NoJobCloses
<1>9. ASSUME NEW x \in Deleter, DeleteRow(x) PROVE JobInv'
  <2>1. jobs' = jobs /\ nextId' = nextId /\ pc' = pc /\ wjob' = wjob
    BY <1>9 DEF DeleteRow
  <2>2. ASSUME NEW d \in DocId, Referenced(d), HasRow(d) PROVE HasRow(d)'
    BY <1>9, <2>2 DEF DeleteRow, HasRow, RowIs
  <2>3. QED
    BY <1>1, <2>1, <2>2, NoJobCloses
<1>10. ASSUME NEW x \in Deleter,
              \/ \E u \in Uri : RequestDelete(x, u)
              \/ DeleteChunks(x) \/ DeleteObject(x) \/ CrashDelete(x)
       PROVE  JobInv'
  <2>1. docs' = docs /\ jobs' = jobs /\ nextId' = nextId /\ pc' = pc /\ wjob' = wjob
    BY <1>10 DEF RequestDelete, DeleteChunks, DeleteObject, CrashDelete
  <2>2. \A d \in DocId : HasRow(d) => HasRow(d)'
    BY <2>1 DEF HasRow, RowIs
  <2>3. QED
    BY <1>1, <2>1, <2>2, NoJobCloses
<1>11. ASSUME NEW w \in Worker, Advance(w) PROVE JobInv'
  BY <1>5, <1>6, <1>7, <1>8, <1>11 DEF Advance
<1>12. ASSUME NEW x \in Deleter, AdvanceDelete(x) PROVE JobInv'
  BY <1>9, <1>10, <1>12 DEF AdvanceDelete
<1>13. QED
  BY <1>3, <1>4, <1>8, <1>10, <1>11, <1>12 DEF Next, Quiet

LEMMA JobInvariance == Spec => [](IInv /\ JobInv)
BY Invariance, JobInvInit, JobInvStep, PTL DEF Spec

\* A document some job names as its result cannot be deleted, and no other
\* status ever names one.
THEOREM JobsNameExistingRows == Spec => []JobsNameRows
<1>1. JobInv => JobsNameRows
  BY DEF JobInv
<1>2. QED
  BY JobInvariance, <1>1, PTL

\* A job row is written once, except that "running" may become "success".
THEOREM JobsOnlyMoveForward == Spec => JobsMoveForward
<1> DEFINE Forward == \A j \in JobId : jobs[j] # None /\ jobs'[j] # jobs[j] =>
                         jobs[j].status = "running" /\ jobs'[j].status = "success"
<1>1. ASSUME IInv, JobInv, [Next]_vars PROVE Forward
  <2>1. CASE jobs' = jobs
    BY <2>1
  <2>2. ASSUME NEW w \in Worker, pc[w] \in InSession \cup {"fail"},
               \A j \in JobId \ {wjob[w]} : jobs'[j] = jobs[j]
        PROVE  Forward
    BY <1>1, <2>2 DEF JobInv
  <2>3. ASSUME NEW w \in Worker, CloseSkipped(w) \/ CloseFailed(w) \/ Commit(w)
        PROVE  Forward
    <3>1. pc[w] \in InSession \cup {"fail"}
      BY <2>3 DEF CloseSkipped, CloseFailed, Commit, InSession
    <3>2. \A j \in JobId \ {wjob[w]} : jobs'[j] = jobs[j]
      BY <1>1, <2>3 DEF CloseSkipped, CloseFailed, Commit, CloseJob, IInv, TypeOK
    <3>3. QED
      BY <2>2, <3>1, <3>2
  <2>4. ASSUME NEW w \in Worker, CloseSuccess(w) PROVE Forward
    <3>1. jobs[wjob[w]].status = "running"
      BY <1>1, <2>4 DEF CloseSuccess, JobInv
    <3>2. \A j \in JobId \ {wjob[w]} : jobs'[j] = jobs[j]
      BY <1>1, <2>4 DEF CloseSuccess, CloseJob, IInv, TypeOK
    <3>3. jobs' = jobs \/ (wjob[w] \in JobId => jobs'[wjob[w]].status = "success")
      BY <1>1, <2>4 DEF CloseSuccess, CloseJob, IInv, TypeOK
    <3>4. QED
      BY <3>1, <3>2, <3>3
  <2>5. ASSUME NEW w \in Worker,
               \/ FlushInsert(w) \/ FlushUpdate(w) \/ ClearChunks(w) \/ Put(w)
               \/ Enqueue(w) \/ Raise(w) \/ Crash(w)
        PROVE  jobs' = jobs
    BY <2>5 DEF FlushInsert, FlushUpdate, ClearChunks, Put, Enqueue, Raise, Crash, db
  <2>6. ASSUME NEW w \in Worker, NEW u \in Uri, NEW c \in Content, Start(w, u, c)
        PROVE  jobs' = jobs
    BY <2>6 DEF Start, db
  <2>7. ASSUME NEW x \in Deleter,
               \/ \E u \in Uri : RequestDelete(x, u)
               \/ DeleteChunks(x) \/ DeleteRow(x) \/ DeleteObject(x) \/ CrashDelete(x)
        PROVE  jobs' = jobs
    BY <2>7 DEF RequestDelete, DeleteChunks, DeleteRow, DeleteObject, CrashDelete, db
  <2>8. QED
    BY <1>1, <2>1, <2>3, <2>4, <2>5, <2>6, <2>7
    DEF Next, Advance, AdvanceDelete, Quiet, vars, db
<1>2. QED
  BY JobInvariance, <1>1, PTL DEF Spec, JobsMoveForward
=============================================================================
