------------------------------ MODULE Indexers ------------------------------
(***************************************************************************)
(* Declarative indexers: owners create one with its source, upload into    *)
(* its folder, run and delete it; the beat tick queues those that are due; *)
(* workers crawl, ingest and record a row of ingestion_indexer_runs.       *)
(*                                                                         *)
(* A source and its indexer come and go together and are one row here. A   *)
(* folder holds one file, in versions: a crawl treats its files one after  *)
(* the other and each alike. Of ingest_one only the commit is kept, which  *)
(* brings the document row to a version; what then is indexed of it, and   *)
(* what a failed ingest leaves there, is the matter of Ingest. Time is     *)
(* only what the due check sees of it: the last run is recent, or its      *)
(* interval has passed.                                                    *)
(***************************************************************************)
EXTENDS Integers, FiniteSets

CONSTANTS
    Indexer,    \* ids of indexers; a uuid4 is drawn once
    Run,        \* ids of run rows, enough of them to keep every running one
    Version,    \* contents of the file of a folder
    Worker,     \* tasks that may run side by side
    MaxQueued,  \* bound: queued tasks of one indexer
    MaxFaults,  \* bound: tasks that die or that the database fails
    MaxFailures,  \* bound: crawls and documents that fail
    None

ASSUME BoundAssumption == MaxQueued \in Nat \ {0} /\ MaxFaults \in Nat /\ MaxFailures \in Nat
ASSUME NoneAssumption == None \notin Indexer /\ None \notin Version /\ None \notin Run

VARIABLES
    indexers,  \* rows of ingestion_indexers
    drawn,     \* the ids given out so far
    stored,    \* the object in the folder of an indexer
    ingested,  \* the version its document row is at (content_hash)
    runs,      \* rows of ingestion_indexer_runs
    queue,     \* queued run_indexer messages
    due,       \* the indexers a tick has found due and not queued yet
    pc,        \* where each worker is
    job,       \* the indexer of its message
    run,       \* its run row
    page,      \* the version it has read
    faults,    \* tasks lost so far
    failures   \* failed crawls and documents so far

work == <<pc, job, run, page>>
bounds == <<faults, failures>>
vars == <<indexers, drawn, stored, ingested, runs, queue, due, work, bounds>>

IndexerRow == [timed : BOOLEAN, last : {None, "recent", "old"}]
RunRow == [indexer : Indexer, status : {"running", "ok", "error"}]
Labels == {"idle", "open", "crawl", "ingest", "close", "failed"}

ASSUME NoRowAssumption == None \notin IndexerRow /\ None \notin RunRow

TypeOK ==
    /\ indexers \in [Indexer -> IndexerRow \cup {None}]
    /\ drawn \subseteq Indexer
    /\ stored \in [Indexer -> Version \cup {None}]
    /\ ingested \in [Indexer -> Version \cup {None}]
    /\ runs \in [Run -> RunRow \cup {None}]
    /\ queue \in [Indexer -> 0..MaxQueued]
    /\ due \subseteq Indexer
    /\ pc \in [Worker -> Labels]
    /\ job \in [Worker -> Indexer \cup {None}]
    /\ run \in [Worker -> Run \cup {None}]
    /\ page \in [Worker -> Version \cup {None}]
    /\ faults \in 0..MaxFaults
    /\ failures \in 0..MaxFailures
    /\ \A w \in Worker : pc[w] # "idle" => job[w] \in Indexer
    /\ \A w \in Worker : pc[w] \notin {"idle", "open"} => run[w] \in Run
    /\ \A w \in Worker : pc[w] = "ingest" => page[w] \in Version

Init ==
    /\ indexers = [i \in Indexer |-> None]
    /\ drawn = {}
    /\ stored = [i \in Indexer |-> None]
    /\ ingested = [i \in Indexer |-> None]
    /\ runs = [r \in Run |-> None]
    /\ queue = [i \in Indexer |-> 0]
    /\ due = {}
    /\ pc = [w \in Worker |-> "idle"]
    /\ job = [w \in Worker |-> None]
    /\ run = [w \in Worker |-> None]
    /\ page = [w \in Worker |-> None]
    /\ faults = 0
    /\ failures = 0
-----------------------------------------------------------------------------
(* ---- Owners' requests ---------------------------------------------------- *)

Live(i) == indexers[i] # None

\* create_folder_source, with a schedule or manual only; enable_preset is the second
\* with nothing to upload. Sources models how these requests meet.
Create(i, timed) ==
    /\ i \notin drawn
    /\ drawn' = drawn \cup {i}
    /\ indexers' = [indexers EXCEPT ![i] = [timed |-> timed, last |-> None]]
    /\ UNCHANGED <<stored, ingested, runs, queue, due, work, bounds>>

\* upload_to_source: the object is put under the key of its name.
Upload(i, v) ==
    /\ Live(i)
    /\ v # stored[i]
    /\ stored' = [stored EXCEPT ![i] = v]
    /\ UNCHANGED <<indexers, drawn, ingested, runs, queue, due, work, bounds>>

Fault == faults < MaxFaults /\ faults' = faults + 1
Failure == failures < MaxFailures /\ failures' = failures + 1

Send(i) == queue' = [queue EXCEPT ![i] = @ + 1]

\* run_indexer_now.
RunNow(i) ==
    /\ Live(i)
    /\ queue[i] < MaxQueued
    /\ Send(i)
    /\ UNCHANGED <<indexers, drawn, stored, ingested, runs, due, work, bounds>>

\* delete_indexer: its runs and its source go with it; objects and documents stay.
Delete(i) ==
    /\ Live(i)
    /\ indexers' = [indexers EXCEPT ![i] = None]
    /\ runs' = [r \in Run |-> IF runs[r] # None /\ runs[r].indexer = i THEN None
                              ELSE runs[r]]
    /\ UNCHANGED <<drawn, stored, ingested, queue, due, work, bounds>>

(* ---- The beat tick ------------------------------------------------------- *)

\* Fault: an indexer that never ran is not due.
DueOnceRun(i) == Live(i) /\ indexers[i].timed /\ indexers[i].last = "old"
Due(i) == Live(i) /\ indexers[i].timed /\ indexers[i].last # "recent"

\* The interval of an indexer has passed since its last run.
Age(i) ==
    /\ Live(i)
    /\ indexers[i].timed
    /\ indexers[i].last = "recent"
    /\ indexers' = [indexers EXCEPT ![i].last = "old"]
    /\ UNCHANGED <<drawn, stored, ingested, runs, queue, due, work, bounds>>

\* run_due_indexers reads all rows at once, then queues one message after another.
Tick ==
    /\ due = {}
    /\ due' = {i \in Indexer : Due(i)}
    /\ due' # {}
    /\ UNCHANGED <<indexers, drawn, stored, ingested, runs, queue, work, bounds>>

\* Bound: a message beyond MaxQueued is not kept.
Enqueue(i) ==
    /\ i \in due
    /\ due' = due \ {i}
    /\ IF queue[i] < MaxQueued THEN Send(i) ELSE UNCHANGED queue
    /\ UNCHANGED <<indexers, drawn, stored, ingested, runs, work, bounds>>

\* The worker of the tick dies; the next tick looks again.
TickDies ==
    /\ due # {}
    /\ Fault
    /\ due' = {}
    /\ UNCHANGED <<indexers, drawn, stored, ingested, runs, queue, work, failures>>

(* ---- _run_indexer --------------------------------------------------------- *)

Goto(w, label) == pc' = [pc EXCEPT ![w] = label]

\* The task returns, raises or dies: its locals are gone.
Leave(w) ==
    /\ Goto(w, "idle")
    /\ job' = [job EXCEPT ![w] = None]
    /\ run' = [run EXCEPT ![w] = None]
    /\ page' = [page EXCEPT ![w] = None]

Take(w, i) ==
    /\ pc[w] = "idle"
    /\ queue[i] > 0
    /\ queue' = [queue EXCEPT ![i] = @ - 1]
    /\ Goto(w, "open")
    /\ job' = [job EXCEPT ![w] = i]
    /\ UNCHANGED <<indexers, drawn, stored, ingested, runs, due, run, page, bounds>>

\* Run rows are numbered; an id whose run has ended and that nobody holds stands
\* for the next number, and its old row is forgotten.
FreeRun(r) ==
    /\ runs[r] # None => runs[r].status # "running"
    /\ \A w \in Worker : run[w] # r

OpenRun(w, r) ==
    /\ pc[w] = "open"
    /\ Live(job[w])
    /\ FreeRun(r)
    /\ runs' = [runs EXCEPT ![r] = [indexer |-> job[w], status |-> "running"]]
    /\ run' = [run EXCEPT ![w] = r]
    /\ Goto(w, "crawl")
    /\ UNCHANGED <<indexers, drawn, stored, ingested, queue, due, job, page, bounds>>

\* "indexer not found".
NotFound(w) ==
    /\ pc[w] = "open"
    /\ ~Live(job[w])
    /\ Leave(w)
    /\ UNCHANGED <<indexers, drawn, stored, ingested, runs, queue, due, bounds>>

\* Fault: a folder without an object is ingested all the same.
CrawlUnchecked(w) ==
    /\ pc[w] = "crawl"
    /\ page' = [page EXCEPT ![w] = stored[job[w]]]
    /\ Goto(w, "ingest")
    /\ UNCHANGED <<indexers, drawn, stored, ingested, runs, queue, due, job, run, bounds>>
\* The connector yields the object of the folder, if there is one. What a web crawl
\* yields is not modelled.
Crawl(w) ==
    LET v == stored[job[w]]
    IN  /\ pc[w] = "crawl"
        /\ page' = [page EXCEPT ![w] = v]
        /\ Goto(w, IF v # None THEN "ingest" ELSE "close")
        /\ UNCHANGED <<indexers, drawn, stored, ingested, runs, queue, due, job, run, bounds>>

\* Fault: the run of a crawl that raises is left as it is.
CrawlRaises(w) ==
    /\ pc[w] = "crawl"
    /\ Failure
    /\ Leave(w)
    /\ UNCHANGED <<indexers, drawn, stored, ingested, runs, queue, due, faults>>
\* The connector raises: the run is closed as an error.
CrawlFails(w) ==
    /\ pc[w] = "crawl"
    /\ Failure
    /\ Goto(w, "failed")
    /\ UNCHANGED <<indexers, drawn, stored, ingested, runs, queue, due, job, run, page, faults>>

\* ingest_one, whatever has become of the indexer: changed bytes bring the row to their
\* version, the same bytes are skipped.
Ingest(w) ==
    /\ pc[w] = "ingest"
    /\ ingested' = [ingested EXCEPT ![job[w]] = page[w]]
    /\ Goto(w, "close")
    /\ page' = [page EXCEPT ![w] = None]
    /\ UNCHANGED <<indexers, drawn, stored, runs, queue, due, job, run, bounds>>

\* It raises, with the hash of the row as it was: the file counts as failed and the
\* crawl goes on.
IngestFails(w) ==
    /\ pc[w] = "ingest"
    /\ Failure
    /\ Goto(w, "close")
    /\ page' = [page EXCEPT ![w] = None]
    /\ UNCHANGED <<indexers, drawn, stored, ingested, runs, queue, due, job, run, faults>>

\* Fault: the result is written whether or not the row is still there.
ResultMerged(w) ==
    runs' = [runs EXCEPT ![run[w]] =
               [indexer |-> job[w], status |-> IF pc[w] = "failed" THEN "error" ELSE "ok"]]
\* The result goes to the run row, if it is still there.
Result(w) ==
    IF runs[run[w]] = None
    THEN UNCHANGED runs
    ELSE runs' = [runs EXCEPT ![run[w]].status = IF pc[w] = "failed" THEN "error" ELSE "ok"]

CloseRun(w) ==
    /\ pc[w] \in {"close", "failed"}
    /\ Result(w)
    /\ IF Live(job[w])
       THEN indexers' = [indexers EXCEPT ![job[w]].last = "recent"]
       ELSE UNCHANGED indexers
    /\ Leave(w)
    /\ UNCHANGED <<drawn, stored, ingested, queue, due, bounds>>

\* The database refuses the first or the last commit: the task raises, and its
\* message counts as done.
Raises(w) ==
    /\ pc[w] \in {"open", "close", "failed"}
    /\ Fault
    /\ Leave(w)
    /\ UNCHANGED <<indexers, drawn, stored, ingested, runs, queue, due, failures>>

\* The worker dies. Its message, acknowledged late, comes back, unless only the child
\* process died.
Dies(w, back) ==
    /\ pc[w] # "idle"
    /\ Fault
    /\ IF back /\ queue[job[w]] < MaxQueued THEN Send(job[w]) ELSE UNCHANGED queue
    /\ Leave(w)
    /\ UNCHANGED <<indexers, drawn, stored, ingested, runs, due, failures>>
-----------------------------------------------------------------------------
Requests ==
    \E i \in Indexer :
        \/ \E timed \in BOOLEAN : Create(i, timed)
        \/ \E v \in Version : Upload(i, v)
        \/ RunNow(i)
        \/ Delete(i)

Beat == Tick \/ TickDies \/ \E i \in Indexer : Age(i) \/ Enqueue(i)

OpenSome(w) == NotFound(w) \/ \E r \in Run : OpenRun(w, r)

Proceed(w) == OpenSome(w) \/ Crawl(w) \/ Ingest(w) \/ CloseRun(w)

GoesWrong(w) ==
    \/ CrawlFails(w)
    \/ IngestFails(w)
    \/ Raises(w)
    \/ \E back \in BOOLEAN : Dies(w, back)

Next ==
    \/ Requests
    \/ Beat
    \/ \E w \in Worker, i \in Indexer : Take(w, i)
    \/ \E w \in Worker : Proceed(w) \/ GoesWrong(w)

Spec == Init /\ [][Next]_vars

(* Fairness. Beat runs beside the worker, and its ticks find what is due; time   *)
(* passes; a worker goes on with its task, and its statements and calls return or *)
(* raise. The broker is a FIFO queue, so a message is not passed over for ever.   *)
Fairness ==
    /\ WF_vars(Tick)
    /\ \A i \in Indexer : WF_vars(Age(i)) /\ WF_vars(Enqueue(i))
    /\ \A i \in Indexer : SF_vars(\E w \in Worker : Take(w, i))
    /\ \A w \in Worker : WF_vars(Proceed(w))

FairSpec == Spec /\ Fairness
-----------------------------------------------------------------------------
(* ---- Properties ----------------------------------------------------------- *)

Running == {r \in Run : runs[r] # None /\ runs[r].status = "running"}

\* Rows of runs that nobody runs.
Abandoned == {r \in Running : \A w \in Worker : run[w] # r}

\* A row says "running" while a worker runs it; only a task that died or that the
\* database failed leaves one behind, one each, however crawls and documents fail
\* (tasks.py:215-234).
AbandonedOnlyByFault == Cardinality(Abandoned) <= faults

\* The row of a run belongs to an indexer that exists: a worker that ends after its
\* indexer was deleted records nothing (tasks.py:220-234, ingestion.py:329).
RunsHaveIndexers ==
    \A r \in Run : runs[r] # None => Live(runs[r].indexer)

\* The document row comes to the version uploaded to a folder with a schedule in the end,
\* unless that is replaced or the indexer deleted, through crashes and failing runs, and
\* while the tick, "Run now" and other workers go on, one of which may bring an older
\* version back (tasks.py:123-151, 154-234).
UploadIsIngested ==
    \A i \in Indexer, v \in Version :
        (Live(i) /\ indexers[i].timed /\ stored[i] = v)
            ~> (ingested[i] = v \/ stored[i] # v \/ ~Live(i))
=============================================================================
