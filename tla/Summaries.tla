----------------------------- MODULE Summaries ------------------------------
(***************************************************************************)
(* Summaries of the documents of one tenant: what the pipeline runs that   *)
(* ingest queue, the sweep that heals what was missed, the owner's         *)
(* buttons, and the worker task, which reads the chunks, asks the model    *)
(* for minutes and writes the document's row.                              *)
(*                                                                         *)
(* A text is a number, 0 without chunks. A summary is the text it was made *)
(* of, 0 for none; keyphrases are written with it. Queued copies of one    *)
(* task are counted up to two. An ingest of the bytes a row was made of    *)
(* changes nothing. No document is deleted here: a task of one that is     *)
(* raises and is over.                                                     *)
(***************************************************************************)
EXTENDS Integers, FiniteSets

CONSTANTS
    Doc,          \* documents of the tenant
    PipelineRun,  \* pipelines, each of which ingests one document after the other
    Worker,       \* Celery workers that summarise
    Batch,        \* documents a sweep queues: limit(50)
    MaxText,      \* bound: texts there are
    None

VARIABLES
    auto,     \* enrichment_enabled of the tenant
    text,     \* what the chunks of a document hold, None without a row
    summary,  \* documents.summary
    queue,    \* tasks in the broker, by document
    work,     \* the task of each worker, and the text it read
    run,      \* the ingest of each pipeline, and the toggle as the pipeline read it
    excused   \* documents whose summary may stay behind their text

vars == <<auto, text, summary, queue, work, run, excused>>

Task == [doc : Doc, text : 0..MaxText]
Pipeline == [doc : Doc \cup {None}, at : {"idle", "begun", "committed"},
             toggle : {"unread", "on", "off"}]

TypeOK ==
    /\ auto \in BOOLEAN
    /\ text \in [Doc -> 0..MaxText \cup {None}]
    /\ summary \in [Doc -> 0..MaxText]
    /\ queue \in [Doc -> 0..2]
    /\ work \in [Worker -> Task \cup {None}]
    /\ run \in [PipelineRun -> Pipeline]
    /\ excused \subseteq Doc

NewPipeline == [doc |-> None, at |-> "idle", toggle |-> "unread"]

Init == auto \in BOOLEAN /\ text = [d \in Doc |-> None] /\ summary = [d \in Doc |-> 0]
        /\ queue = [d \in Doc |-> 0] /\ work = [w \in Worker |-> None]
        /\ run = [r \in PipelineRun |-> NewPipeline] /\ excused = {}
-----------------------------------------------------------------------------
Rows == {d \in Doc : text[d] # None}
\* Fault: documents that have a summary count as well.
AnyRow == Rows
Pending == {d \in Rows : summary[d] = 0}
Working(d) == \E w \in Worker : work[w] # None /\ work[w].doc = d
Queued(ds) == [d \in Doc |-> IF d \in ds /\ queue[d] < 2 THEN queue[d] + 1 ELSE queue[d]]

SetAuto(b) ==
    /\ auto' = b
    /\ UNCHANGED <<text, summary, queue, work, run, excused>>

\* An ingest whose session has the document's row, and one that still has to queue its task.
Held(d) == \E r \in PipelineRun : run[r].doc = d /\ run[r].at = "begun"
Unqueued(d) == \E r \in PipelineRun : run[r].doc = d /\ run[r].at = "committed"

Becomes(r, d, at, toggle) ==
    run' = [run EXCEPT ![r] = [doc |-> d, at |-> at, toggle |-> toggle]]

\* A connector run, an upload or a bundle of the watcher has a pipeline of its own.
Start(r) ==
    /\ run[r].at = "idle"
    /\ run' = [run EXCEPT ![r] = NewPipeline]
    /\ UNCHANGED <<auto, text, summary, queue, work, excused>>

\* ingest_one takes the row, and on a re-ingest clears the chunks, in a transaction of
\* their own.
Begin(r, d) ==
    /\ run[r].at = "idle" /\ ~Held(d)
    /\ Becomes(r, d, "begun", run[r].toggle)
    /\ text' = [text EXCEPT ![d] = IF d \in Rows THEN 0 ELSE None]
    /\ UNCHANGED <<auto, summary, queue, work, excused>>

\* The row and its new chunks are committed, the summary with them as it was. Bytes without
\* any chunk queue nothing.
Commit(r, n) ==
    /\ run[r].at = "begun"
    /\ text' = [text EXCEPT ![run[r].doc] = n]
    /\ excused' = excused \ {run[r].doc}
    /\ IF n = 0 THEN Becomes(r, None, "idle", run[r].toggle)
                ELSE Becomes(r, run[r].doc, "committed", run[r].toggle)
    /\ UNCHANGED <<auto, summary, queue, work>>

\* The ingest fails, or its process dies, before its commit or after it.
Interrupted(r) ==
    /\ run[r].at # "idle"
    /\ \E toggle \in {"unread", run[r].toggle} : Becomes(r, None, "idle", toggle)
    /\ excused' = IF run[r].at = "committed" THEN excused \cup {run[r].doc} ELSE excused
    /\ UNCHANGED <<auto, text, summary, queue, work>>

\* _should_enrich: read once in a pipeline.
Enriches(r) == IF run[r].toggle = "unread" THEN auto ELSE run[r].toggle = "on"

\* _enqueue_summarise: the broker may not take the task, which fails nothing.
Enqueue(r) ==
    /\ run[r].at = "committed"
    /\ Becomes(r, None, "idle", IF Enriches(r) THEN "on" ELSE "off")
    /\ \/ Enriches(r) /\ queue' = Queued({run[r].doc}) /\ UNCHANGED excused
       \/ queue' = queue /\ excused' = excused \cup {run[r].doc}
    /\ UNCHANGED <<auto, text, summary, work>>

\* enrich_pending_documents: fifty of the documents without a summary, in no order.
Sweep ==
    /\ auto
    /\ \E ds \in SUBSET Pending :
          /\ Cardinality(ds) = (IF Cardinality(Pending) < Batch
                                THEN Cardinality(Pending) ELSE Batch)
          /\ queue' = Queued(ds)
    /\ UNCHANGED <<auto, text, summary, work, run, excused>>

\* The two routes queue what is pending, or one document whatever it has.
SummariseMissing ==
    queue' = Queued(Pending) /\ UNCHANGED <<auto, text, summary, work, run, excused>>
SummariseNow(d) ==
    d \in Rows /\ queue' = Queued({d}) /\ UNCHANGED <<auto, text, summary, work, run, excused>>

\* A worker takes a task and reads the chunks. Another run of the document may be under
\* way: the one that ends last writes what it read.
Read(w, d) ==
    /\ work[w] = None /\ queue[d] > 0
    /\ queue' = [queue EXCEPT ![d] = @ - 1]
    /\ work' = [work EXCEPT ![w] = [doc |-> d, text |-> text[d]]]
    /\ excused' = IF Working(d) THEN excused \cup {d} ELSE excused
    /\ UNCHANGED <<auto, text, summary, run>>

\* Fault: a summary that is there is kept.
WrittenOnce(d, made) == IF summary[d] # 0 THEN summary[d] ELSE made
\* doc.summary = result.summary; without chunks it is empty.
Written(d, made) == made

\* The row is written, once no ingest has it. The model may have said nothing.
Write(w, made) ==
    /\ work[w] # None /\ made \in {0, work[w].text} /\ ~Held(work[w].doc)
    /\ summary' = [summary EXCEPT ![work[w].doc] = Written(work[w].doc, made)]
    /\ work' = [work EXCEPT ![w] = None]
    /\ UNCHANGED <<auto, text, queue, run, excused>>

\* The model or the database refuses. The task is not tried again.
Fail(w) ==
    /\ work[w] # None
    /\ excused' = excused \cup {work[w].doc}
    /\ work' = [work EXCEPT ![w] = None]
    /\ UNCHANGED <<auto, text, summary, queue, run>>

\* A worker that dies has not acknowledged its task, which is delivered again.
Crash(w) ==
    /\ work[w] # None
    /\ queue' = Queued({work[w].doc})
    /\ work' = [work EXCEPT ![w] = None]
    /\ UNCHANGED <<auto, text, summary, run, excused>>

IngestStep(r) ==
    \/ Start(r) \/ (\E d \in Doc : Begin(r, d)) \/ (\E n \in 0..MaxText : Commit(r, n))
    \/ Interrupted(r) \/ Enqueue(r)
TaskEnds(w) == (\E made \in 0..MaxText : Write(w, made)) \/ Fail(w) \/ Crash(w)

Next ==
    \/ \E b \in BOOLEAN \ {auto} : SetAuto(b)
    \/ \E r \in PipelineRun : IngestStep(r)
    \/ Sweep \/ SummariseMissing \/ (\E d \in Doc : SummariseNow(d))
    \/ \E w \in Worker : (\E d \in Doc : Read(w, d)) \/ TaskEnds(w)

\* The beat ticks, a task that is delivered again and again is taken, and one that is run
\* again and again has minutes from the model once. An ingest ends, one way or the other, as
\* it does in Ingest where no delete is in its way; and so does a task: the model's client
\* gives up after ten minutes, and nobody but an ingest keeps the row from it.
Fairness ==
    /\ WF_vars(Sweep)
    /\ \A r \in PipelineRun : WF_vars((\E n \in 0..MaxText : Commit(r, n)) \/ Interrupted(r))
    /\ \A w \in Worker : WF_vars(TaskEnds(w))
    /\ \A d \in Doc :
          /\ SF_vars(\E w \in Worker : Read(w, d))
          /\ SF_vars(\E w \in Worker : work[w] # None /\ work[w].doc = d
                                       /\ Write(w, work[w].text))

Spec == Init /\ [][Next]_vars /\ Fairness
-----------------------------------------------------------------------------
\* The summary of a document with text is that of the chunks it has, or what will make it so
\* is to come: an ingest that still has to queue its task, a task in the queue or under way.
\* That is so however ingests, their failures, sweeps, clicks and crashes interleave. Excused
\* is a document since its last ingest skipped the task, because its pipeline had read that
\* enrichment was off, or was cut short before it, or since the broker did not take it, a
\* run of it failed or two runs of it overlapped. A document whose chunks are gone keeps its
\* summary: that is the loss of chunks that Ingest finds (pipeline.py:173-253,
\* service.py:49-77, tasks.py:67-103).
SummariesFollowTheText ==
    \A d \in Rows \ excused :
        text[d] # 0 =>
            summary[d] \in {0, text[d]} \/ queue[d] > 0 \/ Working(d) \/ Unqueued(d)

\* While enrichment stays on, every document with text has a summary again and again,
\* provided that no more documents than the sweep's batch are without one from some time on:
\* the sweep takes them in no order, and documents that never get one could fill it
\* (tasks.py:58-103).
BacklogDrains ==
    <>[](auto /\ Cardinality({d \in Rows : summary[d] = 0}) <= Batch)
        => \A d \in Doc : []<>(text[d] \in {None, 0} \/ summary[d] # 0)
=============================================================================
