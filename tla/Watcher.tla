------------------------------ MODULE Watcher -------------------------------
(***************************************************************************)
(* The regulator watcher: polls that run side by side (Celery beat with    *)
(* late acknowledgement, and the CLI) read the feeds, drop what            *)
(* watcher_events already holds, and hand what is left to the notifiers in *)
(* order: database, automatic ingest, webhook.                             *)
(*                                                                         *)
(* The document index is the abstract one of DocIndex, which Ingest is     *)
(* shown to implement: ingest_one is its Create, or its Blank and Replace, *)
(* and everybody else (folders, websites, uploads, deletes) takes any of   *)
(* its steps, on a URI whose row no poll holds locked.                     *)
(*                                                                         *)
(* The entries of one feed form a set: an entry listed twice counts once.  *)
(* The console notifier, the counters of the outcome and the since filter  *)
(* of the CLI are left out.                                                *)
(***************************************************************************)
EXTENDS Integers, FiniteSets

CONSTANTS
    Poller,       \* processes that may be running a poll
    Event,        \* entries of the feeds, by regulator and external_id
    Feed,         \* enabled feeds
    FeedOf,       \* the feed that lists an event
    UrlOf,        \* the URL an event links to: the source_uri of its document
    Uri, Content, DocId, NoText,   \* see DocIndex
    AutoIngest,   \* settings.watcher_auto_ingest
    MaxFaults,    \* bound: database errors met by notifiers
    MaxCrashes,   \* bound: polls that die
    None

ASSUME FeedAssumption == FeedOf \in [Event -> Feed] /\ UrlOf \in [Event -> Uri]
ASSUME SwitchAssumption == AutoIngest \in BOOLEAN
ASSUME FaultAssumption == MaxFaults \in Nat /\ MaxCrashes \in Nat
ASSUME PollerAssumption == IsFiniteSet(Poller)
ASSUME NoneAssumption == None \notin Event /\ None \notin Content /\ None \notin DocId

VARIABLES
    shown,    \* the entries the regulators list now
    events,   \* rows of watcher_events
    index,    \* the documents of the tenant, as DocIndex
    sent,     \* how often each event was posted to the webhook
    faults,   \* database errors so far
    crashes,  \* polls that died so far
    pc,       \* where each poll is
    left,     \* the feeds a poll has not fetched
    found,    \* fetched entries a poll has not looked up
    new,      \* the entries a poll takes for new
    todo,     \* those of them it has not ingested
    cur,      \* the event whose page it ingests
    data,     \* the bytes of that page
    doc       \* the document id ingest_one returned, None if it is nobody's

poll == <<pc, left, found, new, todo, cur, data, doc>>
bounds == <<faults, crashes>>
vars == <<shown, events, index, sent, bounds, poll>>

Docs == INSTANCE DocIndex

EventRow == [ingested : BOOLEAN, doc : DocId \cup {None}, error : BOOLEAN]

ASSUME NoRowAssumption == None \notin EventRow /\ None \notin Docs!Entry

Labels == {"idle", "fetch", "filter", "db", "ingest", "load", "replace", "mark",
           "fail", "hook"}

\* A poll that has the page of one event in its hands.
Ingesting == {"load", "replace", "mark", "fail"}

\* The ON DELETE-less foreign key of watcher_events.document_id, from both sides.
HasDoc(d) == \E u \in Uri : index[u] # None /\ index[u].id = d
Referenced(d) == \E e \in Event : events[e] # None /\ events[e].doc = d

TypeOK ==
    /\ shown \subseteq Event
    /\ events \in [Event -> EventRow \cup {None}]
    /\ Docs!TypeOK
    /\ sent \in [Event -> Nat]
    /\ faults \in 0..MaxFaults
    /\ crashes \in 0..MaxCrashes
    /\ pc \in [Poller -> Labels]
    /\ left \in [Poller -> SUBSET Feed]
    /\ found \in [Poller -> SUBSET Event]
    /\ new \in [Poller -> SUBSET Event]
    /\ todo \in [Poller -> SUBSET Event]
    /\ cur \in [Poller -> Event \cup {None}]
    /\ data \in [Poller -> Content \cup {None}]
    /\ doc \in [Poller -> DocId \cup {None}]
    /\ \A p \in Poller : pc[p] \in Ingesting => cur[p] \in Event
    /\ \A p \in Poller : pc[p] \in {"load", "replace"} => data[p] \in Content

Init ==
    /\ shown = {}
    /\ events = [e \in Event |-> None]
    /\ Docs!Init
    /\ sent = [e \in Event |-> 0]
    /\ faults = 0
    /\ crashes = 0
    /\ pc = [p \in Poller |-> "idle"]
    /\ left = [p \in Poller |-> {}]
    /\ found = [p \in Poller |-> {}]
    /\ new = [p \in Poller |-> {}]
    /\ todo = [p \in Poller |-> {}]
    /\ cur = [p \in Poller |-> None]
    /\ data = [p \in Poller |-> None]
    /\ doc = [p \in Poller |-> None]
-----------------------------------------------------------------------------
(* ---- The rest of the world --------------------------------------------- *)

\* A regulator lists an entry, or drops one from the window of its feed.
Publish(e) ==
    /\ shown' = shown \cup {e}
    /\ e \notin shown
    /\ UNCHANGED <<events, index, sent, bounds, poll>>
Expire(e) ==
    /\ e \in shown
    /\ shown' = shown \ {e}
    /\ UNCHANGED <<events, index, sent, bounds, poll>>

\* A uuid4() is drawn once: a new document never gets an id a poll still holds.
NewIdOf(u) == index'[u].id \notin {doc[p] : p \in Poller}

\* Between its flush and its commit an ingest holds the row of its document.
Held(u) == \E p \in Poller : pc[p] = "replace" /\ UrlOf[cur[p]] = u

\* Other ingests and deletes. A document an event references stays.
Others ==
    /\ \E u \in Uri :
        /\ ~Held(u)
        /\ \/ \E c \in Content : (Docs!Create(u, c) /\ NewIdOf(u)) \/ Docs!Replace(u, c)
           \/ Docs!Blank(u)
           \/ index[u] # None /\ ~Referenced(index[u].id) /\ Docs!Remove(u)
    /\ UNCHANGED <<shown, events, sent, bounds, poll>>

(* ---- WatcherService.poll ------------------------------------------------ *)

Goto(p, label) == pc' = [pc EXCEPT ![p] = label]

\* poll returns, raises or dies: its locals are gone.
Return(p) ==
    /\ Goto(p, "idle")
    /\ left' = [left EXCEPT ![p] = {}]
    /\ found' = [found EXCEPT ![p] = {}]
    /\ new' = [new EXCEPT ![p] = {}]
    /\ todo' = [todo EXCEPT ![p] = {}]
    /\ cur' = [cur EXCEPT ![p] = None]
    /\ data' = [data EXCEPT ![p] = None]
    /\ doc' = [doc EXCEPT ![p] = None]

\* Beat polls every feed, the CLI those it is given.
StartPoll(p, only) ==
    /\ pc[p] = "idle"
    /\ Goto(p, "fetch")
    /\ left' = [left EXCEPT ![p] = only]
    /\ UNCHANGED <<shown, events, index, sent, bounds, found, new, todo, cur, data, doc>>

\* Fetch one feed. One that fails, its three attempts included, is counted and
\* the others go on.
FeedRead(p, f, entries) ==
    /\ pc[p] = "fetch"
    /\ f \in left[p]
    /\ left' = [left EXCEPT ![p] = @ \ {f}]
    /\ found' = [found EXCEPT ![p] = @ \cup entries]
    /\ Goto(p, IF left[p] = {f} THEN "filter" ELSE "fetch")
    /\ UNCHANGED <<shown, events, index, sent, bounds, new, todo, cur, data, doc>>

FetchFeed(p, f) == FeedRead(p, f, {e \in shown : FeedOf[e] = f})
FeedFails(p, f) == FeedRead(p, f, {})

\* Fault: an event is known once it was ingested, not once it was seen.
KnownIfIngested(e) == events[e] # None /\ events[e].ingested
\* Fault: an event is known once it was announced.
KnownIfSent(e) == sent[e] > 0
Known(e) == events[e] # None

\* _filter_new: one SELECT per regulator, each seeing what is committed then.
Filter(p, f) ==
    LET group == {e \in found[p] : FeedOf[e] = f}
    IN  /\ pc[p] = "filter"
        /\ group # {}
        /\ found' = [found EXCEPT ![p] = @ \ group]
        /\ new' = [new EXCEPT ![p] = @ \cup {e \in group : ~Known(e)}]
        /\ UNCHANGED <<shown, events, index, sent, bounds, pc, left, todo, cur, data, doc>>

\* Nothing new: the poll is done. Otherwise the notifiers run.
Filtered(p) ==
    /\ pc[p] = "filter"
    /\ found[p] = {}
    /\ IF new[p] = {}
       THEN Return(p)
       ELSE /\ Goto(p, "db")
            /\ UNCHANGED <<left, found, new, todo, cur, data, doc>>
    /\ UNCHANGED <<shown, events, index, sent, bounds>>

(* ---- DBNotifier --------------------------------------------------------- *)

\* The notifier after this one; IngestNotifier only where it is switched on.
AfterDb(p) ==
    /\ Goto(p, IF AutoIngest THEN "ingest" ELSE "hook")
    /\ todo' = [todo EXCEPT ![p] = IF AutoIngest THEN new[p] ELSE {}]

NewRow == [ingested |-> FALSE, doc |-> None, error |-> FALSE]

Insert(p) ==
    [e \in Event |-> IF e \in new[p] /\ events[e] = None THEN NewRow ELSE events[e]]

\* One transaction, ON CONFLICT DO NOTHING.
Persist(p) ==
    /\ pc[p] = "db"
    /\ events' = Insert(p)
    /\ AfterDb(p)
    /\ UNCHANGED <<shown, index, sent, bounds, left, found, new, cur, data, doc>>

\* The transaction fails, or the tenant is unknown: nothing is written, and the
\* fan-out goes on to the next notifier.
PersistFails(p) ==
    /\ pc[p] = "db"
    /\ faults < MaxFaults
    /\ faults' = faults + 1
    /\ AfterDb(p)
    /\ UNCHANGED <<shown, events, index, sent, crashes, left, found, new, cur, data, doc>>

(* ---- IngestNotifier ----------------------------------------------------- *)

\* The next event of the batch, or the next notifier.
NextEvent(p) ==
    /\ Goto(p, IF todo[p] = {} THEN "hook" ELSE "ingest")
    /\ cur' = [cur EXCEPT ![p] = None]
    /\ data' = [data EXCEPT ![p] = None]
    /\ doc' = [doc EXCEPT ![p] = None]

\* Fault: an error of a notifier ends the poll.
DropPoll(p) == Return(p)
\* What is left of the batch is given up; the fan-out goes on.
DropBatch(p) ==
    /\ Goto(p, "hook")
    /\ todo' = [todo EXCEPT ![p] = {}]
    /\ cur' = [cur EXCEPT ![p] = None]
    /\ data' = [data EXCEPT ![p] = None]
    /\ doc' = [doc EXCEPT ![p] = None]
    /\ UNCHANGED <<left, found, new>>

\* Fault: an empty body is ingested like any other.
FetchPageUnchecked(p, e) ==
    /\ pc[p] = "ingest"
    /\ e \in todo[p]
    /\ todo' = [todo EXCEPT ![p] = @ \ {e}]
    /\ cur' = [cur EXCEPT ![p] = e]
    /\ \E c \in Content \cup {None} : data' = [data EXCEPT ![p] = c]
    /\ Goto(p, "load")
    /\ UNCHANGED <<shown, events, index, sent, bounds, left, found, new, doc>>
\* Fetch the page an event links to: bytes, or an error or an empty body.
FetchPage(p, e) ==
    /\ pc[p] = "ingest"
    /\ e \in todo[p]
    /\ todo' = [todo EXCEPT ![p] = @ \ {e}]
    /\ cur' = [cur EXCEPT ![p] = e]
    /\ \/ \E c \in Content : data' = [data EXCEPT ![p] = c] /\ Goto(p, "load")
       \/ Goto(p, "fail") /\ UNCHANGED data
    /\ UNCHANGED <<shown, events, index, sent, bounds, left, found, new, doc>>

\* ingest_one: the document has this content already. The result it returns
\* carries a random id.
Skip(p) ==
    LET u == UrlOf[cur[p]]
    IN  /\ pc[p] = "load"
        /\ index[u] # None /\ index[u].hash = data[p]
        /\ Goto(p, "mark")
        /\ UNCHANGED <<shown, events, index, sent, bounds, left, found, new, todo, cur,
                       data, doc>>

\* ingest_one: the first document of this URL.
CreateDoc(p) ==
    LET u == UrlOf[cur[p]]
    IN  /\ pc[p] = "load"
        /\ ~Held(u)
        /\ Docs!Create(u, data[p]) /\ NewIdOf(u)
        /\ doc' = [doc EXCEPT ![p] = index'[u].id]
        /\ Goto(p, "mark")
        /\ UNCHANGED <<shown, events, sent, bounds, left, found, new, todo, cur, data>>

\* ingest_one: lock the row, drop the old text ...
ClearDoc(p) ==
    LET u == UrlOf[cur[p]]
    IN  /\ pc[p] = "load"
        /\ ~Held(u)
        /\ index[u] # None /\ index[u].hash # data[p]
        /\ Docs!Blank(u)
        /\ Goto(p, "replace")
        /\ UNCHANGED <<shown, events, sent, bounds, left, found, new, todo, cur, data, doc>>

\* ... and commit the new one.
ReplaceDoc(p) ==
    LET u == UrlOf[cur[p]]
    IN  /\ pc[p] = "replace"
        /\ Docs!Replace(u, data[p])
        /\ doc' = [doc EXCEPT ![p] = index[u].id]
        /\ Goto(p, "mark")
        /\ UNCHANGED <<shown, events, sent, bounds, left, found, new, todo, cur, data>>

\* ingest_one raises: a parser, the embeddings, the store, a lost race.
IngestRaises(p) ==
    /\ pc[p] \in {"load", "replace"}
    /\ Goto(p, "fail")
    /\ UNCHANGED <<shown, events, index, sent, bounds, left, found, new, todo, cur, data,
                   doc>>

Marked(d) == [ingested |-> TRUE, doc |-> d, error |-> FALSE]

\* _mark_ingested, outside the try: without a row it updates nothing; with a
\* document that does not exist, the random id of a skipped ingest included,
\* the foreign key raises and the rest of the batch is lost.
MarkIngested(p) ==
    /\ pc[p] = "mark"
    /\ \/ /\ events[cur[p]] = None
          /\ NextEvent(p)
          /\ UNCHANGED <<events, todo, left, found, new>>
       \/ /\ events[cur[p]] # None /\ HasDoc(doc[p])
          /\ events' = [events EXCEPT ![cur[p]] = Marked(doc[p])]
          /\ NextEvent(p)
          /\ UNCHANGED <<todo, left, found, new>>
       \/ /\ events[cur[p]] # None /\ ~HasDoc(doc[p])
          /\ DropBatch(p)
          /\ UNCHANGED events
    /\ UNCHANGED <<shown, index, sent, bounds>>

\* _mark_error. The document id of an earlier success stays in the row.
\* Fault: so does its ingested flag.
FailedStillIngested(e) == [events[e] EXCEPT !.error = TRUE]
Failed(e) == [ingested |-> FALSE, doc |-> events[e].doc, error |-> TRUE]
MarkError(p) ==
    /\ pc[p] = "fail"
    /\ events' = IF events[cur[p]] = None THEN events
                 ELSE [events EXCEPT ![cur[p]] = Failed(cur[p])]
    /\ NextEvent(p)
    /\ UNCHANGED <<shown, index, sent, bounds, left, found, new, todo>>

\* The database refuses a mark, or the tenant is unknown.
NotifierFails(p) ==
    /\ pc[p] \in {"ingest", "mark", "fail"}
    /\ faults < MaxFaults
    /\ faults' = faults + 1
    /\ DropBatch(p)
    /\ UNCHANGED <<shown, events, index, sent, crashes>>

(* ---- WebhookNotifier ---------------------------------------------------- *)

\* One POST for the whole batch, up to three attempts, never raising; and the
\* poll returns. A POST counts as sent whether or not it was answered.
Post(p) ==
    /\ pc[p] = "hook"
    /\ sent' = [e \in Event |-> IF e \in new[p] THEN sent[e] + 1 ELSE sent[e]]
    /\ Return(p)
    /\ UNCHANGED <<shown, events, index, bounds>>

\* The process dies, or the lookup of _filter_new raises.
Crash(p) ==
    /\ pc[p] # "idle"
    /\ crashes < MaxCrashes
    /\ crashes' = crashes + 1
    /\ Return(p)
    /\ UNCHANGED <<shown, events, index, sent, faults>>
-----------------------------------------------------------------------------
\* What a poll does by itself.
Proceed(p) ==
    \/ \E f \in Feed : FetchFeed(p, f) \/ FeedFails(p, f) \/ Filter(p, f)
    \/ Filtered(p) \/ Persist(p)
    \/ \E e \in Event : FetchPage(p, e)
    \/ Skip(p) \/ CreateDoc(p) \/ ClearDoc(p) \/ ReplaceDoc(p)
    \/ MarkIngested(p) \/ MarkError(p) \/ Post(p)

Next ==
    \/ \E e \in Event : Publish(e) \/ Expire(e)
    \/ Others
    \/ \E p \in Poller :
        \/ \E only \in SUBSET Feed \ {{}} : StartPoll(p, only)
        \/ Proceed(p)
        \/ IngestRaises(p) \/ PersistFails(p) \/ NotifierFails(p)
        \/ Crash(p)

Spec == Init /\ [][Next]_vars

\* Every await of a poll ends, and lock waiters are queued; beat starts a poll
\* every interval; a feed that is asked again and again answers in the end.
\* Nobody relies on the CLI, on an error or on a crash to happen.
FairSpec ==
    /\ Spec
    /\ \A p \in Poller :
        /\ SF_vars(Proceed(p))
        /\ SF_vars(StartPoll(p, Feed))
        /\ \A f \in Feed : SF_vars(FetchFeed(p, f))
-----------------------------------------------------------------------------
(* ---- Properties -------------------------------------------------------- *)

\* An event shown as ingested carries no error and links to a document that
\* exists and is the one of its URL, whichever polls, re-ingests, deletes and
\* errors there were since (the columns of watcher_events).
IngestedLinksDocument ==
    \A e \in Event : events[e] # None /\ events[e].ingested =>
        /\ ~events[e].error
        /\ index[UrlOf[e]] # None /\ index[UrlOf[e]].id = events[e].doc

\* The fan-out may say an event again only because polls overlapped or the
\* database refused the row: not because a poll crashed, an ingest failed or
\* the feed lists the entry for ever (_filter_new, "dedup before sending").
ResentOnlyByOverlap == \A e \in Event : sent[e] <= Cardinality(Poller) + faults

\* An entry that stays listed is recorded in the end, whatever failed on the
\* way: failed polls leave nothing behind that would hide it.
ListedIsRecorded ==
    \A e \in Event : e \in shown ~> e \notin shown \/ events[e] # None

\* A recorded event is announced in the end, even when its ingest, or that of
\* another event of the batch, brought the notifier before down. A poll that
\* dies after recording is the one exception: nobody announces for it.
RecordedIsAnnounced ==
    \A e \in Event : events[e] # None ~> sent[e] > 0 \/ crashes > 0

(* ---- What the code's own comments say, and the code does not do -------- *)

\* "Failure modes are isolated per event": with no database error and no dead
\* poll, an event whose poll is over is ingested or says why not.
OutcomeRecorded ==
    /\ AutoIngest /\ faults = 0 /\ crashes = 0
    /\ \A p \in Poller : pc[p] = "idle"
    => \A e \in Event : events[e] # None => events[e].ingested \/ events[e].error
=============================================================================
