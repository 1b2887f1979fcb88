----------------------------- MODULE Connectors -----------------------------
(***************************************************************************)
(* Web connectors, which live in tenants.settings beside the gateway       *)
(* policy, the routing order and the enrichment switch. Every writer of    *)
(* that column, a route or the worker that records a run, reads it whole,  *)
(* changes its part and writes it back whole; no lock is taken and no      *)
(* version compared.                                                       *)
(*                                                                         *)
(* A history is its length, capped; time is what is_due sees of it: the    *)
(* last run is recent, or its interval has passed. Names, URLs, filters    *)
(* and clamped bounds of a connector are left out.                         *)
(***************************************************************************)
EXTENDS Integers, FiniteSets

CONSTANTS
    Connector,     \* ids of connectors; a uuid4 is drawn once
    Owner,         \* requests that may run side by side
    Worker,        \* tasks that may run side by side
    Rest,          \* values of the other keys of the settings
    HistoryLimit,  \* RUN_HISTORY_LIMIT
    MaxQueued,     \* bound: queued tasks of one connector
    MaxFaults,     \* bound: crashes and database errors
    None

ASSUME BoundAssumption ==
    /\ HistoryLimit \in Nat \ {0}
    /\ MaxQueued \in Nat \ {0}
    /\ MaxFaults \in Nat
ASSUME ActorAssumption == Owner \cap Worker = {}
ASSUME RestAssumption == Rest # {}

Actor == Owner \cup Worker
Row == [enabled : BOOLEAN, timed : BOOLEAN, last : {"never", "recent", "old"},
        runs : 0..HistoryLimit]
Settings == [items : [Connector -> Row \cup {None}], rest : Rest]
Op == [kind : {"update", "create", "delete", "record"}, id : Connector,
       enabled : BOOLEAN, timed : BOOLEAN]
    \cup [kind : {"rest"}, rest : Rest]

ASSUME NoneAssumption ==
    None \notin Row /\ None \notin Connector /\ None \notin [op : Op, read : Settings]

VARIABLES
    settings,  \* tenants.settings
    drawn,     \* ids given out so far
    txn,       \* the open read-modify-write of each actor
    crossed,   \* the actors another one has written since they read
    queue,     \* queued run_web_connector messages
    due,       \* the connectors a tick has found due and not queued yet
    pc,        \* where each worker is
    job,       \* the connector of its message
    faults

work == <<pc, job>>
vars == <<settings, drawn, txn, crossed, queue, due, work, faults>>

TypeOK ==
    /\ settings \in Settings
    /\ drawn \subseteq Connector
    /\ txn \in [Actor -> [op : Op, read : Settings] \cup {None}]
    /\ crossed \subseteq Actor
    /\ queue \in [Connector -> 0..MaxQueued]
    /\ due \subseteq Connector
    /\ pc \in [Worker -> {"idle", "find", "crawl", "record"}]
    /\ job \in [Worker -> Connector \cup {None}]
    /\ faults \in 0..MaxFaults
    /\ \A w \in Worker : pc[w] # "idle" => job[w] \in Connector
    /\ \A w \in Worker : txn[w] # None => pc[w] = "record" /\ txn[w].op.kind = "record"

Init ==
    /\ settings \in [items : [Connector -> {None}], rest : Rest]
    /\ drawn = {}
    /\ txn = [a \in Actor |-> None]
    /\ crossed = {}
    /\ queue = [c \in Connector |-> 0]
    /\ due = {}
    /\ pc = [w \in Worker |-> "idle"]
    /\ job = [w \in Worker |-> None]
    /\ faults = 0
-----------------------------------------------------------------------------
(* ---- The settings column -------------------------------------------------- *)

Has(s, c) == s.items[c] # None

\* find_connector: without it a request is answered 404 and a run is not recorded.
Found(op, s) == op.kind \in {"update", "delete", "record"} => Has(s, op.id)

\* create_connector: normalize_connector keeps no history and no last run.
Created(op) == [enabled |-> op.enabled, timed |-> op.timed, last |-> "never", runs |-> 0]

\* update_connector hands over the old created_at, last_run_at, last_run_epoch and runs;
\* normalize_connector drops last_run_epoch from them.
Updated(op, row) ==
    [enabled |-> op.enabled, timed |-> op.timed, last |-> "never", runs |-> row.runs]

\* Fault: the history is not capped.
RecordedUncapped(row) == [row EXCEPT !.last = "recent", !.runs = @ + 1]
\* append_run, and last_run_epoch.
Recorded(row) ==
    [row EXCEPT !.last = "recent",
                !.runs = IF @ < HistoryLimit THEN @ + 1 ELSE @]

NewRow(op, row) ==
    CASE op.kind = "create" -> Created(op)
      [] op.kind = "update" -> Updated(op, row)
      [] op.kind = "record" -> Recorded(row)
      [] op.kind = "delete" -> None

\* Fault: a writer of another key keeps that key only.
ApplyAlone(op, s) ==
    IF op.kind = "rest"
    THEN [items |-> [c \in Connector |-> None], rest |-> op.rest]
    ELSE [s EXCEPT !.items[op.id] = NewRow(op, @)]
\* What a writer makes of the settings it read.
Apply(op, s) ==
    IF op.kind = "rest" THEN [s EXCEPT !.rest = op.rest]
    ELSE [s EXCEPT !.items[op.id] = NewRow(op, @)]

\* Each read-modify-write is one session: session.get, a few assignments, commit.
Load(a, op) ==
    /\ txn[a] = None
    /\ txn' = [txn EXCEPT ![a] = [op |-> op, read |-> settings]]
    /\ crossed' = crossed \ {a}

Close(a) == txn' = [txn EXCEPT ![a] = None]

Save(a) ==
    /\ txn[a] # None
    /\ Found(txn[a].op, txn[a].read)
    /\ settings' = Apply(txn[a].op, txn[a].read)
    /\ crossed' = (crossed \cup {b \in Actor : txn[b] # None}) \ {a}
    /\ Close(a)

\* 404, or nothing to record it on.
Missed(a) ==
    /\ txn[a] # None
    /\ ~Found(txn[a].op, txn[a].read)
    /\ Close(a)
    /\ UNCHANGED <<settings, crossed>>

(* ---- Routes ----------------------------------------------------------------- *)

\* create_connector.
Create(o, c, enabled, timed) ==
    /\ c \notin drawn
    /\ drawn' = drawn \cup {c}
    /\ Load(o, [kind |-> "create", id |-> c, enabled |-> enabled, timed |-> timed])
    /\ UNCHANGED <<settings, queue, due, work, faults>>

\* update_connector.
Update(o, c, enabled, timed) ==
    /\ c \in drawn
    /\ Load(o, [kind |-> "update", id |-> c, enabled |-> enabled, timed |-> timed])
    /\ UNCHANGED <<settings, drawn, queue, due, work, faults>>

\* delete_connector.
Delete(o, c) ==
    /\ c \in drawn
    /\ Load(o, [kind |-> "delete", id |-> c, enabled |-> FALSE, timed |-> FALSE])
    /\ UNCHANGED <<settings, drawn, queue, due, work, faults>>

\* PUT of the policy, the routing order or the enrichment switch.
SetRest(o, v) ==
    /\ Load(o, [kind |-> "rest", rest |-> v])
    /\ UNCHANGED <<settings, drawn, queue, due, work, faults>>

Answer(o) ==
    /\ Save(o) \/ Missed(o)
    /\ UNCHANGED <<drawn, queue, due, work, faults>>

\* The request fails before its commit.
Fails(o) ==
    /\ txn[o] # None
    /\ Close(o)
    /\ UNCHANGED <<settings, drawn, crossed, queue, due, work, faults>>

Send(c) == queue' = [queue EXCEPT ![c] = @ + 1]

\* run_connector_now.
RunNow(c) ==
    /\ Has(settings, c)
    /\ queue[c] < MaxQueued
    /\ Send(c)
    /\ UNCHANGED <<settings, drawn, txn, crossed, due, work, faults>>

(* ---- The beat tick ------------------------------------------------------------ *)

\* is_due.
Due(c) ==
    LET row == settings.items[c]
    IN  row # None /\ row.enabled /\ row.timed /\ row.last # "recent"

\* run_due_connectors reads the settings of all tenants, then queues one by one.
Tick ==
    /\ due = {}
    /\ due' = {c \in Connector : Due(c)}
    /\ due' # {}
    /\ UNCHANGED <<settings, drawn, txn, crossed, queue, work, faults>>

\* Bound: a message beyond MaxQueued is not kept.
Enqueue(c) ==
    /\ c \in due
    /\ due' = due \ {c}
    /\ IF queue[c] < MaxQueued THEN Send(c) ELSE UNCHANGED queue
    /\ UNCHANGED <<settings, drawn, txn, crossed, work, faults>>

\* The interval of a connector has passed, wherever its row is held.
Older(s, c) ==
    IF Has(s, c) /\ s.items[c].last = "recent" THEN [s EXCEPT !.items[c].last = "old"] ELSE s
Age(c) ==
    /\ Has(settings, c)
    /\ settings.items[c].last = "recent"
    /\ settings' = Older(settings, c)
    /\ txn' = [a \in Actor |-> IF txn[a] = None THEN None
                               ELSE [txn[a] EXCEPT !.read = Older(@, c)]]
    /\ UNCHANGED <<drawn, crossed, queue, due, work, faults>>

(* ---- _run_web_connector --------------------------------------------------------- *)

Goto(w, label) == pc' = [pc EXCEPT ![w] = label]

Leave(w) ==
    /\ Goto(w, "idle")
    /\ job' = [job EXCEPT ![w] = None]

Take(w, c) ==
    /\ pc[w] = "idle"
    /\ queue[c] > 0
    /\ queue' = [queue EXCEPT ![c] = @ - 1]
    /\ Goto(w, "find")
    /\ job' = [job EXCEPT ![w] = c]
    /\ UNCHANGED <<settings, drawn, txn, crossed, due, faults>>

\* The configuration is read once, before the crawl, whatever its schedule says now.
Find(w) ==
    /\ pc[w] = "find"
    /\ IF Has(settings, job[w])
       THEN Goto(w, "crawl") /\ UNCHANGED job
       ELSE Leave(w)
    /\ UNCHANGED <<settings, drawn, txn, crossed, queue, due, faults>>

\* Fault: a crawl that raises ends the task.
CrawlOrRaise(w) ==
    /\ pc[w] = "crawl"
    /\ \/ Goto(w, "record") /\ UNCHANGED job
       \/ Leave(w)
    /\ UNCHANGED <<settings, drawn, txn, crossed, queue, due, faults>>
\* The crawl ends, well or with an exception: either is a run.
Crawl(w) ==
    /\ pc[w] = "crawl"
    /\ Goto(w, "record")
    /\ UNCHANGED <<settings, drawn, txn, crossed, queue, due, job, faults>>

\* The settings are read again, for the record.
LoadRecord(w) ==
    /\ pc[w] = "record"
    /\ Load(w, [kind |-> "record", id |-> job[w], enabled |-> FALSE, timed |-> FALSE])
    /\ UNCHANGED <<settings, drawn, queue, due, work, faults>>

Record(w) ==
    /\ Save(w) \/ Missed(w)
    /\ Leave(w)
    /\ UNCHANGED <<drawn, queue, due, faults>>

\* The database fails the task, or its worker dies. The message, acknowledged late,
\* may come back in the second case.
Dies(w, back) ==
    /\ pc[w] # "idle"
    /\ faults < MaxFaults
    /\ faults' = faults + 1
    /\ IF back /\ queue[job[w]] < MaxQueued THEN Send(job[w]) ELSE UNCHANGED queue
    /\ IF txn[w] = None THEN UNCHANGED txn ELSE Close(w)
    /\ Leave(w)
    /\ UNCHANGED <<settings, drawn, crossed, due>>
-----------------------------------------------------------------------------
Requests ==
    \/ \E o \in Owner :
        \/ \E c \in Connector :
            \/ \E enabled, timed \in BOOLEAN :
                  Create(o, c, enabled, timed) \/ Update(o, c, enabled, timed)
            \/ Delete(o, c)
        \/ \E v \in Rest : SetRest(o, v)
        \/ Answer(o)
        \/ Fails(o)
    \/ \E c \in Connector : RunNow(c)

Beat == Tick \/ \E c \in Connector : Enqueue(c) \/ Age(c)

Proceed(w) == Find(w) \/ Crawl(w) \/ LoadRecord(w) \/ Record(w)

Next ==
    \/ Requests
    \/ Beat
    \/ \E w \in Worker, c \in Connector : Take(w, c)
    \/ \E w \in Worker : Proceed(w) \/ \E back \in BOOLEAN : Dies(w, back)

Spec == Init /\ [][Next]_vars

(* Fairness, as for Indexers: beat ticks, the tick goes through what it found, the *)
(* queue is FIFO, and a worker goes on with its task. Requests may stop anywhere.  *)
Fairness ==
    /\ WF_vars(Tick)
    /\ \A c \in Connector : WF_vars(Enqueue(c))
    /\ \A c \in Connector : SF_vars(\E w \in Worker : Take(w, c))
    /\ \A w \in Worker : WF_vars(Proceed(w))

FairSpec == Spec /\ Fairness
-----------------------------------------------------------------------------
(* ---- Properties --------------------------------------------------------------- *)

\* What a write does to the rest of the settings when nobody wrote since its read:
\* the other keys and the other connectors stay, a connector that is not there is not
\* brought back, a history never gets shorter (connectors.py:77-155, tasks.py:305-319).
Intended(op, s, t) ==
    /\ op.kind # "rest" => t.rest = s.rest
    /\ \A c \in Connector :
        /\ t.items[c] # s.items[c] => op.kind # "rest" /\ op.id = c
        /\ ~Has(s, c) /\ Has(t, c) => op.kind = "create"
        /\ Has(s, c) /\ ~Has(t, c) => op.kind = "delete"
        /\ Has(s, c) /\ Has(t, c) => t.items[c].runs >= s.items[c].runs

\* Only a write that another one crossed loses anything of another writer, however
\* long the crawl it records took.
QuietWritesLoseNothing ==
    [][\A a \in Actor :
          (txn[a] # None /\ txn'[a] = None /\ a \notin crossed)
              => Intended(txn[a].op, settings, settings')]_vars

\* A connector that is switched on with a schedule and never ran is run and recorded
\* in the end, unless it is edited or deleted, whatever its crawl does and whoever
\* else writes the settings (connectors.py:144-159, tasks.py:250-338).
ScheduledIsRun ==
    \A c \in Connector :
        Due(c) ~> ~Due(c)

\* What the comment of update_connector says (routes/connectors.py:118): an edit keeps
\* the server-managed fields, last_run_epoch among them.
EditKeepsSchedule ==
    [][\A c \in Connector :
          Has(settings, c) /\ settings.items[c].last # "never" /\ Has(settings', c)
              => settings'.items[c].last # "never"]_vars
=============================================================================
