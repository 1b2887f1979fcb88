# A TLA+ model of AskAi

AskAi ingests documents, indexes them for search, and lets people and agents ask
questions that a language model answers from them. This directory holds TLA+ modules for
the parts of AskAi where steps of several processes meet, TLC configurations that check
them on small instances, and TLAPS proofs of the theorems that matter most.

Paths are relative to `src/`; `core`, `api`, `indexing`, ... stand for
`packages/<name>/src/faastlab_askai_<name>`.

## 1. The system

| component | state it keeps | operations | what is hard |
|---|---|---|---|
| Ingestion pipeline (`indexing/pipeline.py`) | `documents`, `chunks`, `ingestion_jobs`, bytes in the object store | `ingest_one`: open a job, upsert the row, clear old chunks, store bytes, parse/chunk/embed, commit, close the job, queue a summary | two stores and three transactions per ingest; concurrent ingests of one URI; failures and crashes between any two steps |
| Document routes (`api/routes/documents.py`) | the same rows and objects | delete, edit metadata, serve the original, queue summaries | delete against re-ingest; foreign keys |
| AI gateway (`core/gateway/`) | `tenants.settings` (policy, routing, quota), `llm_usage` | `complete`, `stream`, `complete_with_tools`; guards of the routes; owner's PUTs | check-then-record quota, stale settings, failover before and inside a stream, best-effort ledger |
| Agent and MCP tools (`mcp/`) | the conversation of one run | tool rounds, bounded by `max_steps` | many gateway calls under one admission |
| Ask service, session memory (`askai/`) | `chat_sessions.history`, audit rows | `ask`, `stream_ask`, `append` | whole-value read-modify-write of the history; a client that leaves mid-stream |
| Summarisation, enrichment (`summarisation/`, `indexing/tasks.py`) | `documents.summary` | summarise a document; sweep every 5 minutes | summary of a version that is gone; calls the model without the gateway |
| Watcher (`watcher/`) | `watcher_events` | poll feeds, drop what is known, notify: console, database, ingest, webhook | an event is marked as seen before it is ingested |
| Indexers, connectors (`indexing/tasks.py`, `core/connectors.py`, `api/routes/{ingestion,connectors}.py`) | indexers, runs, connectors inside `tenants.settings` | beat tick, due check, run, record, edit | runs longer than a tick, redelivery, lost updates of the settings value |
| Prompt registry (`core/gateway/prompts.py`) | `prompts` | save a version, activate, resolve | two writers number or activate versions at once |
| Search (`search/`) | `answer_feedback` (reads chunks) | vector and keyword retrieval, rank fusion, reranking, nudging by votes | orders of several stages laid over each other; stages that fail |
| Training (`askai/training`, `api/routes/training.py`) | modules, assignments, records | generate, save, assign, submit, grade | overlapping assigns, repeated submissions, two ways to a mark, page and backend that must agree |
| Auth, trial, tenancy (`api/routes/{auth,admin}.py`, `api/middleware`) | users, tenants; tokens and invites in the hands of clients | sign up, log in, invite, accept, trial clock | look-up before insert; tokens that outlive what they claim |
| Audit log (`api/middleware/audit.py`, `api/audit_helper.py`, `api/routes/audit.py`) | `audit_log` | told by routes and by the middleware; paged, exported | rows lost, told twice or not at all; pages over a list that moves |
| Validators (`validators/`) | none | score a document against a rule pack, the claims of a report against the corpus | calls that fail half way, replies that cannot be read |
| Parsers, chunkers, corpus loaders, SDK, UI, CLIs, deployment | mostly none | | text processing and glue |

They interact through the database (every component), the object store (pipeline, delete
route, folder sources), the Celery broker (API and beat to workers), and calls inside a
process (ask -> search, gateway, memory; agent -> gateway, tools; watcher -> pipeline).
`PROJECT.json` lists each component with its sources and whether it is modelled, and the
hazards with the line where each bites.

### What makes each part correct

* Pipeline and delete route: what is indexed under a document is the text of its stored
  original and of the version its row names, whole or not at all; a document keeps its id
  and its original; a job says what happened; every call returns.
* Gateway: the egress lock holds for every call; a prompt goes to a fallback only after
  the targets before it failed; a streaming client reads one model; the ledger agrees with
  the providers; the quota is overshot by a bounded amount; every call returns.
* Settings, sessions, prompts: a writer changes its own part only, and loses another's
  change only when the two really cross.
* Watcher: what a feed lists is recorded in the end, announced a bounded number of times,
  and what a row says of a document is true.
* Scheduler: what is uploaded or due is run in the end, whatever crashes; a run row says
  "running" only while somebody runs it; runs go when their indexer goes.
* Sessions: an answer that was told or audited is in the history, and a follow-up is
  answered from what its client had read.
* Prompts: the version chosen last is the one that serves and the one that is shown.
* Training: marks mean the same on every path; an assignment is completed exactly when a
  record proves it.
* Accounts: one address, one account, one workspace; a token says what its row says.
* Audit: who pages to the end has seen everything.
* Validators and search: a failure never improves a verdict; the order of the hits follows
  the evidence.
* Summaries: a document's summary is that of its text, or one is on its way.

## 2. Modules

| module | models | |
|---|---|---|
| `DocIndex` | the index a reader sees: per URI an id, a hash, the indexed text, whether it is active | abstract specification |
| `Ingest` | `ingest_one` run by several workers, and `DELETE /documents/{id}` | implements `DocIndex` |
| `MCIngest` | symmetry for TLC | |
| `IngestProofs` | the proofs about `Ingest` | |
| `Gateway` | `AIGateway`, the route guards, the owner's PUTs, the agent loop, searches and summaries as far as they touch model or ledger | |
| `MCGateway` | tenants' policies and routings, symmetry for TLC | extended by the next two |
| `MCPlatform` | the gateway and, as alternatives, ten parts behind the API | instances of the modules below |
| `MCModelCalls` | the gateway's calls and, as an alternative, the summaries, with fairness | |
| `GatewayProofs` | the proofs about `Gateway` | |
| `Watcher` | polls that run side by side, the notifiers in turn, automatic ingest | uses `DocIndex` for the documents |
| `MCWatcher` | which feed lists and which page holds each event, symmetry for TLC | |
| `WatcherProofs` | the proofs about `Watcher` | |
| `Indexers` | folder indexers: owners, beat tick, queue, workers, run rows | one commit of `Ingest` per file |
| `Sources` | the requests that create a source and its indexer, as they overlap | |
| `MCIndexers` | the instance of `Indexers` | |
| `IndexersProofs` | the proofs about `Indexers` | |
| `Connectors` | web connectors inside `tenants.settings`, and every other writer of that value | |
| `MCConnectors` | the instance of `Connectors` | |
| `ConnectorsProofs` | the proofs about `Connectors` | |
| `Conversation` | `ask`, `stream_ask`, the route around them and the session memory | |
| `Prompts` | the versions of a prompt, saved and activated by requests that overlap | |
| `Listing` | a filter and `sorted()`, by where each element goes | used by the next two |
| `Retrieval` | both retrievers, fusion, reranking, the nudge by votes | |
| `Courses` | a training module from its generation to a learner's mark | |
| `Assignments` | who must take a module, and the records that prove it | |
| `Accounts` | signup, login, invites, tokens, the trial | |
| `AuditTrail` | which requests leave rows, and the pages an owner turns | |
| `Validators` | both validators and their lights | |
| `Summaries` | what pipelines queue, sweeps and buttons add, and workers write | |
| `RequestsProofs` | the proofs about `Sources`, `Prompts`, `Assignments`, `Accounts`, `Conversation`, `AuditTrail`, `Summaries`, `Validators` | instances of them |
| `ListingProofs` | the proofs about `Listing`, `Courses`, `Retrieval` | instances of the last two |
| `PlatformProofs` | the properties of `MCPlatform` | from the two above |

### Ingest

One action per step between two points where the process may lose control (an await that
talks to a store) of `ingest_one`; `pc[w]` is the place of a worker. The row lock that
PostgreSQL takes at the flush is `lock`, held until the session's commit or rollback, so
`FlushInsert` and `FlushUpdate` wait for it and then find the row as the earlier session
left it. What the session writes is invisible until `Commit`; `ClearChunks` (the vector
store's own transaction) and `Put` (the object store) take effect at once. `Raise` is an
exception from any call before the commit, `Crash` the death of the process anywhere.
The delete route is `RequestDelete`, `DeleteChunks`, `DeleteRow`, `DeleteObject`: the ORM's
cascade loads the chunks with the row and deletes them first, so a delete may hold the
locks of the chunk rows ("locked") while it waits for the row itself. `ClearChunks` runs on
a second connection and waits for those locks (`ChunksLocked`), with the session's row lock
held.

A fresh number per ingest stands for the uuids of its job and its document. A chunk is
abstracted to the content it was cut from; parsing, chunking and embedding together are
`TextOf`. The write to the object store fails or succeeds as a whole. Two documents never
share a storage key (the key is the id).

`View` maps this state to `DocIndex`: a document is there when its row is committed. The
clearing of chunks shows there as `Blank`, a separate step of the abstract index: a
reader does see a document without text while it is re-ingested, and for good when the
re-ingest then fails.

### Gateway

The targets differ in the flag `Sovereign` and in where their adapter really sends a prompt,
`Endpoint`: without `LLM_BASE_URL` that of qwen is the SDK's default, in the cloud. `Chain`
keeps such a target when nothing else is left, as the code does.

An agent's reply asks for tools (`UseTools`), which run one after the other: `SearchTool`, or
`AskTool`, a question that is a call of its own with its own gate, screen, chain and rows;
`Return` brings it back to the agent that asked, and `NextRound` calls the agent's model
again. How many tools a reply asks for is up to the model (`MaxTools` is a bound).

A caller is a request or task of one tenant; its steps are the awaits of the route guards
and of `AIGateway`: quota guard, policy guard, load settings, count usage, screen, then
per target a prompt sent (`NextTarget`) and what comes back (`Answer`, `Fail`, `Token`,
`EndStream`, `RefuseStream`, `BreakStream`, `LeaveStream`). `snap` is the settings value
the call loaded, which may be stale when it is used. `fate` is what became of each prompt
as the provider knows it, so that the ledger can be compared with something the gateway
does not write. `left` is the rest of the failover chain.

The owner's editors read the settings value whole and write it back whole
(`ReadSettings`, `PutPolicy`, `PutRouting`): no lock or version protects it.

Abstracted: prompts and answers; tokens are 1 for the prompt and 1 for a completion;
`max_tokens` capping; the retries inside an adapter (one call of the gateway is one
prompt); a provider's response always has a choice; per-purpose model overrides and BYOK
keys, so that a model name stands for its target; the heuristic of the jailbreak screen
(whether a prompt trips it is left open). A crashed caller is one that takes no more
steps.

### Watcher

Each `Poller` is a process that may be running a poll: a Celery task of the beat, the same
task redelivered after a crash (acknowledgement is late), or the CLI. A poll fetches feed
after feed (`FetchFeed`, `FeedFails`), looks up what it found, one SELECT per regulator
(`Filter`), and hands what is new to the notifiers: `Persist` or `PersistFails` for the
database; `FetchPage`, `ingest_one` and `MarkIngested` or `MarkError` for each event of
the automatic ingest; `Post` for the webhook. `DropBatch` is an exception that leaves the
ingest notifier and is caught by the fan-out.

`Watcher` does not repeat `Ingest`. It takes the documents as the abstract index: the
steps of `ingest_one` that matter here are `DocIndex`'s `Create`, or `Blank` and then
`Replace` with the row locked in between (`Held`), and everybody else takes any step of
`DocIndex` (`Others`). The refinement theorem about `Ingest` is what makes this sound.
`DocIndex` lets a removed id be used again; uuids are not, hence `NewIdOf`. A document that
a row of `watcher_events` references cannot be removed.

Abstracted: the console notifier and the poll report; the `since` filter of the CLI; the
order of the events in a batch (any order is allowed) and an entry listed twice in one
feed; the webhook is always configured; a POST counts as sent whether or not it was
answered, and the notifier never raises. An unknown tenant has the effect of a database
error (`PersistFails`, `NotifierFails`).

### Indexers and Sources

`Create`, `Upload`, `RunNow` and `Delete` are the owner's routes. `Tick` is
`run_due_indexers`: it reads all rows at once and queues one message after another
(`Enqueue`); what it read may be stale by then. A worker takes a message (`Take`), opens a
run row (`OpenRun`) or finds no indexer (`NotFound`), reads the object of the folder
(`Crawl`), ingests it (`Ingest`, `IngestFails`) and records the run (`CloseRun`). A
connector that raises closes the run as an error (`CrawlFails`); a commit that the database
refuses loses the task (`Raises`), as does the death of a worker, whose message may come
back (`Dies`: acknowledgement is late, but a lost child process counts as acknowledged).

A check at the head of a route and its effect are one step: the only step of another that
could matter in between, a delete, may as well come after the effect. A folder holds one
file, since a crawl treats each like the others; `stored` is its version in the object
store and `ingested` the version its document row is at. What is indexed under that row is
the matter of `Ingest`, finding 1 included. Time is what `is_indexer_due` sees of it: the
last run is recent, or its interval has passed (`Age`).

`Sources` looks at the creation routes more closely: `Read` stands for their lookups,
`Insert` for their one commit. The default skillset and the default index profile are
found or made in the same way and are counted as one.

Not modelled: what a web crawl fetches, the counts in a run row, a message redelivered by
the broker's visibility timeout while its first worker still runs (a second message for the
same indexer, which `RunNow` also makes, has the same effect).

### Connectors

A connector is an item of `tenants.settings`, which also holds the gateway's policy and
order and the enrichment switch (`rest`). Every writer is `Load` (it reads the value
whole), then `Save` (it writes back the whole value with its part changed) or `Missed`
(404, or no connector to record on). `txn` is the open session of each writer with the
value it read; `crossed` the writers whose value somebody has overwritten since. The
worker's crawl happens between two reads: `Find`, `Crawl`, `LoadRecord`, `Record`.
`Updated` is what `normalize_connector` makes of an edit, with the field it drops. The
history of a connector is its length, up to `HistoryLimit`.

### The parts behind the API

These modules share no state with each other or with the gateway, except the principal
and the text that one hands to the next. `MCPlatform` therefore checks them in one run as
alternatives: a behaviour follows one `side`, and the slots `s1` .. `s8` hold its
variables. The properties are those of the modules, each said of the behaviours of its side.

`Conversation`. A call goes through `Load`, `Generate`, `AppendReads`, `AppendCommits`, and
then `Tell` (the done event of a stream) and `Audit`; `Leave` is a client that closes a
stream, which cancels the generator wherever it is, `Fail` whatever raises before the
append is committed. A turn is the call that made it. `Found` asks for the tenant only and
`Listed` for the user too, as the code does. `crossed` are the sessions in which two
appends overlapped: there, and only there, a turn is lost.

`Prompts`. A request is a transaction of PostgreSQL: an UPDATE without a version number
works on the rows committed when it began (`UpdateBegins`) and waits for the row locks of
others (`UpdateEnds`); a save whose number was taken is rolled back (`Fail`). `choice` is
what the owners have last been told is active.

`Retrieval`. What the retrievers find is any list; `Fuse`, `Reranked` and `Nudged` compute
what the code does with the lists, in integers of a common scale so that two positions
compare as their floats do. `Rerank` takes the replies batch by batch. `Sorted` and `Only`
are in `Listing`: both say at which place each element of a list ends up, which is what a
proof for lists of any length can use.

`Courses` and `Assignments`. A question is its answer key or `NoKey`; a reply of the model
that is no JSON is one without questions (`Parsed`). `GradeMcq` and `GradeText` are the two
ways to a mark, in tenths of a percent and thousandths of a point, with the roundings where
the code has them. `AssignReads` and `AssignCommits` are the two halves of an assign.

`Accounts`. `SignupReads` and `AcceptReads` look an address up, `Signup` and `Accept`
commit; the unique constraint (`FreeEmail`) decides when two overlap. Tokens and invites
are sets of what they claim, since nothing else records them.

`AuditTrail`. `Serve` leaves what is still to be told, `Tell` opens the transaction that
stamps the row, `Commit` or `Lose` ends it, so that rows appear out of the order of their
stamps. `Turn`, `Count` and `ShowPage` are the owner's page: two statements of one request.
`DayPasses` moves the window of days that every request counts anew.

`Validators`. A pack is the list of the severities of its requirements, as in the code; one
entry after the other is adjudicated by the model or, when the call fails or the reply
cannot be read, by the validator itself. Only counts are kept.

A pack or a report ends without a result when something is raised that nobody catches
(`Aborts`): a claim's call that fails, or a pack's reply that is JSON but no object.

`Summaries`. A text is a number, 0 for a document without chunks; a summary is the text it
was made of. A pipeline (`Start`) ingests one document after the other. `Begin` takes the row,
which is locked until the session ends (`Held`), and on a re-ingest clears the chunks;
`Commit` writes the new ones, perhaps none; `Interrupted` is a failure or a death before or
after the commit; `Enqueue` queues the task if the toggle was on when the pipeline read it,
which it does once (`Enriches`). `Read` and `Write` are a task's minutes apart; `Crash`
delivers the task again (`task_acks_late`), `Fail` does not. `excused` are the documents whose
summary may stay behind their text, since their last commit: the pipeline had read that
enrichment was off, was cut short before it queued the task, or the broker did not take it;
a task failed, or two tasks of one document overlapped. A document that has no chunks is
outside the property: it keeps the summary it had.

## 3. Runs

| run | instance | checks |
|---|---|---|
| `ingest` | 2 workers, 1 deleter, 2 URIs, 2 contents (one superseded), 3 ingests | type invariant, `ServedIsIndexed`, `TextOfOneVersion`, `RowsHaveOriginals`, `JobsNameRows`, `JobsMoveForward`, refinement of `DocIndex` |
| `ingest_live` | 2 workers, 1 deleter, 1 URI, 2 contents (one without text), 3 ingests | `EveryRequestReturns` |
| `ingest_skip` | 1 worker, 1 URI, 3 ingests | violation: see finding 1 |
| `gateway`, gateway side | 2 callers asking plain or streamed, 1 editor, 3 policies, both orders, 2 calls, 1 lost ledger write, a token limit | `LockedStaysHome`, `FallbackOnlyAfterFailure`, `OneVoice`, `LedgerTellsTruth` |
| conversation | 3 calls, 1 session, 2 users of a tenant, history of 2 turns | `AnswersAreKept`, `FollowUpsAreInformed` |
| prompts | 2 owners, 3 versions | `LastChoiceServes` |
| retrieval | 4 chunks of 2 documents, 2 hits a retriever, k of 1 to 3, pools of 2 and 3, batches of 2, 2 votes | `OrderFollowsEvidence` |
| courses | 2 options, 3 questions, rubrics of 2 criteria, 2 pass marks, troublesome points | `MarksAgree` |
| assignments | 1 module, 2 users, 2 owners, 3 ids, 2 records | `CompletionsAreProven` |
| accounts | 2 workspaces, 2 addresses, 2 owners, 2 tokens | `TokensNameTheirAccount` |
| audit | 2 requests, 3 stamps, pages of 1 row | `PagesMissNothing` |
| validators | the four packs, reports of up to 4 claims | `GreenIsEarned` |
| summaries | 1 document, 2 pipelines, 2 workers, 2 texts and none | `SummariesFollowTheText` |
| sources | 3 sources, 1 preset, 2 owners | `FoundOnce`; `PlatformTypeOK` on every side |
| `gateway_agent`, gateway side | 2 callers: agent, search, task, summary; request limit 2, 1 round of 1 tool, 2 arrivals, 6 call numbers, 1 row leaving the window | type invariant, `OvershootBounded`, `EveryCallReturns` |
| summaries | 2 documents, 1 pipeline, 1 worker, a batch of 1, 1 text and none | `BacklogDrains` |
| `gateway_locked` | 1 caller, cloud-only deployment, a locked tenant that routes to qwen first | violation: finding 2 |
| `watcher` | 2 pollers, 1 feed, 2 events of one page, 2 contents, 3 document ids, 1 database error | type invariant, `IngestedLinksDocument`, `ResentOnlyByOverlap` |
| `watcher_live` | 1 poller, 2 feeds, 2 events of one page, 1 content, 1 error, 1 crash | `ListedIsRecorded`, `RecordedIsAnnounced` |
| `watcher_outcome` | 1 poller, 2 feeds, no error, no crash | violation: finding 3 |
| `indexers` | 1 indexer, 2 workers, 2 versions, 3 run rows, 1 queued message, 1 fault, 1 failure | type invariant, `AbandonedOnlyByFault`, `RunsHaveIndexers`, `UploadIsIngested` |
| `connectors` | 1 connector, 1 owner, 1 worker, 2 values of the rest, history of 2, 1 fault | type invariant, `QuietWritesLoseNothing`, `ScheduledIsRun` |
| `connector_edit` | the same without a fault | violation: finding 4 |

Bounds. Three ingests are the least with which one ingest can have succeeded, a second fail
in the middle and a third meet what is left, while a delete runs; with two workers any two
sessions overlap, and the lock makes a third worker wait like the second. Two URIs let a URI
be removed and re-created while the other is untouched. Two targets are all there are
(`TARGET_NAMES`), so the failover chain is complete. Two callers and two calls give every
interleaving of one call's check with another's record; In `gateway_agent` only the first
two call numbers go to requests that arrive; the others are for the later rounds and the
tools' questions of the agents, and there are as many as two agents can use, so that
`MaxSteps` ends a loop and never `MaxCalls`. `MaxTools` bounds what one reply asks for,
which the code does not, so the overshoot is bounded by a function of it (`MaxRows`): a
target's row each, and a search's for each tool. The bound is the same for every instance of
the theorem. `MaxIngests`, `MaxCalls`, `LastArrival`, `MaxTools`, `MaxLost`, `MaxExpired`,
`MaxFaults` and `MaxCrashes` are the only bounds that are not in the code, and all are named
constants.

Two polls are the least that overlap; two events of one page are the least with which one
event's ingest makes another's skip. The number of polls is not bounded: with one database
error allowed, `watcher` shows that the number of POSTs of an event is bounded all the same.
Three document ids let both polls hold one each while a third is created.

Two workers on one indexer are the least that overlap, with two versions of its file one
can bring the old one back; three run rows keep two running ones and an abandoned one. An
owner and a worker on one connector are the two writers a lost update takes; two values of
`rest` tell one write of it from another. `MaxQueued` caps a queue that the code does not
bound.

Three calls let a turn be lost between two others and a follow-up come after both; with a
history of two the third pushes the first out. Three versions and two owners let an
activation wait behind a save. Two hits in each list, one in both, and two batches are the
least in which fusion, batches and votes disagree about an order; the pools hold fewer than
two lists can bring, so that each of them also cuts the fused list. The points of a
criterion include none, a negative number, more than the maximum, and the two beside a pass
mark where rounding decides. Two users and two owners are the least whose batches meet in
one row. With pages of one row, any row that moves moves across a page break. Two pipelines
and two workers on one document let an ingest come between a task's read and its write, and
one pipeline's toggle be older than another's. With two documents and a batch of one, one
document can keep the other from the sweep. The packs are those of the code, so
`GreenIsEarned` is checked for every outcome there is.

Fairness. No statement of the application has a timeout (`core/db/session.py:20-34` sets
none, nor do the tasks), so `FairSpec` of `Ingest` assumes nothing that ends a wait for a
lock: such a wait is a guard. It is strong per worker and per deleter because PostgreSQL
queues the waiters, so that one whose lock comes free again and again is served, and it
assumes that a parser, a store or a statement that need not wait answers or fails. What
remains is a true hang, which `EveryRequestReturns` names (`Entangled`, section 4).
`Fairness` of `Gateway` is weak per caller: every await ends; the client of a provider gives
up after ten minutes, and no handler waits for a lock of another. `FairSpec` of `Watcher` is
strong per poller for the same reason as that of `Ingest`; the beat starts a poll of all
feeds every interval (`StartPoll(p, Feed)`), and a feed that is asked again and again
answers in the end, which is an assumption about the regulators and not about the code.
`Indexers` and `Connectors` assume that beat runs, that time passes, that a worker goes on
with its task (every call of it returns or raises), and that the broker, a FIFO queue, does
not pass a message over for ever. `Summaries` assumes that the beat sweeps, that a document
that is queued again and again is read, and written, once without a failure, that an ingest
ends (as `Ingest` shows where no delete is in its way) and that a task does (its model
client gives up after ten minutes). The beat of the web connectors is opt-in
(`celery_app.py:75-81`): `ScheduledIsRun` speaks of deployments that have it on. `MaxFaults`
and `MaxFailures` make failures finite: a file that fails in every run is never ingested. No
module lets a fault, a crash or a request happen by fairness.

Deadlock is checked in every run but `indexers` and `gateway`: `Quiet` is the only way for
`Ingest` and `Gateway` to stop, `Watcher` and `Connectors` never do. An instance of
`Indexers` whose indexer was deleted has nothing left to do, nor has a side of `MCPlatform`
whose calls, ids or stamps are used up.

## 4. What the code does not do

1. `SkipMeansIndexed`: the old chunks are deleted before the new version commits; if the
   re-ingest fails, the row keeps the old hash and no chunks, and ingesting the old
   content again is "already up to date".
2. `NoPromptLeaves`: the summariser takes the deployment's model from the factory and
   calls it without the gateway; the egress lock does not apply to it. A call of the gateway
   is no safer on such a deployment: the lock goes by the flag of a target, and a chain none
   of whose targets is configured is kept as it is (`gateway/service.py:135`). Without
   `LLM_BASE_URL` qwen is such a target, its client is built without a base URL, and its
   prompts go to the SDK's default, api.openai.com, if there is a key. TLC finds the
   summary first, and the other way when the tenant only asks.
3. `OutcomeRecorded`: a page that is already indexed makes the automatic ingest skip, and
   the random document id of the skipped result violates the foreign key of the event row,
   outside the handler: this event and the rest of the batch get neither a document nor an
   error, and no later poll takes them up.
4. `EditKeepsSchedule`: an edit of a connector carries `last_run_epoch` over into
   `normalize_connector`, which drops it; the connector is due again at once.

The models show more, for which no run of its own is kept.

* Documents. A delete that has locked the chunk rows waits for the row; the re-ingest that
  holds the row waits, on a second connection, for the chunk rows (`pipeline.py:179`). The
  database sees an idle session and no cycle, so both hang: `Entangled`, the one exception
  `EveryRequestReturns` makes.
  `ingestion_jobs.document_id` has no `ON DELETE`, so the database refuses to
  delete a document that was ever ingested with success (`Referenced`, the second half of
  `DeleteRow` in `Ingest`), although the route promises a permanent deletion.
* Settings. A write of `tenants.settings` that another one crosses restores what that one
  had changed, be it the policy (`Gateway`) or a connector (`Connectors`);
  `QuietWritesLoseNothing` states what is left: a write that nobody crosses loses nothing.
* Sources. Two creations that overlap can both make a preset or the default profile; then every
  later creation raises. `FoundOnce` speaks of what other sequences leave behind.
* Prompts. A save and an activation that overlap can leave two versions active. Calls take
  the newer one, the page shows the older one; `LastChoiceServes` therefore speaks of
  requests that do not overlap.
* Sessions. `append` looks a session up by tenant, `list` and `get` by user as well: a turn
  written into a colleague's session is not in the writer's list. A session id of another
  tenant collides at the insert, after the model was paid. Of two appends that overlap one
  is lost (`crossed`).
* Training. `Training.tsx:771-774` says its filter mirrors the backend; for questions
  without a key it numbers the rest differently, so the second half of `MarksAgree` speaks
  of quizzes whose questions all have theirs. A mark by rubric is judged before rounding
  and recorded after it, so at the pass mark itself either verdict may stand; for a rubric
  worth less than ten points, which the page never sends but the API takes, the rounding to
  hundredths can also part a verdict from a percentage beside the mark. A batch in
  which one user was assigned meanwhile fails as a whole, although
  `api/routes/training.py:301-304` calls assigning again a harmless no-op. A submission
  completes any assignment it names, whoever's it is.
* Accounts. `api/routes/admin.py:84-86` calls an invite single-use; nothing records its
  use, only the address it was used with is taken. Two signups of one address that overlap
  answer the loser with 500, not 409. No code sets a plan or makes an account inactive.
* Audit. The action of a signed URL is longer than its column, so that row is always lost;
  a file fetched with `?token=` has no principal and leaves no row, though
  `api/middleware/audit.py:40-42` says that fetches are logged. Editing or deleting a
  document leaves two rows. A row committed between a count and its page hides the oldest
  row (`crossed`), and two rows of one stamp, which the model has not, come in any order.
* Summaries. The page asks for `/v1/documents/{id}/summarise`; the route is
  `/v1/{id}/summarise`. A run that fails, or overlaps another one, can leave a summary of
  an older text, and the sweep only looks for documents that have none (`excused`).
  A document whose new bytes have no text keeps the summary of the old ones. A pipeline
  reads the enrichment toggle once, for its first document with text: what it ingests after
  the owner switched it goes by the old value, although new ingests are said to honour
  the toggle immediately (`api/routes/enrichment.py:67-68`). The sweep takes fifty documents
  without a summary in no order, and documents without text never get one: they may fill
  every batch, and a document whose task was lost then waits for ever, although the sweep is
  said to heal it (`indexing/tasks.py:61-62`). Hence the condition of `BacklogDrains`.
* Validators. `validators/rule_pack_validator.py:17-18` says that it asks again when a reply
  cannot be read; the code records amber. A pack of which nothing applies is red.
* Search. `search/feedback.py:3-9` says that votes move a hit by a couple of positions: the
  votes of one document move it by one place at most, opposite votes on two by up to three.
  A reranked request for 11 hits or more asks each retriever for over 61; a chunk that both
  found near the end of their lists can stand behind the best one that only one found
  (`Ahead` says how near the end).

The passing runs describe what holds in spite of these: for example the index is never
wrong, only empty (`TextOfOneVersion`); on a deployment that has a sovereign endpoint, no
prompt of a locked tenant that goes through the gateway leaves it (`LockedStaysHome`); while
no more documents than a batch are without a summary, each with text gets one
(`BacklogDrains`); the batch that finding 3 drops is still
announced (`RecordedIsAnnounced`).

## 5. Proofs

All theorems hold for every value of the constants that satisfies the named assumptions
of the modules (finite sets of callers, `None` distinct from data, bounds in `Nat`).

`IngestProofs`. `TypeOK` is inductive by itself (`TypeCorrect`). The safety invariants
need `IInv`: ids below `nextId` are the only ones used, two URIs never share an id, a
worker at "clear", "put" or "write" holds the lock of its URI and is the only one there,
its row is still the one it read, a document has text only where its row has that hash
and its object those bytes, and a delete past its row finds the id gone for good. Each
action has a lemma of its own (`StartStep` ... `CrashDeleteStep`); `IInvStep` puts
them together. From it follow `ServedText`, `WholeText`, `OriginalsKept`, `IdKept`, and the
refinement `Refinement` (each step is a step of `DocIndex` or leaves `View` alone). `JobInv`
adds what is known of jobs: one worker per open job, and a committed job's status by where
its worker is; from it `JobsNameExistingRows` and `JobsOnlyMoveForward`.

`GatewayProofs`. `TypedChains` joins types with `ChainInv`: inside the loop a caller has a
snapshot of the settings, and what is left is part of the chain that snapshot gives.
`LockedCallsStayHome` follows because the chain of a locked snapshot is sovereign, the
sovereign target is then the deployment's own as long as it is configured, and the
current target is always one that is left (`FirstIsLeft`, which needs that an order
names no target twice). `QuotaOvershootBounded` needs `RoomInv`: the requests counted
plus the rows that every admitted caller may still add never exceed the limit by more
than the callers' room, each admission adding at most `MaxRows`; every step either adds
no row, or admits, or adds one row and gives up at least as much room. A call in
the loop has room for its targets and for one reply's tools, whether the agent's own or those
still to run when a tool's question is over.
`FallbackAfterFailure`, `StreamsKeepOneVoice` and `LedgerIsTrue` share `CallInv`: no two
callers work for one call (`CallsApart`); a call that has not reached its loop, or that
nobody has made, is `Untouched`; and in the loop the targets that are gone were passed over
or failed, the current one is pending, the others are unasked (`UnderWay`). A pending
target has no row yet, which is why the row of its answer is the only one (`FirstRow`).
`CallInvKept` is the frame: a step for one call leaves what is said of all others alone.

`WatcherProofs`. `TypeStep` carries the types through every action (`WatcherTypes`).
`LinkedDocuments` needs `LinkInv`: ids are unique in the index; a row that names a document
names that of its URL, which the foreign key keeps there; and a poll about to record a
document holds the id of its own URL's or of none. `IndexEffect` says what any step of
`DocIndex` may do to one entry, `IndexKeepsLinks` that none of it breaks a link.
`ResendBounded` needs `SendInv`, a count in two phases: while an event is not recorded, those
who have announced it or are past the database notifier with it each used up an error;
once it is recorded nobody new takes it up, so the polls that hold it are all that is left
to announce it.

`IndexersProofs`. `TypeOK` is inductive (`IndexerTypes`), and so is `RunsHaveIndexers`
(`RunsBelong`). `AbandonedBounded` adds that a worker which has opened no run holds
none and that the abandoned rows are finite in number: a task that ends in order has closed
its row, and one that dies or that the database fails adds its own row at most and counts a
fault (`NoneAbandoned`, `OneAbandoned`, by cardinalities).

`ConnectorsProofs`. `QuietWrites` needs `Fresh` (a writer that nobody has crossed holds the
settings as they are, for time passes in both alike) and `NewIds` (the id of a connector
under creation is in nobody's copy), which is why a create cannot replace a connector.

`RequestsProofs`. One part of the module for each of the eight parts behind the API whose
state is rows and requests. A part has its invariant, a lemma for the initial states, one
for each action (or for the actions that change the same things), one that joins them, and
the theorem of that part's own specification.

* `Sources` (`CreatesInv`). `FoundOnce` needs `Alone`: while nothing has crossed, one request
  at most is open, and what it did not find is still missing when it inserts; and
  `IdsDrawn`: two requests never insert one id.
* `Prompts` (`TextsInv`). `LastChoiceServes` follows from `OneActive`, which survives an
  activation because of `ActiveSeen`: as long as nothing has crossed, the rows an UPDATE
  works on have the active version among them, so that it is switched off. For that the rows
  of an UPDATE are a beginning of the versions (`RowsSeen`), and two requests never hold one
  row (`LocksApart`).
* `Assignments` (`StaffInv`). An assignment is completed exactly when a record names it. A
  commit adds rows that no record names yet, since ids are drawn once: those an open request
  will insert are apart from those of the rows and of other requests (`IdsOfInserts`,
  `IdsApart`).
* `Accounts` (`PeopleInv`). The unique address alone would not keep a workspace to one
  owner: `PendingApart` says that a signup between its look-up and its commit has drawn a
  workspace that nobody has opened and no other signup has drawn, and that an acceptance in
  the same place joins one that is open.
* `Conversation` (`TalkInv`). `CommitsKept` says what the property says from the commit on and
  not only once somebody was told, which makes it inductive. A commit writes back the copy
  it read: `CopyFresh` and `OneAppend` say that this is the row as it stands, or that an
  append of the session has crossed. `WindowKeeps` is what the window does to a list: the
  new turn stays, and an old one leaves only a full window. `FollowUpsAreInformed` takes
  `AfterAnswers`, what a call about to load knows of the answers its client has read.
* `AuditTrail` (`TrailInv`). `PagesFollow`: a row of the opening list that has not been shown
  has at least as many newer rows before it as the pages shown hold. `RankOnlyGrows` carries
  that over every row that is written meanwhile, by cardinalities.
* `Summaries` (`SumsInv`). `Followed`: for a document with text that is not excused, either what
  will summarise it is to come (`ToCome`: a task in the queue, or an ingest that still has to
  queue it), or all there is of it, its summary and the text its task read, is up to date
  (`UpToDate`). A task read while
  another runs excuses the document, so an older text is never written after a newer one.
* `Validators` (`JudgeInv`). `AddUp` and `OnlyAmber`: the verdicts add up to the entries gone
  through, and those the validator filled in itself are amber, so that what is green in a
  score was found so by the model. The score is a quotient, bounded by `DivBound`.

`ListingProofs`. The two parts that compute with lists have small invariants and long lemmas,
each about what an operator returns for lists of any length. `Places`: in a total order of a
finite set the places are the numbers from 1 on, each taken once; hence `SortedPlaces` (a
permutation in the order of its keys, equal ones in the order they had) and `OnlyPlaces`.

* `Courses` (`CourseInv`). `TotalsCompare` says that two totals compare as their items do, which
  needs an induction over a set of numbers (`Upwards`) since the library's takes an operator.
  `VerdictsAgree` is the arithmetic of two roundings: less than half a tenth of a percent is
  lost or gained as long as a rubric is worth ten points, in whole hundredths. Python rounds
  ties to even and the model rounds them up; both stay on the same side of a pass mark, which
  is a whole tenth.
* `Retrieval` (`FindsInv`). `FusionAgrees`: shares fall with the rank (`DividedFalls`), two
  outweigh one that is not far ahead of them (`TwoOutweighOne`), and the pool cuts a sorted
  list. `BestLeft`: the batches' replies, laid end to end and sorted again, hold every
  candidate once (`ScoredOnce`), so that the k first are the k best. `VotesReorder`: the
  squashed shift is monotone and below two places (`ShiftRises`), from which both halves of
  `VotesOnlyReorder` follow by counting who may pass (`AheadNear`).

`PlatformProofs`. `MCPlatform` instantiates the parts over its slots, the two modules above over
variables of their own. `PlatformInv` is the invariant of whichever part runs; it is
inductive since a step of the platform is one of that part, and each property of the run
follows (`PlatformInvariant`, then `PlatformTyped`, `AnswersKept`, ... `EvidenceFollowed`). The
lemmas `CreatesSame` ... `FindsSame` say that a definition instantiated twice with the same
slots is the same; tlapm does not see that by itself.

The assumptions there are those of `MCPlatform`, which TLC evaluates in its run.
`PlatformBounds`: bounds are numbers, a window holds a turn. `CourseBounds`: pass marks are
percentages, and criteria are as the page sends them (`Training.tsx:41-62`) and as
`normalise_criteria` fills them in: ten points or more, in whole hundredths, positive whole
weights. `SearchBounds`: a retriever is asked for 600 hits at most, since a request asks for
100 at most (`core/schemas/search.py:16`), tripled for the reranker (`search/service.py:103`)
and doubled for fusion (`hybrid.py:52`); the pool is no smaller than what is asked for.
`NoneIsNoData`: `None` is none of the values it stands beside.

Only model-checked: liveness under fairness (`EveryRequestReturns`, `EveryCallReturns`,
`BacklogDrains`, `ListedIsRecorded`, `RecordedIsAnnounced`, `UploadIsIngested`,
`ScheduledIsRun`), which the installed provers cannot reason about, and the findings of
section 4, which are counterexamples. Every safety property of a passing run is proved.

## 6. What is left

Worth adding, in this order: what the liveness properties rest on, stated as action
properties (what each step gives up of a bounded measure); edits of document metadata and
the connector and indexer listings; API keys.

Not modelled:

* Parsers, chunkers, corpus loaders, the generator's prompts: text processing that keeps no
  state; the pipeline sees a document as its chunks, a loader as requests to ingest.
* Web connectors' crawls and the MCP transports: input and output between two libraries.
* Dashboards (usage, costs, coverage), lists and exports: single statements that read.
* The cache of `core/tenancy.py`: one value per process, written once. It keeps "no such
  tenant" too, so a search before the public corpus is created hides the corpus from that
  process until it restarts.
* The SDK, the CLIs and most pages of the web UI: forms over the API.
* Deployment files and migrations: they run once, while nothing else does.
