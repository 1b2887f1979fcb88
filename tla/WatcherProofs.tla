---------------------------- MODULE WatcherProofs ---------------------------
(***************************************************************************)
(* Theorems about Watcher, for any number of polls, events and URLs: what  *)
(* the rows of watcher_events say of the documents (LinkInv), and how      *)
(* often the webhook repeats an event (SendInv).                           *)
(***************************************************************************)
EXTENDS Watcher, FiniteSetTheorems, TLAPS

-----------------------------------------------------------------------------
(* ---- Types --------------------------------------------------------------- *)

\* The typed steps of the index, whoever takes them.
LEMMA IndexTypes ==
    ASSUME Docs!TypeOK, NEW u \in Uri,
           \/ \E c \in Content : Docs!Create(u, c) \/ Docs!Replace(u, c)
           \/ Docs!Blank(u)
           \/ Docs!Remove(u)
    PROVE  Docs!TypeOK'
<1>1. \A c \in Content : Docs!TextOf(c) \in SUBSET Content
  BY DEF Docs!TextOf
<1>2. ASSUME NEW c \in Content, Docs!Create(u, c) PROVE Docs!TypeOK'
  BY <1>1, <1>2 DEF Docs!TypeOK, Docs!Create, Docs!Entry
<1>3. ASSUME NEW c \in Content, Docs!Replace(u, c) PROVE Docs!TypeOK'
  BY <1>1, <1>3, NoRowAssumption DEF Docs!TypeOK, Docs!Replace, Docs!Entry
<1>4. CASE Docs!Blank(u)
  <2>1. {} \in SUBSET Content
    OBVIOUS
  <2>2. QED
    BY <1>4, <2>1 DEF Docs!TypeOK, Docs!Blank, Docs!Entry
<1>5. CASE Docs!Remove(u)
  BY <1>5 DEF Docs!TypeOK, Docs!Remove
<1>6. QED
  BY <1>2, <1>3, <1>4, <1>5

\* After a step that makes or replaces the entry of u, u has an id.
LEMMA IndexId ==
    ASSUME Docs!TypeOK, NEW u \in Uri, NEW c \in Content,
           Docs!Create(u, c) \/ Docs!Replace(u, c)
    PROVE  index'[u] # None /\ index'[u].id \in DocId
<1>1. Docs!TextOf(c) \in SUBSET Content
  BY DEF Docs!TextOf
<1>2. index'[u] \in Docs!Entry
  BY <1>1, NoRowAssumption DEF Docs!TypeOK, Docs!Create, Docs!Replace, Docs!Entry
<1>3. QED
  BY <1>2, NoRowAssumption DEF Docs!Entry

\* A poll never leaves its types.
LEMMA TypeStep ==
    ASSUME TypeOK, [Next]_vars
    PROVE  TypeOK'
<1> USE FeedAssumption, FaultAssumption, SwitchAssumption, NoneAssumption
<1>1. CASE UNCHANGED vars
  BY <1>1 DEF TypeOK, vars, bounds, poll, Docs!TypeOK
<1>2. ASSUME NEW e \in Event, Publish(e) \/ Expire(e) PROVE TypeOK'
  BY <1>2 DEF TypeOK, Publish, Expire, bounds, poll, Docs!TypeOK
<1>3. CASE Others
  <2>1. Docs!TypeOK'
    BY <1>3, IndexTypes DEF Others, TypeOK
  <2>2. QED
    BY <1>3, <2>1 DEF TypeOK, Others, bounds, poll
<1>4. ASSUME NEW p \in Poller, NEW only \in SUBSET Feed, StartPoll(p, only) PROVE TypeOK'
  BY <1>4 DEF TypeOK, StartPoll, Goto, Labels, Ingesting, bounds, Docs!TypeOK
<1>5. ASSUME NEW p \in Poller, NEW f \in Feed, FetchFeed(p, f) \/ FeedFails(p, f)
      PROVE TypeOK'
  BY <1>5 DEF TypeOK, FetchFeed, FeedFails, FeedRead, Goto, Labels, Ingesting, bounds,
              Docs!TypeOK
<1>6. ASSUME NEW p \in Poller, NEW f \in Feed, Filter(p, f) PROVE TypeOK'
  BY <1>6 DEF TypeOK, Filter, bounds, Docs!TypeOK
<1>7. ASSUME NEW p \in Poller, Filtered(p) PROVE TypeOK'
  <2>1. CASE new[p] = {}
    <3>1. Return(p)
      BY <1>7, <2>1 DEF Filtered
    <3>2. pc' \in [Poller -> Labels] /\ pc'[p] = "idle"
          /\ \A q \in Poller \ {p} : pc'[q] = pc[q] /\ cur'[q] = cur[q] /\ data'[q] = data[q]
      BY <3>1 DEF TypeOK, Return, Goto, Labels
    <3>3. /\ left' \in [Poller -> SUBSET Feed] /\ found' \in [Poller -> SUBSET Event]
          /\ new' \in [Poller -> SUBSET Event] /\ todo' \in [Poller -> SUBSET Event]
          /\ cur' \in [Poller -> Event \cup {None}] /\ data' \in [Poller -> Content \cup {None}]
          /\ doc' \in [Poller -> DocId \cup {None}]
      BY <3>1 DEF TypeOK, Return
    <3>4. /\ \A q \in Poller : pc'[q] \in Ingesting => cur'[q] \in Event
          /\ \A q \in Poller : pc'[q] \in {"load", "replace"} => data'[q] \in Content
      BY <3>2 DEF TypeOK, Ingesting
    <3>5. QED
      BY <1>7, <3>2, <3>3, <3>4 DEF TypeOK, Filtered, bounds, Docs!TypeOK
  <2>2. CASE new[p] # {}
    BY <1>7, <2>2 DEF TypeOK, Filtered, Goto, Labels, Ingesting, bounds, Docs!TypeOK
  <2>3. QED
    BY <2>1, <2>2
<1>8. ASSUME NEW p \in Poller, Persist(p) PROVE TypeOK'
  <2>1. NewRow \in EventRow
    BY DEF NewRow, EventRow
  <2>2. events' \in [Event -> EventRow \cup {None}]
    BY <1>8, <2>1 DEF Persist, Insert, TypeOK
  <2>3. QED
    BY <1>8, <2>2 DEF TypeOK, Persist, AfterDb, Goto, Labels, Ingesting, bounds, Docs!TypeOK
<1>9. ASSUME NEW p \in Poller, PersistFails(p) PROVE TypeOK'
  BY <1>9 DEF TypeOK, PersistFails, AfterDb, Goto, Labels, Ingesting, Docs!TypeOK
<1>10. ASSUME NEW p \in Poller, NEW e \in Event, FetchPage(p, e) PROVE TypeOK'
  BY <1>10 DEF TypeOK, FetchPage, Goto, Labels, Ingesting, bounds, Docs!TypeOK
<1>11. ASSUME NEW p \in Poller, Skip(p) \/ IngestRaises(p) PROVE TypeOK'
  BY <1>11 DEF TypeOK, Skip, IngestRaises, Goto, Labels, Ingesting, bounds, Docs!TypeOK
<1>12. ASSUME NEW p \in Poller, CreateDoc(p) \/ ReplaceDoc(p) PROVE TypeOK'
  <2>1. cur[p] \in Event /\ data[p] \in Content
    BY <1>12 DEF TypeOK, CreateDoc, ReplaceDoc, Ingesting
  <2>2. UrlOf[cur[p]] \in Uri
    BY <2>1
  <2>3. Docs!TypeOK' /\ index'[UrlOf[cur[p]]].id \in DocId
    BY <1>12, <2>1, <2>2, IndexTypes, IndexId DEF TypeOK, CreateDoc, ReplaceDoc
  <2>4. index[UrlOf[cur[p]]] # None => index[UrlOf[cur[p]]].id \in DocId
    BY <2>2 DEF TypeOK, Docs!TypeOK, Docs!Entry
  <2>5. CASE CreateDoc(p)
    BY <2>5, <2>3 DEF TypeOK, CreateDoc, Goto, Labels, Ingesting, bounds
  <2>6. CASE ReplaceDoc(p)
    <3>1. index[UrlOf[cur[p]]] # None
      BY <2>6 DEF ReplaceDoc, Docs!Replace
    <3>2. QED
      BY <2>6, <2>3, <2>4, <3>1 DEF TypeOK, ReplaceDoc, Goto, Labels, Ingesting, bounds
  <2>7. QED
    BY <1>12, <2>5, <2>6
<1>13. ASSUME NEW p \in Poller, ClearDoc(p) PROVE TypeOK'
  <2>1. cur[p] \in Event /\ data[p] \in Content
    BY <1>13 DEF TypeOK, ClearDoc, Ingesting
  <2>2. UrlOf[cur[p]] \in Uri
    BY <2>1
  <2>3. Docs!TypeOK'
    BY <1>13, <2>1, <2>2, IndexTypes DEF TypeOK, ClearDoc
  <2>4. QED
    BY <1>13, <2>3 DEF TypeOK, ClearDoc, Goto, Labels, Ingesting, bounds
<1>14. ASSUME NEW p \in Poller, MarkIngested(p) PROVE TypeOK'
  <2>1. HasDoc(doc[p]) => doc[p] \in DocId
    BY DEF HasDoc, TypeOK, Docs!TypeOK, Docs!Entry
  <2>2. HasDoc(doc[p]) => Marked(doc[p]) \in EventRow
    BY <2>1 DEF Marked, EventRow
  <2>3. events' \in [Event -> EventRow \cup {None}]
    BY <1>14, <2>2 DEF MarkIngested, TypeOK
  <2>4. (NextEvent(p) /\ UNCHANGED <<todo, left, found, new>>) \/ DropBatch(p)
    BY <1>14, Zenon DEF MarkIngested
  <2>5. pc' \in [Poller -> Labels] /\ pc'[p] \in {"hook", "ingest"}
        /\ \A q \in Poller \ {p} : pc'[q] = pc[q] /\ cur'[q] = cur[q] /\ data'[q] = data[q]
    BY <2>4 DEF TypeOK, NextEvent, DropBatch, Goto, Labels
  <2>6. /\ todo' \in [Poller -> SUBSET Event]
        /\ cur' \in [Poller -> Event \cup {None}] /\ data' \in [Poller -> Content \cup {None}]
        /\ doc' \in [Poller -> DocId \cup {None}]
    BY <2>4 DEF TypeOK, NextEvent, DropBatch
  <2>7. /\ \A q \in Poller : pc'[q] \in Ingesting => cur'[q] \in Event
        /\ \A q \in Poller : pc'[q] \in {"load", "replace"} => data'[q] \in Content
    BY <2>5 DEF TypeOK, Ingesting
  <2>8. UNCHANGED <<left, found, new, shown, index, sent, bounds>>
    BY <1>14, <2>4, SMTT(30) DEF MarkIngested, DropBatch
  <2>9. QED
    BY <2>3, <2>5, <2>6, <2>7, <2>8 DEF TypeOK, bounds, Docs!TypeOK
<1>15. ASSUME NEW p \in Poller, MarkError(p) PROVE TypeOK'
  <2>1. cur[p] \in Event
    BY <1>15 DEF TypeOK, MarkError, Ingesting
  <2>2. events[cur[p]] # None => Failed(cur[p]) \in EventRow
    BY <2>1 DEF TypeOK, Failed, EventRow
  <2>3. events' \in [Event -> EventRow \cup {None}]
    BY <1>15, <2>2 DEF MarkError, TypeOK
  <2>4. QED
    BY <1>15, <2>3 DEF TypeOK, MarkError, NextEvent, Goto, Labels, Ingesting, bounds,
                       Docs!TypeOK
<1>16. ASSUME NEW p \in Poller, NotifierFails(p) PROVE TypeOK'
  BY <1>16 DEF TypeOK, NotifierFails, DropBatch, Goto, Labels, Ingesting, Docs!TypeOK
<1>17. ASSUME NEW p \in Poller, Post(p) PROVE TypeOK'
  BY <1>17 DEF TypeOK, Post, Return, Goto, Labels, Ingesting, bounds, Docs!TypeOK
<1>18. ASSUME NEW p \in Poller, Crash(p) PROVE TypeOK'
  BY <1>18 DEF TypeOK, Crash, Return, Goto, Labels, Ingesting, Docs!TypeOK
<1>19. QED
  BY <1>1, <1>2, <1>3, <1>4, <1>5, <1>6, <1>7, <1>8, <1>9, <1>10, <1>11, <1>12, <1>13,
     <1>14, <1>15, <1>16, <1>17, <1>18 DEF Next, Proceed

\* Type correctness: a poll that has a page in its hands knows its event, and
\* what it is about to ingest is the content of a page.
THEOREM WatcherTypes == Spec => []TypeOK
<1>1. Init => TypeOK
  BY FaultAssumption DEF Init, TypeOK, Labels, Ingesting, Docs!Init, Docs!TypeOK
<1>2. QED
  BY <1>1, TypeStep, PTL DEF Spec

-----------------------------------------------------------------------------
(* ---- What an event row says of its document ----------------------------- *)

Linked(e, d) == index[UrlOf[e]] # None /\ index[UrlOf[e]].id = d

IdsUnique ==
    \A u, v \in Uri : index[u] # None /\ index[v] # None /\ index[u].id = index[v].id
                      => u = v

\* A row that names a document names that of its URL; a row marked ingested
\* names one and has no error.
RowsLinked ==
    \A e \in Event : events[e] # None =>
        /\ events[e].doc # None => Linked(e, events[e].doc)
        /\ events[e].ingested => events[e].doc # None /\ ~events[e].error

\* The document a poll is about to record, as long as it exists, is that of the
\* URL it fetched.
MarksLinked ==
    \A p \in Poller : doc[p] # None =>
        /\ pc[p] = "mark"
        /\ \A u \in Uri : index[u] # None /\ index[u].id = doc[p] => u = UrlOf[cur[p]]

LinkInv == IdsUnique /\ RowsLinked /\ MarksLinked

\* What one step of the index may do to the entry of u.
IndexStep(u) ==
    \/ \E c \in Content : (Docs!Create(u, c) /\ NewIdOf(u)) \/ Docs!Replace(u, c)
    \/ Docs!Blank(u)
    \/ index[u] # None /\ ~Referenced(index[u].id) /\ Docs!Remove(u)

Made(u) ==
    /\ index[u] = None /\ index'[u] # None
    /\ \A v \in Uri : index[v] # None => index[v].id # index'[u].id
    /\ \A p \in Poller : doc[p] # index'[u].id
Kept(u) == index[u] # None /\ index'[u] # None /\ index'[u].id = index[u].id
Gone(u) == index[u] # None /\ ~Referenced(index[u].id) /\ index'[u] = None

LEMMA IndexEffect ==
    ASSUME TypeOK, NEW u \in Uri, IndexStep(u)
    PROVE  /\ \A v \in Uri \ {u} : index'[v] = index[v]
           /\ Made(u) \/ Kept(u) \/ Gone(u)
<1>1. index \in [Uri -> Docs!Entry \cup {None}]
  BY DEF TypeOK, Docs!TypeOK
<1>2. ASSUME NEW c \in Content, Docs!Create(u, c), NewIdOf(u)
      PROVE  (\A v \in Uri \ {u} : index'[v] = index[v]) /\ Made(u)
  <2>1. index'[u] # None
    BY <1>2, IndexId DEF TypeOK
  <2>2. \A v \in Uri : index[v] # None => index[v].id # index'[u].id
    BY <1>1, <1>2 DEF Docs!Create
  <2>3. \A p \in Poller : doc[p] # index'[u].id
    BY <1>2 DEF NewIdOf
  <2>4. QED
    BY <1>1, <1>2, <2>1, <2>2, <2>3 DEF Made, Docs!Create
<1>3. ASSUME NEW c \in Content, Docs!Replace(u, c)
      PROVE  (\A v \in Uri \ {u} : index'[v] = index[v]) /\ Kept(u)
  <2>1. index'[u] # None
    BY <1>3, IndexId DEF TypeOK
  <2>2. QED
    BY <1>1, <1>3, <2>1 DEF Kept, Docs!Replace
<1>4. CASE Docs!Blank(u)
  <2>1. index'[u] = [index[u] EXCEPT !.text = {}] /\ index[u] \in Docs!Entry
    BY <1>1, <1>4 DEF Docs!Blank
  <2>2. index'[u] \in Docs!Entry /\ index'[u].id = index[u].id
    <3>1. {} \in SUBSET Content
      OBVIOUS
    <3>2. QED
      BY <2>1, <3>1 DEF Docs!Entry
  <2>3. QED
    BY <1>1, <1>4, <2>2, NoRowAssumption DEF Kept, Docs!Blank
<1>5. CASE index[u] # None /\ ~Referenced(index[u].id) /\ Docs!Remove(u)
  BY <1>1, <1>5 DEF Gone, Docs!Remove
<1>6. QED
  BY <1>2, <1>3, <1>4, <1>5 DEF IndexStep

\* Whoever changes the index, ids stay unique, the rows keep their documents,
\* and what a poll is about to record stays that of its URL.
LEMMA IndexKeepsLinks ==
    ASSUME TypeOK, LinkInv, NEW u \in Uri, IndexStep(u)
    PROVE  /\ IdsUnique'
           /\ \A e \in Event : events[e] # None /\ events[e].doc # None =>
                index'[UrlOf[e]] # None /\ index'[UrlOf[e]].id = events[e].doc
           /\ \A p \in Poller : doc[p] # None =>
                \A v \in Uri : index'[v] # None /\ index'[v].id = doc[p] => v = UrlOf[cur[p]]
<1>1. (\A v \in Uri \ {u} : index'[v] = index[v]) /\ (Made(u) \/ Kept(u) \/ Gone(u))
  BY IndexEffect
<1>2. IdsUnique'
  BY <1>1 DEF LinkInv, IdsUnique, Made, Kept, Gone
<1>3. ASSUME NEW e \in Event, events[e] # None, events[e].doc # None
      PROVE  index'[UrlOf[e]] # None /\ index'[UrlOf[e]].id = events[e].doc
  <2>1. Linked(e, events[e].doc) /\ UrlOf[e] \in Uri
    BY <1>3, FeedAssumption DEF LinkInv, RowsLinked
  <2>2. CASE UrlOf[e] # u
    BY <1>1, <2>1, <2>2 DEF Linked
  <2>3. CASE UrlOf[e] = u
    <3>1. Referenced(index[u].id)
      BY <1>3, <2>1, <2>3 DEF Linked, Referenced
    <3>2. QED
      BY <1>1, <2>1, <2>3, <3>1 DEF Linked, Made, Kept, Gone
  <2>4. QED
    BY <2>2, <2>3
<1>4. ASSUME NEW p \in Poller, doc[p] # None, NEW v \in Uri, index'[v] # None,
             index'[v].id = doc[p]
      PROVE  v = UrlOf[cur[p]]
  BY <1>1, <1>4 DEF LinkInv, MarksLinked, Made, Kept, Gone
<1>5. QED
  BY <1>2, <1>3, <1>4

\* The steps that leave the index alone and record nothing.
LEMMA QuietLinks ==
    ASSUME TypeOK, LinkInv, index' = index,
           \A e \in Event : events'[e] = events[e] \/ events'[e] = NewRow,
           \A p \in Poller : \/ doc'[p] = None
                             \/ doc'[p] = doc[p] /\ cur'[p] = cur[p] /\ pc'[p] = pc[p]
    PROVE  LinkInv'
<1>1. IdsUnique'
  BY DEF LinkInv, IdsUnique
<1>2. RowsLinked'
  BY DEF LinkInv, RowsLinked, Linked, NewRow
<1>3. MarksLinked'
  BY DEF LinkInv, MarksLinked
<1>4. QED
  BY <1>1, <1>2, <1>3 DEF LinkInv

LEMMA LinkStep ==
    ASSUME TypeOK, TypeOK', LinkInv, [Next]_vars
    PROVE  LinkInv'
<1>d. ASSUME NEW p \in Poller, pc[p] # "mark"
      PROVE  doc[p] = None
  BY <1>d DEF LinkInv, MarksLinked
<1>t. /\ doc \in [Poller -> DocId \cup {None}]
      /\ pc \in [Poller -> Labels]
      /\ cur \in [Poller -> Event \cup {None}]
      /\ events \in [Event -> EventRow \cup {None}]
  BY DEF TypeOK
<1>1. CASE UNCHANGED vars
  BY <1>1, QuietLinks DEF vars, poll
<1>2. ASSUME NEW e \in Event, Publish(e) \/ Expire(e) PROVE LinkInv'
  BY <1>2, QuietLinks DEF Publish, Expire, poll
<1>3. CASE Others
  <2>1. PICK u \in Uri : IndexStep(u)
    BY <1>3 DEF Others, IndexStep
  <2>2. events' = events /\ doc' = doc /\ cur' = cur /\ pc' = pc
    BY <1>3 DEF Others, poll
  <2>3. RowsLinked'
    BY <2>1, <2>2, IndexKeepsLinks DEF LinkInv, RowsLinked, Linked
  <2>4. MarksLinked'
    BY <2>1, <2>2, IndexKeepsLinks DEF LinkInv, MarksLinked
  <2>5. QED
    BY <2>1, <2>3, <2>4, IndexKeepsLinks DEF LinkInv
<1>4. ASSUME NEW p \in Poller, NEW only \in SUBSET Feed, StartPoll(p, only) PROVE LinkInv'
  BY <1>4, <1>d, <1>t, QuietLinks DEF StartPoll, Goto
<1>5. ASSUME NEW p \in Poller, NEW f \in Feed,
             FetchFeed(p, f) \/ FeedFails(p, f) \/ Filter(p, f)
      PROVE  LinkInv'
  BY <1>5, <1>d, <1>t, QuietLinks DEF FetchFeed, FeedFails, FeedRead, Filter, Goto
<1>7. ASSUME NEW p \in Poller, Filtered(p) PROVE LinkInv'
  BY <1>7, <1>d, <1>t, QuietLinks DEF Filtered, Return, Goto
<1>8. ASSUME NEW p \in Poller, Persist(p) PROVE LinkInv'
  BY <1>8, <1>d, <1>t, QuietLinks DEF Persist, Insert, AfterDb, Goto
<1>9. ASSUME NEW p \in Poller, PersistFails(p) PROVE LinkInv'
  BY <1>9, <1>d, <1>t, QuietLinks DEF PersistFails, AfterDb, Goto
<1>10. ASSUME NEW p \in Poller, NEW e \in Event, FetchPage(p, e) PROVE LinkInv'
  BY <1>10, <1>d, <1>t, QuietLinks DEF FetchPage, Goto
<1>11. ASSUME NEW p \in Poller, Skip(p) \/ IngestRaises(p) PROVE LinkInv'
  BY <1>11, <1>d, <1>t, QuietLinks DEF Skip, IngestRaises, Goto
<1>12. ASSUME NEW p \in Poller, CreateDoc(p) \/ ClearDoc(p) \/ ReplaceDoc(p)
       PROVE  LinkInv'
  <2> DEFINE u == UrlOf[cur[p]]
  <2>1. cur[p] \in Event /\ data[p] \in Content /\ u \in Uri
    BY <1>12, FeedAssumption DEF TypeOK, CreateDoc, ClearDoc, ReplaceDoc, Ingesting
  <2>2. IndexStep(u)
    BY <1>12, <2>1 DEF IndexStep, CreateDoc, ClearDoc, ReplaceDoc
  <2>3. events' = events /\ cur' = cur
    BY <1>12 DEF CreateDoc, ClearDoc, ReplaceDoc
  <2>4. \A q \in Poller \ {p} : doc'[q] = doc[q] /\ pc'[q] = pc[q]
    BY <1>12, <1>t DEF CreateDoc, ClearDoc, ReplaceDoc, Goto
  <2>5. doc[p] = None
    BY <1>12, <1>d DEF CreateDoc, ClearDoc, ReplaceDoc
  <2>6. \/ doc'[p] = None
        \/ pc'[p] = "mark" /\ index'[u] # None /\ doc'[p] = index'[u].id
    <3>1. CASE CreateDoc(p)
      BY <3>1, <2>1, <1>t, IndexId DEF CreateDoc, Goto, TypeOK
    <3>2. CASE ClearDoc(p)
      BY <3>2, <2>5 DEF ClearDoc
    <3>3. CASE ReplaceDoc(p)
      <4>1. index'[u] # None /\ index[u] # None
        BY <3>3, <2>1, IndexId DEF ReplaceDoc, TypeOK, Docs!Replace
      <4>2. index'[u].id = index[u].id
        BY <4>1, <2>1, <2>2, IndexEffect DEF Made, Kept, Gone
      <4>3. QED
        BY <3>3, <4>1, <4>2, <1>t DEF ReplaceDoc, Goto
    <3>4. QED
      BY <1>12, <3>1, <3>2, <3>3
  <2>7. RowsLinked'
    BY <2>1, <2>2, <2>3, IndexKeepsLinks DEF LinkInv, RowsLinked, Linked
  <2>8. IdsUnique'
    BY <2>1, <2>2, IndexKeepsLinks
  <2>9. MarksLinked'
    <3>1. ASSUME NEW q \in Poller, q # p, doc'[q] # None
          PROVE  /\ pc'[q] = "mark"
                 /\ \A v \in Uri : index'[v] # None /\ index'[v].id = doc'[q]
                                   => v = UrlOf[cur'[q]]
      BY <3>1, <2>1, <2>2, <2>3, <2>4, IndexKeepsLinks DEF LinkInv, MarksLinked
    <3>2. ASSUME doc'[p] # None
          PROVE  /\ pc'[p] = "mark"
                 /\ \A v \in Uri : index'[v] # None /\ index'[v].id = doc'[p]
                                   => v = UrlOf[cur'[p]]
      BY <3>2, <2>1, <2>3, <2>6, <2>8 DEF IdsUnique
    <3>3. QED
      BY <3>1, <3>2 DEF MarksLinked
  <2>10. QED
    BY <2>7, <2>8, <2>9 DEF LinkInv
<1>14. ASSUME NEW p \in Poller, MarkIngested(p) PROVE LinkInv'
  <2>1. cur[p] \in Event
    BY <1>14 DEF TypeOK, MarkIngested, Ingesting
  <2>2. index' = index /\ doc'[p] = None
    BY <1>14, <1>t DEF MarkIngested, NextEvent, DropBatch
  <2>3. \A q \in Poller \ {p} : doc'[q] = doc[q] /\ cur'[q] = cur[q] /\ pc'[q] = pc[q]
    BY <1>14, <1>t DEF MarkIngested, NextEvent, DropBatch, Goto
  <2>4. CASE events' = events
    BY <2>2, <2>3, <2>4, QuietLinks
  <2>5. CASE HasDoc(doc[p]) /\ events' = [events EXCEPT ![cur[p]] = Marked(doc[p])]
    <3>1. PICK v \in Uri : index[v] # None /\ index[v].id = doc[p]
      BY <2>5 DEF HasDoc
    <3>2. doc[p] # None
      BY <3>1, NoneAssumption DEF TypeOK, Docs!TypeOK, Docs!Entry
    <3>3. Linked(cur[p], doc[p])
      BY <3>1, <3>2 DEF LinkInv, MarksLinked, Linked
    <3>4. RowsLinked'
      BY <1>t, <2>1, <2>2, <2>5, <3>2, <3>3 DEF LinkInv, RowsLinked, Linked, Marked
    <3>5. IdsUnique' /\ MarksLinked'
      BY <2>2, <2>3 DEF LinkInv, IdsUnique, MarksLinked
    <3>6. QED
      BY <3>4, <3>5 DEF LinkInv
  <2>6. QED
    BY <1>14, <2>4, <2>5 DEF MarkIngested
<1>15. ASSUME NEW p \in Poller, MarkError(p) PROVE LinkInv'
  <2>1. index' = index /\ doc'[p] = None
    BY <1>15, <1>t DEF MarkError, NextEvent
  <2>2. \A q \in Poller \ {p} : doc'[q] = doc[q] /\ cur'[q] = cur[q] /\ pc'[q] = pc[q]
    BY <1>15, <1>t DEF MarkError, NextEvent, Goto
  <2>3. RowsLinked'
    BY <1>15, <1>t, <2>1 DEF MarkError, Failed, LinkInv, RowsLinked, Linked
  <2>4. IdsUnique' /\ MarksLinked'
    BY <2>1, <2>2 DEF LinkInv, IdsUnique, MarksLinked
  <2>5. QED
    BY <2>3, <2>4 DEF LinkInv
<1>16. ASSUME NEW p \in Poller, NotifierFails(p) PROVE LinkInv'
  BY <1>16, <1>t, QuietLinks DEF NotifierFails, DropBatch, Goto
<1>17. ASSUME NEW p \in Poller, Post(p) \/ Crash(p) PROVE LinkInv'
  BY <1>17, <1>t, QuietLinks DEF Post, Crash, Return, Goto
<1>18. QED
  BY <1>1, <1>2, <1>3, <1>4, <1>5, <1>7, <1>8, <1>9, <1>10, <1>11, <1>12, <1>14, <1>15,
     <1>16, <1>17 DEF Next, Proceed

\* Whatever polls, ingests, deletes and errors there were, an event shown as
\* ingested links to the document of its URL and carries no error.
THEOREM LinkedDocuments == Spec => []IngestedLinksDocument
<1>1. Init => TypeOK /\ LinkInv
  <2>1. Init => TypeOK
    BY FaultAssumption DEF Init, TypeOK, Labels, Ingesting, Docs!Init, Docs!TypeOK
  <2>2. Init => LinkInv
    BY DEF Init, Docs!Init, LinkInv, IdsUnique, RowsLinked, MarksLinked
  <2>3. QED
    BY <2>1, <2>2
<1>2. TypeOK /\ LinkInv /\ [Next]_vars => TypeOK' /\ LinkInv'
  BY TypeStep, LinkStep
<1>3. LinkInv => IngestedLinksDocument
  BY DEF LinkInv, RowsLinked, Linked, IngestedLinksDocument
<1>4. QED
  BY <1>1, <1>2, <1>3, PTL DEF Spec

-----------------------------------------------------------------------------
(* ---- How often the webhook repeats an event ----------------------------- *)

\* Where a poll has had its chance to record the batch.
Past == {"ingest", "load", "replace", "mark", "fail", "hook"}

Holds(e) == {p \in Poller : e \in new[p]}
PastHolds(e) == {p \in Poller : e \in new[p] /\ pc[p] \in Past}

\* As long as an event is not recorded, each poll that announced it or is about
\* to met an error of its own. Once it is recorded, no poll takes it for new
\* again: only those that already hold it are still to announce it.
SendInv ==
    /\ \A e \in Event : events[e] = None => sent[e] + Cardinality(PastHolds(e)) <= faults
    /\ \A e \in Event : sent[e] + Cardinality(Holds(e)) <= Cardinality(Poller) + faults
    /\ \A p \in Poller : pc[p] \in {"idle", "fetch"} => new[p] = {}

LEMMA SubsetSize ==
    ASSUME NEW S \in SUBSET Poller, NEW T \in SUBSET Poller, S \subseteq T
    PROVE  /\ IsFiniteSet(S) /\ IsFiniteSet(T) /\ IsFiniteSet(Poller)
           /\ Cardinality(S) \in Nat /\ Cardinality(T) \in Nat /\ Cardinality(Poller) \in Nat
           /\ Cardinality(S) <= Cardinality(T) /\ Cardinality(T) <= Cardinality(Poller)
<1>1. IsFiniteSet(S) /\ IsFiniteSet(T) /\ IsFiniteSet(Poller)
  BY PollerAssumption, FS_Subset
<1>2. QED
  BY <1>1, FS_CardinalityType, FS_Subset

LEMMA OneMore ==
    ASSUME NEW S \in SUBSET Poller, NEW T \in SUBSET Poller, NEW p \in Poller,
           T \subseteq S \cup {p}
    PROVE  Cardinality(T) <= Cardinality(S) + 1
<1>1. IsFiniteSet(S) /\ Cardinality(S) \in Nat
  BY SubsetSize
<1>2. IsFiniteSet(S \cup {p}) /\ Cardinality(S \cup {p}) <= Cardinality(S) + 1
  <2>1. /\ IsFiniteSet(S \cup {p})
        /\ Cardinality(S \cup {p}) = Cardinality(S) \/ Cardinality(S \cup {p}) = Cardinality(S) + 1
    BY <1>1, FS_AddElement, Zenon
  <2>2. QED
    BY <1>1, <2>1
<1>3. Cardinality(T) <= Cardinality(S \cup {p})
  <2> DEFINE U == S \cup {p}
  <2>1. U \in SUBSET Poller /\ T \subseteq U
    OBVIOUS
  <2> HIDE DEF U
  <2>2. Cardinality(T) <= Cardinality(U)
    BY <2>1, SubsetSize
  <2>3. QED
    BY <2>2 DEF U
<1>4. Cardinality(S \cup {p}) \in Nat /\ Cardinality(T) \in Nat
  BY SubsetSize
<1>5. QED
  BY <1>1, <1>2, <1>3, <1>4

LEMMA OneLess ==
    ASSUME NEW S \in SUBSET Poller, NEW T \in SUBSET Poller, NEW p \in S,
           T \subseteq S \ {p}
    PROVE  Cardinality(T) + 1 <= Cardinality(S)
<1>1. IsFiniteSet(S) /\ Cardinality(S) \in Nat
  BY SubsetSize
<1>2. Cardinality(S \ {p}) = Cardinality(S) - 1
  BY <1>1, FS_RemoveElement
<1>3. Cardinality(T) <= Cardinality(S \ {p}) /\ Cardinality(T) \in Nat
  BY SubsetSize
<1>4. QED
  BY <1>1, <1>2, <1>3

\* A step that sends nothing, records nothing, and after which no poll holds
\* more events, or is further with one, than before.
LEMMA QuietSends ==
    ASSUME TypeOK, TypeOK', SendInv, sent' = sent, faults' >= faults,
           \A e \in Event : events'[e] = None => events[e] = None,
           \A e \in Event : Holds(e)' \subseteq Holds(e),
           \A e \in Event : events'[e] = None => PastHolds(e)' \subseteq PastHolds(e),
           \A p \in Poller : pc'[p] \in {"idle", "fetch"} => new'[p] = {}
    PROVE  SendInv'
<1>1. \A e \in Event : /\ Holds(e) \in SUBSET Poller /\ Holds(e)' \in SUBSET Poller
                       /\ PastHolds(e) \in SUBSET Poller /\ PastHolds(e)' \in SUBSET Poller
  BY DEF Holds, PastHolds
<1>2. \A e \in Event : sent[e] \in Nat
  BY DEF TypeOK
<1>3. faults \in Nat /\ faults' \in Nat
  BY FaultAssumption DEF TypeOK
<1>4. ASSUME NEW e \in Event, events'[e] = None
      PROVE  (sent[e] + Cardinality(PastHolds(e)) <= faults)'
  <2>1. /\ Cardinality(PastHolds(e)') <= Cardinality(PastHolds(e))
        /\ Cardinality(PastHolds(e)') \in Nat /\ Cardinality(PastHolds(e)) \in Nat
    BY <1>1, <1>4, SubsetSize
  <2>2. sent[e] + Cardinality(PastHolds(e)) <= faults
    BY <1>4 DEF SendInv
  <2>3. QED
    BY <1>2, <1>3, <2>1, <2>2
<1>5. ASSUME NEW e \in Event
      PROVE  (sent[e] + Cardinality(Holds(e)) <= Cardinality(Poller) + faults)'
  <2>1. /\ Cardinality(Holds(e)') <= Cardinality(Holds(e))
        /\ Cardinality(Holds(e)') \in Nat /\ Cardinality(Holds(e)) \in Nat
        /\ Cardinality(Poller) \in Nat
    BY <1>1, SubsetSize
  <2>2. sent[e] + Cardinality(Holds(e)) <= Cardinality(Poller) + faults
    BY DEF SendInv
  <2>3. QED
    BY <1>2, <1>3, <2>1, <2>2
<1>6. QED
  BY <1>4, <1>5 DEF SendInv

LEMMA SendStep ==
    ASSUME TypeOK, TypeOK', SendInv, [Next]_vars
    PROVE  SendInv'
<1> USE DEF Past
<1>t. /\ pc \in [Poller -> Labels]
      /\ new \in [Poller -> SUBSET Event]
      /\ events \in [Event -> EventRow \cup {None}]
      /\ sent \in [Event -> Nat]
      /\ faults \in Nat
  BY FaultAssumption DEF TypeOK
<1>s. \A e \in Event : Holds(e) \in SUBSET Poller /\ PastHolds(e) \in SUBSET Holds(e)
  BY DEF Holds, PastHolds
<1>c. \A e \in Event : /\ Cardinality(Holds(e)) \in Nat
                       /\ Cardinality(PastHolds(e)) \in Nat
                       /\ Cardinality(PastHolds(e)) <= Cardinality(Holds(e))
                       /\ Cardinality(Holds(e)) <= Cardinality(Poller)
                       /\ Cardinality(Poller) \in Nat
  BY <1>s, SubsetSize
<1>n. \A p \in Poller : pc[p] \in {"idle", "fetch"} => new[p] = {}
  BY DEF SendInv
\* The steps of one poll that keep what it holds, inside the batch or before it.
<1>q. ASSUME NEW p \in Poller, sent' = sent, faults' >= faults,
             \A e \in Event : events'[e] = None <=> events[e] = None,
             new' = new,
             \A q \in Poller \ {p} : pc'[q] = pc[q],
             pc'[p] \in Past => pc[p] \in Past,
             pc'[p] \in {"idle", "fetch"} => new[p] = {}
      PROVE  SendInv'
  <2>1. \A e \in Event : Holds(e)' = Holds(e)
    BY <1>q DEF Holds
  <2>2. \A e \in Event : PastHolds(e)' \subseteq PastHolds(e)
    BY <1>q DEF PastHolds
  <2>3. \A q \in Poller : pc'[q] \in {"idle", "fetch"} => new'[q] = {}
    BY <1>q, <1>n
  <2>4. QED
    BY <1>q, <2>1, <2>2, <2>3, QuietSends
\* The end of a poll that announces nothing.
<1>r. ASSUME NEW p \in Poller, sent' = sent, faults' = faults, events' = events, Return(p)
      PROVE  SendInv'
  <2>1. new' = [new EXCEPT ![p] = {}] /\ pc' = [pc EXCEPT ![p] = "idle"]
    BY <1>r DEF Return, Goto
  <2>2. \A e \in Event : Holds(e)' \subseteq Holds(e) /\ PastHolds(e)' \subseteq PastHolds(e)
    BY <2>1, <1>t DEF Holds, PastHolds
  <2>3. \A q \in Poller : pc'[q] \in {"idle", "fetch"} => new'[q] = {}
    BY <2>1, <1>t, <1>n
  <2>4. QED
    BY <1>r, <1>t, <2>2, <2>3, QuietSends
<1>1. ASSUME UNCHANGED <<sent, faults, events, new, pc>> PROVE SendInv'
  BY <1>1 DEF SendInv, Holds, PastHolds
<1>2. CASE UNCHANGED vars
  BY <1>1, <1>2 DEF vars, bounds, poll
<1>3. ASSUME NEW e \in Event, Publish(e) \/ Expire(e) PROVE SendInv'
  BY <1>1, <1>3 DEF Publish, Expire, bounds, poll
<1>4. CASE Others
  BY <1>1, <1>4 DEF Others, bounds, poll
<1>5. ASSUME NEW p \in Poller, NEW only \in SUBSET Feed, StartPoll(p, only) PROVE SendInv'
  BY <1>5, <1>q, <1>t, <1>n DEF StartPoll, Goto, bounds
<1>6. ASSUME NEW p \in Poller, NEW f \in Feed, FetchFeed(p, f) \/ FeedFails(p, f)
      PROVE  SendInv'
  BY <1>6, <1>q, <1>t, <1>n DEF FetchFeed, FeedFails, FeedRead, Goto, bounds
<1>7. ASSUME NEW p \in Poller, NEW f \in Feed, Filter(p, f) PROVE SendInv'
  <2> DEFINE fresh == {e \in {x \in found[p] : FeedOf[x] = f} : ~Known(e)}
  <2>1. /\ new' = [new EXCEPT ![p] = @ \cup fresh]
        /\ pc[p] = "filter" /\ UNCHANGED <<sent, faults, events, pc>>
    BY <1>7 DEF Filter, bounds
  <2>2. \A e \in Event : PastHolds(e)' = PastHolds(e)
    BY <2>1, <1>t DEF PastHolds
  <2>3. \A e \in Event : Holds(e)' = Holds(e) \/ events[e] = None
    BY <2>1, <1>t DEF Holds, Known
  <2>4. \A e \in Event : Holds(e)' \in SUBSET Poller
    BY DEF Holds
  <2>5. \A e \in Event : /\ Cardinality(Holds(e)') \in Nat
                         /\ Cardinality(Holds(e)') <= Cardinality(Poller)
    BY <2>4, SubsetSize
  <2>6. ASSUME NEW e \in Event
        PROVE  sent[e] + Cardinality(Holds(e)') <= Cardinality(Poller) + faults
    <3>1. CASE Holds(e)' = Holds(e)
      BY <3>1 DEF SendInv
    <3>2. CASE events[e] = None
      <4>1. sent[e] + Cardinality(PastHolds(e)) <= faults
        BY <3>2 DEF SendInv
      <4>2. QED
        BY <4>1, <2>5, <1>c, <1>t
    <3>3. QED
      BY <3>1, <3>2, <2>3
  <2>7. \A q \in Poller : pc[q] \in {"idle", "fetch"} => new'[q] = {}
    BY <2>1, <1>t, <1>n
  <2>8. QED
    BY <2>1, <2>2, <2>6, <2>7 DEF SendInv
<1>8. ASSUME NEW p \in Poller, Filtered(p) PROVE SendInv'
  <2>1. CASE new[p] = {}
    BY <1>8, <2>1, <1>r DEF Filtered, bounds
  <2>2. CASE new[p] # {}
    BY <1>8, <2>2, <1>q, <1>t DEF Filtered, Goto, bounds
  <2>3. QED
    BY <2>1, <2>2
<1>9. ASSUME NEW p \in Poller, Persist(p) PROVE SendInv'
  <2>1. /\ new' = new /\ sent' = sent /\ faults' = faults
        /\ pc' = [pc EXCEPT ![p] = IF AutoIngest THEN "ingest" ELSE "hook"]
    BY <1>9 DEF Persist, AfterDb, Goto, bounds
  <2>2. NewRow # None
    <3>1. NewRow \in EventRow
      BY DEF NewRow, EventRow
    <3>2. QED
      BY <3>1, NoRowAssumption
  <2>3. \A e \in Event : events'[e] = None => events[e] = None /\ e \notin new[p]
    BY <1>9, <2>2 DEF Persist, Insert
  <2>4. \A e \in Event : Holds(e)' = Holds(e)
    BY <2>1 DEF Holds
  <2>5. \A e \in Event : events'[e] = None => PastHolds(e)' \subseteq PastHolds(e)
    BY <2>1, <2>3, <1>t DEF PastHolds
  <2>6. \A q \in Poller : pc'[q] \in {"idle", "fetch"} => new'[q] = {}
    BY <2>1, <1>t, <1>n
  <2>7. QED
    BY <2>1, <2>3, <2>4, <2>5, <2>6, <1>t, QuietSends
<1>10. ASSUME NEW p \in Poller, PersistFails(p) PROVE SendInv'
  <2>1. /\ new' = new /\ sent' = sent /\ faults' = faults + 1 /\ events' = events
        /\ pc' = [pc EXCEPT ![p] = IF AutoIngest THEN "ingest" ELSE "hook"]
    BY <1>10 DEF PersistFails, AfterDb, Goto
  <2>2. \A e \in Event : Holds(e)' = Holds(e)
    BY <2>1 DEF Holds
  <2>3. \A e \in Event : /\ PastHolds(e)' \subseteq PastHolds(e) \cup {p}
                         /\ PastHolds(e)' \in SUBSET Poller
    BY <2>1, <1>t DEF PastHolds
  <2>4. \A e \in Event : /\ Cardinality(PastHolds(e)') <= Cardinality(PastHolds(e)) + 1
                         /\ Cardinality(PastHolds(e)') \in Nat
    BY <2>3, <1>s, OneMore, SubsetSize
  <2>5. \A q \in Poller : pc'[q] \in {"idle", "fetch"} => new'[q] = {}
    BY <2>1, <1>t, <1>n
  <2>6. ASSUME NEW e \in Event, events[e] = None
        PROVE  sent[e] + Cardinality(PastHolds(e)') <= faults + 1
    <3>1. sent[e] + Cardinality(PastHolds(e)) <= faults
      BY <2>6 DEF SendInv
    <3>2. QED
      BY <3>1, <2>4, <1>c, <1>t
  <2>7. ASSUME NEW e \in Event
        PROVE  sent[e] + Cardinality(Holds(e)) <= Cardinality(Poller) + (faults + 1)
    <3>1. sent[e] + Cardinality(Holds(e)) <= Cardinality(Poller) + faults
      BY DEF SendInv
    <3>2. QED
      BY <3>1, <1>c, <1>t
  <2>8. QED
    BY <2>1, <2>2, <2>5, <2>6, <2>7 DEF SendInv
<1>11. ASSUME NEW p \in Poller,
              \/ \E e \in Event : FetchPage(p, e)
              \/ Skip(p) \/ CreateDoc(p) \/ ClearDoc(p) \/ ReplaceDoc(p) \/ IngestRaises(p)
       PROVE  SendInv'
  <2>1. /\ UNCHANGED <<sent, faults, events, new>>
        /\ pc[p] \in Past
        /\ \E l \in Past : pc' = [pc EXCEPT ![p] = l]
    BY <1>11 DEF FetchPage, Skip, CreateDoc, ClearDoc, ReplaceDoc, IngestRaises, Goto, bounds
  <2>2. QED
    BY <2>1, <1>q, <1>t
<1>12. ASSUME NEW p \in Poller, MarkIngested(p) \/ MarkError(p) \/ NotifierFails(p)
       PROVE  SendInv'
  <2>1. /\ UNCHANGED <<sent, new>> /\ faults' >= faults
        /\ pc[p] \in Past
        /\ \E l \in Past : pc' = [pc EXCEPT ![p] = l]
    BY <1>12, <1>t DEF MarkIngested, MarkError, NotifierFails, NextEvent, DropBatch, Goto,
                       bounds
  <2>2. \A e \in Event : events'[e] = None <=> events[e] = None
    <3>1. \A d \in DocId \cup {None} : Marked(d) # None
      <4>1. \A d \in DocId \cup {None} : Marked(d) \in EventRow
        BY DEF Marked, EventRow
      <4>2. QED
        BY <4>1, NoRowAssumption
    <3>2. \A e \in Event : events[e] # None => Failed(e) # None
      <4>1. \A e \in Event : events[e] # None => Failed(e) \in EventRow
        BY <1>t DEF Failed, EventRow
      <4>2. QED
        BY <4>1, NoRowAssumption
    <3>3. doc[p] \in DocId \cup {None}
      BY DEF TypeOK
    <3>4. QED
      BY <1>12, <1>t, <3>1, <3>2, <3>3 DEF MarkIngested, MarkError, NotifierFails
  <2>3. QED
    BY <2>1, <2>2, <1>q, <1>t
<1>13. ASSUME NEW p \in Poller, Post(p) PROVE SendInv'
  <2>1. /\ new' = [new EXCEPT ![p] = {}] /\ pc' = [pc EXCEPT ![p] = "idle"]
        /\ faults' = faults /\ events' = events /\ pc[p] = "hook"
        /\ sent' = [e \in Event |-> IF e \in new[p] THEN sent[e] + 1 ELSE sent[e]]
    BY <1>13 DEF Post, Return, Goto, bounds
  <2>2. \A q \in Poller : pc'[q] \in {"idle", "fetch"} => new'[q] = {}
    BY <2>1, <1>t, <1>n
  <2>3. \A e \in Event : /\ Holds(e)' = Holds(e) \ {p}
                         /\ PastHolds(e)' = PastHolds(e) \ {p}
    BY <2>1, <1>t DEF Holds, PastHolds
  <2>4. \A e \in Event : Holds(e)' \in SUBSET Poller /\ PastHolds(e)' \in SUBSET Poller
    BY DEF Holds, PastHolds
  <2>5. \A e \in Event : Cardinality(Holds(e)') \in Nat /\ Cardinality(PastHolds(e)') \in Nat
    BY <2>4, SubsetSize
  <2>6. ASSUME NEW e \in Event
        PROVE  /\ sent'[e] + Cardinality(Holds(e)') <= sent[e] + Cardinality(Holds(e))
               /\ sent'[e] + Cardinality(PastHolds(e)') <= sent[e] + Cardinality(PastHolds(e))
    <3>1. CASE e \in new[p]
      <4>1. p \in Holds(e) /\ p \in PastHolds(e)
        BY <3>1, <2>1 DEF Holds, PastHolds
      <4>2. /\ Cardinality(Holds(e)') + 1 <= Cardinality(Holds(e))
            /\ Cardinality(PastHolds(e)') + 1 <= Cardinality(PastHolds(e))
        BY <4>1, <2>3, <2>4, <1>s, OneLess
      <4>3. QED
        BY <3>1, <4>2, <2>1, <2>5, <1>c, <1>t
    <3>2. CASE e \notin new[p]
      <4>1. /\ Cardinality(Holds(e)') <= Cardinality(Holds(e))
            /\ Cardinality(PastHolds(e)') <= Cardinality(PastHolds(e))
        BY <2>3, <1>s, SubsetSize
      <4>2. QED
        BY <3>2, <4>1, <2>1, <2>5, <1>c, <1>t
    <3>3. QED
      BY <3>1, <3>2
  <2>7. \A e \in Event : sent'[e] \in Nat
    BY DEF TypeOK
  <2>8. ASSUME NEW e \in Event
        PROVE  /\ (sent[e] + Cardinality(Holds(e)) <= Cardinality(Poller) + faults)'
               /\ events'[e] = None => (sent[e] + Cardinality(PastHolds(e)) <= faults)'
    BY <2>1, <2>5, <2>6, <2>7, <1>c, <1>t DEF SendInv
  <2>9. QED
    BY <2>2, <2>8 DEF SendInv
<1>14. ASSUME NEW p \in Poller, Crash(p) PROVE SendInv'
  BY <1>14, <1>r DEF Crash
<1>15. QED
  BY <1>2, <1>3, <1>4, <1>5, <1>6, <1>7, <1>8, <1>9, <1>10, <1>11, <1>12, <1>13, <1>14
     DEF Next, Proceed

\* However polls overlap, crash and fail, an event is announced at most once
\* per poll that may overlap and once per database error.
THEOREM ResendBounded == Spec => []ResentOnlyByOverlap
<1>1. Init => TypeOK /\ SendInv
  <2>1. Init => TypeOK
    BY FaultAssumption DEF Init, TypeOK, Labels, Ingesting, Docs!Init, Docs!TypeOK
  <2>2. ASSUME Init PROVE SendInv
    <3>1. \A e \in Event : Holds(e) = {} /\ PastHolds(e) = {}
      BY <2>2 DEF Init, Holds, PastHolds
    <3>2. Cardinality({}) = 0 /\ Cardinality(Poller) \in Nat
      BY FS_EmptySet, PollerAssumption, FS_CardinalityType
    <3>3. \A e \in Event : sent[e] = 0
      BY <2>2 DEF Init
    <3>4. faults = 0 /\ \A p \in Poller : new[p] = {}
      BY <2>2 DEF Init
    <3>5. \A e \in Event : Cardinality(Holds(e)) = 0 /\ Cardinality(PastHolds(e)) = 0
      BY <3>1, <3>2
    <3>6. \A e \in Event : /\ sent[e] + Cardinality(PastHolds(e)) <= faults
                           /\ sent[e] + Cardinality(Holds(e)) <= Cardinality(Poller) + faults
      BY <3>2, <3>3, <3>4, <3>5
    <3>7. QED
      BY <3>4, <3>6 DEF SendInv
  <2>3. QED
    BY <2>1, <2>2
<1>2. TypeOK /\ SendInv /\ [Next]_vars => TypeOK' /\ SendInv'
  BY TypeStep, SendStep
<1>3. TypeOK /\ SendInv => ResentOnlyByOverlap
  <2>1. \A e \in Event : Holds(e) \in SUBSET Poller
    BY DEF Holds
  <2>2. \A e \in Event : Cardinality(Holds(e)) \in Nat /\ Cardinality(Poller) \in Nat
    BY <2>1, SubsetSize
  <2>3. QED
    BY <2>2, FaultAssumption DEF SendInv, ResentOnlyByOverlap, TypeOK
<1>4. QED
  BY <1>1, <1>2, <1>3, PTL DEF Spec
=============================================================================
