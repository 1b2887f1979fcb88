--------------------------- MODULE IndexersProofs ---------------------------
(***************************************************************************)
(* Indexers for any number of indexers and workers: types, that a run row  *)
(* never outlives its indexer, and how many rows stay "running" for ever.  *)
(***************************************************************************)
EXTENDS Indexers, FiniteSetTheorems, TLAPS

-----------------------------------------------------------------------------
(* ---- Types ---------------------------------------------------------------- *)

LEMMA InitTypes == Init => TypeOK
<1> SUFFICES ASSUME Init PROVE TypeOK
  OBVIOUS
<1>1. 0 \in 0..MaxQueued /\ 0 \in 0..MaxFaults /\ 0 \in 0..MaxFailures
  BY BoundAssumption
<1> QED BY <1>1 DEF Init, TypeOK, Labels

LEMMA TypeStep ==
    ASSUME TypeOK, [Next]_vars
    PROVE  TypeOK'
<1> USE BoundAssumption, NoneAssumption, NoRowAssumption
<1> USE DEF TypeOK, work, bounds
<1>1. CASE UNCHANGED vars
  BY <1>1 DEF vars
<1>2. ASSUME NEW i \in Indexer, NEW timed \in BOOLEAN, Create(i, timed)
      PROVE  TypeOK'
  <2>1. [timed |-> timed, last |-> None] \in IndexerRow
    BY DEF IndexerRow
  <2> QED BY <1>2, <2>1 DEF Create
<1>3. ASSUME NEW i \in Indexer, NEW v \in Version, Upload(i, v)
      PROVE  TypeOK'
  BY <1>3 DEF Upload
<1>4. ASSUME NEW i \in Indexer, RunNow(i)
      PROVE  TypeOK'
  BY <1>4 DEF RunNow, Send
<1>5. ASSUME NEW i \in Indexer, Delete(i)
      PROVE  TypeOK'
  BY <1>5 DEF Delete
<1>6. CASE Tick
  BY <1>6 DEF Tick
<1>7. CASE TickDies
  BY <1>7 DEF TickDies, Fault
<1>8. ASSUME NEW i \in Indexer, Age(i)
      PROVE  TypeOK'
  <2>1. indexers[i] \in IndexerRow
    BY <1>8 DEF Age, Live
  <2>2. [indexers[i] EXCEPT !.last = "old"] \in IndexerRow
    BY <2>1 DEF IndexerRow
  <2> QED BY <1>8, <2>2 DEF Age
<1>9. ASSUME NEW i \in Indexer, Enqueue(i)
      PROVE  TypeOK'
  BY <1>9 DEF Enqueue, Send
<1>10. ASSUME NEW w \in Worker, NEW i \in Indexer, Take(w, i)
       PROVE  TypeOK'
  BY <1>10 DEF Take, Goto, Labels
<1>11. ASSUME NEW w \in Worker, NEW r \in Run, OpenRun(w, r)
       PROVE  TypeOK'
  <2>1. [indexer |-> job[w], status |-> "running"] \in RunRow
    BY <1>11 DEF OpenRun, RunRow
  <2> QED BY <1>11, <2>1 DEF OpenRun, Goto, Labels
<1>12. ASSUME NEW w \in Worker, NotFound(w)
       PROVE  TypeOK'
  BY <1>12 DEF NotFound, Leave, Goto, Labels
<1>13. ASSUME NEW w \in Worker, Crawl(w)
       PROVE  TypeOK'
  BY <1>13 DEF Crawl, Goto, Labels
<1>14. ASSUME NEW w \in Worker, CrawlFails(w) \/ IngestFails(w)
       PROVE  TypeOK'
  BY <1>14 DEF CrawlFails, IngestFails, Failure, Goto, Labels
<1>15. ASSUME NEW w \in Worker, Ingest(w)
       PROVE  TypeOK'
  BY <1>15 DEF Ingest, Goto, Labels
<1>16. ASSUME NEW w \in Worker, CloseRun(w)
       PROVE  TypeOK'
  <2>1. runs' \in [Run -> RunRow \cup {None}]
    <3>1. run[w] \in Run
      BY <1>16 DEF CloseRun, Labels
    <3>2. runs[run[w]] # None => \A st \in {"ok", "error"} :
            [runs[run[w]] EXCEPT !.status = st] \in RunRow
      BY <3>1 DEF RunRow
    <3> QED BY <1>16, <3>1, <3>2 DEF CloseRun, Result
  <2>2. indexers' \in [Indexer -> IndexerRow \cup {None}]
    <3>1. job[w] \in Indexer
      BY <1>16 DEF CloseRun
    <3>2. Live(job[w]) => [indexers[job[w]] EXCEPT !.last = "recent"] \in IndexerRow
      BY <3>1 DEF Live, IndexerRow
    <3> QED BY <1>16, <3>1, <3>2 DEF CloseRun
  <2> QED BY <1>16, <2>1, <2>2 DEF CloseRun, Leave, Goto, Labels
<1>17. ASSUME NEW w \in Worker, Raises(w)
       PROVE  TypeOK'
  BY <1>17 DEF Raises, Fault, Leave, Goto, Labels
<1>18. ASSUME NEW w \in Worker, NEW back \in BOOLEAN, Dies(w, back)
       PROVE  TypeOK'
  <2>1. queue' \in [Indexer -> 0..MaxQueued]
    BY <1>18 DEF Dies, Send
  <2> QED BY <1>18, <2>1 DEF Dies, Fault, Leave, Goto, Labels
<1> QED
  BY <1>1, <1>2, <1>3, <1>4, <1>5, <1>6, <1>7, <1>8, <1>9, <1>10, <1>11, <1>12, <1>13,
     <1>14, <1>15, <1>16, <1>17, <1>18
     DEF Next, Requests, Beat, OpenSome, Proceed, GoesWrong

\* Type correctness: a worker past its start has a run row id, and one that ingests
\* has bytes.
THEOREM IndexerTypes == Spec => []TypeOK
BY InitTypes, TypeStep, PTL DEF Spec
-----------------------------------------------------------------------------
(* ---- Run rows -------------------------------------------------------------- *)

\* The row a step may add is that of a live indexer, and closing a run changes neither
\* whose it is nor which indexers live.
LEMMA RunsStep ==
    ASSUME TypeOK, RunsHaveIndexers, [Next]_vars
    PROVE  RunsHaveIndexers'
<1> USE NoneAssumption, NoRowAssumption
<1>1. ASSUME UNCHANGED runs,
             \A i \in Indexer : Live(i) => Live(i)'
      PROVE  RunsHaveIndexers'
  <2>1. ASSUME NEW r \in Run, runs[r] # None
        PROVE  Live(runs[r].indexer)' /\ runs[r].indexer \in Indexer
    <3>1. runs[r].indexer \in Indexer
      BY <2>1 DEF TypeOK, RunRow
    <3> QED BY <1>1, <2>1, <3>1 DEF RunsHaveIndexers, Live
  <2> QED BY <1>1, <2>1 DEF RunsHaveIndexers, Live
<1>2. UNCHANGED <<runs, indexers>> => RunsHaveIndexers'
  BY DEF RunsHaveIndexers, Live
<1>3. CASE UNCHANGED vars
  BY <1>2, <1>3 DEF vars
<1>4. ASSUME NEW i \in Indexer, NEW timed \in BOOLEAN, Create(i, timed)
      PROVE  RunsHaveIndexers'
  <2>1. [timed |-> timed, last |-> None] # None
    BY DEF IndexerRow
  <2> QED BY <1>1, <1>4, <2>1 DEF Create, Live, TypeOK
<1>5. ASSUME NEW i \in Indexer, Delete(i)
      PROVE  RunsHaveIndexers'
  <2>1. ASSUME NEW r \in Run, runs'[r] # None
        PROVE  Live(runs[r].indexer)'
    <3>1. runs'[r] = runs[r] /\ runs[r] # None /\ runs[r].indexer # i
      BY <1>5, <2>1 DEF Delete
    <3>2. runs[r].indexer \in Indexer
      BY <3>1 DEF TypeOK, RunRow
    <3> QED BY <1>5, <3>1, <3>2 DEF Delete, Live, RunsHaveIndexers, TypeOK
  <2> QED BY <2>1 DEF RunsHaveIndexers
<1>6. ASSUME NEW i \in Indexer, Age(i)
      PROVE  RunsHaveIndexers'
  <2>1. indexers[i] \in IndexerRow
    BY <1>6 DEF Age, Live, TypeOK
  <2>2. [indexers[i] EXCEPT !.last = "old"] \in IndexerRow
    BY <2>1 DEF IndexerRow
  <2> QED BY <1>1, <1>6, <2>2 DEF Age, Live, TypeOK
<1>7. ASSUME NEW w \in Worker, NEW r \in Run, OpenRun(w, r)
      PROVE  RunsHaveIndexers'
  BY <1>7 DEF OpenRun, RunsHaveIndexers, Live, TypeOK
<1>8. ASSUME NEW w \in Worker, CloseRun(w)
      PROVE  RunsHaveIndexers'
  <2>1. run[w] \in Run /\ job[w] \in Indexer
    BY <1>8 DEF CloseRun, TypeOK
  <2>2. ASSUME NEW r \in Run, runs'[r] # None
        PROVE  runs[r] # None /\ runs'[r].indexer = runs[r].indexer
    <3>1. runs[r] # None => runs[r] \in RunRow
      BY DEF TypeOK
    <3> QED BY <1>8, <2>1, <2>2, <3>1 DEF CloseRun, Result, TypeOK, RunRow
  <2>3. \A i \in Indexer : Live(i) => Live(i)'
    <3>1. Live(job[w]) => [indexers[job[w]] EXCEPT !.last = "recent"] \in IndexerRow
      BY <2>1 DEF Live, TypeOK, IndexerRow
    <3> QED BY <1>8, <3>1 DEF CloseRun, Live, TypeOK
  <2>4. ASSUME NEW r \in Run, runs[r] # None
        PROVE  runs[r].indexer \in Indexer /\ Live(runs[r].indexer)
    BY <2>4 DEF TypeOK, RunRow, RunsHaveIndexers
  <2> QED BY <2>2, <2>3, <2>4 DEF RunsHaveIndexers, Live
<1>9. ASSUME \/ \E i \in Indexer :
                  \/ \E v \in Version : Upload(i, v)
                  \/ RunNow(i) \/ Enqueue(i)
                  \/ \E w \in Worker : Take(w, i)
             \/ Tick \/ TickDies
             \/ \E w \in Worker :
                  \/ NotFound(w) \/ Crawl(w) \/ CrawlFails(w) \/ Ingest(w) \/ IngestFails(w)
                  \/ Raises(w) \/ \E back \in BOOLEAN : Dies(w, back)
      PROVE  RunsHaveIndexers'
  BY <1>2, <1>9 DEF Upload, RunNow, Enqueue, Take, Tick, TickDies, NotFound, Crawl,
     CrawlFails, Ingest, IngestFails, Raises, Dies
<1> QED
  BY <1>3, <1>4, <1>5, <1>6, <1>7, <1>8, <1>9
     DEF Next, Requests, Beat, OpenSome, Proceed, GoesWrong

\* For any number of workers that die or end after their indexer was deleted, no run
\* row stays behind without its indexer.
THEOREM RunsBelong == Spec => []RunsHaveIndexers
<1>1. Init => RunsHaveIndexers
  BY DEF Init, RunsHaveIndexers
<1> QED BY <1>1, InitTypes, TypeStep, RunsStep, PTL DEF Spec
-----------------------------------------------------------------------------
(* ---- Abandoned runs ---------------------------------------------------------- *)

\* A worker that has opened no run holds none.
NoRunYet == \A w \in Worker : pc[w] \in {"idle", "open"} => run[w] = None

AbandonInv ==
    /\ NoRunYet
    /\ IsFiniteSet(Abandoned)
    /\ AbandonedOnlyByFault

\* A worker that leaves gives up its run row and no other.
LEMMA LeaveHolds ==
    ASSUME TypeOK, NEW w \in Worker, Leave(w)
    PROVE  /\ run' = [run EXCEPT ![w] = None]
           /\ pc' = [pc EXCEPT ![w] = "idle"]
           /\ NoRunYet => NoRunYet'
BY DEF Leave, Goto, TypeOK, NoRunYet

\* A step that abandons no run.
LEMMA NoneAbandoned ==
    ASSUME AbandonInv, NoRunYet', faults \in Nat, faults' \in {faults, faults + 1},
           Abandoned' \subseteq Abandoned
    PROVE  AbandonInv'
<1>1. IsFiniteSet(Abandoned') /\ Cardinality(Abandoned') <= Cardinality(Abandoned)
  BY FS_Subset DEF AbandonInv
<1>2. Cardinality(Abandoned) \in Nat /\ Cardinality(Abandoned') \in Nat
  BY <1>1, FS_CardinalityType DEF AbandonInv
<1> QED BY <1>1, <1>2 DEF AbandonInv, AbandonedOnlyByFault

\* A task that dies or raises abandons its own run at most, and is counted.
LEMMA OneAbandoned ==
    ASSUME TypeOK, AbandonInv, NEW w \in Worker, Leave(w), Fault, UNCHANGED runs
    PROVE  AbandonInv'
<1>1. faults \in Nat /\ faults' = faults + 1
  BY BoundAssumption DEF Fault, TypeOK
<1>2. NoRunYet'
  BY LeaveHolds DEF AbandonInv
<1>3. Abandoned' \subseteq Abandoned \cup {run[w]}
  BY LeaveHolds DEF Abandoned, Running, TypeOK
<1>4. /\ IsFiniteSet(Abandoned \cup {run[w]})
      /\ Cardinality(Abandoned \cup {run[w]}) <= Cardinality(Abandoned) + 1
      /\ Cardinality(Abandoned) \in Nat
  <2>1. IsFiniteSet(Abandoned) /\ Cardinality(Abandoned) \in Nat
    BY FS_CardinalityType DEF AbandonInv
  <2>2. /\ IsFiniteSet(Abandoned \cup {run[w]})
        /\ Cardinality(Abandoned \cup {run[w]}) \in
             {Cardinality(Abandoned), Cardinality(Abandoned) + 1}
    BY <2>1, FS_AddElement, Zenon
  <2> QED BY <2>1, <2>2
<1>5. IsFiniteSet(Abandoned') /\ Cardinality(Abandoned') <= Cardinality(Abandoned \cup {run[w]})
  BY <1>3, <1>4, FS_Subset
<1>6. Cardinality(Abandoned') \in Nat /\ Cardinality(Abandoned \cup {run[w]}) \in Nat
  BY <1>4, <1>5, FS_CardinalityType
<1> QED BY <1>1, <1>2, <1>4, <1>5, <1>6 DEF AbandonInv, AbandonedOnlyByFault

LEMMA AbandonStep ==
    ASSUME TypeOK, AbandonInv, [Next]_vars
    PROVE  AbandonInv'
<1>0. faults \in Nat
  BY BoundAssumption DEF TypeOK
\* Steps that leave the workers and the rows as they are.
<1>1. ASSUME UNCHANGED <<runs, run, pc>>, faults' \in {faults, faults + 1}
      PROVE  AbandonInv'
  BY <1>0, <1>1, NoneAbandoned DEF AbandonInv, NoRunYet, Abandoned, Running
<1>2. ASSUME NEW i \in Indexer,
             (\E timed \in BOOLEAN : Create(i, timed)) \/ (\E v \in Version : Upload(i, v))
             \/ RunNow(i) \/ Enqueue(i) \/ Age(i)
      PROVE  AbandonInv'
  BY <1>1, <1>2 DEF Create, Upload, RunNow, Enqueue, Age, work, bounds
<1>3. ASSUME Tick \/ TickDies \/ UNCHANGED vars
      PROVE  AbandonInv'
  BY <1>1, <1>3 DEF Tick, TickDies, Fault, vars, work, bounds
<1>4. ASSUME NEW i \in Indexer, Delete(i)
      PROVE  AbandonInv'
  <2>1. \A r \in Run : runs'[r] \in {None, runs[r]}
    BY <1>4 DEF Delete
  <2>2. Abandoned' \subseteq Abandoned
    BY <1>4, <2>1 DEF Delete, work, Abandoned, Running
  <2>3. NoRunYet' /\ faults' = faults
    BY <1>4 DEF Delete, work, bounds, AbandonInv, NoRunYet
  <2> QED BY <1>0, <2>2, <2>3, NoneAbandoned
<1>5. ASSUME NEW w \in Worker, NEW i \in Indexer, Take(w, i)
      PROVE  AbandonInv'
  <2>1. NoRunYet'
    BY <1>5 DEF Take, Goto, AbandonInv, NoRunYet, TypeOK
  <2>2. Abandoned' = Abandoned /\ faults' = faults
    BY <1>5 DEF Take, Abandoned, Running, bounds
  <2> QED BY <1>0, <2>1, <2>2, NoneAbandoned
<1>6. ASSUME NEW w \in Worker, NEW r \in Run, OpenRun(w, r)
      PROVE  AbandonInv'
  <2>1. run[w] = None
    BY <1>6 DEF OpenRun, AbandonInv, NoRunYet
  <2>2. run'[w] = r /\ \A x \in Worker : x # w => run'[x] = run[x]
    BY <1>6 DEF OpenRun, TypeOK
  <2>3. \A q \in Run : q # r => runs'[q] = runs[q]
    BY <1>6 DEF OpenRun
  <2>4. Abandoned' \subseteq Abandoned
    BY <2>1, <2>2, <2>3, NoneAssumption DEF Abandoned, Running
  <2>5. NoRunYet' /\ faults' = faults
    BY <1>6 DEF OpenRun, Goto, AbandonInv, NoRunYet, TypeOK, bounds
  <2> QED BY <1>0, <2>4, <2>5, NoneAbandoned
<1>7. ASSUME NEW w \in Worker, Crawl(w) \/ CrawlFails(w) \/ Ingest(w) \/ IngestFails(w)
      PROVE  AbandonInv'
  <2>1. NoRunYet' /\ UNCHANGED <<runs, run, faults>>
    BY <1>7 DEF Crawl, CrawlFails, Ingest, IngestFails, Goto, Failure, AbandonInv,
       NoRunYet, TypeOK, bounds
  <2>2. Abandoned' = Abandoned
    BY <2>1 DEF Abandoned, Running
  <2> QED BY <1>0, <2>1, <2>2, NoneAbandoned
<1>8. ASSUME NEW w \in Worker, NotFound(w)
      PROVE  AbandonInv'
  <2>1. run[w] = None
    BY <1>8 DEF NotFound, AbandonInv, NoRunYet
  <2>2. Abandoned' \subseteq Abandoned
    BY <1>8, <2>1, LeaveHolds DEF NotFound, Abandoned, Running, TypeOK
  <2>3. NoRunYet' /\ faults' = faults
    BY <1>8, LeaveHolds DEF NotFound, AbandonInv, bounds
  <2> QED BY <1>0, <2>2, <2>3, NoneAbandoned
\* The row of a run that is closed does not run any more.
<1>9. ASSUME NEW w \in Worker, CloseRun(w)
      PROVE  AbandonInv'
  <2>1. run[w] \in Run
    BY <1>9 DEF CloseRun, TypeOK
  <2>2. run[w] \notin Running'
    BY <1>9, <2>1 DEF CloseRun, Result, Running, TypeOK, RunRow
  <2>3. \A q \in Run : q # run[w] => runs'[q] = runs[q]
    BY <1>9 DEF CloseRun, Result, TypeOK
  <2>4. Abandoned' \subseteq Abandoned
    BY <1>9, <2>2, <2>3, LeaveHolds DEF CloseRun, Abandoned, Running, TypeOK
  <2>5. NoRunYet' /\ faults' = faults
    BY <1>9, LeaveHolds DEF CloseRun, AbandonInv, bounds
  <2> QED BY <1>0, <2>4, <2>5, NoneAbandoned
<1>10. ASSUME NEW w \in Worker, Raises(w) \/ \E back \in BOOLEAN : Dies(w, back)
       PROVE  AbandonInv'
  BY <1>10, OneAbandoned DEF Raises, Dies
<1> QED
  BY <1>2, <1>3, <1>4, <1>5, <1>6, <1>7, <1>8, <1>9, <1>10
     DEF Next, Requests, Beat, OpenSome, Proceed, GoesWrong

\* For any number of workers and runs, at most one row per lost task says "running"
\* with nobody running it: a worker that opened no run holds none (NoRunYet), and a
\* worker that gives up its row has closed it or is counted.
THEOREM AbandonedBounded == Spec => []AbandonedOnlyByFault
<1>1. Init => AbandonInv
  <2> SUFFICES ASSUME Init PROVE AbandonInv
    OBVIOUS
  <2>1. Abandoned = {} /\ faults = 0 /\ NoRunYet
    BY DEF Init, Abandoned, Running, NoRunYet
  <2> QED BY <2>1, FS_EmptySet DEF AbandonInv, AbandonedOnlyByFault
<1>2. AbandonInv => AbandonedOnlyByFault
  BY DEF AbandonInv
<1> QED BY <1>1, <1>2, InitTypes, TypeStep, AbandonStep, PTL DEF Spec
=============================================================================
