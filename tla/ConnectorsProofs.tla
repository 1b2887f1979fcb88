-------------------------- MODULE ConnectorsProofs --------------------------
(***************************************************************************)
(* Connectors for any number of owners, workers and connectors: types, and *)
(* that a write of the settings nobody crossed loses nothing.              *)
(***************************************************************************)
EXTENDS Connectors, TLAPS

\* What an actor no write has crossed holds is the settings as they are.
Fresh == \A a \in Actor : txn[a] # None /\ a \notin crossed => txn[a].read = settings

\* The id of a connector under creation is in nobody's settings, and is only its own.
Creating(a) == txn[a] # None /\ txn[a].op.kind = "create"
NewIds ==
    /\ \A c \in Connector : Has(settings, c) => c \in drawn
    /\ \A b \in Actor : txn[b] # None =>
          \A c \in Connector : Has(txn[b].read, c) => c \in drawn
    /\ \A a \in Actor : Creating(a) =>
          /\ txn[a].op.id \in drawn
          /\ ~Has(settings, txn[a].op.id)
          /\ \A b \in Actor : txn[b] # None => ~Has(txn[b].read, txn[a].op.id)
          /\ \A b \in Actor : Creating(b) /\ txn[b].op.id = txn[a].op.id => a = b

IInv == TypeOK /\ Fresh /\ NewIds

ItemOp == [kind : {"update", "create", "delete", "record"}, id : Connector,
           enabled : BOOLEAN, timed : BOOLEAN]
RestOp == [kind : {"rest"}, rest : Rest]
Txn == [op : Op, read : Settings]
-----------------------------------------------------------------------------
(* ---- The settings column -------------------------------------------------- *)

LEMMA OpKinds ==
    ASSUME NEW op \in Op
    PROVE  \/ op \in ItemOp /\ op.kind # "rest" /\ op.id \in Connector
           \/ op \in RestOp /\ op.kind = "rest" /\ op.rest \in Rest
BY DEF Op, ItemOp, RestOp

\* The new row of an operation whose connector is found is a row, or none.
LEMMA NewRowType ==
    ASSUME NEW op \in ItemOp, NEW s \in Settings, Found(op, s)
    PROVE  /\ NewRow(op, s.items[op.id]) \in Row \cup {None}
           /\ op.kind = "delete" <=> NewRow(op, s.items[op.id]) = None
<1> DEFINE row == s.items[op.id]
<1>1. op.id \in Connector /\ op.enabled \in BOOLEAN /\ op.timed \in BOOLEAN
  BY DEF ItemOp
<1>2. row \in Row \cup {None}
  BY <1>1 DEF Settings
<1>3. CASE op.kind = "create"
  <2>1. NewRow(op, row) = Created(op)
    BY <1>3 DEF NewRow
  <2>2. Created(op) \in Row
    BY <1>1, BoundAssumption DEF Created, Row
  <2> QED BY <1>3, <2>1, <2>2, NoneAssumption
<1>4. CASE op.kind = "update"
  <2>1. row \in Row
    BY <1>2, <1>4 DEF Found, Has
  <2>2. NewRow(op, row) = Updated(op, row)
    BY <1>4 DEF NewRow
  <2>3. Updated(op, row) \in Row
    BY <1>1, <2>1 DEF Updated, Row
  <2> QED BY <1>4, <2>2, <2>3, NoneAssumption
<1>5. CASE op.kind = "record"
  <2>1. row \in Row
    BY <1>2, <1>5 DEF Found, Has
  <2>2. NewRow(op, row) = Recorded(row)
    BY <1>5 DEF NewRow
  <2>3. Recorded(row) \in Row
    <3> DEFINE more == IF row.runs < HistoryLimit THEN row.runs + 1 ELSE row.runs
    <3>1. row.runs \in 0..HistoryLimit
      BY <2>1 DEF Row
    <3>2. more \in 0..HistoryLimit
      BY <3>1, BoundAssumption
    <3>3. Recorded(row) = [row EXCEPT !.last = "recent", !.runs = more]
      BY DEF Recorded
    <3> HIDE DEF more
    <3> QED BY <2>1, <3>2, <3>3 DEF Row
  <2> QED BY <1>5, <2>2, <2>3, NoneAssumption
<1>6. CASE op.kind = "delete"
  BY <1>6 DEF NewRow
<1> QED BY <1>3, <1>4, <1>5, <1>6 DEF ItemOp

LEMMA ApplyType ==
    ASSUME NEW op \in Op, NEW s \in Settings, Found(op, s)
    PROVE  Apply(op, s) \in Settings
<1>1. CASE op.kind = "rest"
  BY <1>1, OpKinds DEF Apply, Settings
<1>2. CASE op.kind # "rest"
  <2>1. op \in ItemOp
    BY <1>2, OpKinds
  <2>2. NewRow(op, s.items[op.id]) \in Row \cup {None}
    BY <2>1, NewRowType
  <2> QED BY <1>2, <2>2 DEF Apply, Settings
<1> QED BY <1>1, <1>2

\* What Apply makes of the row of a connector.
LEMMA ApplyRows ==
    ASSUME NEW op \in Op, NEW s \in Settings, NEW c \in Connector
    PROVE  /\ op.kind = "rest" \/ op.id # c => Apply(op, s).items[c] = s.items[c]
           /\ op.kind # "rest" /\ op.id = c
                => Apply(op, s).items[c] = NewRow(op, s.items[c])
           /\ op.kind # "rest" => Apply(op, s).rest = s.rest
BY DEF Apply, Settings

\* A connector is there after a write only if it was, or is created by it.
LEMMA ApplyHas ==
    ASSUME NEW op \in Op, NEW s \in Settings, Found(op, s), NEW c \in Connector,
           Has(Apply(op, s), c)
    PROVE  Has(s, c) \/ (op.kind = "create" /\ op.id = c)
<1>1. CASE op.kind = "rest" \/ op.id # c
  BY <1>1, ApplyRows DEF Has
<1>2. CASE op.kind # "rest" /\ op.id = c
  <2>1. op \in ItemOp
    BY <1>2, OpKinds
  <2>2. op.kind # "delete"
    BY <1>2, <2>1, ApplyRows, NewRowType DEF Has
  <2> QED BY <1>2, <2>1, <2>2 DEF Found, ItemOp
<1> QED BY <1>1, <1>2

LEMMA ApplyIntended ==
    ASSUME NEW op \in Op, NEW s \in Settings, Found(op, s),
           op.kind = "create" => ~Has(s, op.id)
    PROVE  Intended(op, s, Apply(op, s))
<1> DEFINE t == Apply(op, s)
<1>1. op.kind # "rest" => t.rest = s.rest
  <2>1. CASE op.kind = "rest"
    BY <2>1
  <2>2. CASE op.kind # "rest"
    BY <2>2 DEF Apply, Settings
  <2> QED BY <2>1, <2>2
<1>2. ASSUME NEW c \in Connector
      PROVE  /\ t.items[c] # s.items[c] => op.kind # "rest" /\ op.id = c
             /\ ~Has(s, c) /\ Has(t, c) => op.kind = "create"
             /\ Has(s, c) /\ ~Has(t, c) => op.kind = "delete"
             /\ Has(s, c) /\ Has(t, c) => t.items[c].runs >= s.items[c].runs
  <2>0. s.items[c] \in Row \cup {None}
    BY DEF Settings
  <2>1. CASE op.kind = "rest" \/ op.id # c
    <3>1. t.items[c] = s.items[c]
      BY <2>1, ApplyRows
    <3>2. Has(s, c) => s.items[c].runs \in Nat
      BY <2>0, BoundAssumption DEF Has, Row
    <3> QED BY <3>1, <3>2 DEF Has
  <2>2. CASE op.kind # "rest" /\ op.id = c
    <3>1. op \in ItemOp
      BY <2>2, OpKinds
    <3>2. t.items[c] = NewRow(op, s.items[c])
      BY <2>2, ApplyRows
    <3>3. op.kind = "delete" <=> t.items[c] = None
      BY <2>2, <3>1, <3>2, NewRowType
    <3>4. ~Has(s, c) /\ Has(t, c) => op.kind = "create"
      BY <2>2, ApplyHas
    <3>5. ASSUME Has(s, c), Has(t, c)
          PROVE  t.items[c].runs >= s.items[c].runs
      <4>1. s.items[c] \in Row
        BY <2>0, <3>5 DEF Has
      <4>2. s.items[c].runs \in Nat
        BY <4>1, BoundAssumption DEF Row
      <4>3. CASE op.kind = "update"
        BY <3>2, <4>2, <4>3 DEF NewRow, Updated
      <4>4. CASE op.kind = "record"
        <5>1. t.items[c] = Recorded(s.items[c])
          BY <3>2, <4>4 DEF NewRow
        <5>2. Recorded(s.items[c]).runs \in {s.items[c].runs, s.items[c].runs + 1}
          BY <4>1 DEF Recorded, Row
        <5> QED BY <4>2, <5>1, <5>2
      <4> QED BY <2>2, <3>1, <3>3, <3>5, <4>3, <4>4 DEF ItemOp, Has
    <3> QED BY <2>2, <3>3, <3>4, <3>5 DEF Has
  <2> QED BY <2>1, <2>2
<1> QED BY <1>1, <1>2 DEF Intended

LEMMA OlderFacts ==
    ASSUME NEW s \in Settings, NEW c \in Connector
    PROVE  /\ Older(s, c) \in Settings
           /\ \A d \in Connector : Has(Older(s, c), d) <=> Has(s, d)
<1>1. CASE Has(s, c) /\ s.items[c].last = "recent"
  <2>1. s.items[c] \in Row
    BY <1>1 DEF Has, Settings
  <2>2. [s.items[c] EXCEPT !.last = "old"] \in Row
    BY <2>1 DEF Row
  <2>3. Older(s, c) = [s EXCEPT !.items[c].last = "old"]
    BY <1>1 DEF Older
  <2>4. Older(s, c) \in Settings
    BY <2>2, <2>3 DEF Settings
  <2>5. ASSUME NEW d \in Connector
        PROVE  Has(Older(s, c), d) <=> Has(s, d)
    <3>1. Older(s, c).items[d] = IF d = c THEN [s.items[c] EXCEPT !.last = "old"] ELSE s.items[d]
      BY <2>3 DEF Settings
    <3> QED BY <1>1, <2>2, <3>1, NoneAssumption DEF Has
  <2> QED BY <2>4, <2>5
<1>2. CASE ~(Has(s, c) /\ s.items[c].last = "recent")
  BY <1>2 DEF Older
<1> QED BY <1>1, <1>2
-----------------------------------------------------------------------------
(* ---- The transactions ------------------------------------------------------ *)

LEMMA TxnType ==
    ASSUME TypeOK, NEW a \in Actor, txn[a] # None
    PROVE  txn[a] \in Txn /\ txn[a].op \in Op /\ txn[a].read \in Settings
BY DEF TypeOK, Txn

\* What a step other than Age does to the settings and the transactions.
TxnStep ==
    \/ UNCHANGED <<settings, drawn, txn, crossed>>
    \/ \E a \in Actor : \E op \in Op :
          /\ Load(a, op)
          /\ UNCHANGED settings
          /\ IF op.kind = "create"
             THEN op.id \notin drawn /\ drawn' = drawn \cup {op.id}
             ELSE UNCHANGED drawn
    \/ \E a \in Actor : Save(a) /\ UNCHANGED drawn
    \/ \E a \in Actor : txn[a] # None /\ Close(a) /\ UNCHANGED <<settings, crossed, drawn>>

LEMMA StepKinds ==
    ASSUME TypeOK, [Next]_vars
    PROVE  TxnStep \/ \E c \in Connector : Age(c)
<1> USE DEF TxnStep, work
<1>0. Owner \subseteq Actor /\ Worker \subseteq Actor
  BY DEF Actor
<1>1. CASE UNCHANGED vars
  BY <1>1 DEF vars
<1>2. ASSUME NEW o \in Owner, NEW c \in Connector, NEW enabled \in BOOLEAN,
             NEW timed \in BOOLEAN, Create(o, c, enabled, timed)
      PROVE  TxnStep
  <2> DEFINE op == [kind |-> "create", id |-> c, enabled |-> enabled, timed |-> timed]
  <2>1. op \in Op
    BY DEF Op
  <2> QED BY <1>0, <1>2, <2>1 DEF Create
<1>3. ASSUME NEW o \in Owner, NEW c \in Connector, NEW enabled \in BOOLEAN,
             NEW timed \in BOOLEAN, Update(o, c, enabled, timed)
      PROVE  TxnStep
  <2> DEFINE op == [kind |-> "update", id |-> c, enabled |-> enabled, timed |-> timed]
  <2>1. op \in Op
    BY DEF Op
  <2> QED BY <1>0, <1>3, <2>1 DEF Update
<1>4. ASSUME NEW o \in Owner, NEW c \in Connector, Delete(o, c)
      PROVE  TxnStep
  <2> DEFINE op == [kind |-> "delete", id |-> c, enabled |-> FALSE, timed |-> FALSE]
  <2>1. op \in Op
    BY DEF Op
  <2> QED BY <1>0, <1>4, <2>1 DEF Delete
<1>5. ASSUME NEW o \in Owner, NEW v \in Rest, SetRest(o, v)
      PROVE  TxnStep
  <2> DEFINE op == [kind |-> "rest", rest |-> v]
  <2>1. op \in Op
    BY DEF Op
  <2> QED BY <1>0, <1>5, <2>1 DEF SetRest
<1>6. ASSUME NEW o \in Owner, Answer(o) \/ Fails(o)
      PROVE  TxnStep
  BY <1>0, <1>6 DEF Answer, Fails, Missed
<1>7. ASSUME NEW c \in Connector, RunNow(c) \/ Enqueue(c)
      PROVE  TxnStep
  BY <1>7 DEF RunNow, Enqueue
<1>8. CASE Tick
  BY <1>8 DEF Tick
<1>9. ASSUME NEW w \in Worker, NEW c \in Connector, Take(w, c)
      PROVE  TxnStep
  BY <1>9 DEF Take
<1>10. ASSUME NEW w \in Worker, Find(w) \/ Crawl(w)
       PROVE  TxnStep
  BY <1>10 DEF Find, Crawl
<1>11. ASSUME NEW w \in Worker, LoadRecord(w)
       PROVE  TxnStep
  <2> DEFINE op == [kind |-> "record", id |-> job[w], enabled |-> FALSE, timed |-> FALSE]
  <2>1. job[w] \in Connector
    BY <1>11 DEF LoadRecord, TypeOK
  <2>2. op \in Op
    BY <2>1 DEF Op
  <2> QED BY <1>0, <1>11, <2>2 DEF LoadRecord
<1>12. ASSUME NEW w \in Worker, Record(w)
       PROVE  TxnStep
  BY <1>0, <1>12 DEF Record, Missed
<1>13. ASSUME NEW w \in Worker, NEW back \in BOOLEAN, Dies(w, back)
       PROVE  TxnStep
  BY <1>0, <1>13 DEF Dies
<1> QED
  BY <1>1, <1>2, <1>3, <1>4, <1>5, <1>6, <1>7, <1>8, <1>9, <1>10, <1>11, <1>12, <1>13
     DEF Next, Requests, Beat, Proceed

\* What an actor has open after a step.
LEMMA OpenAfter ==
    ASSUME TypeOK, NEW a \in Actor, NEW b \in Actor
    PROVE  /\ Close(a) => txn'[b] = IF b = a THEN None ELSE txn[b]
           /\ \A op \in Op : Load(a, op) =>
                 txn'[b] = IF b = a THEN [op |-> op, read |-> settings] ELSE txn[b]
BY DEF TypeOK, Close, Load

LEMMA FreshStep ==
    ASSUME TypeOK, Fresh, TxnStep
    PROVE  Fresh'
<1> SUFFICES ASSUME NEW b \in Actor, txn'[b] # None, b \notin crossed'
             PROVE  txn'[b].read = settings'
  BY DEF Fresh
<1>1. CASE UNCHANGED <<settings, drawn, txn, crossed>>
  BY <1>1 DEF Fresh
<1>2. ASSUME NEW a \in Actor, NEW op \in Op, Load(a, op), UNCHANGED settings
      PROVE  txn'[b].read = settings'
  <2>1. CASE b = a
    <3>1. txn'[b] = [op |-> op, read |-> settings]
      BY <1>2, <2>1, OpenAfter
    <3> QED BY <1>2, <3>1
  <2>2. CASE b # a
    <3>1. txn'[b] = txn[b] /\ b \notin crossed
      BY <1>2, <2>2, OpenAfter DEF Load
    <3> QED BY <1>2, <3>1 DEF Fresh
  <2> QED BY <2>1, <2>2
<1>3. ASSUME NEW a \in Actor, Save(a)
      PROVE  FALSE
  BY <1>3, OpenAfter DEF Save
<1>4. ASSUME NEW a \in Actor, Close(a), UNCHANGED <<settings, crossed>>
      PROVE  txn'[b].read = settings'
  <2>1. b # a /\ txn'[b] = txn[b]
    BY <1>4, OpenAfter
  <2> QED BY <1>4, <2>1 DEF Fresh
<1> QED BY <1>1, <1>2, <1>3, <1>4 DEF TxnStep

\* Time passes in every copy of the settings.
LEMMA AgeStep ==
    ASSUME IInv, NEW c \in Connector, Age(c)
    PROVE  Fresh' /\ NewIds'
<1>1. ASSUME NEW a \in Actor
      PROVE  txn'[a] = IF txn[a] = None THEN None
                       ELSE [txn[a] EXCEPT !.read = Older(txn[a].read, c)]
  BY <1>1 DEF Age
<1>2. ASSUME NEW a \in Actor
      PROVE  /\ txn'[a] # None <=> txn[a] # None
             /\ txn[a] # None => /\ txn'[a].op = txn[a].op
                                /\ txn'[a].read = Older(txn[a].read, c)
  <2>1. CASE txn[a] = None
    BY <1>1, <2>1
  <2>2. CASE txn[a] # None
    <3>1. txn[a] \in Txn /\ txn[a].read \in Settings
      BY <2>2, TxnType DEF IInv
    <3>2. Older(txn[a].read, c) \in Settings
      BY <3>1, OlderFacts
    <3>3. [txn[a] EXCEPT !.read = Older(txn[a].read, c)] \in Txn
      BY <3>1, <3>2 DEF Txn
    <3>4. [txn[a] EXCEPT !.read = Older(txn[a].read, c)] # None
      BY <3>3, NoneAssumption DEF Txn
    <3> QED BY <1>1, <2>2, <3>1, <3>4 DEF Txn
  <2> QED BY <2>1, <2>2
<1>3. settings' = Older(settings, c) /\ settings \in Settings /\ UNCHANGED <<drawn, crossed>>
  BY DEF Age, IInv, TypeOK
<1>4. Fresh'
  BY <1>2, <1>3 DEF IInv, Fresh
<1>5. \A d \in Connector : Has(settings', d) <=> Has(settings, d)
  BY <1>3, OlderFacts
<1>6. ASSUME NEW a \in Actor, txn[a] # None
      PROVE  \A d \in Connector : Has(txn'[a].read, d) <=> Has(txn[a].read, d)
  <2>1. txn[a].read \in Settings
    BY <1>6, TxnType DEF IInv
  <2> QED BY <1>2, <1>6, <2>1, OlderFacts
<1>7. ASSUME NEW a \in Actor
      PROVE  /\ Creating(a)' <=> Creating(a)
             /\ Creating(a) => txn'[a].op.id = txn[a].op.id /\ txn[a].op.id \in Connector
  <2>1. Creating(a) => txn[a].op.id \in Connector
    BY TxnType, OpKinds DEF Creating, IInv
  <2> QED BY <1>2, <2>1 DEF Creating
<1>8. NewIds'
  <2>1. (\A d \in Connector : Has(settings, d) => d \in drawn)'
    BY <1>3, <1>5 DEF IInv, NewIds
  <2>2. (\A b \in Actor : txn[b] # None =>
           \A d \in Connector : Has(txn[b].read, d) => d \in drawn)'
    BY <1>2, <1>3, <1>6 DEF IInv, NewIds
  <2>3. ASSUME NEW a \in Actor, Creating(a)'
        PROVE  (/\ txn[a].op.id \in drawn
                /\ ~Has(settings, txn[a].op.id)
                /\ \A b \in Actor : txn[b] # None => ~Has(txn[b].read, txn[a].op.id)
                /\ \A b \in Actor : Creating(b) /\ txn[b].op.id = txn[a].op.id => a = b)'
    <3>1. Creating(a) /\ txn'[a].op.id = txn[a].op.id /\ txn[a].op.id \in Connector
      BY <1>7, <2>3
    <3>2. (txn[a].op.id \in drawn /\ ~Has(settings, txn[a].op.id))'
      BY <1>3, <1>5, <3>1 DEF IInv, NewIds
    <3>3. (\A b \in Actor : txn[b] # None => ~Has(txn[b].read, txn[a].op.id))'
      BY <1>2, <1>6, <3>1 DEF IInv, NewIds
    <3>4. (\A b \in Actor : Creating(b) /\ txn[b].op.id = txn[a].op.id => a = b)'
      BY <1>7, <3>1 DEF IInv, NewIds
    <3> QED BY <3>2, <3>3, <3>4
  <2> QED BY <2>1, <2>2, <2>3 DEF NewIds
<1> QED BY <1>4, <1>8

LEMMA NewIdsStep ==
    ASSUME IInv, TxnStep
    PROVE  NewIds'
<1>0. TypeOK /\ NewIds
  BY DEF IInv
<1>1. CASE UNCHANGED <<settings, drawn, txn, crossed>>
  BY <1>0, <1>1 DEF NewIds, Creating, Has
\* A new transaction: what it reads are the settings; what it creates is new.
<1>2. ASSUME NEW a \in Actor, NEW op \in Op, Load(a, op), UNCHANGED settings,
             IF op.kind = "create"
             THEN op.id \notin drawn /\ drawn' = drawn \cup {op.id}
             ELSE UNCHANGED drawn
      PROVE  NewIds'
  <2>1. ASSUME NEW b \in Actor
        PROVE  txn'[b] = IF b = a THEN [op |-> op, read |-> settings] ELSE txn[b]
    BY <1>0, <1>2, OpenAfter
  <2>2. drawn \subseteq drawn'
    BY <1>2
  <2>3. op.kind = "create" => op.id \in Connector /\ op.id \notin drawn
    BY <1>2, OpKinds
  <2>4. (\A c \in Connector : Has(settings, c) => c \in drawn)'
    BY <1>0, <1>2, <2>2 DEF NewIds, Has
  <2>5. (\A b \in Actor : txn[b] # None =>
           \A c \in Connector : Has(txn[b].read, c) => c \in drawn)'
    BY <1>0, <2>1, <2>2 DEF NewIds, Has
  <2>6. ASSUME NEW b \in Actor, Creating(b)'
        PROVE  (/\ txn[b].op.id \in drawn
                /\ ~Has(settings, txn[b].op.id)
                /\ \A d \in Actor : txn[d] # None => ~Has(txn[d].read, txn[b].op.id)
                /\ \A d \in Actor : Creating(d) /\ txn[d].op.id = txn[b].op.id => b = d)'
    <3>1. CASE b = a
      <4>1. txn'[b].op = op /\ op.kind = "create" /\ op.id \in Connector /\ op.id \notin drawn
        BY <2>1, <2>3, <2>6, <3>1 DEF Creating
      <4>2. op.id \in drawn' /\ ~Has(settings', op.id)
        BY <1>0, <1>2, <4>1 DEF NewIds
      <4>3. ASSUME NEW d \in Actor, txn'[d] # None
            PROVE  ~Has(txn'[d].read, op.id)
        BY <1>0, <2>1, <4>1, <4>3 DEF NewIds
      <4>4. ASSUME NEW d \in Actor, Creating(d)', txn'[d].op.id = op.id
            PROVE  b = d
        BY <1>0, <2>1, <3>1, <4>1, <4>4 DEF NewIds, Creating
      <4> QED BY <4>1, <4>2, <4>3, <4>4
    <3>2. CASE b # a
      <4>1. Creating(b) /\ txn'[b] = txn[b]
        BY <2>1, <2>6, <3>2 DEF Creating
      <4>2. txn[b].op.id \in drawn /\ ~Has(settings, txn[b].op.id)
        BY <1>0, <4>1 DEF NewIds
      <4>3. ASSUME NEW d \in Actor, txn'[d] # None
            PROVE  ~Has(txn'[d].read, txn[b].op.id)
        BY <1>0, <2>1, <4>1, <4>2, <4>3 DEF NewIds
      <4>4. ASSUME NEW d \in Actor, Creating(d)', txn'[d].op.id = txn[b].op.id
            PROVE  b = d
        BY <1>0, <2>1, <2>3, <4>1, <4>2, <4>4 DEF NewIds, Creating
      <4> QED BY <1>2, <2>2, <4>1, <4>2, <4>3, <4>4
    <3> QED BY <3>1, <3>2
  <2> QED BY <2>4, <2>5, <2>6 DEF NewIds
\* A write: what it adds is what it creates.
<1>3. ASSUME NEW a \in Actor, Save(a), UNCHANGED drawn
      PROVE  NewIds'
  <2> DEFINE op == txn[a].op
  <2>1. op \in Op /\ txn[a].read \in Settings /\ Found(op, txn[a].read) /\ txn[a] # None
    BY <1>0, <1>3, TxnType DEF Save
  <2>2. ASSUME NEW c \in Connector, Has(settings', c)
        PROVE  Has(txn[a].read, c) \/ (Creating(a) /\ op.id = c)
    BY <1>3, <2>1, <2>2, ApplyHas DEF Save, Creating
  <2>3. ASSUME NEW b \in Actor
        PROVE  txn'[b] = IF b = a THEN None ELSE txn[b]
    BY <1>0, <1>3, OpenAfter DEF Save
  <2>4. (\A c \in Connector : Has(settings, c) => c \in drawn)'
    BY <1>0, <1>3, <2>1, <2>2 DEF NewIds
  <2>5. (\A b \in Actor : txn[b] # None =>
           \A c \in Connector : Has(txn[b].read, c) => c \in drawn)'
    BY <1>0, <1>3, <2>3 DEF NewIds
  <2>6. ASSUME NEW b \in Actor, Creating(b)'
        PROVE  (/\ txn[b].op.id \in drawn
                /\ ~Has(settings, txn[b].op.id)
                /\ \A d \in Actor : txn[d] # None => ~Has(txn[d].read, txn[b].op.id)
                /\ \A d \in Actor : Creating(d) /\ txn[d].op.id = txn[b].op.id => b = d)'
    <3>1. b # a /\ Creating(b) /\ txn'[b] = txn[b]
      BY <2>3, <2>6 DEF Creating
    <3>2. txn[b].op.id \in Connector
      BY <1>0, <3>1, TxnType, OpKinds DEF Creating
    <3>3. ~Has(settings', txn[b].op.id)
      BY <1>0, <2>1, <2>2, <3>1, <3>2 DEF NewIds
    <3>4. ASSUME NEW d \in Actor, txn'[d] # None
          PROVE  ~Has(txn'[d].read, txn[b].op.id)
      BY <1>0, <2>3, <3>1, <3>4 DEF NewIds
    <3>5. ASSUME NEW d \in Actor, Creating(d)', txn'[d].op.id = txn[b].op.id
          PROVE  b = d
      BY <1>0, <2>3, <3>1, <3>5 DEF NewIds, Creating
    <3> QED BY <1>0, <1>3, <3>1, <3>3, <3>4, <3>5 DEF NewIds
  <2> QED BY <2>4, <2>5, <2>6 DEF NewIds
<1>4. ASSUME NEW a \in Actor, Close(a), UNCHANGED <<settings, crossed, drawn>>
      PROVE  NewIds'
  <2>1. ASSUME NEW b \in Actor
        PROVE  txn'[b] = IF b = a THEN None ELSE txn[b]
    BY <1>0, <1>4, OpenAfter
  <2>2. ASSUME NEW b \in Actor, txn'[b] # None
        PROVE  txn'[b] = txn[b] /\ txn[b] # None
    BY <2>1, <2>2
  <2> QED BY <1>0, <1>4, <2>2 DEF NewIds, Creating
<1> QED BY <1>1, <1>2, <1>3, <1>4 DEF TxnStep
-----------------------------------------------------------------------------
(* ---- Types ------------------------------------------------------------------- *)

\* The types of the settings and the transactions.
ColumnTypes ==
    /\ settings \in Settings
    /\ drawn \subseteq Connector
    /\ txn \in [Actor -> Txn \cup {None}]
    /\ crossed \subseteq Actor

LEMMA ColumnStep ==
    ASSUME TypeOK, TxnStep \/ \E c \in Connector : Age(c)
    PROVE  ColumnTypes'
<1>1. CASE UNCHANGED <<settings, drawn, txn, crossed>>
  BY <1>1 DEF TypeOK, ColumnTypes, Txn
<1>2. ASSUME NEW a \in Actor, NEW op \in Op, Load(a, op), UNCHANGED settings,
             IF op.kind = "create"
             THEN op.id \notin drawn /\ drawn' = drawn \cup {op.id}
             ELSE UNCHANGED drawn
      PROVE  ColumnTypes'
  <2>1. drawn' \subseteq Connector
    BY <1>2, OpKinds DEF TypeOK
  <2>2. [op |-> op, read |-> settings] \in Txn
    BY DEF TypeOK, Txn
  <2> QED BY <1>2, <2>1, <2>2 DEF TypeOK, ColumnTypes, Load, Txn
<1>3. ASSUME NEW a \in Actor, Save(a), UNCHANGED drawn
      PROVE  ColumnTypes'
  <2>1. Apply(txn[a].op, txn[a].read) \in Settings
    BY <1>3, TxnType, ApplyType DEF Save
  <2> QED BY <1>3, <2>1 DEF TypeOK, ColumnTypes, Save, Close, Txn
<1>4. ASSUME NEW a \in Actor, Close(a), UNCHANGED <<settings, crossed, drawn>>
      PROVE  ColumnTypes'
  BY <1>4 DEF TypeOK, ColumnTypes, Close, Txn
<1>5. ASSUME NEW c \in Connector, Age(c)
      PROVE  ColumnTypes'
  <2>1. Older(settings, c) \in Settings
    BY OlderFacts DEF TypeOK
  <2>2. ASSUME NEW a \in Actor
        PROVE  (IF txn[a] = None THEN None
                ELSE [txn[a] EXCEPT !.read = Older(txn[a].read, c)]) \in Txn \cup {None}
    <3>1. CASE txn[a] = None
      BY <3>1
    <3>2. CASE txn[a] # None
      <4>1. txn[a] \in Txn /\ Older(txn[a].read, c) \in Settings
        BY <3>2, TxnType, OlderFacts
      <4> QED BY <3>2, <4>1 DEF Txn
    <3> QED BY <3>1, <3>2
  <2>3. txn' \in [Actor -> Txn \cup {None}]
    BY <1>5, <2>2 DEF Age
  <2> QED BY <1>5, <2>1, <2>3 DEF TypeOK, ColumnTypes, Age
<1> QED BY <1>1, <1>2, <1>3, <1>4, <1>5 DEF TxnStep

\* The types of the queue and the workers.
TaskTypes ==
    /\ queue \in [Connector -> 0..MaxQueued]
    /\ due \subseteq Connector
    /\ pc \in [Worker -> {"idle", "find", "crawl", "record"}]
    /\ job \in [Worker -> Connector \cup {None}]
    /\ faults \in 0..MaxFaults
    /\ \A w \in Worker : pc[w] # "idle" => job[w] \in Connector
    /\ \A w \in Worker : txn[w] # None => pc[w] = "record" /\ txn[w].op.kind = "record"

LEMMA TypesSplit == TypeOK <=> ColumnTypes /\ TaskTypes
BY DEF TypeOK, ColumnTypes, TaskTypes, Txn

\* A step of an owner leaves the transactions of the workers.
LEMMA OwnerStep ==
    ASSUME TypeOK, NEW o \in Owner, UNCHANGED <<queue, due, work, faults>>,
           \/ \E op \in Op : Load(o, op)
           \/ Close(o)
    PROVE  TaskTypes'
<1>1. o \in Actor /\ \A w \in Worker : w \in Actor /\ w # o
  BY ActorAssumption DEF Actor
<1>2. \A w \in Worker : txn'[w] = txn[w]
  BY <1>1, OpenAfter
<1> QED BY <1>2 DEF TypeOK, TaskTypes, work

LEMMA TaskStep ==
    ASSUME TypeOK, [Next]_vars
    PROVE  TaskTypes'
<1> USE BoundAssumption
<1>0. Owner \subseteq Actor /\ Worker \subseteq Actor
  BY DEF Actor
<1>1. CASE UNCHANGED vars
  BY <1>1 DEF vars, work, TypeOK, TaskTypes
<1>2. ASSUME NEW o \in Owner, NEW c \in Connector, NEW enabled \in BOOLEAN,
             NEW timed \in BOOLEAN,
             Create(o, c, enabled, timed) \/ Update(o, c, enabled, timed) \/ Delete(o, c)
      PROVE  TaskTypes'
  <2>1. ASSUME NEW kind \in {"create", "update", "delete"}, NEW x \in BOOLEAN, NEW y \in BOOLEAN
        PROVE  [kind |-> kind, id |-> c, enabled |-> x, timed |-> y] \in Op
    BY <2>1 DEF Op
  <2>2. \E op \in Op : Load(o, op)
    BY <1>2, <2>1 DEF Create, Update, Delete
  <2> QED BY <1>2, <2>2, OwnerStep DEF Create, Update, Delete
<1>3. ASSUME NEW o \in Owner, NEW v \in Rest, SetRest(o, v)
      PROVE  TaskTypes'
  <2>1. [kind |-> "rest", rest |-> v] \in Op
    BY DEF Op
  <2> QED BY <1>3, <2>1, OwnerStep DEF SetRest
<1>4. ASSUME NEW o \in Owner, Answer(o) \/ Fails(o)
      PROVE  TaskTypes'
  BY <1>4, OwnerStep DEF Answer, Save, Missed, Fails
<1>5. ASSUME NEW c \in Connector, RunNow(c)
      PROVE  TaskTypes'
  BY <1>5 DEF RunNow, Send, TypeOK, TaskTypes, work
<1>6. CASE Tick
  BY <1>6 DEF Tick, TypeOK, TaskTypes, work
<1>7. ASSUME NEW c \in Connector, Enqueue(c)
      PROVE  TaskTypes'
  BY <1>7 DEF Enqueue, Send, TypeOK, TaskTypes, work
<1>8. ASSUME NEW c \in Connector, Age(c)
      PROVE  TaskTypes'
  <2>1. ASSUME NEW w \in Worker, txn'[w] # None
        PROVE  pc'[w] = "record" /\ txn'[w].op.kind = "record"
    <3>1. txn[w] # None /\ txn'[w] = [txn[w] EXCEPT !.read = Older(txn[w].read, c)]
      BY <1>0, <1>8, <2>1 DEF Age
    <3>2. txn[w] \in Txn
      BY <1>0, <3>1, TxnType
    <3>3. txn'[w].op = txn[w].op
      BY <3>1, <3>2 DEF Txn
    <3> QED BY <1>8, <3>1, <3>3 DEF Age, work, TypeOK
  <2> QED BY <1>8, <2>1 DEF Age, work, TypeOK, TaskTypes
<1>9. ASSUME NEW w \in Worker, NEW c \in Connector, Take(w, c)
      PROVE  TaskTypes'
  BY <1>9 DEF Take, Goto, TypeOK, TaskTypes
<1>10. ASSUME NEW w \in Worker, Find(w) \/ Crawl(w)
       PROVE  TaskTypes'
  BY <1>10 DEF Find, Crawl, Goto, Leave, TypeOK, TaskTypes
<1>11. ASSUME NEW w \in Worker, LoadRecord(w)
       PROVE  TaskTypes'
  <2> DEFINE op == [kind |-> "record", id |-> job[w], enabled |-> FALSE, timed |-> FALSE]
  <2>1. job[w] \in Connector
    BY <1>11 DEF LoadRecord, TypeOK
  <2>2. op \in Op
    BY <2>1 DEF Op
  <2>3. \A x \in Worker : txn'[x] = IF x = w THEN [op |-> op, read |-> settings] ELSE txn[x]
    BY <1>0, <1>11, <2>2, OpenAfter DEF LoadRecord
  <2> HIDE DEF op
  <2>4. op.kind = "record"
    BY DEF op
  <2> QED BY <1>11, <2>3, <2>4 DEF LoadRecord, TypeOK, TaskTypes, work
<1>12. ASSUME NEW w \in Worker, Record(w)
       PROVE  TaskTypes'
  <2>1. \A x \in Worker : txn'[x] = IF x = w THEN None ELSE txn[x]
    BY <1>0, <1>12, OpenAfter DEF Record, Save, Missed
  <2> QED BY <1>12, <2>1 DEF Record, Leave, Goto, TypeOK, TaskTypes
<1>13. ASSUME NEW w \in Worker, NEW back \in BOOLEAN, Dies(w, back)
       PROVE  TaskTypes'
  <2>1. \A x \in Worker : txn'[x] = IF x = w THEN None ELSE txn[x]
    <3>1. CASE txn[w] = None
      BY <1>13, <3>1 DEF Dies
    <3>2. CASE txn[w] # None
      BY <1>0, <1>13, <3>2, OpenAfter DEF Dies
    <3> QED BY <3>1, <3>2
  <2>2. queue' \in [Connector -> 0..MaxQueued]
    BY <1>13 DEF Dies, Send, TypeOK
  <2>3. faults' \in 0..MaxFaults /\ due' \subseteq Connector
    BY <1>13 DEF Dies, TypeOK
  <2> QED BY <1>13, <2>1, <2>2, <2>3 DEF Dies, Leave, Goto, TypeOK, TaskTypes
<1> QED
  BY <1>1, <1>2, <1>3, <1>4, <1>5, <1>6, <1>7, <1>8, <1>9, <1>10, <1>11, <1>12, <1>13
     DEF Next, Requests, Beat, Proceed

LEMMA InitTypes == Init => TypeOK
<1> SUFFICES ASSUME Init PROVE TypeOK
  OBVIOUS
<1>1. settings \in Settings
  BY DEF Init, Settings
<1>2. ColumnTypes
  BY <1>1 DEF Init, ColumnTypes
<1>3. 0 \in 0..MaxQueued /\ 0 \in 0..MaxFaults
  BY BoundAssumption
<1>4. \A w \in Worker : w \in Actor
  BY DEF Actor
<1>5. TaskTypes
  BY <1>3, <1>4 DEF Init, TaskTypes
<1> QED BY <1>2, <1>5, TypesSplit
-----------------------------------------------------------------------------
(* ---- Theorems ------------------------------------------------------------------ *)

LEMMA InvInit == Init => IInv
<1> SUFFICES ASSUME Init PROVE IInv
  OBVIOUS
<1>1. Fresh
  BY DEF Init, Fresh
<1>2. \A c \in Connector : ~Has(settings, c)
  BY DEF Init, Has
<1>3. NewIds
  BY <1>2 DEF Init, NewIds, Creating
<1> QED BY <1>1, <1>3, InitTypes DEF IInv

LEMMA InvStep ==
    ASSUME IInv, [Next]_vars
    PROVE  IInv'
<1>1. TypeOK'
  BY ColumnStep, StepKinds, TaskStep, TypesSplit DEF IInv, TypeOK, ColumnTypes, TaskTypes, Txn
<1>2. Fresh' /\ NewIds'
  BY StepKinds, FreshStep, NewIdsStep, AgeStep DEF IInv
<1> QED BY <1>1, <1>2 DEF IInv

\* Type correctness: a worker has a transaction open only to record its run.
THEOREM ConnectorTypes == Spec => []TypeOK
<1>1. IInv /\ [Next]_vars => IInv'
  BY InvStep
<1>2. IInv => TypeOK
  BY DEF IInv
<1> QED BY <1>1, <1>2, InvInit, PTL DEF Spec

\* For any number of owners, workers and connectors, a write of the settings that no
\* other write crossed changes its own part of the column and nothing else, brings
\* back no connector and shortens no history: an actor nobody crossed still holds the
\* settings as they are (Fresh), and the id of a new connector is nowhere else (NewIds).
THEOREM QuietWrites == Spec => QuietWritesLoseNothing
<1>1. ASSUME IInv, [Next]_vars, NEW a \in Actor,
             txn[a] # None, txn'[a] = None, a \notin crossed
      PROVE  Intended(txn[a].op, settings, settings')
  <2>1. txn[a].op \in Op /\ txn[a].read = settings /\ settings \in Settings
    BY <1>1, TxnType DEF IInv, Fresh, TypeOK
  <2>2. CASE UNCHANGED settings
    <3>1. \A c \in Connector : Has(settings, c) => settings.items[c].runs >= settings.items[c].runs
      <4>1. \A c \in Connector : Has(settings, c) => settings.items[c] \in Row
        BY <2>1 DEF Settings, Has
      <4> QED BY <4>1, BoundAssumption DEF Row
    <3> QED BY <2>2, <3>1 DEF Intended, Has
  <2>3. ASSUME NEW b \in Actor, Save(b)
        PROVE  Intended(txn[a].op, settings, settings')
    <3>1. b = a
      BY <1>1, <2>3, OpenAfter DEF Save, IInv
    <3>2. txn[a].op.kind = "create" => ~Has(settings, txn[a].op.id)
      BY <1>1 DEF IInv, NewIds, Creating
    <3>3. Found(txn[a].op, settings) /\ settings' = Apply(txn[a].op, settings)
      BY <2>1, <2>3, <3>1 DEF Save
    <3> QED BY <2>1, <3>2, <3>3, ApplyIntended
  <2>4. ASSUME NEW c \in Connector, Age(c)
        PROVE  FALSE
    <3>1. txn[a] \in Txn /\ Older(txn[a].read, c) \in Settings
      BY <1>1, TxnType, OlderFacts DEF IInv
    <3>2. txn'[a] = [txn[a] EXCEPT !.read = Older(txn[a].read, c)]
      BY <1>1, <2>4 DEF Age
    <3>3. txn'[a] \in Txn
      BY <3>1, <3>2 DEF Txn
    <3> QED BY <1>1, <3>3, NoneAssumption DEF Txn
  <2> QED BY <1>1, <2>2, <2>3, <2>4, StepKinds DEF IInv, TxnStep
<1>2. IInv /\ [Next]_vars => IInv'
  BY InvStep
<1>3. IInv /\ [Next]_vars =>
        [\A a \in Actor : (txn[a] # None /\ txn'[a] = None /\ a \notin crossed)
                             => Intended(txn[a].op, settings, settings')]_vars
  BY <1>1
<1> QED BY <1>2, <1>3, InvInit, PTL DEF Spec, QuietWritesLoseNothing
=============================================================================
