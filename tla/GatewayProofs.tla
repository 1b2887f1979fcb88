---------------------------- MODULE GatewayProofs ----------------------------
(***************************************************************************)
(* Proofs about Gateway, for any number of callers and editors, any        *)
(* policies, routings, limits and bounds.                                  *)
(***************************************************************************)
EXTENDS Gateway, FiniteSetTheorems, TLAPS

\* The labels at which a caller holds a chain.
InLoop == {"screen", "try", "wait", "flow"}

\* What is left of a chain is a part of the chain of the settings the call
\* is governed by.
ChainInv ==
    \A p \in Caller : pc[p] \in InLoop =>
        req[p].snap \in Settings /\ req[p].left \subseteq Chain(req[p].snap)
-----------------------------------------------------------------------------
(* ---- Facts about chains ------------------------------------------------- *)

LEMMA ChainIsChosen ==
    ASSUME NEW s
    PROVE  /\ Chain(s) \subseteq Permitted(s)
           /\ Permitted(s) \subseteq Chosen(s)
BY DEF Chain, Permitted

LEMMA OrderIsRouting == \A s \in Settings : Order(s) \in Routing \ {<<>>}
<1> SUFFICES ASSUME NEW s \in Settings PROVE Order(s) \in Routing \ {<<>>}
  OBVIOUS
<1>1. s.routing \in Routing
  BY DEF Settings
<1>2. <<"qwen">> \in Routing \ {<<>>} /\ <<"openai">> \in Routing \ {<<>>}
  BY DEF Routing
<1>3. QED
  BY <1>1, <1>2 DEF Order

\* An order names only targets, and orders them: no target precedes itself.
LEMMA OrderIsStrict ==
    ASSUME NEW s \in Settings
    PROVE  /\ Chosen(s) \subseteq Target
           /\ \A t, u : Precedes(s, t, u) => ~Precedes(s, u, t)
           /\ \A t, u \in Chosen(s) : t # u => Precedes(s, t, u) \/ Precedes(s, u, t)
<1>1. CASE Order(s) = <<"qwen">>
  BY <1>1 DEF Chosen, Precedes, Target
<1>2. CASE Order(s) = <<"openai">>
  BY <1>2 DEF Chosen, Precedes, Target
<1>3. CASE Order(s) = <<"qwen", "openai">>
  BY <1>3 DEF Chosen, Precedes, Target
<1>4. CASE Order(s) = <<"openai", "qwen">>
  BY <1>4 DEF Chosen, Precedes, Target
<1>5. QED
  BY <1>1, <1>2, <1>3, <1>4, OrderIsRouting DEF Routing

\* What is left of a chain has a first target.
LEMMA FirstIsLeft ==
    ASSUME NEW r, r.snap \in Settings, r.left \subseteq Chosen(r.snap), r.left # {}
    PROVE  /\ FirstLeft(r) \in r.left
           /\ \A u \in r.left \ {FirstLeft(r)} : Precedes(r.snap, FirstLeft(r), u)
<1>1. \E t \in r.left : \A u \in r.left \ {t} : Precedes(r.snap, t, u)
  <2>1. r.left \subseteq Target
    BY OrderIsStrict
  <2>2. CASE \E t \in r.left : r.left = {t}
    BY <2>2
  <2>3. CASE r.left = {"qwen", "openai"}
    BY <2>3, OrderIsStrict
  <2>4. QED
    BY <2>1, <2>2, <2>3 DEF Target
<1>2. QED
  BY <1>1 DEF FirstLeft

\* So a caller in the loop is at a target its policy permits.
LEMMA CurrentIsLeft ==
    ASSUME ChainInv, NEW p \in Caller, pc[p] \in InLoop, req[p].left # {}
    PROVE  /\ Current(p) \in req[p].left
           /\ Current(p) \in Chain(req[p].snap)
           /\ Current(p) \in Target
           /\ \A u \in req[p].left \ {Current(p)} : Precedes(req[p].snap, Current(p), u)
<1>1. req[p].snap \in Settings /\ req[p].left \subseteq Chain(req[p].snap)
  BY DEF ChainInv
<1>2. req[p].left \subseteq Chosen(req[p].snap) /\ Chosen(req[p].snap) \subseteq Target
  BY <1>1, ChainIsChosen, OrderIsStrict
<1>3. QED
  BY <1>1, <1>2, FirstIsLeft DEF Current
-----------------------------------------------------------------------------
(* ---- Types -------------------------------------------------------------- *)

\* A row is recorded, or its loss noted; the ledger only grows.
LEMMA RecordType ==
    ASSUME TypeOK, NEW p \in Caller, req[p] \in Locals,
           NEW target \in RowTarget, NEW status \in Status, NEW tokens \in 0..2,
           Record(p, target, status, tokens)
    PROVE  /\ ledger' \in Seq(Row)
           /\ lost' \subseteq CallId \X RowTarget
           /\ Len(ledger') >= Len(ledger)
<1>1. req[p].call \in CallId
  BY DEF Locals
<1>2. [call |-> req[p].call, target |-> target, status |-> status, tokens |-> tokens] \in Row
  BY <1>1 DEF Row
<1>3. ledger \in Seq(Row) /\ lost \subseteq CallId \X RowTarget
  BY DEF TypeOK
<1> DEFINE row == [call |-> req[p].call, target |-> target, status |-> status,
                  tokens |-> tokens]
<1>4. Len(ledger) \in Nat
  BY <1>3
<1>5. CASE ledger' = Append(ledger, row) /\ UNCHANGED lost
  <2>1. row \in Row
    BY <1>2
  <2> HIDE DEF row
  <2>2. ledger' \in Seq(Row) /\ Len(ledger') = Len(ledger) + 1
    BY <1>3, <1>5, <2>1
  <2>3. QED
    BY <1>3, <1>4, <1>5, <2>2
<1>6. CASE lost' = lost \cup {<<req[p].call, target>>} /\ UNCHANGED ledger
  BY <1>1, <1>3, <1>4, <1>6
<1>7. QED
  BY <1>5, <1>6 DEF Record

\* What a caller's step leaves alone, and what it writes, is typed as before.
TypedStep(p) ==
    /\ ledger' \in Seq(Row)
    /\ Len(ledger') >= Len(ledger)
    /\ lost' \subseteq CallId \X RowTarget
    /\ fate' \in [CallId -> [Target -> Fate]]
    /\ shown' \in [CallId -> SUBSET Target]
    /\ made' \in [CallId -> AllKinds \cup {"none"}]
    /\ nextCall' \in 1..(MaxCalls + 1)
    /\ pc' \in [Caller -> Labels]
    /\ req' \in [Caller -> Locals \cup {None}]
    /\ \A q \in Caller \ {p} : pc'[q] = pc[q] /\ req'[q] = req[q]
    /\ pc'[p] # "idle" => req'[p] \in Locals
    /\ pc'[p] \in {"count", "screen", "try", "wait", "flow"} => req'[p].snap # None
    /\ pc'[p] \in {"wait", "flow"} => req'[p].left # {}
    /\ UNCHANGED <<settings, draft, expired>>

LEMMA TypedStepKeepsTypes ==
    ASSUME TypeOK, NEW p \in Caller, TypedStep(p)
    PROVE  TypeOK'
<1>1. \A q \in Caller : pc'[q] # "idle" => req'[q] \in Locals
  BY DEF TypeOK, TypedStep
<1>2. \A q \in Caller :
        pc'[q] \in {"count", "screen", "try", "wait", "flow"} => req'[q].snap # None
  BY DEF TypeOK, TypedStep
<1>3. \A q \in Caller : pc'[q] \in {"wait", "flow"} => req'[q].left # {}
  BY DEF TypeOK, TypedStep
<1>4. expired' \in 0..Len(ledger')
  <2>1. expired \in 0..Len(ledger) /\ ledger \in Seq(Row)
    BY DEF TypeOK
  <2>2. ledger' \in Seq(Row) /\ Len(ledger') >= Len(ledger) /\ expired' = expired
    BY DEF TypedStep
  <2>3. Len(ledger) \in Nat /\ Len(ledger') \in Nat
    BY <2>1, <2>2
  <2>4. QED
    BY <2>1, <2>2, <2>3
<1>5. QED
  BY <1>1, <1>2, <1>3, <1>4 DEF TypeOK, TypedStep

\* The values of a caller's locals.
LEMMA LocalsTyped ==
    ASSUME TypeOK, NEW p \in Caller, pc[p] # "idle"
    PROVE  /\ req[p] \in Locals
           /\ req[p].kind \in AllKinds /\ req[p].call \in CallId
           /\ req[p].snap \in Settings \cup {None} /\ req[p].left \in SUBSET Target
           /\ req[p].steps \in 0..MaxSteps /\ req[p].tools \in 0..MaxTools
<1>1. req[p] \in Locals
  BY DEF TypeOK
<1>2. QED
  BY <1>1 DEF Locals

\* A caller that returns is idle, or the agent whose tool it was.
LEMMA ReturnTyped ==
    ASSUME TypeOK, NEW p \in Caller, pc[p] # "idle", Return(p)
    PROVE  /\ pc' \in [Caller -> Labels]
           /\ req' \in [Caller -> Locals \cup {None}]
           /\ \A q \in Caller \ {p} : pc'[q] = pc[q] /\ req'[q] = req[q]
           /\ pc'[p] \in {"idle", "tools"}
           /\ pc'[p] = "tools" => /\ req'[p] \in Locals /\ req'[p].kind = "agent"
                                  /\ req'[p].call = req[p].call
                                  /\ req'[p].tools = req[p].tools
<1>l. pc \in [Caller -> Labels] /\ req \in [Caller -> Locals \cup {None}]
  BY DEF TypeOK
<1>1. req[p] \in Locals
  BY LocalsTyped
<1>2. CASE req[p].kind = "tool"
  <2> DEFINE r == [req[p] EXCEPT !.kind = "agent", !.snap = None, !.left = {}]
  <2>1. r \in Locals /\ r.kind = "agent" /\ r.call = req[p].call /\ r.tools = req[p].tools
    BY <1>1 DEF Locals, AllKinds
  <2>2. req' = [req EXCEPT ![p] = r] /\ Goto(p, "tools")
    BY <1>2 DEF Return
  <2> HIDE DEF r
  <2>3. QED
    BY <1>l, <2>1, <2>2 DEF Goto, Labels
<1>3. CASE req[p].kind # "tool"
  BY <1>l, <1>3 DEF Return, Goto, Labels
<1>4. QED
  BY <1>2, <1>3

LEMMA GotoTyped ==
    ASSUME TypeOK, NEW p \in Caller, NEW label \in Labels, Goto(p, label)
    PROVE  /\ pc' \in [Caller -> Labels]
           /\ \A q \in Caller \ {p} : pc'[q] = pc[q]
           /\ pc'[p] = label
BY DEF TypeOK, Goto

\* A caller whose locals are replaced.
LEMMA LocalsReplaced ==
    ASSUME TypeOK, NEW p \in Caller, NEW r \in Locals, req' = [req EXCEPT ![p] = r]
    PROVE  /\ req' \in [Caller -> Locals \cup {None}]
           /\ \A q \in Caller \ {p} : req'[q] = req[q]
           /\ req'[p] = r
BY DEF TypeOK

\* A caller asks, or hears from, the target it is at.
LEMMA BecameTyped ==
    ASSUME TypeOK, NEW p \in Caller, NEW f \in Fate, Became(p, f)
    PROVE  fate' \in [CallId -> [Target -> Fate]]
BY DEF TypeOK, Became

\* Every step of a caller is a typed step.
LEMMA CallerStepTyped ==
    ASSUME TypeOK, ChainInv, NEW p \in Caller,
           Advance(p) \/ \E kind \in CallKind : Arrive(p, kind)
    PROVE  TypedStep(p)
<1> USE LimitAssumption
<1>l. /\ ledger \in Seq(Row) /\ lost \subseteq CallId \X RowTarget
      /\ fate \in [CallId -> [Target -> Fate]]
      /\ shown \in [CallId -> SUBSET Target]
      /\ made \in [CallId -> AllKinds \cup {"none"}]
      /\ nextCall \in 1..(MaxCalls + 1)
      /\ settings \in Settings
      /\ pc \in [Caller -> Labels] /\ req \in [Caller -> Locals \cup {None}]
  BY DEF TypeOK
<1>n. Len(ledger) \in Nat /\ Len(ledger) >= Len(ledger)
  BY <1>l
<1>s. None \notin Settings
  BY NoneAssumption
\* A caller at the provider is at a target.
<1>c. ASSUME pc[p] \in {"wait", "flow"}
      PROVE  Current(p) \in Target
  <2>1. req[p].left # {} /\ pc[p] \in InLoop
    BY <1>c DEF TypeOK, InLoop
  <2>2. QED
    BY <2>1, CurrentIsLeft
<1>1. ASSUME NEW kind \in CallKind, Arrive(p, kind) PROVE TypedStep(p)
  <2> DEFINE r == [kind |-> kind, call |-> nextCall, snap |-> None,
                   left |-> {}, steps |-> 0, tools |-> 0]
  <2>1. nextCall \in CallId /\ nextCall' \in 1..(MaxCalls + 1)
    BY <1>1, <1>l DEF Arrive, CallId
  <2>2. r \in Locals
    BY <2>1, KindAssumption DEF Locals
  <2>3. PICK label \in {"load", "summary", "quota"} : Goto(p, label)
    BY <1>1 DEF Arrive
  <2>4. label \in Labels
    BY DEF Labels
  <2>5. req' = [req EXCEPT ![p] = r]
    BY <1>1 DEF Arrive
  <2>6. made' \in [CallId -> AllKinds \cup {"none"}]
    BY <1>1, <1>l, KindAssumption DEF Arrive
  <2> HIDE DEF r
  <2>7. QED
    BY <1>1, <1>l, <1>n, <2>1, <2>2, <2>3, <2>4, <2>5, <2>6, GotoTyped, LocalsReplaced
       DEF TypedStep, Arrive, LedgerSame, SettingsSame
<1>2. ASSUME GuardQuota(p) PROVE TypedStep(p)
  <2>1. pc[p] # "idle" /\ req[p] \in Locals
    BY <1>2, LocalsTyped DEF GuardQuota
  <2>2. CASE Return(p) /\ Record(p, "none", "quota_denied", 0)
    <3>1. "none" \in RowTarget /\ "quota_denied" \in Status /\ 0 \in 0..2
      BY DEF RowTarget, Target, Status
    <3>2. QED
      BY <1>2, <1>l, <2>2, <3>1, <2>1, RecordType, ReturnTyped
         DEF TypedStep, GuardQuota, CallsSame, SettingsSame
  <2>3. CASE (Goto(p, "search") \/ Goto(p, "policy")) /\ LedgerSame /\ UNCHANGED req
    <3>1. "search" \in Labels /\ "policy" \in Labels
      BY DEF Labels
    <3>2. QED
      BY <1>2, <1>l, <1>n, <2>1, <2>3, <3>1, GotoTyped
         DEF TypedStep, GuardQuota, LedgerSame, CallsSame, SettingsSame
  <2>4. QED
    BY <1>2, <2>2, <2>3 DEF GuardQuota
<1>3. ASSUME GuardPolicy(p) PROVE TypedStep(p)
  <2>1. pc[p] # "idle" /\ req[p] \in Locals
    BY <1>3, LocalsTyped DEF GuardPolicy
  <2>2. "load" \in Labels
    BY DEF Labels
  <2>3. QED
    BY <1>3, <1>l, <1>n, <2>1, <2>2, GotoTyped, ReturnTyped
       DEF TypedStep, GuardPolicy, LedgerSame, CallsSame, SettingsSame
<1>4. ASSUME LoadSettings(p) PROVE TypedStep(p)
  <2>1. pc[p] # "idle" /\ req[p] \in Locals
    BY <1>4, LocalsTyped DEF LoadSettings
  <2> DEFINE r == [req[p] EXCEPT !.snap = settings]
  <2>2. "count" \in Labels /\ r \in Locals /\ r.snap = settings
    BY <1>l, <2>1 DEF Labels, Locals
  <2>3. req' = [req EXCEPT ![p] = r]
    BY <1>4 DEF LoadSettings
  <2> HIDE DEF r
  <2>4. req' \in [Caller -> Locals \cup {None}] /\ req'[p] = r
        /\ \A q \in Caller \ {p} : req'[q] = req[q]
    BY <2>2, <2>3, LocalsReplaced
  <2>5. pc' \in [Caller -> Labels] /\ pc'[p] = "count"
        /\ \A q \in Caller \ {p} : pc'[q] = pc[q]
    BY <1>4, <2>2, GotoTyped DEF LoadSettings
  <2>6. QED
    BY <1>4, <1>l, <1>n, <1>s, <2>2, <2>4, <2>5
       DEF TypedStep, LoadSettings, LedgerSame, CallsSame, SettingsSame
<1>5. ASSUME Gate(p) PROVE TypedStep(p)
  <2>1. pc[p] # "idle" /\ req[p] \in Locals
    BY <1>5, LocalsTyped DEF Gate
  <2>2. req[p].snap \in Settings
    BY <1>5, <2>1, LocalsTyped DEF Gate, TypeOK
  <2>3. CASE Goto(p, "screen") /\ req' = [req EXCEPT ![p].left = Chain(req[p].snap)]
    <3> DEFINE r == [req[p] EXCEPT !.left = Chain(req[p].snap)]
    <3>1. Chain(req[p].snap) \subseteq Target
      BY <2>2, ChainIsChosen, OrderIsStrict
    <3>2. "screen" \in Labels /\ r \in Locals /\ r.snap = req[p].snap
      BY <2>1, <3>1 DEF Labels, Locals
    <3>3. req' = [req EXCEPT ![p] = r]
      BY <2>3
    <3> HIDE DEF r
    <3>4. req' \in [Caller -> Locals \cup {None}] /\ req'[p] = r
          /\ \A q \in Caller \ {p} : req'[q] = req[q]
      BY <3>2, <3>3, LocalsReplaced
    <3>5. pc' \in [Caller -> Labels] /\ pc'[p] = "screen"
          /\ \A q \in Caller \ {p} : pc'[q] = pc[q]
      BY <2>3, <3>2, GotoTyped
    <3>6. QED
      BY <1>5, <1>l, <1>n, <1>s, <2>2, <3>2, <3>4, <3>5
         DEF TypedStep, Gate, LedgerSame, CallsSame, SettingsSame
  <2>4. CASE Return(p)
    BY <1>5, <1>l, <1>n, <2>4, ReturnTyped
       DEF TypedStep, Gate, LedgerSame, CallsSame, SettingsSame
  <2>5. QED
    BY <1>5, <2>3, <2>4 DEF Gate
<1>6. ASSUME Screen(p) PROVE TypedStep(p)
  <2>1. pc[p] # "idle" /\ req[p] \in Locals
    BY <1>6, LocalsTyped DEF Screen
  <2>2. CASE Return(p) /\ Record(p, "guard", "blocked", 1)
    <3>1. "guard" \in RowTarget /\ "blocked" \in Status /\ 1 \in 0..2
      BY DEF RowTarget, Target, Status
    <3>2. QED
      BY <1>6, <1>l, <2>2, <3>1, <2>1, RecordType, ReturnTyped
         DEF TypedStep, Screen, CallsSame, SettingsSame
  <2>3. CASE Goto(p, "try") /\ LedgerSame /\ UNCHANGED req
    <3>1. "try" \in Labels /\ req[p].snap # None
      BY <1>6 DEF Labels, Screen, TypeOK
    <3>2. QED
      BY <1>6, <1>l, <1>n, <2>1, <2>3, <3>1, GotoTyped
         DEF TypedStep, Screen, LedgerSame, CallsSame, SettingsSame
  <2>4. QED
    BY <1>6, <2>2, <2>3 DEF Screen
<1>7. ASSUME NextTarget(p) PROVE TypedStep(p)
  <2>1. pc[p] # "idle" /\ req[p] \in Locals
    BY <1>7, LocalsTyped DEF NextTarget
  <2>2. "wait" \in Labels /\ "pending" \in Fate /\ req[p].snap # None
    BY <1>7 DEF Labels, Fate, NextTarget, TypeOK
  <2>3. CASE Return(p) /\ UNCHANGED fate
    BY <1>7, <1>l, <1>n, <2>3, ReturnTyped
       DEF TypedStep, NextTarget, LedgerSame, CallsSame, SettingsSame
  <2>4. CASE req' = [req EXCEPT ![p].left = @ \ {Current(p)}] /\ UNCHANGED <<pc, fate>>
    <3> DEFINE r == [req[p] EXCEPT !.left = @ \ {Current(p)}]
    <3>1. r \in Locals /\ r.snap = req[p].snap
      BY <2>1 DEF Locals
    <3>2. req' = [req EXCEPT ![p] = r]
      BY <2>4
    <3> HIDE DEF r
    <3>3. QED
      BY <1>7, <1>l, <1>n, <2>2, <2>4, <3>1, <3>2, LocalsReplaced
         DEF TypedStep, NextTarget, LedgerSame, CallsSame, SettingsSame
  <2>5. CASE /\ req[p].left # {} /\ Became(p, "pending")
             /\ Goto(p, "wait") /\ UNCHANGED req
    BY <1>7, <1>l, <1>n, <2>1, <2>2, <2>5, BecameTyped, GotoTyped
       DEF TypedStep, NextTarget, LedgerSame, CallsSame, SettingsSame
  <2>6. QED
    BY <1>7, <2>3, <2>4, <2>5 DEF NextTarget
<1>8. ASSUME Answer(p) PROVE TypedStep(p)
  <2>1. pc[p] # "idle" /\ req[p] \in Locals
    BY <1>8, LocalsTyped DEF Answer
  <2>2. Current(p) \in RowTarget /\ "answered" \in Fate /\ "ok" \in Status
    BY <1>8, <1>c DEF Answer, RowTarget, Fate, Status
  <2>3. QED
    BY <1>8, <1>l, <2>1, <2>2, RecordType, ReturnTyped, BecameTyped
       DEF TypedStep, Answer, CallsSame, SettingsSame
<1>9. ASSUME NEW n \in 1..MaxTools, UseTools(p, n) PROVE TypedStep(p)
  <2>1. pc[p] # "idle" /\ req[p] \in Locals
    BY <1>9, LocalsTyped DEF UseTools
  <2>2. Current(p) \in RowTarget /\ "answered" \in Fate /\ "ok" \in Status
    BY <1>9, <1>c DEF UseTools, RowTarget, Fate, Status
  <2> DEFINE r == [req[p] EXCEPT !.steps = @ + 1, !.tools = n, !.snap = None, !.left = {}]
  <2>3. req[p].steps + 1 \in 0..MaxSteps /\ n \in 0..MaxTools
    BY <1>9, <2>1, LocalsTyped DEF UseTools
  <2>4. "tools" \in Labels /\ r \in Locals
    BY <2>1, <2>3 DEF Labels, Locals
  <2>5. req' = [req EXCEPT ![p] = r]
    BY <1>9 DEF UseTools
  <2> HIDE DEF r
  <2>6. req' \in [Caller -> Locals \cup {None}] /\ req'[p] = r
        /\ \A q \in Caller \ {p} : req'[q] = req[q]
    BY <2>4, <2>5, LocalsReplaced
  <2>7. /\ ledger' \in Seq(Row) /\ Len(ledger') >= Len(ledger)
        /\ lost' \subseteq CallId \X RowTarget
        /\ fate' \in [CallId -> [Target -> Fate]]
    BY <1>9, <2>1, <2>2, RecordType, BecameTyped DEF UseTools
  <2>8. QED
    BY <1>9, <1>l, <2>4, <2>6, <2>7, GotoTyped DEF TypedStep, UseTools, CallsSame, SettingsSame
<1>10. ASSUME SearchTool(p) PROVE TypedStep(p)
  <2>1. pc[p] = "tools" /\ req[p] \in Locals
    BY <1>10, LocalsTyped DEF SearchTool
  <2>2. "embeddings" \in RowTarget /\ "ok" \in Status
    BY DEF RowTarget, Status
  <2> DEFINE r == [req[p] EXCEPT !.tools = @ - 1]
  <2>3. r \in Locals
    BY <1>10, <2>1 DEF Locals, SearchTool
  <2>4. req' = [req EXCEPT ![p] = r]
    BY <1>10 DEF SearchTool
  <2> HIDE DEF r
  <2>5. req' \in [Caller -> Locals \cup {None}] /\ req'[p] = r
        /\ \A q \in Caller \ {p} : req'[q] = req[q]
    BY <2>3, <2>4, LocalsReplaced
  <2>6. /\ ledger' \in Seq(Row) /\ Len(ledger') >= Len(ledger)
        /\ lost' \subseteq CallId \X RowTarget
    BY <1>10, <1>l, <1>n, <2>1, <2>2, RecordType DEF SearchTool, LedgerSame
  <2>7. QED
    BY <1>10, <1>l, <2>1, <2>3, <2>5, <2>6
       DEF TypedStep, SearchTool, CallsSame, SettingsSame
<1>21. ASSUME AskTool(p) \/ NextRound(p) PROVE TypedStep(p)
  <2>1. pc[p] = "tools" /\ req[p] \in Locals
    BY <1>21, LocalsTyped DEF AskTool, NextRound
  <2>2. PICK kind \in {"tool", "agent"} : CallAgain(p, kind)
    BY <1>21 DEF AskTool, NextRound
  <2>3. nextCall \in CallId /\ nextCall' \in 1..(MaxCalls + 1)
    BY <2>2, <1>l DEF CallAgain, CallId
  <2>4. PICK r \in Locals : req' = [req EXCEPT ![p] = r]
    <3>1. CASE AskTool(p)
      <4> DEFINE r == [req[p] EXCEPT !.kind = "tool", !.call = nextCall, !.tools = @ - 1]
      <4>a. req[p].tools \in 0..MaxTools /\ req[p].tools > 0
        BY <2>1, <3>1 DEF Locals, AskTool
      <4>b. req[p].tools - 1 \in 0..MaxTools /\ "tool" \in AllKinds
        BY <4>a DEF AllKinds
      <4>1. r \in Locals
        BY <2>1, <2>3, <4>b DEF Locals
      <4>2. req' = [req EXCEPT ![p] = r]
        BY <2>1, <3>1 DEF AskTool
      <4>3. QED
        BY <4>1, <4>2
    <3>2. CASE NextRound(p)
      <4>1. [req[p] EXCEPT !.call = nextCall] \in Locals
        BY <2>1, <2>3 DEF Locals
      <4>2. QED
        BY <3>2, <4>1 DEF NextRound
    <3>3. QED
      BY <1>21, <3>1, <3>2
  <2>5. req' \in [Caller -> Locals \cup {None}] /\ req'[p] = r
        /\ \A q \in Caller \ {p} : req'[q] = req[q]
    BY <2>4, LocalsReplaced
  <2>6. made' \in [CallId -> AllKinds \cup {"none"}]
    BY <1>l, <2>2 DEF CallAgain, AllKinds
  <2>7. "load" \in Labels /\ Goto(p, "load")
    BY <2>2 DEF Labels, CallAgain
  <2>8. pc' \in [Caller -> Labels] /\ pc'[p] = "load"
        /\ \A q \in Caller \ {p} : pc'[q] = pc[q]
    BY <2>7, GotoTyped
  <2>9. QED
    BY <1>l, <1>n, <2>2, <2>3, <2>5, <2>6, <2>8
       DEF TypedStep, CallAgain, LedgerSame, SettingsSame
<1>11. ASSUME Fail(p) PROVE TypedStep(p)
  <2>1. pc[p] # "idle" /\ req[p] \in Locals
    BY <1>11, LocalsTyped DEF Fail
  <2>2. Current(p) \in RowTarget /\ "failed" \in Fate /\ "error" \in Status
    BY <1>11, <1>c DEF Fail, RowTarget, Fate, Status
  <2>3. req[p].snap # None /\ "try" \in Labels
    BY <1>11 DEF Labels, Fail, TypeOK
  <2>4. CASE /\ req' = [req EXCEPT ![p].left = @ \ {Current(p)}]
             /\ Goto(p, "try")
    <3> DEFINE r == [req[p] EXCEPT !.left = @ \ {Current(p)}]
    <3>1. r \in Locals /\ r.snap = req[p].snap
      BY <2>1 DEF Locals
    <3>2. req' = [req EXCEPT ![p] = r]
      BY <2>4
    <3> HIDE DEF r
    <3>3. req' \in [Caller -> Locals \cup {None}] /\ req'[p] = r
          /\ \A q \in Caller \ {p} : req'[q] = req[q]
      BY <3>1, <3>2, LocalsReplaced
    <3>4. fate' \in [CallId -> [Target -> Fate]]
      BY <1>11, <2>2, BecameTyped DEF Fail
    <3>5. LedgerSame \/ Record(p, Current(p), "error", 1)
      BY <1>11 DEF Fail
    <3>6. /\ ledger' \in Seq(Row) /\ Len(ledger') >= Len(ledger)
          /\ lost' \subseteq CallId \X RowTarget
      BY <1>l, <1>n, <2>1, <2>2, <3>5, RecordType DEF LedgerSame
    <3>7. pc' \in [Caller -> Labels] /\ pc'[p] = "try"
          /\ \A q \in Caller \ {p} : pc'[q] = pc[q]
      BY <2>3, <2>4, GotoTyped
    <3>8. QED
      BY <1>11, <1>l, <2>3, <3>1, <3>3, <3>4, <3>6, <3>7
         DEF TypedStep, Fail, CallsSame, SettingsSame
  <2>5. CASE Return(p)
    <3>1. fate' \in [CallId -> [Target -> Fate]]
      BY <1>11, <2>2, BecameTyped DEF Fail
    <3>2. LedgerSame \/ Record(p, Current(p), "error", 1)
      BY <1>11 DEF Fail
    <3>3. /\ ledger' \in Seq(Row) /\ Len(ledger') >= Len(ledger)
          /\ lost' \subseteq CallId \X RowTarget
      BY <1>l, <1>n, <2>1, <2>2, <3>2, RecordType DEF LedgerSame
    <3>4. QED
      BY <1>11, <1>l, <2>5, <3>1, <3>3, ReturnTyped
         DEF TypedStep, Fail, CallsSame, SettingsSame
  <2>6. QED
    BY <1>11, <2>4, <2>5 DEF Fail
<1>12. ASSUME Token(p) PROVE TypedStep(p)
  <2>1. pc[p] # "idle" /\ req[p] \in Locals
    BY <1>12, LocalsTyped DEF Token
  <2>2. "flow" \in Labels /\ req[p].snap # None /\ req[p].left # {}
    BY <1>12 DEF Labels, Token, TypeOK
  <2>3. shown' \in [CallId -> SUBSET Target]
    BY <1>12, <1>l, <1>c DEF Token
  <2>4. QED
    BY <1>12, <1>l, <1>n, <2>1, <2>2, <2>3, GotoTyped
       DEF TypedStep, Token, LedgerSame, CallsSame, SettingsSame
<1>13. ASSUME EndStream(p) PROVE TypedStep(p)
  <2>1. pc[p] # "idle" /\ req[p] \in Locals
    BY <1>13, LocalsTyped DEF EndStream
  <2>2. Current(p) \in RowTarget /\ "answered" \in Fate /\ "ok" \in Status
    BY <1>13, <1>c DEF EndStream, RowTarget, Fate, Status
  <2>3. QED
    BY <1>13, <1>l, <2>1, <2>2, RecordType, ReturnTyped, BecameTyped
       DEF TypedStep, EndStream, CallsSame, SettingsSame
<1>14. ASSUME RefuseStream(p) PROVE TypedStep(p)
  <2>1. pc[p] # "idle" /\ req[p] \in Locals
    BY <1>14, LocalsTyped DEF RefuseStream
  <2>2. Current(p) \in RowTarget /\ "failed" \in Fate /\ "error" \in Status
    BY <1>14, <1>c DEF RefuseStream, RowTarget, Fate, Status
  <2>3. req[p].snap # None /\ "try" \in Labels
    BY <1>14 DEF Labels, RefuseStream, TypeOK
  <2>4. CASE /\ req' = [req EXCEPT ![p].left = @ \ {Current(p)}]
             /\ Goto(p, "try")
    <3> DEFINE r == [req[p] EXCEPT !.left = @ \ {Current(p)}]
    <3>1. r \in Locals /\ r.snap = req[p].snap
      BY <2>1 DEF Locals
    <3>2. req' = [req EXCEPT ![p] = r]
      BY <2>4
    <3> HIDE DEF r
    <3>3. req' \in [Caller -> Locals \cup {None}] /\ req'[p] = r
          /\ \A q \in Caller \ {p} : req'[q] = req[q]
      BY <3>1, <3>2, LocalsReplaced
    <3>4. fate' \in [CallId -> [Target -> Fate]]
      BY <1>14, <2>2, BecameTyped DEF RefuseStream
    <3>5. LedgerSame \/ Record(p, Current(p), "error", 1)
      BY <1>14 DEF RefuseStream
    <3>6. /\ ledger' \in Seq(Row) /\ Len(ledger') >= Len(ledger)
          /\ lost' \subseteq CallId \X RowTarget
      BY <1>l, <1>n, <2>1, <2>2, <3>5, RecordType DEF LedgerSame
    <3>7. pc' \in [Caller -> Labels] /\ pc'[p] = "try"
          /\ \A q \in Caller \ {p} : pc'[q] = pc[q]
      BY <2>3, <2>4, GotoTyped
    <3>8. QED
      BY <1>14, <1>l, <2>3, <3>1, <3>3, <3>4, <3>6, <3>7
         DEF TypedStep, RefuseStream, CallsSame, SettingsSame
  <2>5. CASE Return(p)
    <3>1. fate' \in [CallId -> [Target -> Fate]]
      BY <1>14, <2>2, BecameTyped DEF RefuseStream
    <3>2. LedgerSame \/ Record(p, Current(p), "error", 1)
      BY <1>14 DEF RefuseStream
    <3>3. /\ ledger' \in Seq(Row) /\ Len(ledger') >= Len(ledger)
          /\ lost' \subseteq CallId \X RowTarget
      BY <1>l, <1>n, <2>1, <2>2, <3>2, RecordType DEF LedgerSame
    <3>4. QED
      BY <1>14, <1>l, <2>5, <3>1, <3>3, ReturnTyped
         DEF TypedStep, RefuseStream, CallsSame, SettingsSame
  <2>6. QED
    BY <1>14, <2>4, <2>5 DEF RefuseStream
<1>15. ASSUME BreakStream(p) PROVE TypedStep(p)
  <2>1. pc[p] # "idle" /\ "failed" \in Fate
    BY <1>15 DEF BreakStream, Fate
  <2>2. QED
    BY <1>15, <1>l, <1>n, <2>1, ReturnTyped, BecameTyped
       DEF TypedStep, BreakStream, LedgerSame, CallsSame, SettingsSame
<1>16. ASSUME LeaveStream(p) PROVE TypedStep(p)
  <2>1. pc[p] # "idle" /\ "left" \in Fate
    BY <1>16 DEF LeaveStream, Fate
  <2>2. QED
    BY <1>16, <1>l, <1>n, <2>1, ReturnTyped, BecameTyped
       DEF TypedStep, LeaveStream, LedgerSame, CallsSame, SettingsSame
<1>17. ASSUME Search(p) PROVE TypedStep(p)
  <2>1. pc[p] # "idle" /\ req[p] \in Locals
    BY <1>17, LocalsTyped DEF Search
  <2>2. "embeddings" \in RowTarget /\ "ok" \in Status
    BY DEF RowTarget, Status
  <2>3. QED
    BY <1>17, <1>l, <1>n, <2>1, <2>2, RecordType, ReturnTyped
       DEF TypedStep, Search, LedgerSame, CallsSame, SettingsSame
<1>18. ASSUME Summarise(p) PROVE TypedStep(p)
  <2>1. PICK f \in Fate : fate' = [fate EXCEPT ![req[p].call][DeploymentTarget] = f]
    BY <1>18 DEF Summarise, Fate
  <2>2. fate' \in [CallId -> [Target -> Fate]]
    BY <1>l, <2>1
  <2>3. QED
    BY <1>18, <1>l, <1>n, <2>2, ReturnTyped
       DEF TypedStep, Summarise, LedgerSame, CallsSame, SettingsSame
<1>19. ASSUME GiveUp(p) PROVE TypedStep(p)
  BY <1>19, <1>l, <1>n, ReturnTyped
     DEF TypedStep, GiveUp, LedgerSame, CallsSame, SettingsSame
<1>22. QED
  BY <1>1, <1>2, <1>3, <1>4, <1>5, <1>6, <1>7, <1>8, <1>9, <1>10, <1>11, <1>12, <1>13,
     <1>14, <1>15, <1>16, <1>17, <1>18, <1>19, <1>21
     DEF Advance, Proceed
-----------------------------------------------------------------------------
(* ---- The invariant of the chains ------------------------------------------ *)

\* What ChainInv says of one caller.
OwnChain(p) ==
    /\ pc[p] \in InLoop =>
        req[p].snap \in Settings /\ req[p].left \subseteq Chain(req[p].snap)
    /\ pc[p] = "screen" => req[p].left # {}

\* A caller outside the loop after its step.
LEMMA OutsideLoop ==
    ASSUME NEW p \in Caller, pc'[p] \notin InLoop
    PROVE  OwnChain(p)'
BY DEF OwnChain, InLoop

\* A caller that stays in the loop with its settings, and no more targets.
LEMMA StaysInLoop ==
    ASSUME TypeOK, ChainInv, NEW p \in Caller, pc[p] \in InLoop, pc'[p] # "screen",
           req'[p].snap = req[p].snap, req'[p].left \subseteq req[p].left
    PROVE  OwnChain(p)'
BY DEF OwnChain, ChainInv

LEMMA OwnChainStep ==
    ASSUME TypeOK, ChainInv, NEW p \in Caller,
           Advance(p) \/ \E kind \in CallKind : Arrive(p, kind)
    PROVE  OwnChain(p)'
<1>l. pc \in [Caller -> Labels] /\ req \in [Caller -> Locals \cup {None}]
  BY DEF TypeOK
<1>1. ASSUME NEW kind \in CallKind, Arrive(p, kind) PROVE OwnChain(p)'
  BY <1>1, <1>l, OutsideLoop DEF Arrive, Goto, InLoop
<1>2. ASSUME GuardQuota(p) PROVE OwnChain(p)'
  BY <1>2, <1>l, OutsideLoop DEF GuardQuota, Goto, Return, InLoop
<1>3. ASSUME GuardPolicy(p) PROVE OwnChain(p)'
  BY <1>3, <1>l, OutsideLoop DEF GuardPolicy, Goto, Return, InLoop
<1>4. ASSUME LoadSettings(p) PROVE OwnChain(p)'
  BY <1>4, <1>l, OutsideLoop DEF LoadSettings, Goto, Return, InLoop
<1>5. ASSUME Answer(p) PROVE OwnChain(p)'
  BY <1>5, <1>l, OutsideLoop DEF Answer, Goto, Return, InLoop
<1>6. ASSUME SearchTool(p) PROVE OwnChain(p)'
  BY <1>6, <1>l, OutsideLoop DEF SearchTool, InLoop
<1>21. ASSUME AskTool(p) \/ NextRound(p) PROVE OwnChain(p)'
  BY <1>21, <1>l, OutsideLoop DEF AskTool, NextRound, CallAgain, Goto, InLoop
<1>7. ASSUME EndStream(p) PROVE OwnChain(p)'
  BY <1>7, <1>l, OutsideLoop DEF EndStream, Goto, Return, InLoop
<1>8. ASSUME BreakStream(p) PROVE OwnChain(p)'
  BY <1>8, <1>l, OutsideLoop DEF BreakStream, Goto, Return, InLoop
<1>9. ASSUME LeaveStream(p) PROVE OwnChain(p)'
  BY <1>9, <1>l, OutsideLoop DEF LeaveStream, Goto, Return, InLoop
<1>10. ASSUME Search(p) PROVE OwnChain(p)'
  BY <1>10, <1>l, OutsideLoop DEF Search, Goto, Return, InLoop
<1>11. ASSUME Summarise(p) PROVE OwnChain(p)'
  BY <1>11, <1>l, OutsideLoop DEF Summarise, Goto, Return, InLoop
<1>12. ASSUME NEW k \in 1..MaxTools, UseTools(p, k) PROVE OwnChain(p)'
  BY <1>12, <1>l, OutsideLoop DEF UseTools, Goto, InLoop
<1>13. ASSUME Gate(p) PROVE OwnChain(p)'
  <2>1. req[p] \in Locals /\ req[p].snap \in Settings
    BY <1>13, LocalsTyped DEF Gate, TypeOK
  <2>2. CASE Return(p)
    BY <1>l, <2>2, OutsideLoop DEF Return, Goto, InLoop
  <2>3. CASE /\ Permitted(req[p].snap) # {}
             /\ req' = [req EXCEPT ![p].left = Chain(req[p].snap)]
    <3>1. req'[p].snap = req[p].snap /\ req'[p].left = Chain(req[p].snap)
      BY <1>l, <2>1, <2>3 DEF Locals
    <3>2. Chain(req[p].snap) # {}
      BY <2>3 DEF Chain
    <3>3. QED
      BY <2>1, <3>1, <3>2 DEF OwnChain
  <2>4. QED
    BY <1>13, <2>2, <2>3 DEF Gate
<1>14. ASSUME Screen(p) PROVE OwnChain(p)'
  <2>1. CASE Return(p)
    BY <1>l, <2>1, OutsideLoop DEF Return, Goto, InLoop
  <2>2. CASE Goto(p, "try") /\ UNCHANGED req
    BY <1>14, <1>l, <2>2, StaysInLoop DEF Screen, Goto, InLoop
  <2>3. QED
    BY <1>14, <2>1, <2>2 DEF Screen
<1>15. ASSUME NextTarget(p) PROVE OwnChain(p)'
  <2>1. pc[p] \in InLoop /\ req[p] \in Locals
    BY <1>15, LocalsTyped DEF NextTarget, InLoop
  <2>2. CASE Return(p)
    BY <1>l, <2>2, OutsideLoop DEF Return, Goto, InLoop
  <2>3. CASE req' = [req EXCEPT ![p].left = @ \ {Current(p)}]
    <3>1. req'[p].snap = req[p].snap /\ req'[p].left \subseteq req[p].left
      BY <1>l, <2>1, <2>3 DEF Locals
    <3>2. pc'[p] # "screen"
      BY <1>15, <1>l, <2>3 DEF NextTarget, Goto, Return
    <3>3. QED
      BY <2>1, <3>1, <3>2, StaysInLoop
  <2>4. CASE Goto(p, "wait") /\ UNCHANGED req
    BY <1>l, <2>1, <2>4, StaysInLoop DEF Goto
  <2>5. QED
    BY <1>15, <2>2, <2>3, <2>4 DEF NextTarget
<1>16. ASSUME Fail(p) PROVE OwnChain(p)'
  <2>1. pc[p] \in InLoop /\ req[p] \in Locals
    BY <1>16, LocalsTyped DEF Fail, InLoop
  <2>2. CASE Return(p)
    BY <1>l, <2>2, OutsideLoop DEF Return, Goto, InLoop
  <2>3. CASE req' = [req EXCEPT ![p].left = @ \ {Current(p)}]
    <3>1. req'[p].snap = req[p].snap /\ req'[p].left \subseteq req[p].left
      BY <1>l, <2>1, <2>3 DEF Locals
    <3>2. pc'[p] # "screen"
      BY <1>16, <1>l, <2>3 DEF Fail, Goto, Return
    <3>3. QED
      BY <2>1, <3>1, <3>2, StaysInLoop
  <2>4. QED
    BY <1>16, <2>2, <2>3 DEF Fail
<1>17. ASSUME RefuseStream(p) PROVE OwnChain(p)'
  <2>1. pc[p] \in InLoop /\ req[p] \in Locals
    BY <1>17, LocalsTyped DEF RefuseStream, InLoop
  <2>2. CASE Return(p)
    BY <1>l, <2>2, OutsideLoop DEF Return, Goto, InLoop
  <2>3. CASE req' = [req EXCEPT ![p].left = @ \ {Current(p)}]
    <3>1. req'[p].snap = req[p].snap /\ req'[p].left \subseteq req[p].left
      BY <1>l, <2>1, <2>3 DEF Locals
    <3>2. pc'[p] # "screen"
      BY <1>17, <1>l, <2>3 DEF RefuseStream, Goto, Return
    <3>3. QED
      BY <2>1, <3>1, <3>2, StaysInLoop
  <2>4. QED
    BY <1>17, <2>2, <2>3 DEF RefuseStream
<1>18. ASSUME Token(p) PROVE OwnChain(p)'
  BY <1>18, <1>l, StaysInLoop DEF Token, Goto, InLoop
<1>19. ASSUME GiveUp(p) PROVE OwnChain(p)'
  BY <1>19, <1>l, OutsideLoop DEF GiveUp, Goto, Return, InLoop
<1>22. QED
  BY <1>1, <1>2, <1>3, <1>4, <1>5, <1>6, <1>7, <1>8, <1>9, <1>10, <1>11, <1>12, <1>13,
     <1>14, <1>15, <1>16, <1>17, <1>18, <1>19, <1>21
     DEF Advance, Proceed

\* The inductive invariant of types and chains.
TypedChains == TypeOK /\ ChainInv /\ \A p \in Caller : pc[p] = "screen" => req[p].left # {}

LEMMA TypedChainsInit == Init => TypedChains
<1> SUFFICES ASSUME Init PROVE TypedChains
  OBVIOUS
<1>1. TypeOK
  BY LimitAssumption, SettingsAssumption DEF Init, TypeOK, Settings, Labels, Fate, CallId
<1>2. QED
  BY <1>1 DEF Init, TypedChains, ChainInv, InLoop

\* A step that is no caller's touches no caller, and keeps the types.
LEMMA OtherStepTyped ==
    ASSUME TypeOK,
           \/ \E e \in Editor : \/ ReadSettings(e)
                                \/ \E policy \in Policies : PutPolicy(e, policy)
                                \/ \E routing \in Routings : PutRouting(e, routing)
           \/ Expire
           \/ Quiet
           \/ UNCHANGED vars
    PROVE  TypeOK' /\ UNCHANGED <<pc, req, ledger>>
<1>1. ASSUME NEW e \in Editor, ReadSettings(e) PROVE TypeOK' /\ UNCHANGED <<pc, req, ledger>>
  BY <1>1 DEF ReadSettings, TypeOK
<1>2. ASSUME NEW e \in Editor, NEW policy \in Policies, PutPolicy(e, policy)
      PROVE  TypeOK' /\ UNCHANGED <<pc, req, ledger>>
  <2>1. draft[e] \in Settings /\ policy \in Policy
    BY <1>2, SettingsAssumption DEF PutPolicy, TypeOK
  <2>2. settings' \in Settings
    BY <1>2, <2>1 DEF PutPolicy, Settings
  <2>3. QED
    BY <1>2, <2>2 DEF PutPolicy, TypeOK
<1>3. ASSUME NEW e \in Editor, NEW routing \in Routings, PutRouting(e, routing)
      PROVE  TypeOK' /\ UNCHANGED <<pc, req, ledger>>
  <2>1. draft[e] \in Settings /\ routing \in Routing
    BY <1>3, SettingsAssumption DEF PutRouting, TypeOK
  <2>2. settings' \in Settings
    BY <1>3, <2>1 DEF PutRouting, Settings
  <2>3. QED
    BY <1>3, <2>2 DEF PutRouting, TypeOK
<1>4. ASSUME Expire PROVE TypeOK' /\ UNCHANGED <<pc, req, ledger>>
  <2>1. Len(ledger) \in Nat /\ expired \in 0..Len(ledger)
    BY DEF TypeOK
  <2>2. expired' \in 0..Len(ledger')
    BY <1>4, <2>1 DEF Expire
  <2>3. QED
    BY <1>4, <2>2 DEF Expire, TypeOK
<1>5. ASSUME Quiet \/ UNCHANGED vars PROVE TypeOK' /\ UNCHANGED <<pc, req, ledger>>
  BY <1>5 DEF Quiet, vars, TypeOK
<1>6. QED
  BY <1>1, <1>2, <1>3, <1>4, <1>5

LEMMA TypedChainsStep == TypedChains /\ [Next]_vars => TypedChains'
<1> SUFFICES ASSUME TypedChains, [Next]_vars PROVE TypedChains'
  OBVIOUS
<1>1. TypeOK /\ ChainInv /\ \A p \in Caller : OwnChain(p)
  BY DEF TypedChains, ChainInv, OwnChain
<1>2. ASSUME NEW p \in Caller, Advance(p) \/ \E kind \in CallKind : Arrive(p, kind)
      PROVE  TypedChains'
  <2>1. TypedStep(p)
    BY <1>1, <1>2, CallerStepTyped
  <2>2. TypeOK'
    BY <1>1, <2>1, TypedStepKeepsTypes
  <2>3. OwnChain(p)'
    BY <1>1, <1>2, OwnChainStep
  <2>4. \A q \in Caller : OwnChain(q)'
    BY <1>1, <2>1, <2>3 DEF TypedStep, OwnChain
  <2>5. QED
    BY <2>2, <2>4 DEF TypedChains, ChainInv, OwnChain
<1>3. CASE UNCHANGED <<pc, req, ledger>> /\ TypeOK'
  BY <1>1, <1>3 DEF TypedChains, ChainInv, OwnChain
<1>4. QED
  BY <1>1, <1>2, <1>3, OtherStepTyped DEF Next

LEMMA TypedChainsInvariance == Spec => []TypedChains
<1>1. QED
  BY TypedChainsInit, TypedChainsStep, PTL DEF Spec

\* Every variable keeps its type, whatever the callers and the editors do.
THEOREM GatewayTypes == Spec => []TypeOK
<1>1. TypedChains => TypeOK
  BY DEF TypedChains
<1>2. QED
  BY <1>1, TypedChainsInvariance, PTL

\* The sovereign lock (AIGateway._gate): on a deployment with an endpoint of its own, no
\* call governed by a policy without cloud sends its prompt anywhere else, for any routing
\* and any edits.
THEOREM LockedCallsStayHome == Spec => []LockedStaysHome
<1>1. TypedChains => LockedStaysHome
  <2> SUFFICES ASSUME TypedChains, "qwen" \in Configured, NEW p \in Caller, Asking(p),
                      ~req[p].snap.policy.allowCloud
               PROVE  Endpoint(Current(p)) = "vllm"
    BY DEF LockedStaysHome
  <2>1. ChainInv /\ pc[p] \in InLoop /\ req[p].left # {}
    BY DEF TypedChains, TypeOK, Asking, InLoop
  <2>2. Current(p) \in Permitted(req[p].snap)
    BY <2>1, CurrentIsLeft, ChainIsChosen
  <2>3. Current(p) = "qwen"
    BY <2>2 DEF Permitted, Sovereign
  <2>4. QED
    BY <2>3 DEF Endpoint
<1>2. QED
  BY <1>1, TypedChainsInvariance, PTL
-----------------------------------------------------------------------------
(* ---- The quota overshoot -------------------------------------------------- *)

\* How many rows a caller may still add before it looks at the quota again.
RoomAt(label, r) ==
    IF label = "idle" THEN 0
    ELSE IF label \in InLoop THEN Cardinality(r.left) + MaxTools
    ELSE IF label = "search" THEN r.tools + 1 ELSE r.tools

Room(p) == RoomAt(pc[p], req[p])

\* That room as a set: one element for each row still to come.
Pot == {x \in Caller \X (1..MaxRows) : x[2] <= Room(x[1])}

\* The rows in the window and the rows still to come are within the bound.
RoomInv ==
    RequestLimit > 0 =>
        Cardinality(Requests) + Cardinality(Pot)
            <= RequestLimit - 1 + Cardinality(Caller) * MaxRows

LEMMA TargetCount == IsFiniteSet(Target) /\ Cardinality(Target) = 2
<1>1. Target = {"qwen"} \cup {"openai"} /\ "openai" \notin {"qwen"}
  BY DEF Target
<1>2. IsFiniteSet({"qwen"}) /\ Cardinality({"qwen"}) = 1
  BY FS_Singleton
<1>3. /\ IsFiniteSet({"qwen"} \cup {"openai"})
      /\ Cardinality({"qwen"} \cup {"openai"}) = 2
  BY <1>1, <1>2, FS_AddElement
<1>4. QED
  BY <1>1, <1>3

LEMMA MaxRowsNat == MaxRows \in Nat /\ MaxRows = 2 + MaxTools
BY TargetCount, LimitAssumption DEF MaxRows

\* A set of targets and what it loses with one of them.
LEMMA LeftCount ==
    ASSUME NEW S \in SUBSET Target
    PROVE  /\ IsFiniteSet(S) /\ Cardinality(S) \in 0..2
           /\ S # {} => Cardinality(S) >= 1
           /\ \A t \in S : Cardinality(S \ {t}) = Cardinality(S) - 1
<1>1. IsFiniteSet(S) /\ Cardinality(S) <= 2
  BY TargetCount, FS_Subset
<1>2. Cardinality(S) \in Nat /\ (S # {} => Cardinality(S) # 0)
  BY <1>1, FS_CardinalityType, FS_EmptySet
<1>3. \A t \in S : Cardinality(S \ {t}) = Cardinality(S) - 1
  BY <1>1, FS_RemoveElement
<1>4. QED
  BY <1>1, <1>2, <1>3

LEMMA RoomType ==
    ASSUME NEW label, NEW r, label # "idle" => r \in Locals
    PROVE  RoomAt(label, r) \in 0..MaxRows
<1> USE LimitAssumption
<1>1. CASE label \in InLoop
  <2>1. r.left \in SUBSET Target
    BY <1>1 DEF InLoop, Locals
  <2>2. QED
    BY <1>1, <2>1, LeftCount, MaxRowsNat DEF RoomAt, InLoop
<1>2. CASE label \notin InLoop
  <2>1. label # "idle" => r.tools \in 0..MaxTools
    BY DEF Locals
  <2>2. QED
    BY <1>2, <2>1, MaxRowsNat DEF RoomAt
<1>3. QED
  BY <1>1, <1>2

\* Any part of an interval, and any set of row numbers, can be counted.
LEMMA PartOfInterval ==
    ASSUME NEW a \in Int, NEW b \in Int, NEW S \in SUBSET (a..b)
    PROVE  IsFiniteSet(S) /\ Cardinality(S) \in Nat
BY FS_Interval, FS_Subset, FS_CardinalityType

LEMMA RowNumbers ==
    ASSUME NEW S \in SUBSET (Caller \X (1..MaxRows))
    PROVE  /\ IsFiniteSet(S) /\ Cardinality(S) \in Nat
           /\ Cardinality(Caller) * MaxRows \in Nat
           /\ Cardinality(S) <= Cardinality(Caller) * MaxRows
<1>1. IsFiniteSet(1..MaxRows) /\ Cardinality(1..MaxRows) = MaxRows
  BY MaxRowsNat, FS_Interval
<1>2. /\ IsFiniteSet(Caller \X (1..MaxRows))
      /\ Cardinality(Caller \X (1..MaxRows)) = Cardinality(Caller) * MaxRows
  BY <1>1, CallerAssumption, FS_Product
<1>3. QED
  BY <1>2, FS_Subset, FS_CardinalityType

\* The three ways a step may touch the rows and the room.
NoNewRow == Requests' \subseteq Requests /\ \A q \in Caller : Room(q)' <= Room(q)
NewRow(p) ==
    /\ \E i : Requests' \subseteq Requests \cup {i}
    /\ Room(p)' < Room(p)
    /\ \A q \in Caller \ {p} : Room(q)' <= Room(q)
Admitted == Requests' = Requests /\ Cardinality(Requests) < RequestLimit

\* Whichever it is, the bound is kept.
LEMMA RoomInvKept ==
    ASSUME TypeOK, TypeOK', RoomInv,
           RequestLimit > 0 => NoNewRow \/ Admitted \/ \E p \in Caller : NewRow(p)
    PROVE  RoomInv'
<1> SUFFICES ASSUME RequestLimit > 0
             PROVE  Cardinality(Requests') + Cardinality(Pot')
                        <= RequestLimit - 1 + Cardinality(Caller) * MaxRows
  BY DEF RoomInv
<1> DEFINE K == Cardinality(Caller) * MaxRows
<1>a. /\ IsFiniteSet(Requests) /\ Cardinality(Requests) \in Nat
      /\ IsFiniteSet(Requests') /\ Cardinality(Requests') \in Nat
  <2>1. /\ expired + 1 \in Int /\ Len(ledger) \in Int
        /\ expired' + 1 \in Int /\ Len(ledger') \in Int
    BY DEF TypeOK
  <2>2. Requests \in SUBSET ((expired + 1)..Len(ledger))
    BY DEF Requests, Window
  <2>3. Requests' \in SUBSET ((expired' + 1)..Len(ledger'))
    BY DEF Requests, Window
  <2>4. QED
    BY <2>1, <2>2, <2>3, PartOfInterval
<1>b. /\ IsFiniteSet(Pot) /\ Cardinality(Pot) \in Nat
      /\ IsFiniteSet(Pot') /\ Cardinality(Pot') \in Nat
      /\ K \in Nat /\ Cardinality(Pot') <= K
  <2>1. Pot \in SUBSET (Caller \X (1..MaxRows)) /\ Pot' \in SUBSET (Caller \X (1..MaxRows))
    BY DEF Pot
  <2>2. QED
    BY <2>1, RowNumbers
<1>c. RequestLimit \in Nat /\ Cardinality(Requests) + Cardinality(Pot) <= RequestLimit - 1 + K
  BY LimitAssumption DEF RoomInv
<1>d. \A q \in Caller : Room(q) \in 0..MaxRows /\ Room(q)' \in 0..MaxRows
  BY RoomType DEF Room, TypeOK
<1> HIDE DEF K
<1>1. CASE NoNewRow
  <2>1. Pot' \subseteq Pot
    <3>1. \A x \in Caller \X (1..MaxRows) : x[2] <= Room(x[1])' => x[2] <= Room(x[1])
      BY <1>1, <1>d, MaxRowsNat DEF NoNewRow
    <3>2. QED
      BY <3>1 DEF Pot
  <2>2. Cardinality(Pot') <= Cardinality(Pot)
    BY <1>b, <2>1, FS_Subset
  <2>3. Cardinality(Requests') <= Cardinality(Requests)
    BY <1>1, <1>a, FS_Subset DEF NoNewRow
  <2>4. QED
    BY <1>a, <1>b, <1>c, <2>2, <2>3 DEF K
<1>2. CASE Admitted
  BY <1>2, <1>a, <1>b, <1>c DEF Admitted, K
<1>3. ASSUME NEW p \in Caller, NewRow(p)
      PROVE  Cardinality(Requests') + Cardinality(Pot') <= RequestLimit - 1 + K
  <2> DEFINE top == <<p, Room(p)>>
  <2>1. top \in Pot
    <3>1. Room(p) \in 1..MaxRows
      BY <1>3, <1>d, MaxRowsNat DEF NewRow
    <3>2. QED
      BY <3>1 DEF Pot
  <2>2. Pot' \subseteq Pot \ {top}
    <3>1. ASSUME NEW x \in Caller \X (1..MaxRows), x[2] <= Room(x[1])'
          PROVE  x \in Pot /\ x # top
      <4>1. x[1] \in Caller /\ x[2] \in 1..MaxRows /\ x = <<x[1], x[2]>>
        BY <3>1
      <4>2. CASE x[1] = p
        BY <1>3, <1>d, <3>1, <4>1, <4>2, MaxRowsNat DEF NewRow, Pot
      <4>3. CASE x[1] # p
        BY <1>3, <1>d, <3>1, <4>1, <4>3, MaxRowsNat DEF NewRow, Pot
      <4>4. QED
        BY <4>2, <4>3
    <3>2. QED
      BY <3>1 DEF Pot
  <2> HIDE DEF top
  <2>3. IsFiniteSet(Pot \ {top}) /\ Cardinality(Pot \ {top}) = Cardinality(Pot) - 1
    BY <1>b, <2>1, FS_RemoveElement
  <2>4. Cardinality(Pot') <= Cardinality(Pot) - 1
    BY <2>2, <2>3, FS_Subset
  <2>5. PICK i : Requests' \subseteq Requests \cup {i}
    BY <1>3 DEF NewRow
  <2>6. /\ IsFiniteSet(Requests \cup {i})
        /\ Cardinality(Requests \cup {i}) <= Cardinality(Requests) + 1
    <3>1. /\ IsFiniteSet(Requests \cup {i})
          /\ Cardinality(Requests \cup {i}) =
                IF i \in Requests THEN Cardinality(Requests) ELSE Cardinality(Requests) + 1
      BY <1>a, FS_AddElement
    <3>2. QED
      BY <1>a, <3>1
  <2>7. Cardinality(Requests') <= Cardinality(Requests \cup {i})
    BY <2>5, <2>6, FS_Subset
  <2>8. Cardinality(Requests \cup {i}) \in Nat
    BY <2>6, FS_CardinalityType
  <2>9. QED
    BY <1>a, <1>b, <1>c, <2>4, <2>6, <2>7, <2>8
<1>4. QED
  BY <1>1, <1>2, <1>3 DEF K

\* What recording does to the rows that count.
LEMMA RequestsRecorded ==
    ASSUME TypeOK, expired' = expired, NEW p \in Caller, NEW target, NEW status, NEW tokens,
           Record(p, target, status, tokens)
    PROVE  /\ \E i : Requests' \subseteq Requests \cup {i}
           /\ status = "quota_denied" => Requests' \subseteq Requests
<1> DEFINE row == [call |-> req[p].call, target |-> target,
                   status |-> status, tokens |-> tokens]
<1>1. CASE ledger' = Append(ledger, row)
  <2>1. expired \in Nat /\ ledger \in Seq(Row)
    BY DEF TypeOK
  <2>2. /\ Len(ledger) \in Nat /\ Len(ledger') = Len(ledger) + 1
        /\ \A i \in 1..Len(ledger) : ledger'[i] = ledger[i]
        /\ ledger'[Len(ledger) + 1] = row
    BY <1>1, <2>1
  <2>3. row.status = status
    OBVIOUS
  <2> HIDE DEF row
  <2>4. \A i \in Requests' : \/ i \in Requests
                             \/ i = Len(ledger) + 1 /\ status # "quota_denied"
    BY <2>1, <2>2, <2>3 DEF Requests, Window, Counts
  <2>5. QED
    BY <2>4
<1>2. CASE ledger' = ledger
  BY <1>2 DEF Requests, Window, Counts
<1>3. QED
  BY <1>1, <1>2 DEF Record

LEMMA RequestsUnrecorded ==
    ASSUME expired' = expired, ledger' = ledger
    PROVE  Requests' = Requests
BY DEF Requests, Window, Counts

\* A step within the quota is taken with room for one more request.
LEMMA WithinQuota ==
    ASSUME TypeOK, RequestLimit > 0, ~OverQuota
    PROVE  Cardinality(Requests) < RequestLimit
<1>1. expired + 1 \in Int /\ Len(ledger) \in Int
  BY DEF TypeOK
<1>2. Requests \in SUBSET ((expired + 1)..Len(ledger))
  BY DEF Requests, Window
<1>3. Cardinality(Requests) \in Nat
  BY <1>1, <1>2, PartOfInterval
<1>4. QED
  BY <1>3, LimitAssumption DEF OverQuota

\* A caller's step adds no row, or gives up room for the row it adds, or is
\* admitted under the quota.
LEMMA RoomStep ==
    ASSUME TypedChains, RequestLimit > 0, NEW p \in Caller, TypedStep(p),
           Advance(p) \/ \E kind \in CallKind : Arrive(p, kind)
    PROVE  NoNewRow \/ Admitted \/ NewRow(p)
<1> USE LimitAssumption
<1>t. TypeOK /\ ChainInv
  BY DEF TypedChains
<1>l. pc \in [Caller -> Labels] /\ req \in [Caller -> Locals \cup {None}]
  BY <1>t DEF TypeOK
<1>e. expired' = expired
  BY DEF TypedStep
<1>r. Room(p) \in Nat /\ Room(p)' \in Nat
  BY <1>t, RoomType, MaxRowsNat DEF Room, TypeOK, TypedStep
<1>f. \A q \in Caller \ {p} : Room(q)' <= Room(q)
  <2>1. \A q \in Caller \ {p} : Room(q)' = Room(q)
    BY DEF TypedStep, Room
  <2>2. \A q \in Caller : Room(q) \in 0..MaxRows
    BY <1>t, RoomType DEF Room, TypeOK
  <2>3. QED
    BY <2>1, <2>2, MaxRowsNat
\* The kinds of step, by what they do to the caller's own room.
<1>q. ASSUME Requests' \subseteq Requests, Room(p)' <= Room(p)
      PROVE  NoNewRow
  BY <1>q, <1>f DEF NoNewRow
<1>w. ASSUME NEW t, NEW st, NEW n, Record(p, t, st, n) \/ LedgerSame, Room(p)' < Room(p)
      PROVE  NewRow(p)
  <2>1. \E i : Requests' \subseteq Requests \cup {i}
    BY <1>t, <1>e, <1>w, RequestsRecorded, RequestsUnrecorded DEF LedgerSame
  <2>2. QED
    BY <2>1, <1>w, <1>f DEF NewRow
\* After its call a caller has room for the tools it still has to run.
<1>i. ASSUME pc[p] # "idle", Return(p)
      PROVE  Room(p)' <= req[p].tools /\ req[p].tools \in 0..MaxTools
  BY <1>i, <1>t, ReturnTyped, LocalsTyped DEF Room, RoomAt, InLoop
\* Before its call, too.
<1>o. ASSUME pc[p] \in {"quota", "policy", "load", "count", "tools", "summary"}
      PROVE  Room(p) = req[p].tools
  BY <1>o DEF Room, RoomAt, InLoop
\* At the provider: room for at least the row of this target.
<1>p. ASSUME pc[p] \in {"wait", "flow", "screen"}
      PROVE  /\ Room(p) = Cardinality(req[p].left) + MaxTools
             /\ Cardinality(req[p].left) >= 1 /\ Cardinality(req[p].left) \in Nat
  <2>1. req[p].left \in SUBSET Target /\ req[p].left # {}
    BY <1>p, <1>t, LocalsTyped DEF TypedChains, TypeOK
  <2>2. QED
    BY <1>p, <2>1, LeftCount DEF Room, RoomAt, InLoop
<1>x. ASSUME pc[p] \in {"wait", "flow", "screen"}, Return(p)
      PROVE  Room(p)' < Room(p)
  BY <1>x, <1>i, <1>p, <1>r
\* The target that failed, or is not allowed, is taken off the chain.
<1>d. ASSUME pc[p] \in {"try", "wait"}, req[p].left # {}, pc'[p] = "try",
             req' = [req EXCEPT ![p].left = @ \ {Current(p)}]
      PROVE  Room(p)' < Room(p)
  <2>1. pc[p] \in InLoop /\ pc'[p] \in InLoop /\ req[p] \in Locals
    BY <1>d, <1>t, LocalsTyped DEF InLoop
  <2>2. Current(p) \in req[p].left /\ req[p].left \in SUBSET Target
    BY <1>d, <1>t, <2>1, CurrentIsLeft, LocalsTyped DEF InLoop
  <2>3. req'[p].left = req[p].left \ {Current(p)}
    BY <1>d, <1>l, <2>1 DEF Locals
  <2>4. Cardinality(req'[p].left) = Cardinality(req[p].left) - 1
        /\ Cardinality(req[p].left) \in 0..2
    BY <2>2, <2>3, LeftCount
  <2>a. pc[p] # "idle" /\ pc'[p] # "idle"
    BY <1>d
  <2>5. Room(p) = Cardinality(req[p].left) + MaxTools
        /\ Room(p)' = Cardinality(req'[p].left) + MaxTools
    BY <2>1, <2>a DEF Room, RoomAt
  <2>6. QED
    BY <2>4, <2>5
<1>1. ASSUME NEW kind \in CallKind, Arrive(p, kind) PROVE NoNewRow \/ Admitted \/ NewRow(p)
  <2>1. Room(p)' = 0
    BY <1>1, <1>l DEF Arrive, Goto, InLoop, Room, RoomAt
  <2>2. Requests' = Requests
    BY <1>1, <1>e, RequestsUnrecorded DEF Arrive, LedgerSame
  <2>3. QED
    BY <2>1, <2>2, <1>q, <1>r
<1>2. ASSUME GuardQuota(p) PROVE NoNewRow \/ Admitted \/ NewRow(p)
  <2>1. CASE Record(p, "none", "quota_denied", 0) /\ Return(p)
    <3>1. Requests' \subseteq Requests
      BY <1>t, <1>e, <2>1, RequestsRecorded
    <3>2. Room(p)' <= Room(p)
      BY <1>2, <2>1, <1>i, <1>o DEF GuardQuota
    <3>3. QED
      BY <3>1, <3>2, <1>q
  <2>2. CASE ~OverQuota /\ LedgerSame
    BY <2>2, <1>t, <1>e, RequestsUnrecorded, WithinQuota DEF Admitted, LedgerSame
  <2>3. QED
    BY <1>2, <2>1, <2>2 DEF GuardQuota
<1>3. ASSUME GuardPolicy(p) PROVE NoNewRow \/ Admitted \/ NewRow(p)
  <2>1. CASE Return(p)
    <3>1. Room(p)' <= Room(p)
      BY <1>3, <2>1, <1>i, <1>o DEF GuardPolicy
    <3>2. QED
      BY <1>3, <1>e, <3>1, <1>q, RequestsUnrecorded DEF GuardPolicy, LedgerSame
  <2>2. CASE Goto(p, "load") /\ UNCHANGED req
    <3>1. Room(p)' = Room(p)
      BY <1>3, <1>l, <2>2 DEF GuardPolicy, Goto, Room, RoomAt, InLoop
    <3>2. QED
      BY <1>3, <1>e, <1>r, <3>1, <1>q, RequestsUnrecorded DEF GuardPolicy, LedgerSame
  <2>3. QED
    BY <1>3, <2>1, <2>2 DEF GuardPolicy
<1>4. ASSUME LoadSettings(p) PROVE NoNewRow \/ Admitted \/ NewRow(p)
  <2>a. req[p] \in Locals /\ pc'[p] = "count"
    BY <1>4, <1>t, <1>l, LocalsTyped DEF LoadSettings, Goto
  <2>b. req'[p].tools = req[p].tools
    BY <1>4, <1>l, <2>a DEF LoadSettings, Locals
  <2>1. Room(p)' = Room(p)
    BY <1>4, <2>a, <2>b DEF LoadSettings, Room, RoomAt, InLoop
  <2>2. Requests' = Requests
    BY <1>4, <1>e, RequestsUnrecorded DEF LoadSettings, LedgerSame
  <2>3. QED
    BY <2>1, <2>2, <1>q, <1>r
<1>5. ASSUME Gate(p) PROVE NoNewRow \/ Admitted \/ NewRow(p)
  <2>1. Requests' = Requests
    BY <1>5, <1>e, RequestsUnrecorded DEF Gate, LedgerSame
  <2>2. CASE ~OverQuota
    BY <2>1, <2>2, <1>t, WithinQuota DEF Admitted
  <2>3. CASE Return(p)
    <3>1. Room(p)' <= Room(p)
      BY <1>5, <2>3, <1>i, <1>o DEF Gate
    <3>2. QED
      BY <2>1, <3>1, <1>q
  <2>4. QED
    BY <1>5, <2>2, <2>3 DEF Gate
<1>6. ASSUME Screen(p) PROVE NoNewRow \/ Admitted \/ NewRow(p)
  <2>1. CASE Record(p, "guard", "blocked", 1) /\ Return(p)
    <3>1. Room(p)' < Room(p)
      BY <1>6, <2>1, <1>r, <1>x DEF Screen
    <3>2. QED
      BY <2>1, <3>1, <1>w
  <2>2. CASE Goto(p, "try") /\ LedgerSame /\ UNCHANGED req
    <3>1. Room(p)' = Room(p)
      BY <1>6, <2>2, <1>l DEF Screen, Goto, Room, RoomAt, InLoop
    <3>2. QED
      BY <2>2, <3>1, <1>e, <1>q, <1>r, RequestsUnrecorded DEF LedgerSame
  <2>3. QED
    BY <1>6, <2>1, <2>2 DEF Screen
<1>7. ASSUME NextTarget(p) PROVE NoNewRow \/ Admitted \/ NewRow(p)
  <2>1. Requests' = Requests
    BY <1>7, <1>e, RequestsUnrecorded DEF NextTarget, LedgerSame
  <2>2. CASE Return(p)
    <3>1. pc[p] = "try"
      BY <1>7 DEF NextTarget
    <3>2. req[p].left \in SUBSET Target
      BY <3>1, <1>t, LocalsTyped
    <3>3. Cardinality(req[p].left) \in Nat /\ Room(p) = Cardinality(req[p].left) + MaxTools
      BY <3>1, <3>2, LeftCount DEF Room, RoomAt, InLoop
    <3>4. Room(p)' <= Room(p)
      BY <2>2, <3>1, <3>3, <1>i, <1>r
    <3>5. QED
      BY <2>1, <3>4, <1>q
  <2>3. CASE /\ req[p].left # {}
             /\ req' = [req EXCEPT ![p].left = @ \ {Current(p)}]
             /\ UNCHANGED <<pc, fate>>
    <3>1. Room(p)' < Room(p)
      BY <1>7, <2>3, <1>d DEF NextTarget
    <3>2. QED
      BY <2>1, <3>1, <1>q, <1>r
  <2>4. CASE Goto(p, "wait") /\ UNCHANGED req
    <3>1. Room(p)' = Room(p)
      BY <1>7, <2>4, <1>l DEF NextTarget, Goto, Room, RoomAt, InLoop
    <3>2. QED
      BY <2>1, <3>1, <1>q, <1>r
  <2>5. QED
    BY <1>7, <2>2, <2>3, <2>4 DEF NextTarget
<1>8. ASSUME Answer(p) PROVE NoNewRow \/ Admitted \/ NewRow(p)
  <2>1. Room(p)' < Room(p)
    BY <1>8, <1>x DEF Answer
  <2>2. QED
    BY <1>8, <2>1, <1>w DEF Answer
<1>9. ASSUME EndStream(p) PROVE NoNewRow \/ Admitted \/ NewRow(p)
  <2>1. Room(p)' < Room(p)
    BY <1>9, <1>x DEF EndStream
  <2>2. QED
    BY <1>9, <2>1, <1>w DEF EndStream
<1>10. ASSUME BreakStream(p) PROVE NoNewRow \/ Admitted \/ NewRow(p)
  <2>1. Room(p)' < Room(p)
    BY <1>10, <1>x DEF BreakStream
  <2>2. QED
    BY <1>10, <2>1, <1>w DEF BreakStream
<1>11. ASSUME LeaveStream(p) PROVE NoNewRow \/ Admitted \/ NewRow(p)
  <2>1. Room(p)' < Room(p)
    BY <1>11, <1>x DEF LeaveStream
  <2>2. QED
    BY <1>11, <2>1, <1>w DEF LeaveStream
<1>12. ASSUME NEW k \in 1..MaxTools, UseTools(p, k) PROVE NoNewRow \/ Admitted \/ NewRow(p)
  <2>1. pc'[p] = "tools"
    BY <1>12, <1>l DEF UseTools, Goto
  <2>2. req[p] \in Locals
    BY <1>12, <1>t, LocalsTyped DEF UseTools
  <2>3. req'[p].tools = k
    BY <1>12, <1>l, <2>2 DEF UseTools, Locals
  <2>4. Room(p)' = k
    BY <2>1, <2>3 DEF Room, RoomAt, InLoop
  <2>5. Room(p)' < Room(p)
    BY <1>12, <2>4, <1>p DEF UseTools
  <2>6. QED
    BY <1>12, <2>5, <1>w DEF UseTools
<1>13. ASSUME SearchTool(p) PROVE NoNewRow \/ Admitted \/ NewRow(p)
  <2>1. pc[p] = "tools" /\ req[p] \in Locals /\ req[p].tools \in Nat
    BY <1>13, <1>t, LocalsTyped DEF SearchTool
  <2>2. req'[p].tools = req[p].tools - 1 /\ pc' = pc
    BY <1>13, <2>1, <1>l DEF Locals, SearchTool
  <2>3. Room(p) = req[p].tools /\ Room(p)' = req'[p].tools
    BY <2>1, <2>2 DEF Room, RoomAt, InLoop
  <2>4. Room(p)' < Room(p)
    BY <2>1, <2>2, <2>3
  <2>5. QED
    BY <1>13, <2>4, <1>w DEF SearchTool
<1>21. ASSUME AskTool(p) \/ NextRound(p) PROVE NoNewRow \/ Admitted \/ NewRow(p)
  <2>1. pc[p] = "tools" /\ req[p] \in Locals /\ req[p].tools \in Nat
    BY <1>21, <1>t, LocalsTyped DEF AskTool, NextRound
  <2>2. pc'[p] = "load" /\ Requests' = Requests
    BY <1>21, <1>l, <1>e, RequestsUnrecorded
       DEF AskTool, NextRound, CallAgain, Goto, LedgerSame
  <2>3. req'[p].tools <= req[p].tools
    BY <1>21, <1>l, <2>1 DEF AskTool, NextRound, Locals
  <2>4. Room(p) = req[p].tools /\ Room(p)' = req'[p].tools
    BY <2>1, <2>2 DEF Room, RoomAt, InLoop
  <2>5. QED
    BY <2>2, <2>3, <2>4, <1>q
<1>14. ASSUME Fail(p) PROVE NoNewRow \/ Admitted \/ NewRow(p)
  <2>1. Record(p, Current(p), "error", 1) \/ LedgerSame
    BY <1>14 DEF Fail
  <2>2. CASE Return(p)
    <3>1. Room(p)' < Room(p)
      BY <1>14, <2>2, <1>x DEF Fail
    <3>2. QED
      BY <2>1, <3>1, <1>w
  <2>3. CASE /\ req[p].left \ {Current(p)} # {}
             /\ req' = [req EXCEPT ![p].left = @ \ {Current(p)}] /\ Goto(p, "try")
    <3>1. Room(p)' < Room(p)
      BY <1>14, <2>3, <1>d, <1>l DEF Fail, Goto
    <3>2. QED
      BY <2>1, <3>1, <1>w
  <2>4. QED
    BY <1>14, <2>2, <2>3 DEF Fail
<1>15. ASSUME RefuseStream(p) PROVE NoNewRow \/ Admitted \/ NewRow(p)
  <2>1. Record(p, Current(p), "error", 1) \/ LedgerSame
    BY <1>15 DEF RefuseStream
  <2>2. CASE Return(p)
    <3>1. Room(p)' < Room(p)
      BY <1>15, <2>2, <1>x DEF RefuseStream
    <3>2. QED
      BY <2>1, <3>1, <1>w
  <2>3. CASE /\ req[p].left \ {Current(p)} # {}
             /\ req' = [req EXCEPT ![p].left = @ \ {Current(p)}] /\ Goto(p, "try")
    <3>1. Room(p)' < Room(p)
      BY <1>15, <2>3, <1>d, <1>l DEF RefuseStream, Goto
    <3>2. QED
      BY <2>1, <3>1, <1>w
  <2>4. QED
    BY <1>15, <2>2, <2>3 DEF RefuseStream
<1>16. ASSUME Token(p) PROVE NoNewRow \/ Admitted \/ NewRow(p)
  <2>1. Room(p)' = Room(p)
    BY <1>16, <1>l DEF Token, Goto, Room, RoomAt, InLoop
  <2>2. Requests' = Requests
    BY <1>16, <1>e, RequestsUnrecorded DEF Token, LedgerSame
  <2>3. QED
    BY <2>1, <2>2, <1>q, <1>r
<1>17. ASSUME Search(p) PROVE NoNewRow \/ Admitted \/ NewRow(p)
  <2>1. Room(p)' <= req[p].tools /\ req[p].tools \in 0..MaxTools
    BY <1>17, <1>i DEF Search
  <2>2. Room(p) = req[p].tools + 1
    BY <1>17 DEF Search, Room, RoomAt, InLoop
  <2>3. Room(p)' < Room(p)
    BY <2>1, <2>2, <1>r
  <2>4. QED
    BY <1>17, <2>3, <1>w DEF Search
<1>18. ASSUME Summarise(p) PROVE NoNewRow \/ Admitted \/ NewRow(p)
  <2>1. Room(p)' <= Room(p)
    BY <1>18, <1>i, <1>o DEF Summarise
  <2>2. Requests' = Requests
    BY <1>18, <1>e, RequestsUnrecorded DEF Summarise, LedgerSame
  <2>3. QED
    BY <2>1, <2>2, <1>q, <1>r
<1>19. ASSUME GiveUp(p) PROVE NoNewRow \/ Admitted \/ NewRow(p)
  <2>1. Room(p)' <= Room(p)
    BY <1>19, <1>i, <1>o DEF GiveUp
  <2>2. Requests' = Requests
    BY <1>19, <1>e, RequestsUnrecorded DEF GiveUp, LedgerSame
  <2>3. QED
    BY <2>1, <2>2, <1>q, <1>r
<1>22. QED
  BY <1>1, <1>2, <1>3, <1>4, <1>5, <1>6, <1>7, <1>8, <1>9, <1>10, <1>11, <1>12, <1>13,
     <1>14, <1>15, <1>16, <1>17, <1>18, <1>19, <1>21
     DEF Advance, Proceed

LEMMA RoomInvStep == TypedChains /\ RoomInv /\ [Next]_vars => RoomInv'
<1> SUFFICES ASSUME TypedChains, RoomInv, [Next]_vars PROVE RoomInv'
  OBVIOUS
<1>1. TypeOK /\ ChainInv /\ TypedChains'
  BY TypedChainsStep DEF TypedChains
<1>2. TypeOK'
  BY <1>1 DEF TypedChains
<1>3. ASSUME NEW p \in Caller, Advance(p) \/ \E kind \in CallKind : Arrive(p, kind)
      PROVE  RoomInv'
  <2>1. TypedStep(p)
    BY <1>1, <1>3, CallerStepTyped
  <2>2. RequestLimit > 0 => NoNewRow \/ Admitted \/ NewRow(p)
    BY <1>3, <2>1, RoomStep
  <2>3. QED
    BY <1>1, <1>2, <2>2, RoomInvKept
<1>4. CASE UNCHANGED <<pc, req, ledger>> /\ (expired' = expired \/ Expire)
  <2>1. \A q \in Caller : Room(q)' = Room(q) /\ Room(q) \in 0..MaxRows
    BY <1>1, <1>4, RoomType DEF Room, TypeOK
  <2>2. \A q \in Caller : Room(q)' <= Room(q)
    BY <2>1, MaxRowsNat
  <2>3. Requests' \subseteq Requests
    <3>1. expired' \in Nat /\ expired \in Nat /\ expired <= expired' /\ Len(ledger) \in Nat
      BY <1>1, <1>4 DEF Expire, TypeOK
    <3>2. QED
      BY <1>4, <3>1 DEF Requests, Window, Counts
  <2>4. QED
    BY <1>1, <1>2, <2>2, <2>3, RoomInvKept DEF NoNewRow
<1>5. ASSUME NEW e \in Editor,
             \/ ReadSettings(e)
             \/ \E policy \in Policies : PutPolicy(e, policy)
             \/ \E routing \in Routings : PutRouting(e, routing)
      PROVE  RoomInv'
  BY <1>4, <1>5 DEF ReadSettings, PutPolicy, PutRouting
<1>6. CASE Expire \/ Quiet \/ UNCHANGED vars
  BY <1>4, <1>6 DEF Expire, Quiet, vars
<1>7. QED
  BY <1>3, <1>5, <1>6 DEF Next

LEMMA RoomInvInit == Init => RoomInv
<1> SUFFICES ASSUME Init, RequestLimit > 0
             PROVE  Cardinality(Requests) + Cardinality(Pot)
                        <= RequestLimit - 1 + Cardinality(Caller) * MaxRows
  BY DEF RoomInv
<1>1. Requests = {}
  <2>1. Window = {}
    BY DEF Init, Window
  <2>2. QED
    BY <2>1 DEF Requests
<1>2. Pot = {}
  <2>1. \A p \in Caller : Room(p) = 0
    BY DEF Init, Room, RoomAt, InLoop
  <2>2. QED
    BY <2>1, MaxRowsNat DEF Pot
<1>3. Cardinality({}) = 0
  BY FS_EmptySet
<1>4. Cardinality(Caller) * MaxRows \in Nat
  BY RowNumbers
<1>5. QED
  BY <1>1, <1>2, <1>3, <1>4, LimitAssumption

\* However many callers pass the same check before any of them has recorded
\* its rows, the requests of a window overshoot the limit by no more than one
\* admission of each caller (QuotaService.check, record_usage).
THEOREM QuotaOvershootBounded == Spec => []OvershootBounded
<1>1. Spec => [](TypedChains /\ RoomInv)
  BY TypedChainsInit, RoomInvInit, TypedChainsStep, RoomInvStep, PTL DEF Spec
<1>2. TypedChains /\ RoomInv => OvershootBounded
  <2> SUFFICES ASSUME TypedChains, RoomInv, RequestLimit > 0
               PROVE  Cardinality(Requests)
                          <= RequestLimit - 1 + Cardinality(Caller) * MaxRows
    BY DEF OvershootBounded
  <2>1. expired + 1 \in Int /\ Len(ledger) \in Int
    BY DEF TypedChains, TypeOK
  <2>2. Requests \in SUBSET ((expired + 1)..Len(ledger))
    BY DEF Requests, Window
  <2>3. Cardinality(Requests) \in Nat
    BY <2>1, <2>2, PartOfInterval
  <2>4. Pot \in SUBSET (Caller \X (1..MaxRows))
    BY DEF Pot
  <2>5. Cardinality(Pot) \in Nat /\ Cardinality(Caller) * MaxRows \in Nat
    BY <2>4, RowNumbers
  <2>6. Cardinality(Requests) + Cardinality(Pot)
            <= RequestLimit - 1 + Cardinality(Caller) * MaxRows
    BY DEF RoomInv
  <2>7. QED
    BY <2>3, <2>5, <2>6, LimitAssumption
<1>3. QED
  BY <1>1, <1>2, PTL
-----------------------------------------------------------------------------
(* ---- Whose call is whose, and what became of it ------------------------- *)

\* A call for which no target has been asked.
Untouched(c) ==
    /\ shown[c] = {}
    /\ \A t \in Target : fate[c][t] = "none" /\ RowsOf(c, t) = {}

\* A call in the loop: what was passed over or has failed, what is being asked,
\* what is still to be asked.
UnderWay(p, c) ==
    /\ \A t \in Target \ req[p].left : fate[c][t] \in {"none", "failed"}
    /\ \A t \in Chain(req[p].snap) \ req[p].left :
          Allowed(req[p].snap.policy, t) => fate[c][t] = "failed"
    /\ \A t \in req[p].left : pc[p] = "try" \/ t # Current(p) => fate[c][t] = "none"
    /\ pc[p] # "try" => fate[c][Current(p)] = "pending"
    /\ shown[c] = IF pc[p] = "flow" THEN {Current(p)} ELSE {}

\* The call a caller is in, or, while an agent's tools are run, was in last.
OwnCall(p) ==
    /\ pc[p] # "idle" => req[p].call < nextCall
    /\ pc[p] = "tools" => req[p].kind = "agent"
    /\ pc[p] \notin {"idle", "tools"} =>
        /\ made[req[p].call] = req[p].kind
        /\ pc[p] = "summary" => req[p].kind = "summary"
        /\ pc[p] = "screen" => req[p].left = Chain(req[p].snap)
        /\ IF pc[p] \in {"try", "wait", "flow"} THEN UnderWay(p, req[p].call)
           ELSE Untouched(req[p].call)

CallsApart ==
    \A p, q \in Caller : p # q /\ pc[p] # "idle" /\ pc[q] # "idle" =>
        req[p].call # req[q].call

\* What OneVoice and LedgerTellsTruth say of one call.
Voice(c) ==
    \A t \in Target : t \in shown[c] =>
        \A u \in Target \ {t} : fate[c][u] \in {"none", "failed"} /\ u \notin shown[c]

Told(c) ==
    \A t \in Target :
        /\ \A i, j \in RowsOf(c, t) : i = j
        /\ \A i \in RowsOf(c, t) :
            \/ ledger[i].status = "ok" /\ fate[c][t] = "answered"
            \/ ledger[i].status = "error" /\ fate[c][t] = "failed"
        /\ \/ fate[c][t] = "answered" /\ made[c] # "summary"
           \/ fate[c][t] = "failed" /\ made[c] \notin {"stream", "summary"}
           => RowsOf(c, t) # {} \/ <<c, t>> \in lost

CallInv ==
    /\ \A p \in Caller : OwnCall(p)
    /\ CallsApart
    /\ \A c \in CallId : c >= nextCall => Untouched(c)
    /\ \A c \in CallId : Voice(c) /\ Told(c)

\* A step that has to do with call c only, and with a new call if it makes one.
OnlyCall(c) ==
    /\ \A d \in CallId \ {c} :
        /\ fate'[d] = fate[d] /\ shown'[d] = shown[d]
        /\ \A t \in Target : RowsOf(d, t)' = RowsOf(d, t)
    /\ \A i \in DOMAIN ledger : i \in DOMAIN ledger' /\ ledger'[i] = ledger[i]
    /\ lost \subseteq lost'
    /\ \A d \in CallId : made'[d] = made[d] \/ (d = nextCall /\ nextCall' = nextCall + 1)

LEMMA CallInvKept ==
    ASSUME TypeOK, CallInv, NEW p \in Caller, TypedStep(p), NEW c \in CallId, OnlyCall(c),
           nextCall' \in {nextCall, nextCall + 1},
           \/ pc[p] # "idle" /\ c = req[p].call
           \/ c = nextCall /\ nextCall' = nextCall + 1,
           pc'[p] # "idle" =>
               \/ pc[p] # "idle" /\ req'[p].call = req[p].call
               \/ req'[p].call = nextCall /\ nextCall' = nextCall + 1,
           OwnCall(p)', Voice(c)', Told(c)'
    PROVE  CallInv'
<1> USE LimitAssumption
<1>t. /\ nextCall \in Nat /\ nextCall' \in Nat /\ nextCall <= nextCall'
      /\ \A q \in Caller : pc[q] # "idle" => req[q].call \in CallId /\ req[q].call \in Nat
      /\ CallId \subseteq Nat
      /\ \A q \in Caller \ {p} : pc'[q] = pc[q] /\ req'[q] = req[q]
  <2>1. nextCall \in Nat /\ CallId \subseteq Nat
    BY DEF TypeOK, CallId
  <2>2. \A q \in Caller : pc[q] # "idle" => req[q].call \in CallId
    BY LocalsTyped
  <2>3. nextCall' \in Nat /\ nextCall <= nextCall'
    BY <2>1
  <2>4. \A q \in Caller \ {p} : pc'[q] = pc[q] /\ req'[q] = req[q]
    BY DEF TypedStep
  <2>5. QED
    BY <2>1, <2>2, <2>3, <2>4
<1>o. \A q \in Caller : pc[q] # "idle" => req[q].call < nextCall
  BY DEF CallInv, OwnCall
<1>1. \A q \in Caller \ {p} : OwnCall(q)'
  <2> SUFFICES ASSUME NEW q \in Caller \ {p}, pc[q] # "idle"
               PROVE  OwnCall(q)'
    BY <1>t DEF OwnCall
  <2>1. PICK d \in CallId \ {c} : d = req[q].call /\ d < nextCall /\ d # nextCall
    BY <1>t, <1>o DEF CallInv, CallsApart
  <2>2. made'[d] = made[d] /\ d < nextCall'
    BY <1>t, <2>1 DEF OnlyCall
  <2>3. Untouched(d) => Untouched(d)'
    BY <2>1 DEF OnlyCall, Untouched
  <2>4. UnderWay(q, d) => UnderWay(q, d)'
    <3>1. fate'[d] = fate[d] /\ shown'[d] = shown[d] /\ req'[q] = req[q] /\ pc'[q] = pc[q]
      BY <1>t, <2>1 DEF OnlyCall
    <3>2. QED
      BY <3>1 DEF UnderWay, Current
  <2>5. OwnCall(q)
    BY DEF CallInv
  <2>6. QED
    BY <1>t, <2>1, <2>2, <2>3, <2>4, <2>5 DEF OwnCall
<1>2. CallsApart'
  <2> SUFFICES ASSUME NEW q \in Caller \ {p}, pc'[p] # "idle", pc'[q] # "idle"
               PROVE  req'[p].call # req'[q].call
    BY <1>t DEF CallsApart, CallInv
  <2>1. req'[q].call < nextCall /\ req'[q].call \in Nat
    BY <1>t, <1>o
  <2>2. QED
    BY <1>t, <2>1 DEF CallInv, CallsApart
<1>3. \A d \in CallId : d >= nextCall' => Untouched(d)'
  <2> SUFFICES ASSUME NEW d \in CallId, d >= nextCall' PROVE Untouched(d)'
    OBVIOUS
  <2>1. d # c /\ d >= nextCall
    BY <1>t, <1>o
  <2>2. QED
    BY <2>1 DEF OnlyCall, Untouched, CallInv
<1>4. \A d \in CallId \ {c} : Voice(d)' /\ Told(d)'
  <2> SUFFICES ASSUME NEW d \in CallId \ {c} PROVE Voice(d)' /\ Told(d)'
    OBVIOUS
  <2>1. Voice(d) /\ Told(d) /\ fate'[d] = fate[d] /\ shown'[d] = shown[d]
    BY DEF CallInv, OnlyCall
  <2>2. \A t \in Target : RowsOf(d, t)' = RowsOf(d, t)
    BY DEF OnlyCall
  <2>3. \A t \in Target : \A i \in RowsOf(d, t) : ledger'[i] = ledger[i]
    BY DEF OnlyCall, RowsOf
  <2>4. Voice(d)'
    BY <2>1 DEF Voice
  <2>5. Told(d)'
    <3>1. CASE made'[d] = made[d]
      BY <2>1, <2>2, <2>3, <3>1 DEF Told, OnlyCall
    <3>2. CASE d = nextCall
      <4>1. Untouched(d)
        BY <3>2, <1>t DEF CallInv
      <4>2. QED
        BY <2>1, <2>2, <4>1 DEF Told, Untouched
    <3>3. QED
      BY <3>1, <3>2 DEF OnlyCall
  <2>6. QED
    BY <2>4, <2>5
<1>5. QED
  BY <1>1, <1>2, <1>3, <1>4 DEF CallInv
-----------------------------------------------------------------------------
\* Rows of other calls and targets are as they were, and so is every old row.
RowsKeptBut(c, target) ==
    /\ \A d \in CallId, t \in Target : d # c \/ t # target => RowsOf(d, t)' = RowsOf(d, t)
    /\ \A i \in DOMAIN ledger : i \in DOMAIN ledger' /\ ledger'[i] = ledger[i]
    /\ lost \subseteq lost'

\* The first row of a call and a target, or the loss of it.
FirstRow(c, target, status) ==
    \/ RowsOf(c, target)' = {} /\ <<c, target>> \in lost'
    \/ \E i : RowsOf(c, target)' = {i} /\ ledger'[i].status = status

\* What recording does to the rows of a call.
LEMMA RecordRows ==
    ASSUME TypeOK, NEW p \in Caller, NEW c \in CallId, c = req[p].call,
           NEW target \in RowTarget, NEW status \in Status, NEW tokens \in 0..2,
           Record(p, target, status, tokens)
    PROVE  /\ RowsKeptBut(c, target)
           /\ RowsOf(c, target) = {} => FirstRow(c, target, status)
<1> DEFINE row == [call |-> c, target |-> target, status |-> status, tokens |-> tokens]
<1>1. CASE ledger' = Append(ledger, row) /\ UNCHANGED lost
  <2>1. ledger \in Seq(Row)
    BY DEF TypeOK
  <2>2. /\ Len(ledger) \in Nat /\ DOMAIN ledger = 1..Len(ledger)
        /\ DOMAIN ledger' = 1..(Len(ledger) + 1)
        /\ \A i \in 1..Len(ledger) : ledger'[i] = ledger[i]
        /\ ledger'[Len(ledger) + 1] = row
    BY <1>1, <2>1
  <2>3. row.call = c /\ row.target = target /\ row.status = status
    OBVIOUS
  <2> HIDE DEF row
  <2>4. \A d, t : d # c \/ t # target => RowsOf(d, t)' = RowsOf(d, t)
    BY <2>2, <2>3 DEF RowsOf
  <2>5. PICK n : n = Len(ledger) + 1
    OBVIOUS
  <2>6. RowsOf(c, target) = {} => RowsOf(c, target)' = {n}
    BY <2>2, <2>3, <2>5 DEF RowsOf
  <2>7. ledger'[n].status = status
    BY <2>2, <2>3, <2>5
  <2>8. \A i \in DOMAIN ledger : i \in DOMAIN ledger' /\ ledger'[i] = ledger[i]
    BY <2>2
  <2>9. RowsOf(c, target) = {} =>
            \E i : RowsOf(c, target)' = {i} /\ ledger'[i].status = status
    BY <2>6, <2>7
  <2>10. QED
    BY <1>1, <2>4, <2>8, <2>9 DEF RowsKeptBut, FirstRow
<1>2. CASE lost' = lost \cup {<<c, target>>} /\ UNCHANGED ledger
  BY <1>2 DEF RowsOf, RowsKeptBut, FirstRow
<1>3. QED
  BY <1>1, <1>2 DEF Record

\* What a caller that asks nobody does: its call is untouched, before and after.
LEMMA QuietStep ==
    ASSUME TypeOK, CallInv, NEW p \in Caller, TypedStep(p), pc[p] # "idle",
           UNCHANGED <<fate, shown, made, nextCall>>,
           \/ LedgerSame
           \/ \E target \in RowTarget \ Target, status \in Status, tokens \in 0..2 :
                  Record(p, target, status, tokens)
    PROVE  /\ OnlyCall(req[p].call)
           /\ \A c \in CallId : /\ Untouched(c) => Untouched(c)'
                               /\ Voice(c)' /\ Told(c)'
<1>1. PICK c \in CallId : c = req[p].call
  BY LocalsTyped
<1>r. PICK target \in RowTarget \ Target : RowsKeptBut(c, target)
  <2>1. CASE LedgerSame
    <3>1. \A t \in RowTarget \ Target : RowsKeptBut(c, t)
      BY <2>1 DEF LedgerSame, RowsOf, RowsKeptBut
    <3>2. "guard" \in RowTarget \ Target
      BY DEF RowTarget, Target
    <3>3. QED
      BY <3>1, <3>2
  <2>2. ASSUME NEW t \in RowTarget \ Target, NEW status \in Status, NEW tokens \in 0..2,
               Record(p, t, status, tokens)
        PROVE  RowsKeptBut(c, t)
    BY <1>1, <2>2, RecordRows
  <2>3. QED
    BY <2>1, <2>2
<1>2. \A d \in CallId, t \in Target : RowsOf(d, t)' = RowsOf(d, t)
  BY <1>r DEF RowsKeptBut
<1>3. /\ \A i \in DOMAIN ledger : i \in DOMAIN ledger' /\ ledger'[i] = ledger[i]
      /\ lost \subseteq lost'
  BY <1>r DEF RowsKeptBut
<1>4. OnlyCall(c)
  <2>1. /\ \A d \in CallId \ {c} :
            /\ fate'[d] = fate[d] /\ shown'[d] = shown[d]
            /\ \A t \in Target : RowsOf(d, t)' = RowsOf(d, t)
        /\ \A d \in CallId : made'[d] = made[d]
    BY <1>2
  <2>2. QED
    BY <1>3, <2>1 DEF OnlyCall
<1>5. \A d \in CallId : Untouched(d) => Untouched(d)'
  BY <1>2 DEF Untouched
<1>6. \A d \in CallId : Voice(d)'
  BY DEF CallInv, Voice
<1>7. ASSUME NEW d \in CallId PROVE Told(d)'
  <2>1. \A t \in Target : \A i \in RowsOf(d, t) : ledger'[i] = ledger[i]
    BY <1>3 DEF RowsOf
  <2>2. QED
    BY <1>2, <1>3, <2>1 DEF CallInv, Told
<1>8. QED
  BY <1>1, <1>4, <1>5, <1>6, <1>7

\* A target that is being asked becomes answered, failed or left, with a row, a
\* lost row, or (where the code writes none) neither.
LEMMA AskedStep ==
    ASSUME TypeOK, CallInv, ChainInv, NEW p \in Caller, TypedStep(p),
           pc[p] \in {"wait", "flow"}, shown' = shown,
           NEW f \in {"answered", "failed", "left"}, Became(p, f),
           NEW c \in CallId, c = req[p].call,
           \A d \in CallId :
               made'[d] = made[d] \/ (d = nextCall /\ nextCall' = nextCall + 1),
           \/ f = "answered" /\ \E n \in 0..2 : Record(p, Current(p), "ok", n)
           \/ f = "failed" /\ \E n \in 0..2 : Record(p, Current(p), "error", n)
           \/ f \in {"failed", "left"} /\ req[p].kind = "stream" /\ LedgerSame
    PROVE  /\ OnlyCall(c) /\ Voice(c)' /\ Told(c)'
           /\ \A t \in Target : fate'[c][t] = IF t = Current(p) THEN f ELSE fate[c][t]
           /\ \A d \in CallId \ {c} : Untouched(d) => Untouched(d)'
<1>1. PICK cur \in Target : cur = Current(p)
  <2>1. req[p].left # {} /\ pc[p] \in InLoop
    BY DEF TypeOK, InLoop
  <2>2. QED
    BY <2>1, CurrentIsLeft
<1>s. cur \in RowTarget /\ {"ok", "error"} \subseteq Status
  BY DEF RowTarget, Status
<1>2. /\ UnderWay(p, c) /\ made[c] = req[p].kind /\ c < nextCall
      /\ Voice(c) /\ Told(c)
  BY DEF CallInv, OwnCall
<1>3. /\ fate' = [fate EXCEPT ![c][cur] = f]
      /\ fate \in [CallId -> [Target -> Fate]]
  BY <1>1 DEF Became, TypeOK
<1>4. /\ \A d \in CallId \ {c} : fate'[d] = fate[d]
      /\ \A t \in Target \ {cur} : fate'[c][t] = fate[c][t]
      /\ fate'[c][cur] = f
  BY <1>1, <1>3
<1>5. fate[c][cur] = "pending" /\ shown[c] \subseteq {cur}
  BY <1>1, <1>2 DEF UnderWay
<1>6. RowsOf(c, cur) = {}
  BY <1>1, <1>2, <1>5 DEF Told
<1>7. RowsKeptBut(c, cur)
  <2>1. CASE LedgerSame
    BY <2>1 DEF LedgerSame, RowsOf, RowsKeptBut
  <2>2. ASSUME NEW status \in {"ok", "error"}, NEW n \in 0..2, Record(p, cur, status, n)
        PROVE  RowsKeptBut(c, cur)
    BY <1>s, <2>2, RecordRows
  <2>3. QED
    BY <1>1, <2>1, <2>2
<1>8. \/ FirstRow(c, cur, IF f = "answered" THEN "ok" ELSE "error") /\ f # "left"
      \/ RowsOf(c, cur)' = {} /\ f \in {"failed", "left"} /\ req[p].kind = "stream"
  <2>1. CASE LedgerSame /\ f \in {"failed", "left"} /\ req[p].kind = "stream"
    BY <2>1, <1>6 DEF LedgerSame, RowsOf
  <2>2. ASSUME NEW status \in {"ok", "error"}, NEW n \in 0..2, Record(p, cur, status, n)
        PROVE  FirstRow(c, cur, status)
    BY <1>s, <2>2, <1>6, RecordRows
  <2>3. QED
    BY <1>1, <2>1, <2>2
<1>9. OnlyCall(c)
  BY <1>4, <1>7 DEF OnlyCall, RowsKeptBut
<1>10. Voice(c)'
  BY <1>2, <1>4, <1>5 DEF Voice, UnderWay
<1>11. Told(c)'
  <2>1. made'[c] = req[p].kind
    BY <1>2 DEF CallId
  <2>2. \A t \in Target \ {cur} : \A i \in RowsOf(c, t) : ledger'[i] = ledger[i]
    BY <1>7 DEF RowsOf, RowsKeptBut
  <2>3. ASSUME NEW t \in Target \ {cur}
        PROVE  /\ \A i, j \in RowsOf(c, t)' : i = j
               /\ \A i \in RowsOf(c, t)' :
                    \/ ledger'[i].status = "ok" /\ fate'[c][t] = "answered"
                    \/ ledger'[i].status = "error" /\ fate'[c][t] = "failed"
               /\ \/ fate'[c][t] = "answered" /\ made'[c] # "summary"
                  \/ fate'[c][t] = "failed" /\ made'[c] \notin {"stream", "summary"}
                  => RowsOf(c, t)' # {} \/ <<c, t>> \in lost'
    BY <1>2, <1>4, <1>7, <2>1, <2>2 DEF Told, RowsKeptBut
  <2>4. /\ \A i, j \in RowsOf(c, cur)' : i = j
        /\ \A i \in RowsOf(c, cur)' :
             \/ ledger'[i].status = "ok" /\ fate'[c][cur] = "answered"
             \/ ledger'[i].status = "error" /\ fate'[c][cur] = "failed"
        /\ \/ fate'[c][cur] = "answered" /\ made'[c] # "summary"
           \/ fate'[c][cur] = "failed" /\ made'[c] \notin {"stream", "summary"}
           => RowsOf(c, cur)' # {} \/ <<c, cur>> \in lost'
    BY <1>4, <1>8, <2>1 DEF FirstRow
  <2>5. QED
    BY <2>3, <2>4 DEF Told
<1>12. QED
  BY <1>1, <1>4, <1>7, <1>9, <1>10, <1>11 DEF Untouched, RowsKeptBut
-----------------------------------------------------------------------------
(* ---- The steps of a caller ----------------------------------------------- *)

\* A caller that returns without an answer, or moves on before its first target.
LEMMA QuietMove ==
    ASSUME TypeOK, CallInv, NEW p \in Caller, TypedStep(p), pc[p] # "idle",
           UNCHANGED <<fate, shown, made, nextCall>>,
           \/ LedgerSame
           \/ \E target \in RowTarget \ Target, status \in Status, tokens \in 0..2 :
                  Record(p, target, status, tokens),
           \/ pc'[p] = "idle"
           \/ pc'[p] = "tools" /\ req'[p].call = req[p].call /\ req'[p].kind = "agent"
           \/ /\ pc[p] \notin {"try", "wait", "flow", "tools"}
              /\ pc'[p] \notin {"try", "wait", "flow", "summary", "tools"}
              /\ req'[p].call = req[p].call /\ req'[p].kind = req[p].kind
              /\ pc'[p] = "screen" => req'[p].left = Chain(req'[p].snap)
    PROVE  CallInv'
<1>1. PICK c \in CallId : c = req[p].call
  BY LocalsTyped
<1>2. OnlyCall(c) /\ (Untouched(c) => Untouched(c)') /\ Voice(c)' /\ Told(c)'
  BY <1>1, QuietStep
<1>3. OwnCall(p)'
  <2>1. OwnCall(p)
    BY DEF CallInv
  <2>2. QED
    BY <1>1, <1>2, <2>1 DEF OwnCall
<1>4. QED
  BY <1>1, <1>2, <1>3, CallInvKept

\* A new call, of a request that arrives or of an agent: nobody has asked anything for it.
LEMMA NewCallKeeps ==
    ASSUME TypeOK, CallInv, NEW p \in Caller, TypedStep(p),
           NEW kind \in AllKinds, nextCall <= MaxCalls,
           made' = [made EXCEPT ![nextCall] = kind], nextCall' = nextCall + 1,
           UNCHANGED <<ledger, lost, fate, shown>>,
           req'[p].call = nextCall, req'[p].kind = kind,
           pc'[p] \in {"load", "summary", "quota"}, pc'[p] = "summary" => kind = "summary"
    PROVE  CallInv'
<1>1. /\ nextCall \in CallId /\ nextCall \in Nat
      /\ made \in [CallId -> AllKinds \cup {"none"}]
  BY LimitAssumption DEF TypeOK, CallId
<1>2. Untouched(nextCall)
  BY <1>1 DEF CallInv
<1>3. PICK c \in CallId : c = nextCall
  BY <1>1
<1>4. \A d \in CallId, t \in Target : RowsOf(d, t)' = RowsOf(d, t)
  BY DEF RowsOf
<1>5. OnlyCall(c)
  BY <1>1, <1>3, <1>4 DEF OnlyCall
<1>6. Untouched(c)'
  BY <1>2, <1>3, <1>4 DEF Untouched
<1>7. Voice(c)' /\ Told(c)'
  BY <1>6 DEF Voice, Told, Untouched
<1>8. OwnCall(p)'
  BY <1>1, <1>3, <1>6 DEF OwnCall
<1>9. QED
  BY <1>1, <1>3, <1>5, <1>7, <1>8, CallInvKept

\* A summary goes to the model of the deployment; no row is written for it.
LEMMA SummariseKeeps ==
    ASSUME TypeOK, CallInv, NEW p \in Caller, TypedStep(p), Summarise(p)
    PROVE  CallInv'
<1>1. PICK c \in CallId : c = req[p].call
  BY LocalsTyped DEF Summarise
<1>2. PICK f \in {"answered", "failed"} : fate' = [fate EXCEPT ![c][DeploymentTarget] = f]
  BY <1>1 DEF Summarise
<1>3. /\ UNCHANGED <<ledger, lost, made, nextCall, shown>>
      /\ pc[p] = "summary" /\ Return(p)
      /\ fate \in [CallId -> [Target -> Fate]]
  BY DEF Summarise, LedgerSame, CallsSame, TypeOK
<1>4. Untouched(c) /\ made[c] = "summary"
  BY <1>1, <1>3 DEF CallInv, OwnCall
<1>5. \A d \in CallId, t \in Target : RowsOf(d, t)' = RowsOf(d, t)
  BY <1>3 DEF RowsOf
<1>6. OnlyCall(c)
  BY <1>2, <1>3, <1>5 DEF OnlyCall
<1>7. Voice(c)' /\ Told(c)'
  BY <1>3, <1>4, <1>5 DEF Voice, Told, Untouched
<1>8. OwnCall(p)' /\ (pc'[p] # "idle" => req'[p].call = c)
  <2>1. c < nextCall
    BY <1>1, <1>3 DEF CallInv, OwnCall
  <2>2. QED
    BY <1>1, <1>3, <2>1, ReturnTyped DEF OwnCall
<1>9. QED
  BY <1>1, <1>3, <1>6, <1>7, <1>8, CallInvKept

\* The loop is entered with the whole chain untried.
LEMMA ScreenKeeps ==
    ASSUME TypeOK, CallInv, ChainInv, NEW p \in Caller, TypedStep(p), Screen(p)
    PROVE  CallInv'
<1>1. CASE Return(p) /\ Record(p, "guard", "blocked", 1)
  <2>1. "guard" \in RowTarget \ Target /\ "blocked" \in Status /\ 1 \in 0..2
    BY DEF RowTarget, Target, Status
  <2>2. \/ pc'[p] = "idle"
        \/ pc'[p] = "tools" /\ req'[p].call = req[p].call /\ req'[p].kind = "agent"
    BY <1>1, ReturnTyped DEF Screen
  <2>3. QED
    BY <1>1, <2>1, <2>2, QuietMove DEF Screen, CallsSame
<1>2. CASE Goto(p, "try") /\ LedgerSame /\ UNCHANGED req
  <2>1. PICK c \in CallId : c = req[p].call
    BY LocalsTyped DEF Screen
  <2>2. pc[p] = "screen" /\ pc'[p] = "try" /\ UNCHANGED <<fate, shown, made, nextCall>>
    BY <1>2 DEF Screen, Goto, TypeOK, CallsSame
  <2>3. /\ OnlyCall(c) /\ (Untouched(c) => Untouched(c)')
        /\ Voice(c)' /\ Told(c)'
    BY <1>2, <2>1, <2>2, QuietStep
  <2>4. OwnCall(p) /\ Untouched(c)' /\ req[p].left = Chain(req[p].snap)
    BY <2>1, <2>2, <2>3 DEF CallInv, OwnCall
  <2>5. UnderWay(p, c)'
    <3>1. req[p].left \subseteq Target
      BY <2>2, LocalsTyped
    <3>2. QED
      BY <1>2, <2>2, <2>4, <3>1 DEF UnderWay, Untouched
  <2>6. OwnCall(p)'
    BY <1>2, <2>1, <2>2, <2>4, <2>5 DEF OwnCall
  <2>7. QED
    BY <1>2, <2>1, <2>2, <2>3, <2>6, CallInvKept
<1>3. QED
  BY <1>1, <1>2 DEF Screen

\* Where a caller in the loop is, and what its call has come to.
LEMMA InTheLoop ==
    ASSUME TypeOK, CallInv, ChainInv, NEW p \in Caller, pc[p] \in {"try", "wait", "flow"}
    PROVE  /\ req[p] \in Locals /\ req[p].call \in CallId
           /\ UnderWay(p, req[p].call) /\ req[p].call < nextCall
           /\ made[req[p].call] = req[p].kind
           /\ req[p].left \subseteq Target
           /\ req[p].left # {} => Current(p) \in req[p].left
BY LocalsTyped, CurrentIsLeft DEF CallInv, OwnCall, InLoop

\* A target is passed over, or the next one is asked.
LEMMA NextTargetKeeps ==
    ASSUME TypeOK, CallInv, ChainInv, NEW p \in Caller, TypedStep(p), NextTarget(p)
    PROVE  CallInv'
<1>1. PICK c \in CallId : c = req[p].call
  BY LocalsTyped DEF NextTarget
<1>2. /\ pc[p] = "try" /\ LedgerSame /\ UNCHANGED <<shown, made, nextCall>>
      /\ pc \in [Caller -> Labels] /\ req \in [Caller -> Locals \cup {None}]
  BY DEF NextTarget, CallsSame, TypeOK
<1>3. /\ req[p] \in Locals /\ UnderWay(p, c) /\ c < nextCall /\ made[c] = req[p].kind
      /\ req[p].left \subseteq Target
      /\ req[p].left # {} => Current(p) \in req[p].left
  BY <1>1, <1>2, InTheLoop
<1>4. CASE Return(p) /\ UNCHANGED fate
  <2>1. \/ pc'[p] = "idle"
        \/ pc'[p] = "tools" /\ req'[p].call = req[p].call /\ req'[p].kind = "agent"
    BY <1>2, <1>4, ReturnTyped
  <2>2. QED
    BY <1>2, <1>4, <2>1, QuietMove
<1>5. CASE /\ req[p].left # {} /\ ~Allowed(req[p].snap.policy, Current(p))
           /\ req' = [req EXCEPT ![p].left = @ \ {Current(p)}]
           /\ UNCHANGED <<pc, fate>>
  <2>1. /\ req'[p].left = req[p].left \ {Current(p)} /\ req'[p].snap = req[p].snap
        /\ req'[p].call = c /\ req'[p].kind = req[p].kind /\ pc'[p] = "try"
    BY <1>1, <1>2, <1>3, <1>5 DEF Locals
  <2>2. OnlyCall(c) /\ Voice(c)' /\ Told(c)'
    BY <1>1, <1>2, <1>5, QuietStep
  <2>3. UnderWay(p, c)'
    BY <1>2, <1>3, <1>5, <2>1 DEF UnderWay
  <2>4. OwnCall(p)'
    BY <1>2, <1>3, <2>1, <2>3 DEF OwnCall
  <2>5. QED
    BY <1>1, <1>2, <2>1, <2>2, <2>4, CallInvKept
<1>6. CASE req[p].left # {} /\ Became(p, "pending") /\ Goto(p, "wait") /\ UNCHANGED req
  <2>1. PICK cur \in Target : cur = Current(p) /\ cur \in req[p].left
    BY <1>3, <1>6
  <2>2. /\ \A d \in CallId \ {c} : fate'[d] = fate[d]
        /\ \A t \in Target \ {cur} : fate'[c][t] = fate[c][t]
        /\ fate'[c][cur] = "pending" /\ fate[c][cur] = "none"
        /\ shown[c] = {}
    BY <1>1, <1>2, <1>3, <1>6, <2>1 DEF Became, TypeOK, UnderWay
  <2>3. pc'[p] = "wait" /\ req'[p] = req[p]
    BY <1>2, <1>6 DEF Goto
  <2>4. Current(p)' = cur
    BY <2>1, <2>3 DEF Current
  <2>5. \A d \in CallId, t \in Target : RowsOf(d, t)' = RowsOf(d, t)
    BY <1>2 DEF LedgerSame, RowsOf
  <2>6. OnlyCall(c)
    BY <1>2, <2>2, <2>5 DEF OnlyCall, LedgerSame
  <2>7. UnderWay(p, c)'
    <3>1. \A t \in Target \ req[p].left : fate'[c][t] \in {"none", "failed"}
      BY <1>3, <2>1, <2>2 DEF UnderWay
    <3>2. \A t \in Chain(req[p].snap) \ req[p].left :
              Allowed(req[p].snap.policy, t) => fate'[c][t] = "failed"
      <4>1. Chain(req[p].snap) \subseteq Target
        BY <1>2, ChainIsChosen, OrderIsStrict DEF ChainInv, InLoop
      <4>2. QED
        BY <1>3, <2>1, <2>2, <4>1 DEF UnderWay
    <3>3. \A t \in req[p].left : t # cur => fate'[c][t] = "none"
      BY <1>2, <1>3, <2>2 DEF UnderWay
    <3>4. shown'[c] = {} /\ fate'[c][cur] = "pending"
      BY <1>2, <2>2
    <3>5. QED
      BY <2>3, <2>4, <3>1, <3>2, <3>3, <3>4 DEF UnderWay
  <2>8. Voice(c)' /\ Told(c)'
    BY <1>2, <2>2, <2>5 DEF Voice, Told, CallInv, LedgerSame
  <2>9. OwnCall(p)'
    BY <1>1, <1>2, <1>3, <2>3, <2>7 DEF OwnCall
  <2>10. QED
    BY <1>1, <1>2, <2>3, <2>6, <2>8, <2>9, CallInvKept
<1>7. QED
  BY <1>4, <1>5, <1>6 DEF NextTarget

\* A token comes from the target that is being asked.
LEMMA TokenKeeps ==
    ASSUME TypeOK, CallInv, ChainInv, NEW p \in Caller, TypedStep(p), Token(p)
    PROVE  CallInv'
<1>1. PICK c \in CallId : c = req[p].call
  BY LocalsTyped DEF Token
<1>2. PICK cur \in Target : cur = Current(p) /\ cur \in req[p].left
  <2>1. req[p].left # {} /\ pc[p] \in InLoop
    BY DEF Token, TypeOK, InLoop
  <2>2. QED
    BY <2>1, CurrentIsLeft
<1>3. /\ pc[p] = "wait" /\ LedgerSame /\ UNCHANGED <<fate, made, nextCall, req>>
      /\ shown' = [shown EXCEPT ![c] = @ \cup {cur}] /\ pc'[p] = "flow"
  BY <1>1, <1>2 DEF Token, CallsSame, Goto, TypeOK
<1>4. /\ UnderWay(p, c) /\ c < nextCall /\ made[c] = req[p].kind
      /\ req[p].left \subseteq Target
  BY <1>1, <1>3, InTheLoop
<1>5. /\ \A d \in CallId \ {c} : shown'[d] = shown[d]
      /\ shown'[c] = {cur}
  BY <1>3, <1>4 DEF UnderWay, TypeOK
<1>6. \A d \in CallId, t \in Target : RowsOf(d, t)' = RowsOf(d, t)
  BY <1>3 DEF LedgerSame, RowsOf
<1>7. OnlyCall(c)
  BY <1>3, <1>5, <1>6 DEF OnlyCall, LedgerSame
<1>8. UnderWay(p, c)'
  <2>1. Current(p)' = cur
    BY <1>2, <1>3 DEF Current
  <2>2. QED
    BY <1>2, <1>3, <1>4, <1>5, <2>1 DEF UnderWay
<1>9. Voice(c)'
  BY <1>2, <1>3, <1>4, <1>5 DEF Voice, UnderWay
<1>10. Told(c)'
  BY <1>3, <1>6 DEF Told, CallInv, LedgerSame
<1>11. OwnCall(p)'
  BY <1>1, <1>3, <1>4, <1>8 DEF OwnCall
<1>12. QED
  BY <1>1, <1>3, <1>7, <1>9, <1>10, <1>11, CallInvKept

\* A provider answers, fails or is left, and the caller returns, or goes on to
\* what is left of its chain after a failure.
LEMMA AskedKeeps ==
    ASSUME TypeOK, CallInv, ChainInv, NEW p \in Caller, TypedStep(p),
           pc[p] \in {"wait", "flow"}, UNCHANGED <<shown, made, nextCall>>,
           NEW f \in {"answered", "failed", "left"}, Became(p, f),
           \/ f = "answered" /\ \E n \in 0..2 : Record(p, Current(p), "ok", n)
           \/ f = "failed" /\ \E n \in 0..2 : Record(p, Current(p), "error", n)
           \/ f \in {"failed", "left"} /\ req[p].kind = "stream" /\ LedgerSame,
           \/ Return(p)
           \/ /\ pc[p] = "wait" /\ f = "failed" /\ Goto(p, "try")
              /\ req' = [req EXCEPT ![p].left = @ \ {Current(p)}]
    PROVE  CallInv'
<1>1. PICK c \in CallId : c = req[p].call
  BY LocalsTyped
<1>2. /\ OnlyCall(c) /\ Voice(c)' /\ Told(c)'
      /\ \A t \in Target : fate'[c][t] = IF t = Current(p) THEN f ELSE fate[c][t]
  BY <1>1, AskedStep
<1>3. CASE Return(p)
  <2>1. \/ pc'[p] = "idle"
        \/ pc'[p] = "tools" /\ req'[p].call = c /\ req'[p].kind = "agent"
    BY <1>1, <1>3, ReturnTyped
  <2>2. OwnCall(p)'
    BY <1>1, <2>1 DEF OwnCall, CallInv
  <2>3. QED
    BY <1>1, <1>2, <2>1, <2>2, CallInvKept
<1>4. CASE /\ pc[p] = "wait" /\ f = "failed" /\ Goto(p, "try")
           /\ req' = [req EXCEPT ![p].left = @ \ {Current(p)}]
  <2>1. /\ req[p] \in Locals /\ UnderWay(p, c) /\ c < nextCall /\ made[c] = req[p].kind
        /\ req[p].left \subseteq Target
    BY <1>1, <1>4, InTheLoop
  <2>2. /\ req'[p].left = req[p].left \ {Current(p)} /\ req'[p].snap = req[p].snap
        /\ req'[p].call = c /\ req'[p].kind = req[p].kind /\ pc'[p] = "try"
    BY <1>1, <1>4, <2>1 DEF Locals, Goto, TypeOK
  <2>3. UnderWay(p, c)'
    <3>1. \A t \in Target \ req'[p].left : fate'[c][t] \in {"none", "failed"}
      BY <1>2, <1>4, <2>1, <2>2 DEF UnderWay
    <3>2. \A t \in Chain(req'[p].snap) \ req'[p].left :
              Allowed(req'[p].snap.policy, t) => fate'[c][t] = "failed"
      <4>1. Chain(req[p].snap) \subseteq Target
        BY <1>4, ChainIsChosen, OrderIsStrict DEF ChainInv, InLoop
      <4>2. QED
        BY <1>2, <1>4, <2>1, <2>2, <4>1 DEF UnderWay
    <3>3. \A t \in req'[p].left : fate'[c][t] = "none"
      BY <1>2, <1>4, <2>1, <2>2 DEF UnderWay
    <3>4. shown'[c] = {}
      BY <1>4, <2>1 DEF UnderWay
    <3>5. QED
      BY <2>2, <3>1, <3>2, <3>3, <3>4 DEF UnderWay
  <2>4. OwnCall(p)'
    BY <1>1, <2>1, <2>2, <2>3 DEF OwnCall
  <2>5. QED
    BY <1>1, <1>2, <2>2, <2>4, CallInvKept
<1>5. QED
  BY <1>3, <1>4

\* The agent's answer asks for tools: its call is over.
LEMMA UseToolsKeeps ==
    ASSUME TypeOK, CallInv, ChainInv, NEW p \in Caller, TypedStep(p),
           NEW k \in 1..MaxTools, UseTools(p, k)
    PROVE  CallInv'
<1>1. PICK c \in CallId : c = req[p].call
  BY LocalsTyped DEF UseTools
<1>2. UNCHANGED <<shown, made, nextCall>> /\ pc[p] = "wait" /\ pc'[p] = "tools"
  BY DEF UseTools, TypeOK, Goto, CallsSame
<1>3. Became(p, "answered") /\ Record(p, Current(p), "ok", 2) /\ 2 \in 0..2
  BY DEF UseTools
<1>4. OnlyCall(c) /\ Voice(c)' /\ Told(c)'
  BY <1>1, <1>2, <1>3, AskedStep
<1>5. req'[p].call = c /\ req'[p].kind = "agent"
  <2>1. req[p] \in Locals /\ req[p].kind = "agent"
    BY LocalsTyped DEF UseTools
  <2>2. QED
    BY <1>1, <2>1 DEF UseTools, TypeOK, Locals
<1>6. OwnCall(p)'
  BY <1>1, <1>2, <1>5 DEF OwnCall, CallInv
<1>7. QED
  BY <1>1, <1>2, <1>4, <1>5, <1>6, CallInvKept

LEMMA CallInvCaller ==
    ASSUME TypeOK, CallInv, ChainInv, NEW p \in Caller, TypedStep(p),
           Advance(p) \/ \E kind \in CallKind : Arrive(p, kind)
    PROVE  CallInv'
<1>l. pc \in [Caller -> Labels] /\ req \in [Caller -> Locals \cup {None}]
  BY DEF TypeOK
\* A caller that returns, or moves on before its first target.
<1>q. ASSUME pc[p] # "idle", CallsSame, UNCHANGED <<fate, shown>>,
             \/ LedgerSame
             \/ \E target \in {"none", "guard", "embeddings"}, status \in Status,
                   tokens \in 0..2 : Record(p, target, status, tokens),
             \/ Return(p)
             \/ pc'[p] = "tools" /\ req'[p].call = req[p].call /\ req'[p].kind = "agent"
             \/ /\ pc[p] \notin {"try", "wait", "flow", "tools"}
                /\ pc'[p] \notin {"try", "wait", "flow", "summary", "tools"}
                /\ req'[p].call = req[p].call /\ req'[p].kind = req[p].kind
                /\ pc'[p] = "screen" => req'[p].left = Chain(req'[p].snap)
      PROVE  CallInv'
  <2>1. {"none", "guard", "embeddings"} \subseteq RowTarget \ Target
    BY DEF RowTarget, Target
  <2>2. Return(p) =>
          \/ pc'[p] = "idle"
          \/ pc'[p] = "tools" /\ req'[p].call = req[p].call /\ req'[p].kind = "agent"
    BY <1>q, ReturnTyped
  <2>3. \/ LedgerSame
        \/ \E target \in RowTarget \ Target, status \in Status, tokens \in 0..2 :
               Record(p, target, status, tokens)
    BY <1>q, <2>1
  <2>4. UNCHANGED <<fate, shown, made, nextCall>>
    BY <1>q DEF CallsSame
  <2>5. QED
    BY <1>q, <2>2, <2>3, <2>4, QuietMove
<1>1. ASSUME NEW kind \in CallKind, Arrive(p, kind) PROVE CallInv'
  <2>1. kind \in AllKinds /\ nextCall <= MaxCalls
    BY <1>1, KindAssumption, LimitAssumption DEF Arrive, TypeOK
  <2>2. /\ req'[p].call = nextCall /\ req'[p].kind = kind
        /\ pc'[p] \in {"load", "summary", "quota"}
        /\ pc'[p] = "summary" => kind = "summary"
    BY <1>1, <1>l DEF Arrive, Goto
  <2>3. QED
    BY <1>1, <2>1, <2>2, NewCallKeeps DEF Arrive, LedgerSame
<1>2. ASSUME GuardQuota(p) PROVE CallInv'
  <2>1. "quota_denied" \in Status /\ 0 \in 0..2
    BY DEF Status
  <2>2. CASE Record(p, "none", "quota_denied", 0) /\ Return(p)
    BY <1>2, <1>q, <2>1, <2>2 DEF GuardQuota
  <2>3. CASE (Goto(p, "search") \/ Goto(p, "policy")) /\ LedgerSame /\ UNCHANGED req
    BY <1>2, <1>l, <1>q, <2>3 DEF GuardQuota, Goto
  <2>4. QED
    BY <1>2, <2>2, <2>3 DEF GuardQuota
<1>3. ASSUME GuardPolicy(p) PROVE CallInv'
  BY <1>3, <1>l, <1>q DEF GuardPolicy, Goto
<1>4. ASSUME LoadSettings(p) PROVE CallInv'
  <2>1. req[p] \in Locals /\ pc'[p] = "count"
    BY <1>4, <1>l, LocalsTyped DEF LoadSettings, Goto
  <2>2. req'[p].call = req[p].call /\ req'[p].kind = req[p].kind
    BY <1>4, <1>l, <2>1 DEF LoadSettings, Locals
  <2>3. QED
    BY <1>4, <1>q, <2>1, <2>2 DEF LoadSettings
<1>5. ASSUME Gate(p) PROVE CallInv'
  <2>1. CASE Return(p)
    BY <1>5, <1>q, <2>1 DEF Gate
  <2>2. CASE req' = [req EXCEPT ![p].left = Chain(req[p].snap)] /\ Goto(p, "screen")
    <3>1. req[p] \in Locals /\ pc'[p] = "screen"
      BY <1>5, <1>l, <2>2, LocalsTyped DEF Gate, Goto
    <3>2. /\ req'[p].call = req[p].call /\ req'[p].kind = req[p].kind
          /\ req'[p].snap = req[p].snap /\ req'[p].left = Chain(req[p].snap)
      BY <1>l, <2>2, <3>1 DEF Locals
    <3>3. QED
      BY <1>5, <1>q, <3>1, <3>2 DEF Gate
  <2>3. QED
    BY <1>5, <2>1, <2>2 DEF Gate
<1>6. ASSUME Screen(p) PROVE CallInv'
  BY <1>6, ScreenKeeps
<1>7. ASSUME NextTarget(p) PROVE CallInv'
  BY <1>7, NextTargetKeeps
<1>8. ASSUME Answer(p) PROVE CallInv'
  <2>1. 2 \in 0..2
    OBVIOUS
  <2>2. QED
    BY <1>8, <2>1, AskedKeeps DEF Answer, CallsSame
<1>9. ASSUME EndStream(p) PROVE CallInv'
  <2>1. (IF pc[p] = "flow" THEN 2 ELSE 1) \in 0..2
    OBVIOUS
  <2>2. QED
    BY <1>9, <2>1, AskedKeeps DEF EndStream, CallsSame
<1>10. ASSUME BreakStream(p) PROVE CallInv'
  BY <1>10, AskedKeeps DEF BreakStream, CallsSame
<1>11. ASSUME LeaveStream(p) PROVE CallInv'
  BY <1>11, AskedKeeps DEF LeaveStream, CallsSame
<1>12. ASSUME NEW k \in 1..MaxTools, UseTools(p, k) PROVE CallInv'
  BY <1>12, UseToolsKeeps
<1>13. ASSUME SearchTool(p) PROVE CallInv'
  <2>1. req[p] \in Locals /\ pc[p] = "tools" /\ req[p].kind = "agent"
    BY <1>13, LocalsTyped DEF SearchTool, CallInv, OwnCall
  <2>2. "ok" \in Status /\ 1 \in 0..2
    BY DEF Status
  <2>3. /\ pc'[p] = "tools" /\ req'[p].call = req[p].call /\ req'[p].kind = "agent"
    BY <1>13, <1>l, <2>1 DEF SearchTool, Locals
  <2>4. QED
    BY <1>13, <1>q, <2>1, <2>2, <2>3 DEF SearchTool
<1>21. ASSUME AskTool(p) \/ NextRound(p) PROVE CallInv'
  <2>1. req[p] \in Locals /\ pc[p] = "tools" /\ req[p].kind = "agent"
    BY <1>21, LocalsTyped DEF AskTool, NextRound, CallInv, OwnCall
  <2>2. PICK kind \in {"tool", "agent"} :
            CallAgain(p, kind) /\ req'[p].call = nextCall /\ req'[p].kind = kind
    BY <1>21, <1>l, <2>1 DEF AskTool, NextRound, Locals
  <2>3. kind \in AllKinds /\ pc'[p] = "load"
    BY <1>l, <2>2 DEF AllKinds, CallAgain, Goto
  <2>4. QED
    BY <2>2, <2>3, NewCallKeeps DEF CallAgain, LedgerSame
<1>14. ASSUME Fail(p) PROVE CallInv'
  <2>1. 1 \in 0..2 /\ UNCHANGED <<shown, made, nextCall>>
    BY <1>14 DEF Fail, CallsSame
  <2>2. \E n \in 0..2 : Record(p, Current(p), "error", n)
    BY <1>14, <2>1 DEF Fail
  <2>3. QED
    BY <1>14, <2>1, <2>2, AskedKeeps DEF Fail
<1>15. ASSUME RefuseStream(p) PROVE CallInv'
  <2>1. 1 \in 0..2 /\ UNCHANGED <<shown, made, nextCall>>
    BY <1>15 DEF RefuseStream, CallsSame
  <2>2. LedgerSame \/ \E n \in 0..2 : Record(p, Current(p), "error", n)
    BY <1>15, <2>1 DEF RefuseStream
  <2>3. QED
    BY <1>15, <2>1, <2>2, AskedKeeps DEF RefuseStream
<1>16. ASSUME Token(p) PROVE CallInv'
  BY <1>16, TokenKeeps
<1>17. ASSUME Search(p) PROVE CallInv'
  <2>1. "ok" \in Status /\ 1 \in 0..2
    BY DEF Status
  <2>2. QED
    BY <1>17, <1>q, <2>1 DEF Search
<1>18. ASSUME Summarise(p) PROVE CallInv'
  BY <1>18, SummariseKeeps
<1>19. ASSUME GiveUp(p) PROVE CallInv'
  BY <1>19, <1>q DEF GiveUp
<1>22. QED
  BY <1>1, <1>2, <1>3, <1>4, <1>5, <1>6, <1>7, <1>8, <1>9, <1>10, <1>11, <1>12, <1>13,
     <1>14, <1>15, <1>16, <1>17, <1>18, <1>19, <1>21
     DEF Advance, Proceed

\* Editors and the clock leave the calls alone.
LEMMA CallInvElsewhere ==
    ASSUME CallInv, UNCHANGED <<pc, req, fate, shown, made, nextCall, ledger, lost>>
    PROVE  CallInv'
<1>1. \A c, t : RowsOf(c, t)' = RowsOf(c, t)
  BY DEF RowsOf
<1>2. \A c \in CallId : Untouched(c)' = Untouched(c) /\ Voice(c)' = Voice(c)
  BY <1>1 DEF Untouched, Voice
<1>3. \A c \in CallId : Told(c) => Told(c)'
  BY <1>1 DEF Told
<1>4. \A p \in Caller : OwnCall(p) => OwnCall(p)'
  <2> SUFFICES ASSUME NEW p \in Caller, OwnCall(p), pc[p] # "idle" PROVE OwnCall(p)'
    BY DEF OwnCall
  <2>1. PICK c : c = req[p].call
    OBVIOUS
  <2>2. Untouched(c) => Untouched(c)'
    BY <1>1 DEF Untouched
  <2>3. UnderWay(p, c) => UnderWay(p, c)'
    BY DEF UnderWay, Current
  <2>4. QED
    BY <2>1, <2>2, <2>3 DEF OwnCall
<1>5. QED
  BY <1>2, <1>3, <1>4 DEF CallInv, CallsApart

LEMMA CallInvStep == TypedChains /\ CallInv /\ [Next]_vars => CallInv'
<1> SUFFICES ASSUME TypedChains, CallInv, [Next]_vars PROVE CallInv'
  OBVIOUS
<1>1. TypeOK /\ ChainInv
  BY DEF TypedChains
<1>2. ASSUME NEW p \in Caller, Advance(p) \/ \E kind \in CallKind : Arrive(p, kind)
      PROVE  CallInv'
  BY <1>1, <1>2, CallerStepTyped, CallInvCaller
<1>3. ASSUME NEW e \in Editor,
             \/ ReadSettings(e)
             \/ \E policy \in Policies : PutPolicy(e, policy)
             \/ \E routing \in Routings : PutRouting(e, routing)
      PROVE  CallInv'
  BY <1>3, CallInvElsewhere DEF ReadSettings, PutPolicy, PutRouting
<1>4. CASE Expire \/ Quiet \/ UNCHANGED vars
  BY <1>4, CallInvElsewhere DEF Expire, Quiet, vars
<1>5. QED
  BY <1>2, <1>3, <1>4 DEF Next

LEMMA CallInvInit == Init => CallInv
<1> SUFFICES ASSUME Init PROVE CallInv
  OBVIOUS
<1>1. \A c \in CallId : Untouched(c)
  BY DEF Init, Untouched, RowsOf
<1>2. \A c \in CallId : Voice(c) /\ Told(c)
  BY <1>1 DEF Untouched, Voice, Told
<1>3. QED
  BY <1>1, <1>2 DEF Init, CallInv, OwnCall, CallsApart

LEMMA CallInvariance == Spec => [](TypedChains /\ CallInv)
<1>1. QED
  BY TypedChainsInit, CallInvInit, TypedChainsStep, CallInvStep, PTL DEF Spec

\* A target is asked only after every allowed target before it in the order has
\* failed this call, however the owner edits the order meanwhile (the loops of
\* complete, stream and complete_with_tools).
THEOREM FallbackAfterFailure == Spec => []FallbackOnlyAfterFailure
<1>1. TypedChains /\ CallInv => FallbackOnlyAfterFailure
  <2> SUFFICES ASSUME TypedChains, CallInv, NEW p \in Caller, Asking(p),
                      NEW t \in Chain(req[p].snap),
                      Precedes(req[p].snap, t, Current(p)),
                      Allowed(req[p].snap.policy, t)
               PROVE  fate[req[p].call][t] = "failed"
    BY DEF FallbackOnlyAfterFailure
  <2>1. TypeOK /\ ChainInv /\ pc[p] \in {"wait", "flow"}
    BY DEF TypedChains, Asking
  <2>2. UnderWay(p, req[p].call)
    BY <2>1, InTheLoop
  <2>3. /\ req[p].snap \in Settings
        /\ \A u \in req[p].left \ {Current(p)} : Precedes(req[p].snap, Current(p), u)
    BY <2>1, CurrentIsLeft DEF ChainInv, TypeOK, InLoop
  <2>4. t \notin req[p].left
    BY <2>3, OrderIsStrict
  <2>5. QED
    BY <2>2, <2>4 DEF UnderWay
<1>2. QED
  BY <1>1, CallInvariance, PTL

\* The client of a stream never reads a second target's tokens, nor is another
\* target asked once the first token is out (AIGateway.stream).
THEOREM StreamsKeepOneVoice == Spec => []OneVoice
<1>1. CallInv => OneVoice
  BY DEF CallInv, Voice, OneVoice
<1>2. QED
  BY <1>1, CallInvariance, PTL

\* The ledger says of a prompt what the provider would say, once, and misses no
\* answer and no failure but those whose write was lost (record_usage).
THEOREM LedgerIsTrue == Spec => []LedgerTellsTruth
<1>1. TypedChains /\ CallInv => LedgerTellsTruth
  <2> SUFFICES ASSUME TypedChains, CallInv, NEW c \in CallId, NEW t \in Target
               PROVE  /\ Cardinality(RowsOf(c, t)) <= 1
                      /\ \A i \in RowsOf(c, t) :
                          \/ ledger[i].status = "ok" /\ fate[c][t] = "answered"
                          \/ ledger[i].status = "error" /\ fate[c][t] = "failed"
                      /\ \/ fate[c][t] = "answered" /\ made[c] # "summary"
                         \/ fate[c][t] = "failed" /\ made[c] \notin {"stream", "summary"}
                         => RowsOf(c, t) # {} \/ <<c, t>> \in lost
    BY DEF LedgerTellsTruth
  <2>1. Told(c)
    BY DEF CallInv
  <2>2. Cardinality(RowsOf(c, t)) <= 1
    <3>1. CASE RowsOf(c, t) = {}
      BY <3>1, FS_EmptySet
    <3>2. CASE RowsOf(c, t) # {}
      <4>1. PICK i : i \in RowsOf(c, t)
        BY <3>2
      <4>2. RowsOf(c, t) = {i}
        BY <2>1, <4>1 DEF Told
      <4>3. Cardinality({i}) = 1
        BY FS_Singleton
      <4>4. QED
        BY <4>2, <4>3
    <3>3. QED
      BY <3>1, <3>2
  <2>3. QED
    BY <2>1, <2>2 DEF Told
<1>2. QED
  BY <1>1, CallInvariance, PTL
=============================================================================
