--------------------------- MODULE RequestsProofs ---------------------------
(***************************************************************************)
(* Proofs about the parts where requests run side by side and meet only in *)
(* the database: requests that create a source (Sources), that save or     *)
(* activate a prompt (Prompts), that assign and submit (Assignments), that *)
(* sign up and accept (Accounts), that ask within a session (Conversation) *)
(* and that page through the audit log (AuditTrail); and about the tasks   *)
(* that write summaries (Summaries) and verdicts (Validators). Each        *)
(* invariant says what an open step still knows of the rows the others     *)
(* left it. Two parts that use a name for different things have two here.  *)
(***************************************************************************)
EXTENDS Integers, Sequences, FiniteSetTheorems, SequenceTheorems, TLAPS

CONSTANTS
    Source, Preset, Owner, MaxVersions, SavedModule, Learner, Id, MaxRecords,
    Tenant, Email, MaxTokens,
    Call, Session, Principal, MaxTurns,
    Request, Limit, MaxClock,
    Doc, PipelineRun, Worker, Swept, MaxText,
    MaxClaims, None

VARIABLES
    sources, drawn, profiles, posts, overlapped,
    saved, active, txn, choice,
    assigned, records,
    tenants, users, tokens, invites,
    asks, pc, seen, copy, rows, answered, audited, crossed,
    clock, requests, since, paging,
    auto, text, summary, queue, work, run, excused,
    job, done, counts, mustReds, report

Creates == INSTANCE Sources WITH asks <- posts, crossed <- overlapped
Texts == INSTANCE Prompts WITH crossed <- overlapped
Staff == INSTANCE Assignments WITH Module <- SavedModule, User <- Learner, rows <- assigned
People == INSTANCE Accounts
Talk == INSTANCE Conversation
Trail == INSTANCE AuditTrail
Sums == INSTANCE Summaries WITH Batch <- Swept
Judge == INSTANCE Validators
-----------------------------------------------------------------------------
(* ---- Sources --------------------------------------------------------------- *)

\* While no two requests have overlapped, one at most is open, and what it read of the
\* profiles and of its preset still holds, but for deletes.
Alone ==
    ~overlapped =>
        /\ \A o, p \in Owner : posts[o] # {} /\ posts[p] # {} => o = p
        /\ \A o \in Owner : \A a \in posts[o] :
              /\ a.fresh => profiles = 0
              /\ ~a.fresh => profiles = 1
              /\ a.kind # Creates!Folder => Creates!SourcesOf(a.kind) = {}

\* No id is drawn twice: two requests never insert the same source.
IdsDrawn ==
    \A o, p \in Owner : \A a \in posts[o] : \A b \in posts[p] : o # p => a.id # b.id

CreatesInv == Creates!TypeOK /\ IdsDrawn /\ Alone /\ Creates!FoundOnce

LEMMA CreatesInit == Creates!Init => CreatesInv
<1> SUFFICES ASSUME Creates!Init PROVE CreatesInv
  OBVIOUS
<1>1. /\ DOMAIN sources = {} /\ drawn = {} /\ profiles = 0 /\ overlapped = FALSE
      /\ sources = [s \in {} |-> Creates!Folder]
      /\ \A o \in Owner : posts[o] = {}
      /\ posts \in [Owner -> SUBSET Creates!Ask]
  BY DEF Creates!Init
<1>2. Creates!Pending = {}
  BY <1>1 DEF Creates!Pending
<1>3. sources \in [DOMAIN sources -> Creates!Kind]
  BY <1>1
<1>4. Creates!TypeOK
  BY <1>1, <1>2, <1>3 DEF Creates!TypeOK
<1>5. IdsDrawn /\ Alone
  BY <1>1 DEF IdsDrawn, Alone
<1>6. Creates!FoundOnce
  BY <1>1 DEF Creates!FoundOnce, Creates!SourcesOf
<1> QED BY <1>4, <1>5, <1>6 DEF CreatesInv

LEMMA CreatesRead ==
    ASSUME CreatesInv, NEW o \in Owner, NEW s \in Source, NEW k \in Creates!Kind,
           Creates!Read(o, s, k)
    PROVE  CreatesInv'
<1> DEFINE ask == [id |-> s, kind |-> k, fresh |-> profiles = 0]
<1>1. ask \in Creates!Ask /\ ask.kind = k /\ (ask.fresh <=> profiles = 0) /\ ask.id = s
  BY DEF Creates!Ask
<1>2. /\ \A p \in Owner : posts'[p] = IF p = o THEN {ask} ELSE posts[p]
      /\ posts' \in [Owner -> SUBSET Creates!Ask]
  BY <1>1 DEF Creates!Read, CreatesInv, Creates!TypeOK
<1> HIDE DEF ask
<1>3. /\ s \notin drawn /\ drawn' = drawn \cup {s}
      /\ UNCHANGED <<sources, profiles>>
      /\ DOMAIN sources \subseteq drawn
  BY DEF Creates!Read, CreatesInv, Creates!TypeOK
<1>4. \A p \in Owner : \A a \in posts[p] : a.id \in drawn /\ a.id \notin DOMAIN sources
  BY DEF CreatesInv, Creates!TypeOK, Creates!Pending
<1>5. \A a \in Creates!Pending' : a.id \in drawn' /\ a.id \notin DOMAIN sources'
  BY <1>1, <1>2, <1>3, <1>4 DEF Creates!Pending
<1>6. Creates!TypeOK'
  BY <1>2, <1>3, <1>5 DEF Creates!Read, CreatesInv, Creates!TypeOK
<1>7. IdsDrawn'
  BY <1>1, <1>2, <1>3, <1>4 DEF CreatesInv, IdsDrawn
<1>8. Creates!FoundOnce'
  BY DEF Creates!Read, CreatesInv, Creates!FoundOnce, Creates!SourcesOf
<1>9. ASSUME ~overlapped'
      PROVE  Alone'
  <2>1. ~overlapped /\ \A p \in Owner : posts[p] = {}
    BY <1>9 DEF Creates!Read, Creates!Pending
  <2>2. \A p \in Owner : posts'[p] # {} => p = o
    BY <1>2, <2>1
  <2>3. \A a \in posts'[o] : a = ask
    BY <1>2
  <2>4. profiles \in {0, 1}
    BY <2>1 DEF Creates!Read, CreatesInv, Creates!TypeOK, Creates!FoundOnce
  <2>5. k # Creates!Folder => Creates!SourcesOf(k)' = {}
    BY DEF Creates!Read, Creates!NotEnabled, Creates!SourcesOf
  <2> QED BY <1>1, <2>2, <2>3, <2>4, <2>5 DEF Alone, Creates!Read
<1> QED BY <1>6, <1>7, <1>8, <1>9 DEF CreatesInv, Alone

LEMMA CreatesInsert ==
    ASSUME CreatesInv, NEW o \in Owner, Creates!Insert(o)
    PROVE  CreatesInv'
<1>1. PICK a \in posts[o] :
        /\ sources' = [s \in DOMAIN sources \cup {a.id} |->
                         IF s = a.id THEN a.kind ELSE sources[s]]
        /\ profiles' = IF a.fresh THEN profiles + 1 ELSE profiles
        /\ posts' = [posts EXCEPT ![o] = {}]
        /\ UNCHANGED <<drawn, overlapped>>
  BY DEF Creates!Insert
<1>2. a \in Creates!Ask /\ a.kind \in Creates!Kind
  BY DEF CreatesInv, Creates!TypeOK, Creates!Ask
<1>3. /\ posts' \in [Owner -> SUBSET Creates!Ask]
      /\ posts'[o] = {}
      /\ \A p \in Owner \ {o} : posts'[p] = posts[p]
  BY <1>1 DEF CreatesInv, Creates!TypeOK
<1>4. \A p \in Owner : \A b \in posts[p] : b.id \in drawn /\ b.id \notin DOMAIN sources
  BY DEF CreatesInv, Creates!TypeOK, Creates!Pending
<1>5. \A p \in Owner : \A b \in posts'[p] : b.id \in drawn' /\ b.id \notin DOMAIN sources'
  BY <1>1, <1>3, <1>4 DEF CreatesInv, IdsDrawn
<1>6. /\ sources' \in [DOMAIN sources' -> Creates!Kind]
      /\ DOMAIN sources' \subseteq drawn'
  BY <1>1, <1>2, <1>4 DEF CreatesInv, Creates!TypeOK
<1>7. Creates!TypeOK'
  BY <1>1, <1>3, <1>5, <1>6 DEF CreatesInv, Creates!TypeOK, Creates!Pending
<1>8. IdsDrawn'
  BY <1>3 DEF CreatesInv, IdsDrawn
<1>9. ASSUME ~overlapped
      PROVE  Alone' /\ Creates!FoundOnce'
  <2>1. \A p \in Owner : posts[p] # {} => p = o
    BY <1>9 DEF CreatesInv, Alone
  <2>2. \A p \in Owner : posts'[p] = {}
    BY <1>3, <2>1
  <2>3. profiles' = 1
    BY <1>1, <1>9 DEF CreatesInv, Alone, Creates!TypeOK
  <2>4. ASSUME NEW k \in Creates!Kind \ {Creates!Folder},
               NEW s \in Creates!SourcesOf(k)', NEW t \in Creates!SourcesOf(k)'
        PROVE  s = t
    <3>1. ASSUME NEW u \in Creates!SourcesOf(k)'
          PROVE  (u = a.id /\ a.kind = k) \/ u \in Creates!SourcesOf(k)
      BY <1>1, <3>1 DEF Creates!SourcesOf
    <3>2. a.kind = k => Creates!SourcesOf(k) = {}
      BY <1>9 DEF CreatesInv, Alone
    <3> QED BY <1>9, <2>4, <3>1, <3>2 DEF CreatesInv, Creates!FoundOnce
  <2> QED BY <2>2, <2>3, <2>4 DEF Alone, Creates!FoundOnce
<1> QED BY <1>1, <1>7, <1>8, <1>9 DEF CreatesInv, Alone, Creates!FoundOnce

LEMMA CreatesOther ==
    ASSUME CreatesInv,
           \/ \E o \in Owner : Creates!Abort(o)
           \/ \E s \in Source : Creates!Delete(s)
           \/ UNCHANGED Creates!vars
    PROVE  CreatesInv'
<1>1. /\ UNCHANGED <<drawn, profiles, overlapped>>
      /\ \A o \in Owner : posts'[o] \subseteq posts[o]
      /\ posts' \in [Owner -> SUBSET Creates!Ask]
  BY DEF Creates!Abort, Creates!Delete, Creates!vars, CreatesInv, Creates!TypeOK
<1>2. /\ DOMAIN sources' \subseteq DOMAIN sources
      /\ sources' \in [DOMAIN sources' -> Creates!Kind]
      /\ \A s \in DOMAIN sources' : sources'[s] = sources[s]
  BY DEF Creates!Abort, Creates!Delete, Creates!vars, CreatesInv, Creates!TypeOK
<1>3. \A k : Creates!SourcesOf(k)' \subseteq Creates!SourcesOf(k)
  BY <1>2 DEF Creates!SourcesOf
<1>4. Creates!Pending' \subseteq Creates!Pending
  BY <1>1 DEF Creates!Pending
<1>5. Creates!TypeOK'
  BY <1>1, <1>2, <1>4 DEF CreatesInv, Creates!TypeOK
<1>6. Alone' /\ IdsDrawn'
  BY <1>1, <1>3 DEF CreatesInv, Alone, IdsDrawn
<1>7. Creates!FoundOnce'
  BY <1>1, <1>3 DEF CreatesInv, Creates!FoundOnce
<1> QED BY <1>5, <1>6, <1>7 DEF CreatesInv

LEMMA CreatesStep == CreatesInv /\ [Creates!Next]_Creates!vars => CreatesInv'
  BY CreatesRead, CreatesInsert, CreatesOther DEF Creates!Next

LEMMA CreatesProves == CreatesInv => Creates!FoundOnce /\ Creates!TypeOK
  BY DEF CreatesInv

\* For any number of requests one after the other, with deletes and failures between
\* and inside them, a preset has one source at most and the tenant one default profile:
\* the scalar_one_or_none of every later request finds one row
\* (routes/ingestion.py:42-76, 152-168).
THEOREM LookupsFindOne == Creates!Spec => []Creates!FoundOnce
<1> QED BY CreatesInit, CreatesStep, CreatesProves, PTL DEF Creates!Spec
-----------------------------------------------------------------------------
(* ---- Prompts --------------------------------------------------------------- *)

VersionsAreCounted == MaxVersions \in Nat

\* A request that has begun its UPDATE works on the rows there were; the version of a save
\* is at most the next one, the version of an activation is among those rows.
RowsSeen ==
    \A o \in Texts!Open :
        /\ txn[o].kind = "save" => txn[o].version <= saved + 1
        /\ txn[o].kind = "activate" => txn[o].version <= saved
        /\ txn[o].step # "read" =>
             \E n \in 0..saved :
                /\ txn[o].rows = 1..n
                /\ txn[o].kind = "save" => txn[o].version <= n + 1
                /\ txn[o].kind = "activate" => txn[o].version <= n

Updated(o) == o \in Texts!Open /\ txn[o].step = "updated"

\* Row locks: no two requests hold one row.
LocksApart ==
    \A o, b \in Owner : Updated(o) /\ Updated(b) /\ o # b => txn[o].rows \cap txn[b].rows = {}

\* While nothing has crossed, one version is active, the one chosen last, and an
\* activation that has begun its UPDATE has it among its rows.
OneActive == ~overlapped => active = IF choice = 0 THEN {} ELSE {choice}
ActiveSeen ==
    ~overlapped =>
        \A o \in Texts!Open :
            txn[o].kind = "activate" /\ txn[o].step # "read" => active \subseteq txn[o].rows

TextsInv ==
    /\ VersionsAreCounted /\ Texts!TypeOK
    /\ RowsSeen /\ LocksApart /\ OneActive /\ ActiveSeen

LEMMA TextsInit == VersionsAreCounted /\ Texts!Init => TextsInv
<1> SUFFICES ASSUME VersionsAreCounted, Texts!Init PROVE TextsInv
  OBVIOUS
<1>1. saved = 0 /\ active = {} /\ choice = 0 /\ overlapped \in BOOLEAN
  BY DEF Texts!Init
<1>2. txn \in [Owner -> Texts!Txn \cup {None}] /\ Texts!Open = {}
  BY DEF Texts!Init, Texts!Open
<1>3. Texts!TypeOK
  <2>1. 0 \in 0..MaxVersions /\ 0 \in 0..0
    BY DEF VersionsAreCounted
  <2> QED BY <1>1, <1>2, <2>1 DEF Texts!TypeOK, VersionsAreCounted
<1>4. RowsSeen /\ LocksApart /\ ActiveSeen
  BY <1>2 DEF RowsSeen, LocksApart, ActiveSeen, Updated
<1>5. OneActive
  BY <1>1 DEF OneActive
<1> QED BY <1>3, <1>4, <1>5 DEF TextsInv

\* What a step does to the request of one owner: the others keep theirs.
LEMMA TextsBegin ==
    ASSUME TextsInv, NEW o \in Owner, NEW kind \in {"save", "activate"},
           NEW v \in Texts!Version, NEW b \in BOOLEAN, Texts!Begin(o, kind, v, b),
           kind = "save" => v = saved + 1, kind = "activate" => v <= saved
    PROVE  TextsInv'
<1> DEFINE t == [kind |-> kind, version |-> v, activates |-> b, step |-> "read", rows |-> {}]
<1>1. t \in Texts!Txn
  BY DEF Texts!Txn
<1>2. UNCHANGED <<saved, active, choice, overlapped>>
  BY DEF Texts!Begin
<1>3. /\ txn' \in [Owner -> Texts!Txn \cup {None}]
      /\ txn'[o] = t
      /\ \A p \in Owner \ {o} : txn'[p] = txn[p]
  BY <1>1 DEF Texts!Begin, TextsInv, Texts!TypeOK
<1> HIDE DEF t
<1>4. t.kind = kind /\ t.version = v /\ t.step = "read"
  BY DEF t
<1>5. Texts!TypeOK'
  BY <1>2, <1>3 DEF TextsInv, Texts!TypeOK
<1>6. RowsSeen'
  BY <1>2, <1>3, <1>4 DEF TextsInv, RowsSeen, Texts!Open, Texts!TypeOK
<1>7. LocksApart'
  BY <1>2, <1>3, <1>4 DEF TextsInv, LocksApart, Updated, Texts!Open
<1>8. OneActive' /\ ActiveSeen'
  BY <1>2, <1>3, <1>4 DEF TextsInv, OneActive, ActiveSeen, Texts!Open
<1> QED BY <1>5, <1>6, <1>7, <1>8 DEF TextsInv, VersionsAreCounted

\* An UPDATE begins on the rows there are.
LEMMA TextsUpdateBegins ==
    ASSUME TextsInv, NEW o \in Owner, Texts!UpdateBegins(o)
    PROVE  TextsInv'
<1>0. PICK t \in Texts!Txn : t = txn[o] /\ o \in Texts!Open /\ t.step = "read"
  BY DEF Texts!UpdateBegins, Texts!Open, TextsInv, Texts!TypeOK
<1>1. UNCHANGED <<saved, active, choice, overlapped>>
  BY DEF Texts!UpdateBegins
<1>2. [t EXCEPT !.step = "updating", !.rows = 1..saved] \in Texts!Txn
  <2>1. 1..saved \in SUBSET Texts!Version
    BY DEF TextsInv, Texts!TypeOK, Texts!Version, VersionsAreCounted
  <2> QED BY <2>1 DEF Texts!Txn
<1>3. PICK u \in Texts!Txn : u = [t EXCEPT !.step = "updating", !.rows = 1..saved]
  BY <1>2
<1>4. /\ u.kind = t.kind /\ u.version = t.version /\ u.step = "updating"
      /\ u.rows = 1..saved
  BY <1>3 DEF Texts!Txn
<1>5. /\ txn' \in [Owner -> Texts!Txn \cup {None}]
      /\ txn'[o] = u
      /\ \A p \in Owner \ {o} : txn'[p] = txn[p]
  BY <1>0, <1>3 DEF Texts!UpdateBegins, TextsInv, Texts!TypeOK
<1>6. Texts!TypeOK'
  BY <1>1, <1>5 DEF TextsInv, Texts!TypeOK
<1>7. RowsSeen'
  <2> SUFFICES ASSUME NEW p \in Texts!Open'
      PROVE  /\ txn'[p].kind = "save" => txn'[p].version <= saved' + 1
             /\ txn'[p].kind = "activate" => txn'[p].version <= saved'
             /\ txn'[p].step # "read" =>
                  \E n \in 0..saved' :
                    /\ txn'[p].rows = 1..n
                    /\ txn'[p].kind = "save" => txn'[p].version <= n + 1
                    /\ txn'[p].kind = "activate" => txn'[p].version <= n
    BY DEF RowsSeen
  <2>1. CASE p = o
    <3>1. saved \in 0..saved
      BY DEF TextsInv, Texts!TypeOK
    <3>2. /\ u.kind = "save" => u.version <= saved + 1
          /\ u.kind = "activate" => u.version <= saved
      BY <1>0, <1>4 DEF TextsInv, RowsSeen
    <3> QED BY <2>1, <3>1, <3>2, <1>1, <1>4, <1>5
  <2>2. CASE p # o
    <3>1. p \in Texts!Open /\ txn'[p] = txn[p]
      BY <2>2, <1>5 DEF Texts!Open
    <3> QED BY <3>1, <1>1 DEF TextsInv, RowsSeen
  <2> QED BY <2>1, <2>2
<1>8. LocksApart'
  BY <1>4, <1>5 DEF TextsInv, LocksApart, Updated, Texts!Open
<1>9. OneActive' /\ ActiveSeen'
  BY <1>1, <1>4, <1>5 DEF TextsInv, OneActive, ActiveSeen, Texts!Open, Texts!TypeOK
<1> QED BY <1>6, <1>7, <1>8, <1>9 DEF TextsInv, VersionsAreCounted

\* It ends when nobody else holds the locks of its rows.
LEMMA TextsUpdateEnds ==
    ASSUME TextsInv, NEW o \in Owner, Texts!UpdateEnds(o)
    PROVE  TextsInv'
<1>0. PICK t \in Texts!Txn : t = txn[o] /\ o \in Texts!Open /\ t.step = "updating"
  BY DEF Texts!UpdateEnds, Texts!Open, TextsInv, Texts!TypeOK
<1>1. UNCHANGED <<saved, active, choice, overlapped>>
  BY DEF Texts!UpdateEnds
<1>2. PICK u \in Texts!Txn : u = [t EXCEPT !.step = "updated"]
  BY DEF Texts!Txn
<1>3. u.kind = t.kind /\ u.version = t.version /\ u.step = "updated" /\ u.rows = t.rows
  BY <1>2 DEF Texts!Txn
<1>4. /\ txn' \in [Owner -> Texts!Txn \cup {None}]
      /\ txn'[o] = u
      /\ \A p \in Owner \ {o} : txn'[p] = txn[p]
  BY <1>0, <1>2 DEF Texts!UpdateEnds, TextsInv, Texts!TypeOK
<1>5. Texts!TypeOK'
  BY <1>1, <1>4 DEF TextsInv, Texts!TypeOK
<1>6. RowsSeen'
  BY <1>0, <1>1, <1>3, <1>4 DEF TextsInv, RowsSeen, Texts!Open
<1>7. LocksApart'
  <2>1. \A p \in Owner \ {o} : Updated(p) => t.rows \cap txn[p].rows = {}
    BY <1>0 DEF Texts!UpdateEnds, Texts!LockedByOthers, Updated
  <2> QED BY <2>1, <1>3, <1>4 DEF TextsInv, LocksApart, Updated, Texts!Open
<1>8. OneActive' /\ ActiveSeen'
  BY <1>0, <1>1, <1>3, <1>4 DEF TextsInv, OneActive, ActiveSeen, Texts!Open
<1> QED BY <1>5, <1>6, <1>7, <1>8 DEF TextsInv, VersionsAreCounted

\* A commit that chooses a version turns every other one off: its UPDATE saw all that was
\* active, and an activation that is still waiting sees the version chosen.
LEMMA TextsCommit ==
    ASSUME TextsInv, NEW o \in Owner, Texts!Ready(o), Texts!Chosen(o), Texts!Close(o),
           overlapped' = (overlapped \/ Texts!Behind(o)),
           \/ txn[o].kind = "save" /\ txn[o].version = saved + 1 /\ saved' = saved + 1
           \/ txn[o].kind = "activate" /\ saved' = saved
    PROVE  TextsInv'
<1>0. PICK t \in Texts!Txn : t = txn[o] /\ o \in Texts!Open
  BY DEF Texts!Ready, Texts!Open, TextsInv, Texts!TypeOK
<1>1. t.version \in 1..MaxVersions /\ saved \in Nat /\ active \subseteq 1..saved
  BY <1>0 DEF Texts!Txn, Texts!Version, TextsInv, Texts!TypeOK
<1>2. t.version <= saved' /\ saved <= saved' /\ saved' \in 0..MaxVersions
  BY <1>0, <1>1 DEF TextsInv, RowsSeen, Texts!TypeOK, VersionsAreCounted
<1>3. /\ txn' \in [Owner -> Texts!Txn \cup {None}]
      /\ txn'[o] = None
      /\ \A p \in Owner \ {o} : txn'[p] = txn[p]
  BY DEF Texts!Close, TextsInv, Texts!TypeOK
<1>4. \A p \in Texts!Open' : p # o /\ p \in Texts!Open /\ txn'[p] = txn[p]
  BY <1>3 DEF Texts!Open
<1>5. \/ t.activates /\ active' = (active \ t.rows) \cup {t.version} /\ choice' = t.version
      \/ ~t.activates /\ active' = active /\ choice' = choice
  BY <1>0 DEF Texts!Chosen
<1>6. ASSUME t.activates
      PROVE  /\ t.step = "updated"
             /\ \E n \in 0..saved :
                  /\ t.rows = 1..n
                  /\ t.kind = "save" => n = saved
                  /\ t.kind = "activate" => t.version <= n
  <2>1. t.step = "updated"
    BY <1>0, <1>6 DEF Texts!Ready
  <2>2. PICK n \in 0..saved :
           /\ t.rows = 1..n
           /\ t.kind = "save" => t.version <= n + 1
           /\ t.kind = "activate" => t.version <= n
    BY <1>0, <2>1 DEF TextsInv, RowsSeen
  <2>3. ASSUME t.kind = "save" PROVE n = saved
    <3>1. t.version = saved + 1
      BY <1>0, <2>3
    <3> QED BY <1>1, <2>2, <2>3, <3>1
  <2> QED BY <2>1, <2>2, <2>3
<1>7. Texts!TypeOK'
  <2>1. active' \subseteq active \cup {t.version} /\ t.version \in 1..saved'
    BY <1>1, <1>2, <1>5
  <2>0. active' \subseteq 1..saved'
    BY <1>1, <1>2, <2>1
  <2>2. choice' \in 0..saved' /\ overlapped' \in BOOLEAN
    BY <1>1, <1>2, <1>5 DEF TextsInv, Texts!TypeOK
  <2> QED BY <1>2, <1>3, <2>0, <2>2 DEF Texts!TypeOK
<1>8. RowsSeen'
  <2> SUFFICES ASSUME NEW p \in Texts!Open'
      PROVE  /\ txn[p].kind = "save" => txn[p].version <= saved' + 1
             /\ txn[p].kind = "activate" => txn[p].version <= saved'
             /\ txn[p].step # "read" =>
                  \E n \in 0..saved' :
                    /\ txn[p].rows = 1..n
                    /\ txn[p].kind = "save" => txn[p].version <= n + 1
                    /\ txn[p].kind = "activate" => txn[p].version <= n
    BY <1>4 DEF RowsSeen
  <2>1. txn[p] \in Texts!Txn /\ txn[p].version \in Nat
    BY <1>4 DEF Texts!Open, TextsInv, Texts!TypeOK, Texts!Txn, Texts!Version
  <2>2. 0..saved \subseteq 0..saved'
    BY <1>1, <1>2
  <2> QED BY <1>1, <1>2, <1>4, <2>1, <2>2 DEF TextsInv, RowsSeen
<1>9. LocksApart'
  BY <1>3, <1>4 DEF TextsInv, LocksApart, Updated
<1>10. ASSUME ~overlapped'
       PROVE  OneActive' /\ ActiveSeen'
  <2>1. ~overlapped /\ ~Texts!Behind(o)
    BY <1>10
  <2>2. ASSUME t.activates
        PROVE  active' = {t.version}
    <3>1. active \subseteq t.rows
      <4>1. CASE t.kind = "save"
        BY <4>1, <1>1, <1>6, <2>2
      <4>2. CASE t.kind = "activate"
        BY <4>2, <1>0, <1>6, <2>1, <2>2 DEF TextsInv, ActiveSeen
      <4> QED BY <4>1, <4>2 DEF Texts!Txn
    <3> QED BY <1>5, <2>2, <3>1
  <2>3. OneActive'
    <3>1. CASE t.activates
      BY <1>1, <1>5, <2>2, <3>1 DEF OneActive
    <3>2. CASE ~t.activates
      BY <1>5, <2>1, <3>2 DEF TextsInv, OneActive
    <3> QED BY <3>1, <3>2
  <2>4. ASSUME NEW p \in Texts!Open', txn'[p].kind = "activate", txn'[p].step # "read"
        PROVE  active' \subseteq txn'[p].rows
    <3>1. p # o /\ p \in Texts!Open /\ p \in Owner /\ txn'[p] = txn[p] /\ txn[p] \in Texts!Txn
      BY <1>4 DEF Texts!Open, TextsInv, Texts!TypeOK
    <3>2. CASE ~t.activates
      BY <1>5, <2>1, <2>4, <3>1, <3>2 DEF TextsInv, ActiveSeen
    <3>3. CASE t.activates /\ txn[p].step = "updating"
      <4>1. t.version \in txn[p].rows
        BY <1>0, <2>1, <2>4, <3>1, <3>3 DEF Texts!Behind
      <4> QED BY <2>2, <3>1, <3>3, <4>1
    <3>4. CASE t.activates /\ txn[p].step = "updated"
      <4>1. PICK m \in 0..saved : txn[p].rows = 1..m /\ txn[p].version <= m
        BY <2>4, <3>1 DEF TextsInv, RowsSeen
      <4>2. txn[p].version \in 1..MaxVersions
        BY <3>1 DEF Texts!Txn, Texts!Version
      <4>3. PICK n \in 0..saved :
               /\ t.rows = 1..n
               /\ t.kind = "save" => n = saved
               /\ t.kind = "activate" => t.version <= n
        BY <1>6, <3>4
      <4>4. t.kind \in {"save", "activate"}
        BY DEF Texts!Txn
      <4>5. 1 \in txn[p].rows /\ 1 \in t.rows
        BY <1>1, <4>1, <4>2, <4>3, <4>4
      <4>6. txn[p].rows \cap t.rows = {}
        BY <1>0, <1>6, <3>1, <3>4 DEF TextsInv, LocksApart, Updated
      <4> QED BY <4>5, <4>6
    <3> QED BY <2>4, <3>1, <3>2, <3>3, <3>4 DEF Texts!Txn
  <2> QED BY <2>3, <2>4 DEF ActiveSeen
<1>11. OneActive' /\ ActiveSeen'
  BY <1>10 DEF OneActive, ActiveSeen
<1> QED BY <1>7, <1>8, <1>9, <1>11 DEF TextsInv, VersionsAreCounted

LEMMA TextsStep == TextsInv /\ [Texts!Next]_Texts!vars => TextsInv'
<1> SUFFICES ASSUME TextsInv, [Texts!Next]_Texts!vars PROVE TextsInv'
  OBVIOUS
<1>1. ASSUME NEW o \in Owner, NEW b \in BOOLEAN, Texts!SaveReads(o, b)
      PROVE  TextsInv'
  <2>1. saved + 1 \in Texts!Version
    BY <1>1 DEF Texts!SaveReads, Texts!Version, TextsInv, Texts!TypeOK, VersionsAreCounted
  <2> QED BY <1>1, <2>1, TextsBegin DEF Texts!SaveReads
<1>2. ASSUME NEW o \in Owner, NEW v \in Texts!Version, Texts!ActivateReads(o, v)
      PROVE  TextsInv'
  <2>1. v <= saved
    BY <1>2 DEF Texts!ActivateReads, TextsInv, Texts!TypeOK
  <2> QED BY <1>2, <2>1, TextsBegin DEF Texts!ActivateReads
<1>3. ASSUME NEW o \in Owner, Texts!UpdateBegins(o) PROVE TextsInv'
  BY <1>3, TextsUpdateBegins
<1>4. ASSUME NEW o \in Owner, Texts!UpdateEnds(o) PROVE TextsInv'
  BY <1>4, TextsUpdateEnds
<1>5. ASSUME NEW o \in Owner, Texts!Save(o) PROVE TextsInv'
  BY <1>5, TextsCommit DEF Texts!Save
<1>6. ASSUME NEW o \in Owner, Texts!Activate(o) PROVE TextsInv'
  BY <1>6, TextsCommit DEF Texts!Activate
<1>7. ASSUME (\E o \in Owner : Texts!Fail(o)) \/ UNCHANGED Texts!vars
      PROVE  TextsInv'
  <2>1. /\ UNCHANGED <<saved, active, choice, overlapped>>
        /\ \A p \in Owner : txn'[p] \in {txn[p], None}
        /\ txn' \in [Owner -> Texts!Txn \cup {None}]
    BY <1>7 DEF Texts!Fail, Texts!Close, Texts!vars, TextsInv, Texts!TypeOK
  <2>2. \A p \in Texts!Open' : p \in Texts!Open /\ txn'[p] = txn[p]
    BY <2>1 DEF Texts!Open
  <2>3. Texts!TypeOK'
    BY <2>1 DEF TextsInv, Texts!TypeOK
  <2>4. RowsSeen' /\ LocksApart'
    BY <2>1, <2>2 DEF TextsInv, RowsSeen, LocksApart, Updated
  <2>5. OneActive' /\ ActiveSeen'
    BY <2>1, <2>2 DEF TextsInv, OneActive, ActiveSeen
  <2> QED BY <2>3, <2>4, <2>5 DEF TextsInv, VersionsAreCounted
<1> QED BY <1>1, <1>2, <1>3, <1>4, <1>5, <1>6, <1>7 DEF Texts!Next

LEMMA TextsProves == TextsInv => Texts!LastChoiceServes
<1> SUFFICES ASSUME TextsInv, ~overlapped PROVE Texts!Served = choice /\ Texts!Shown = choice
  BY DEF Texts!LastChoiceServes
<1>1. choice \in Nat /\ active = IF choice = 0 THEN {} ELSE {choice}
  BY DEF TextsInv, OneActive, Texts!TypeOK
<1> QED BY <1>1 DEF Texts!Served, Texts!Shown

\* For any number of saves and activations of one prompt, overlapping or not: while none
\* has crossed another, the version chosen last is the one that serves and the one that is
\* shown (gateway/prompts.py:100-111, routes/prompts.py:152-246).
THEOREM LastChosenServes == VersionsAreCounted => (Texts!Spec => []Texts!LastChoiceServes)
<1>1. VersionsAreCounted /\ Texts!Spec => []TextsInv
  BY TextsInit, TextsStep, PTL DEF Texts!Spec
<1> QED BY <1>1, TextsProves, PTL
-----------------------------------------------------------------------------
(* ---- Assignments ----------------------------------------------------------- *)

IdsAreIds == None \notin Id
RecordsAreCounted == MaxRecords \in Nat

LEMMA StaffCardinality == \A S : Staff!Cardinality(S) = Cardinality(S)
  BY DEF Staff!Cardinality, Cardinality

(***************************************************************************)
(* The invariant. What the property says of rows and records survives a    *)
(* commit because the rows it adds have ids that no row has had, in this   *)
(* request or in another one that is still open.                           *)
(***************************************************************************)
StaffTyped == Staff!TypeOK /\ IsFiniteSet(records) /\ RecordsAreCounted

IdsOfRows == \A r, s \in assigned : r.id = s.id => r = s
IdsOfInserts ==
    \A o \in Owner : txn[o] # None =>
        /\ \A i, j \in txn[o].insert : i.id = j.id \/ i.user = j.user => i = j
        /\ \A i \in txn[o].insert : \A r \in assigned : r.id # i.id
IdsApart ==
    \A o, b \in Owner : o # b /\ txn[o] # None /\ txn[b] # None =>
        \A i \in txn[o].insert : \A j \in txn[b].insert : i.id # j.id

Once == \A r, s \in assigned : r.module = s.module /\ r.user = s.user => r = s
Proven == \A r \in assigned : r.status = "completed" <=> \E p \in records : p.assignment = r.id
Named == \A p \in records : p.assignment # None => \E r \in assigned : r.id = p.assignment

StaffInv == IdsAreIds /\ StaffTyped /\ IdsOfRows /\ IdsOfInserts /\ IdsApart
        /\ Once /\ Proven /\ Named
-----------------------------------------------------------------------------
LEMMA StaffInit == IdsAreIds /\ RecordsAreCounted /\ Staff!Init => StaffInv
  BY FS_EmptySet
     DEF IdsAreIds, RecordsAreCounted, Staff!Init, StaffInv, StaffTyped, Staff!TypeOK,
         IdsOfRows, IdsOfInserts,
         IdsApart, Once, Proven, Named

\* A request that reads draws ids that neither a row nor another request has.
LEMMA StaffReads ==
    ASSUME StaffInv, NEW o \in Owner, NEW m \in SavedModule, NEW team \in SUBSET Learner,
           Staff!AssignReads(o, m, team)
    PROVE  StaffInv'
<1>1. PICK ids \in [team \ Staff!Assigned(m) -> Id \ Staff!Drawn] :
          /\ \A u, v \in DOMAIN ids : ids[u] = ids[v] => u = v
          /\ txn' = [txn EXCEPT ![o] = [module |-> m,
                        insert |-> {[id |-> ids[u], user |-> u] : u \in DOMAIN ids}]]
  BY DEF Staff!AssignReads
<1> DEFINE new == {[id |-> ids[u], user |-> u] : u \in DOMAIN ids}
<1>2. DOMAIN ids = team \ Staff!Assigned(m) /\ \A u \in DOMAIN ids : ids[u] \in Id \ Staff!Drawn
  BY <1>1
<1>3. new \in SUBSET [id : Id, user : Learner]
  BY <1>2
<1>4. [module |-> m, insert |-> new] \in Staff!Txn
  BY <1>3 DEF Staff!Txn
<1>5. assigned' = assigned /\ records' = records /\ txn[o] = None
  BY DEF Staff!AssignReads
<1>6. /\ txn' \in [Owner -> Staff!Txn \cup {None}]
      /\ txn'[o] = [module |-> m, insert |-> new]
      /\ \A b \in Owner \ {o} : txn'[b] = txn[b]
  BY <1>1, <1>4 DEF StaffInv, StaffTyped, Staff!TypeOK
<1>7. StaffTyped'
  BY <1>5, <1>6 DEF StaffInv, StaffTyped, Staff!TypeOK
<1>8. \A i, j \in new : i.id = j.id \/ i.user = j.user => i = j
  BY <1>1
<1>9. \A i \in new : i.id \notin Staff!Drawn
  BY <1>2
<1>10. \A i \in new : \A r \in assigned : r.id # i.id
  BY <1>9 DEF Staff!Drawn
<1>11. \A b \in Owner : txn[b] # None =>
          \A i \in new : \A j \in txn[b].insert : i.id # j.id
  BY <1>9 DEF Staff!Drawn
<1>12. IdsOfInserts'
  <2> SUFFICES ASSUME NEW b \in Owner, txn'[b] # None
      PROVE  /\ \A i, j \in txn'[b].insert : i.id = j.id \/ i.user = j.user => i = j
             /\ \A i \in txn'[b].insert : \A r \in assigned' : r.id # i.id
    BY DEF IdsOfInserts
  <2>1. CASE b = o
    BY <2>1, <1>5, <1>6, <1>8, <1>10
  <2>2. CASE b # o
    BY <2>2, <1>5, <1>6 DEF StaffInv, IdsOfInserts
  <2> QED BY <2>1, <2>2
<1>13. IdsApart'
  <2> SUFFICES ASSUME NEW a \in Owner, NEW b \in Owner, a # b, txn'[a] # None,
                      txn'[b] # None, NEW i \in txn'[a].insert, NEW j \in txn'[b].insert
      PROVE  i.id # j.id
    BY DEF IdsApart
  <2>1. CASE a = o
    BY <2>1, <1>6, <1>11
  <2>2. CASE b = o
    BY <2>2, <1>6, <1>11
  <2>3. CASE a # o /\ b # o
    BY <2>3, <1>6 DEF StaffInv, IdsApart
  <2> QED BY <2>1, <2>2, <2>3
<1> QED
  BY <1>5, <1>7, <1>12, <1>13
     DEF StaffInv, IdsAreIds, IdsOfRows, Once, Proven, Named

\* A commit adds rows whose ids are new, for team that had none: the constraint.
LEMMA StaffCommits ==
    ASSUME StaffInv, NEW o \in Owner, Staff!AssignCommits(o)
    PROVE  StaffInv'
<1> DEFINE row(i) == [id |-> i.id, module |-> txn[o].module, user |-> i.user,
                      status |-> "assigned"]
           new == {row(i) : i \in txn[o].insert}
<1>1. txn[o] \in Staff!Txn /\ txn[o] # None
  BY DEF Staff!AssignCommits, StaffInv, StaffTyped, Staff!TypeOK
<1>2. /\ txn[o].module \in SavedModule
      /\ \A i \in txn[o].insert : i \in [id : Id, user : Learner]
  BY <1>1 DEF Staff!Txn
<1>3. assigned' = assigned \cup new /\ records' = records
  BY DEF Staff!AssignCommits
<1>4. new \subseteq Staff!Row
  BY <1>2 DEF Staff!Row
<1>5. /\ txn'[o] = None
      /\ \A b \in Owner \ {o} : txn'[b] = txn[b]
      /\ txn' \in [Owner -> Staff!Txn \cup {None}]
  BY DEF Staff!AssignCommits, StaffInv, StaffTyped, Staff!TypeOK
<1>6. StaffTyped'
  BY <1>3, <1>4, <1>5 DEF StaffInv, StaffTyped, Staff!TypeOK
<1>7. \A i, j \in txn[o].insert : i.id = j.id \/ i.user = j.user => i = j
  BY <1>1 DEF StaffInv, IdsOfInserts
<1>8. \A i \in txn[o].insert : \A r \in assigned : r.id # i.id
  BY <1>1 DEF StaffInv, IdsOfInserts
<1>9. \A i \in txn[o].insert : \A r \in assigned : ~(r.module = txn[o].module /\ r.user = i.user)
  BY DEF Staff!AssignCommits, Staff!Unique, Staff!Assigned
<1>10. \A r, s \in new : r.id = s.id \/ r.user = s.user => r = s
  BY <1>7
<1>11. \A r \in new : \A s \in assigned :
          r.id # s.id /\ ~(r.module = s.module /\ r.user = s.user)
  BY <1>8, <1>9
<1>12. IdsOfRows'
  BY <1>3, <1>10, <1>11 DEF StaffInv, IdsOfRows
<1>13. Once'
  BY <1>3, <1>10, <1>11 DEF StaffInv, Once
<1>14. IdsOfInserts'
  <2> SUFFICES ASSUME NEW b \in Owner, txn'[b] # None
      PROVE  /\ \A i, j \in txn'[b].insert : i.id = j.id \/ i.user = j.user => i = j
             /\ \A i \in txn'[b].insert : \A r \in assigned' : r.id # i.id
    BY DEF IdsOfInserts
  <2>1. b # o /\ txn'[b] = txn[b]
    BY <1>5
  <2>2. \A i \in txn[b].insert : \A r \in new : r.id # i.id
    BY <1>1, <2>1 DEF StaffInv, IdsApart
  <2> QED BY <2>1, <2>2, <1>3 DEF StaffInv, IdsOfInserts
<1>15. IdsApart'
  BY <1>5 DEF StaffInv, IdsApart
<1>16. Named'
  BY <1>3 DEF StaffInv, Named
<1>17. \A r \in new : r.status = "assigned" /\ ~\E p \in records : p.assignment = r.id
  BY <1>2, <1>11 DEF StaffInv, Named, IdsAreIds
<1>18. Proven'
  BY <1>3, <1>17 DEF StaffInv, Proven
<1> QED
  BY <1>6, <1>12, <1>13, <1>14, <1>15, <1>16, <1>18 DEF StaffInv, IdsAreIds

LEMMA StaffFails ==
    ASSUME StaffInv, NEW o \in Owner, Staff!AssignFails(o)
    PROVE  StaffInv'
<1>1. /\ assigned' = assigned /\ records' = records
      /\ txn'[o] = None
      /\ \A b \in Owner \ {o} : txn'[b] = txn[b]
      /\ txn' \in [Owner -> Staff!Txn \cup {None}]
  BY DEF Staff!AssignFails, StaffInv, StaffTyped, Staff!TypeOK
<1>2. StaffTyped' /\ IdsOfInserts'
  BY <1>1 DEF StaffInv, StaffTyped, Staff!TypeOK, IdsOfInserts
<1>3. IdsApart'
  BY <1>1 DEF StaffInv, IdsApart
<1> QED
  BY <1>1, <1>2, <1>3 DEF StaffInv, IdsAreIds, IdsOfRows, Once, Proven, Named

\* A submission completes the row it names and leaves the record that proves it.
LEMMA StaffSubmit ==
    ASSUME StaffInv, NEW u \in Learner, NEW m \in SavedModule,
           NEW verdict \in {"passed", "failed", "none"},
           NEW a \in {r.id : r \in assigned} \cup {None}, Staff!Submit(u, m, a, verdict)
    PROVE  StaffInv'
<1> DEFINE closed(r) == IF r.id = a THEN [r EXCEPT !.status = "completed"] ELSE r
           p == [n |-> Staff!Cardinality(records) + 1, module |-> m, user |-> u,
                 assignment |-> a, verdict |-> verdict]
<1>1. records' = records \cup {p} /\ p.assignment = a
  BY DEF Staff!Submit
<1>2. assigned' = {closed(r) : r \in assigned} /\ txn' = txn
  BY DEF Staff!Submit
<1>3. \A r \in assigned :
         /\ closed(r) \in Staff!Row
         /\ closed(r).id = r.id /\ closed(r).module = r.module /\ closed(r).user = r.user
         /\ closed(r).status = IF r.id = a THEN "completed" ELSE r.status
  BY DEF StaffInv, StaffTyped, Staff!TypeOK, Staff!Row
<1>13. /\ IsFiniteSet(records) /\ Cardinality(records) \in Nat
       /\ Cardinality(records) < MaxRecords /\ MaxRecords \in Nat
  BY StaffCardinality, FS_CardinalityType
     DEF Staff!Submit, StaffInv, StaffTyped, RecordsAreCounted
<1>14. Staff!Cardinality(records) + 1 \in 1..MaxRecords
  BY <1>13, StaffCardinality
<1>15. a \in Id \cup {None}
  BY DEF StaffInv, StaffTyped, Staff!TypeOK, Staff!Row
<1>16. p \in Staff!Record
  BY <1>14, <1>15 DEF Staff!Record
<1> HIDE DEF closed, p
<1>17. IsFiniteSet(records')
  BY <1>1, <1>13, FS_AddElement
<1>4. \A q \in assigned' : \E r \in assigned : q = closed(r)
  BY <1>2
<1>5. StaffTyped'
  BY <1>1, <1>2, <1>3, <1>4, <1>13, <1>16, <1>17
     DEF StaffInv, StaffTyped, Staff!TypeOK, RecordsAreCounted
<1>6. IdsOfRows'
  BY <1>3, <1>4 DEF StaffInv, IdsOfRows
<1>7. Once'
  BY <1>3, <1>4 DEF StaffInv, Once
<1>8. IdsOfInserts' /\ IdsApart'
  BY <1>2, <1>3, <1>4 DEF StaffInv, IdsOfInserts, IdsApart
<1>9. Proven'
  <2> SUFFICES ASSUME NEW q \in assigned'
      PROVE  q.status = "completed" <=> \E x \in records' : x.assignment = q.id
    BY DEF Proven
  <2>1. PICK r \in assigned : q = closed(r)
    BY <1>4
  <2>2. CASE r.id = a
    BY <2>1, <2>2, <1>1, <1>3
  <2>3. CASE r.id # a
    BY <2>1, <2>3, <1>1, <1>3 DEF StaffInv, Proven
  <2> QED BY <2>2, <2>3
<1>10. Named'
  <2> SUFFICES ASSUME NEW x \in records', x.assignment # None
      PROVE  \E q \in assigned' : q.id = x.assignment
    BY DEF Named
  <2>1. \E r \in assigned : r.id = x.assignment
    BY <1>1 DEF StaffInv, Named
  <2> QED BY <2>1, <1>2, <1>3
<1> QED
  BY <1>5, <1>6, <1>7, <1>8, <1>9, <1>10 DEF StaffInv, IdsAreIds

LEMMA StaffStep == StaffInv /\ [Staff!Next]_Staff!vars => StaffInv'
<1> SUFFICES ASSUME StaffInv, [Staff!Next]_Staff!vars PROVE StaffInv'
  OBVIOUS
<1>1. ASSUME NEW o \in Owner, NEW m \in SavedModule, NEW team \in (SUBSET Learner) \ {{}},
             Staff!AssignReads(o, m, team)
      PROVE  StaffInv'
  BY <1>1, StaffReads
<1>2. ASSUME NEW o \in Owner, Staff!AssignCommits(o) PROVE StaffInv'
  BY <1>2, StaffCommits
<1>3. ASSUME NEW o \in Owner, Staff!AssignFails(o) PROVE StaffInv'
  BY <1>3, StaffFails
<1>4. ASSUME NEW u \in Learner, NEW m \in SavedModule,
             NEW a \in {r.id : r \in assigned} \cup {None},
             NEW verdict \in {"passed", "failed", "none"}, Staff!Submit(u, m, a, verdict)
      PROVE  StaffInv'
  BY <1>4, StaffSubmit
<1>5. CASE UNCHANGED Staff!vars
  BY <1>5 DEF Staff!vars, StaffInv, IdsAreIds, RecordsAreCounted, StaffTyped, Staff!TypeOK,
         IdsOfRows, IdsOfInserts, IdsApart, Once, Proven, Named
<1> QED BY <1>1, <1>2, <1>3, <1>4, <1>5 DEF Staff!Next

LEMMA StaffProves == StaffInv => Staff!CompletionsAreProven
  BY DEF StaffInv, Once, Proven, Named, Staff!CompletionsAreProven

\* For any number of overlapping assigns and repeated submissions: one row for each user
\* and module, completed exactly when a record names it (routes/training.py:294-344,
\* 443-459).
THEOREM CompletionsProven ==
    IdsAreIds /\ RecordsAreCounted => (Staff!Spec => []Staff!CompletionsAreProven)
<1>1. IdsAreIds /\ RecordsAreCounted /\ Staff!Spec => []StaffInv
  BY StaffInit, StaffStep, PTL DEF Staff!Spec
<1> QED BY <1>1, StaffProves, PTL
-----------------------------------------------------------------------------
(* ---- Accounts -------------------------------------------------------------- *)

LEMMA PeopleCardinality == \A S : People!Cardinality(S) = Cardinality(S)
  BY DEF People!Cardinality, Cardinality

NoneIsNone == None \notin {"trial", "lapsed"}

(***************************************************************************)
(* The invariant. That a workspace has one owner needs what is known of a  *)
(* signup between its look-up and its commit: nobody has opened the        *)
(* workspace it drew, and no other signup has drawn it. An acceptance in   *)
(* the same place knows that its workspace is open.                        *)
(***************************************************************************)
Owns(u, t) == u \in users /\ u.tenant = t /\ u.role = "owner"

OneAccount == \A u, v \in users : u.email = v.email => u = v
TokensKept == tokens \subseteq users
InvitesOpen == \A i \in invites : i.tenant \in People!Opened
UsersHoused == \A u \in users : u.tenant \in People!Opened
OneOwner == \A t \in People!Opened : \E u : Owns(u, t) /\ \A v : Owns(v, t) => v = u
PendingApart ==
    \A o \in Owner : txn[o] # None =>
        /\ txn[o].role # "owner" => txn[o].tenant \in People!Opened
        /\ txn[o].role = "owner" =>
             /\ txn[o].tenant \notin People!Opened
             /\ \A b \in Owner \ {o} : txn[b] # None => txn[b].tenant # txn[o].tenant

PeopleInv == NoneIsNone /\ People!TypeOK /\ OneAccount /\ TokensKept /\ InvitesOpen /\ UsersHoused
        /\ OneOwner /\ PendingApart
-----------------------------------------------------------------------------
LEMMA PeopleInit == NoneIsNone /\ People!Init => PeopleInv
  BY DEF NoneIsNone, People!Init, PeopleInv, People!TypeOK, OneAccount, TokensKept, InvitesOpen,
         UsersHoused,
         OneOwner, PendingApart, People!Opened

\* A look-up leaves everything but the request's own place alone.
LEMMA PeopleReads ==
    ASSUME PeopleInv, NEW o \in Owner, NEW user \in People!User, People!Reads(o, user),
           user.role # "owner" => user.tenant \in People!Opened,
           user.role = "owner" =>
              user.tenant \notin People!Opened \cup {u.tenant : u \in People!Pending}
    PROVE  PeopleInv'
<1>1. /\ txn' \in [Owner -> People!User \cup {None}]
      /\ txn'[o] = user
      /\ \A b \in Owner \ {o} : txn'[b] = txn[b]
      /\ UNCHANGED <<tenants, users, tokens, invites>>
  BY DEF People!Reads, PeopleInv, People!TypeOK
<1>2. People!Opened' = People!Opened
  BY <1>1 DEF People!Opened
<1>3. user.role = "owner" => \A b \in Owner : txn[b] # None => txn[b].tenant # user.tenant
  BY DEF People!Pending
<1>4. \A b \in Owner : txn[b] # None /\ txn[b].role = "owner" => txn[b].tenant # user.tenant
  BY <1>3 DEF PeopleInv, PendingApart
<1>5. PendingApart'
  <2> SUFFICES ASSUME NEW b \in Owner, txn'[b] # None
      PROVE  /\ txn'[b].role # "owner" => txn'[b].tenant \in People!Opened
             /\ txn'[b].role = "owner" =>
                  /\ txn'[b].tenant \notin People!Opened
                  /\ \A c \in Owner \ {b} :
                        txn'[c] # None => txn'[c].tenant # txn'[b].tenant
    BY <1>2 DEF PendingApart
  <2>1. CASE b = o
    BY <2>1, <1>1, <1>3
  <2>2. CASE b # o
    BY <2>2, <1>1, <1>4 DEF PeopleInv, PendingApart
  <2> QED BY <2>1, <2>2
<1>6. People!TypeOK'
  BY <1>1 DEF PeopleInv, People!TypeOK
<1> QED
  BY <1>1, <1>2, <1>5, <1>6
     DEF PeopleInv, NoneIsNone, OneAccount, TokensKept, InvitesOpen, UsersHoused, OneOwner, Owns

\* A signup opens a workspace that nobody had, with its owner and the owner's token.
LEMMA PeopleSignup ==
    ASSUME PeopleInv, NEW o \in Owner, People!Signup(o)
    PROVE  PeopleInv'
<1>0. PICK user : user = txn[o]
  OBVIOUS
<1>1. /\ user \in People!User /\ user # None /\ user.role = "owner" /\ user.tenant \in Tenant
      /\ \A u \in users : u.email # user.email
  BY <1>0 DEF People!Signup, People!FreeEmail, People!Registered, PeopleInv, People!TypeOK,
              People!User
<1>2. /\ users' = users \cup {user} /\ tokens' = tokens \cup {user} /\ invites' = invites
      /\ tenants' = [tenants EXCEPT ![user.tenant] = "trial"]
  BY <1>0 DEF People!Signup, People!Token
<1>3. People!Opened' = People!Opened \cup {user.tenant}
  BY <1>1, <1>2 DEF People!Opened, PeopleInv, People!TypeOK, NoneIsNone
<1>4. /\ txn' \in [Owner -> People!User \cup {None}]
      /\ txn'[o] = None
      /\ \A b \in Owner \ {o} : txn'[b] = txn[b]
  BY DEF People!Signup, People!Close, PeopleInv, People!TypeOK
<1>5. user.tenant \notin People!Opened
  BY <1>0, <1>1 DEF PeopleInv, PendingApart
<1>6. People!TypeOK'
  BY <1>1, <1>2, <1>4 DEF PeopleInv, People!TypeOK
<1>7. OneAccount' /\ TokensKept'
  BY <1>1, <1>2 DEF PeopleInv, OneAccount, TokensKept
<1>8. InvitesOpen' /\ UsersHoused'
  BY <1>2, <1>3 DEF PeopleInv, InvitesOpen, UsersHoused
<1>9. OneOwner'
  <2> SUFFICES ASSUME NEW t \in People!Opened'
      PROVE  \E u : Owns(u, t)' /\ \A v : Owns(v, t)' => v = u
    BY DEF OneOwner
  <2>1. CASE t = user.tenant
    <3>1. \A v : Owns(v, t)' => v = user
      BY <2>1, <1>2, <1>5 DEF Owns, PeopleInv, UsersHoused
    <3>2. Owns(user, t)'
      BY <2>1, <1>1, <1>2 DEF Owns
    <3> QED BY <3>1, <3>2
  <2>2. CASE t # user.tenant
    <3>1. \A v : Owns(v, t)' <=> Owns(v, t)
      BY <2>2, <1>2 DEF Owns
    <3>2. t \in People!Opened
      BY <2>2, <1>3
    <3> QED BY <3>1, <3>2 DEF PeopleInv, OneOwner
  <2> QED BY <2>1, <2>2
<1>10. PendingApart'
  BY <1>0, <1>1, <1>3, <1>4 DEF PeopleInv, PendingApart
<1> QED BY <1>6, <1>7, <1>8, <1>9, <1>10 DEF PeopleInv, NoneIsNone

\* An acceptance adds somebody who owns nothing, to a workspace that is open.
LEMMA PeopleAccept ==
    ASSUME PeopleInv, NEW o \in Owner, People!Accept(o)
    PROVE  PeopleInv'
<1>0. PICK user : user = txn[o]
  OBVIOUS
<1>1. /\ user \in People!User /\ user # None /\ user.role # "owner"
      /\ \A u \in users : u.email # user.email
  BY <1>0 DEF People!Accept, People!FreeEmail, People!Registered, PeopleInv, People!TypeOK
<1>2. users' = users \cup {user} /\ UNCHANGED <<tenants, tokens, invites>>
  BY <1>0 DEF People!Accept
<1>3. People!Opened' = People!Opened /\ user.tenant \in People!Opened
  BY <1>0, <1>1, <1>2 DEF People!Opened, PeopleInv, PendingApart
<1>4. /\ txn' \in [Owner -> People!User \cup {None}]
      /\ txn'[o] = None
      /\ \A b \in Owner \ {o} : txn'[b] = txn[b]
  BY DEF People!Accept, People!Close, PeopleInv, People!TypeOK
<1>5. People!TypeOK' /\ OneAccount' /\ TokensKept'
  BY <1>1, <1>2, <1>4 DEF PeopleInv, People!TypeOK, OneAccount, TokensKept
<1>6. InvitesOpen' /\ UsersHoused'
  BY <1>2, <1>3 DEF PeopleInv, InvitesOpen, UsersHoused
<1>7. \A v, t : Owns(v, t)' <=> Owns(v, t)
  BY <1>1, <1>2 DEF Owns
<1>8. OneOwner'
  BY <1>3, <1>7 DEF PeopleInv, OneOwner
<1>9. PendingApart'
  BY <1>3, <1>4 DEF PeopleInv, PendingApart
<1> QED BY <1>5, <1>6, <1>8, <1>9 DEF PeopleInv, NoneIsNone

\* What is left touches neither the users nor which workspaces are open.
LEMMA PeopleOther ==
    ASSUME PeopleInv, users' = users, People!Opened' = People!Opened, People!TypeOK',
           TokensKept', InvitesOpen',
           \A o \in Owner : txn'[o] \in {txn[o], None}
    PROVE  PeopleInv'
<1>1. \A v, t : Owns(v, t)' <=> Owns(v, t)
  BY DEF Owns
<1>2. OneOwner'
  BY <1>1 DEF PeopleInv, OneOwner
<1>3. PendingApart'
  BY DEF PeopleInv, PendingApart
<1> QED BY <1>2, <1>3 DEF PeopleInv, NoneIsNone, OneAccount, UsersHoused

LEMMA PeopleStep == PeopleInv /\ [People!Next]_People!vars => PeopleInv'
<1> SUFFICES ASSUME PeopleInv, [People!Next]_People!vars PROVE PeopleInv'
  OBVIOUS
<1> USE DEF PeopleInv
<1>1. ASSUME NEW o \in Owner, NEW e \in Email, NEW t \in Tenant, People!SignupReads(o, e, t)
      PROVE  PeopleInv'
  <2>1. [email |-> e, tenant |-> t, role |-> "owner"] \in People!User
    BY DEF People!User, People!Role
  <2> QED BY <1>1, <2>1, PeopleReads DEF People!SignupReads
<1>2. ASSUME NEW o \in Owner, People!Signup(o) PROVE PeopleInv'
  BY <1>2, PeopleSignup
<1>3. ASSUME NEW o \in Owner, People!Accept(o) PROVE PeopleInv'
  BY <1>3, PeopleAccept
<1>4. ASSUME NEW o \in Owner, People!Fail(o) PROVE PeopleInv'
  BY <1>4, PeopleOther DEF People!Fail, People!Close, People!Opened, People!TypeOK, TokensKept,
                           InvitesOpen
<1>5. ASSUME NEW token \in tokens, NEW role \in {"admin", "member"},
             People!CreateInvite(token, role)
      PROVE  PeopleInv'
  <2>1. token \in People!User /\ token.tenant \in People!Opened
    BY DEF TokensKept, People!TypeOK, UsersHoused
  <2>2. [tenant |-> token.tenant, role |-> role] \in People!Invite
    BY <2>1 DEF People!User, People!Invite, People!Role
  <2> QED
    BY <1>5, <2>1, <2>2, PeopleOther DEF People!CreateInvite, People!Opened, People!TypeOK,
                                         TokensKept, InvitesOpen
<1>6. ASSUME NEW o \in Owner, NEW i \in invites, NEW e \in Email, People!AcceptReads(o, i, e)
      PROVE  PeopleInv'
  <2>1. i \in People!Invite
    BY DEF People!TypeOK
  <2>2. [email |-> e, tenant |-> i.tenant, role |-> i.role] \in People!User /\ i.role # "owner"
    BY <2>1 DEF People!User, People!Invite, People!Role
  <2> QED BY <1>6, <2>2, PeopleReads DEF People!AcceptReads
<1>7. ASSUME NEW user \in users, People!Login(user) PROVE PeopleInv'
  BY <1>7, PeopleOther DEF People!Login, People!Token, People!Opened, People!TypeOK, TokensKept,
                           InvitesOpen
<1>8. ASSUME NEW token \in tokens, People!TokenExpires(token) PROVE PeopleInv'
  BY <1>8, PeopleOther DEF People!TokenExpires, People!Opened, People!TypeOK, TokensKept,
                           InvitesOpen
<1>9. ASSUME NEW invite \in invites, People!InviteExpires(invite) PROVE PeopleInv'
  BY <1>9, PeopleOther DEF People!InviteExpires, People!Opened, People!TypeOK, TokensKept,
                           InvitesOpen
<1>10. ASSUME NEW t \in Tenant, People!TrialLapses(t) PROVE PeopleInv'
  <2>1. People!Opened' = People!Opened
    BY <1>10 DEF People!TrialLapses, People!Opened, People!TypeOK, NoneIsNone
  <2> QED BY <1>10, <2>1, PeopleOther DEF People!TrialLapses, People!TypeOK, TokensKept,
  InvitesOpen
<1>11. CASE UNCHANGED People!vars
  BY <1>11, PeopleOther DEF People!vars, People!Opened, People!TypeOK, TokensKept, InvitesOpen
<1> QED
  BY <1>1, <1>2, <1>3, <1>4, <1>5, <1>6, <1>7, <1>8, <1>9, <1>10, <1>11 DEF People!Next

LEMMA PeopleProves == PeopleInv => People!TokensNameTheirAccount
<1> SUFFICES ASSUME PeopleInv PROVE People!TokensNameTheirAccount
  OBVIOUS
<1>1. \A token \in tokens : People!FoundBy(token.email) = {token}
  BY DEF PeopleInv, TokensKept, OneAccount, People!FoundBy
<1>2. ASSUME NEW t \in People!Opened
      PROVE  People!Cardinality({u \in users : u.tenant = t /\ u.role = "owner"}) = 1
  <2>1. PICK u : Owns(u, t) /\ \A v : Owns(v, t) => v = u
    BY DEF PeopleInv, OneOwner
  <2>2. {v \in users : v.tenant = t /\ v.role = "owner"} = {u}
    BY <2>1 DEF Owns
  <2> QED BY <2>2, FS_Singleton, PeopleCardinality
<1> QED BY <1>1, <1>2 DEF PeopleInv, InvitesOpen, UsersHoused, People!TokensNameTheirAccount

\* For any overlapping signups and acceptances: a token leads back to the one account it was
\* given to, and every workspace has one owner (routes/auth.py:83-242,
\* routes/admin.py:119-251).
THEOREM AccountsKept == NoneIsNone => (People!Spec => []People!TokensNameTheirAccount)
<1>1. NoneIsNone /\ People!Spec => []PeopleInv
  BY PeopleInit, PeopleStep, PTL DEF People!Spec
<1> QED BY <1>1, PeopleProves, PTL
-----------------------------------------------------------------------------
(* ---- Conversation ------------------------------------------------------ *)

\* A window holds a turn at least, and None is no ask, no list of turns and no row.
TurnsAreCounted == MaxTurns \in Nat \ {0}
NoneIsNoTurn ==
    None \notin Talk!Ask \cup Seq(Call) \cup [who : Principal, turns : Seq(Call)]

\* What a window keeps of a list of turns with one more: all of it while there is room,
\* and MaxTurns of it after that, the new one among them.
LEMMA WindowKeeps ==
    ASSUME TurnsAreCounted, NEW q \in Seq(Call), NEW c \in Call
    PROVE  LET w == Talk!Window(Append(q, c))
           IN  /\ w \in Seq(Call) /\ Len(w) \in 1..MaxTurns
               /\ c \in Talk!Members(w)
               /\ Talk!Members(w) \subseteq Talk!Members(q) \cup {c}
               /\ Len(w) # MaxTurns =>
                     /\ Len(w) = Len(q) + 1
                     /\ Talk!Members(w) = Talk!Members(q) \cup {c}
                     /\ w[1] = IF Len(q) = 0 THEN c ELSE q[1]
<1> DEFINE a == Append(q, c)
           n == Len(q)
           w == Talk!Window(a)
<1>1. /\ n \in Nat /\ a \in Seq(Call) /\ Len(a) = n + 1 /\ DOMAIN a = 1..(n + 1)
      /\ DOMAIN q = 1..n
      /\ \A i \in 1..n : a[i] = q[i]
      /\ a[n + 1] = c
  OBVIOUS
<1>2. MaxTurns \in Nat /\ MaxTurns > 0
  BY DEF TurnsAreCounted
<1> HIDE DEF a, n
<1>3. CASE n + 1 <= MaxTurns
  <2>1. w = a
    BY <1>1, <1>3 DEF Talk!Window
  <2>2. Talk!Members(a) = Talk!Members(q) \cup {c}
    <3>1. \A i \in DOMAIN a : a[i] \in Talk!Members(q) \cup {c}
      BY <1>1 DEF Talk!Members
    <3>2. \A i \in DOMAIN q : q[i] \in Talk!Members(a)
      BY <1>1 DEF Talk!Members
    <3>3. c \in Talk!Members(a)
      BY <1>1 DEF Talk!Members
    <3> QED BY <3>1, <3>2, <3>3 DEF Talk!Members
  <2>3. a[1] = IF n = 0 THEN c ELSE q[1]
    BY <1>1
  <2> QED BY <1>1, <1>2, <1>3, <2>1, <2>2, <2>3 DEF a, n
<1>4. CASE ~(n + 1 <= MaxTurns)
  <2>9. (n + 1) - MaxTurns + 1 = n + 2 - MaxTurns
    BY <1>1, <1>2
  <2>8. w = SubSeq(a, Len(a) - MaxTurns + 1, Len(a))
    <3>1. ~(Len(a) <= MaxTurns)
      BY <1>1, <1>4
    <3> QED BY <3>1 DEF Talk!Window
  <2>1. w = SubSeq(a, n + 2 - MaxTurns, n + 1)
    BY <1>1, <2>9, <2>8
  <2>2. /\ n + 2 - MaxTurns \in 1..(n + 2) /\ n + 1 \in 0..Len(a)
        /\ n + 2 - MaxTurns <= n + 1 /\ (n + 1) - (n + 2 - MaxTurns) + 1 = MaxTurns
    BY <1>1, <1>2, <1>4
  <2>3. /\ w \in Seq(Call) /\ Len(w) = MaxTurns
        /\ \A i \in 1..MaxTurns : w[i] = a[(n + 2 - MaxTurns) + i - 1]
    BY <1>1, <1>2, <2>1, <2>2, SubSeqProperties
  <2> HIDE DEF w
  <2>4. DOMAIN w = 1..MaxTurns
    BY <1>2, <2>3
  <2>5. w[MaxTurns] = c
    <3>1. (n + 2 - MaxTurns) + MaxTurns - 1 = n + 1 /\ MaxTurns \in 1..MaxTurns
      BY <1>1, <1>2
    <3> QED BY <1>1, <2>3, <3>1
  <2>6. \A i \in 1..MaxTurns : w[i] \in Talk!Members(q) \cup {c}
    <3> SUFFICES ASSUME NEW i \in 1..MaxTurns PROVE w[i] \in Talk!Members(q) \cup {c}
      OBVIOUS
    <3>1. PICK j \in 1..(n + 1) : w[i] = a[j]
      BY <1>1, <1>2, <1>4, <2>3
    <3> QED BY <1>1, <3>1 DEF Talk!Members
  <2>7. c \in Talk!Members(w) /\ Talk!Members(w) \subseteq Talk!Members(q) \cup {c}
    BY <1>2, <2>4, <2>5, <2>6 DEF Talk!Members
  <2> QED BY <1>2, <2>3, <2>7 DEF a, w
<1> QED BY <1>1, <1>2, <1>3, <1>4 DEF a, n

(***************************************************************************)
(* The invariant. A call that has read the row in order to append its turn *)
(* holds the turns of that row for as long as no other append of the       *)
(* session has read it too; and what an answered client or an auditor can  *)
(* count on is there as soon as the append has committed.                  *)
(***************************************************************************)
Appended(c) == pc[c] \in {"tell", "audit", "ended", "gone"}
AskedFirst == \A c \in Call : pc[c] # "idle" => asks[c] # None
AnsweredLate == \A c \in answered \cup audited : Appended(c)
AfterAnswers ==
    \A c \in Call : pc[c] \in {"load", "search"} =>
        \A d \in asks[c].after :
            /\ d \in answered /\ asks[d] # None
            /\ asks[d].session = asks[c].session
            /\ asks[d].who.tenant = asks[c].who.tenant
OneAppend ==
    \A c, d \in Call :
        pc[c] = "commit" /\ pc[d] = "commit" /\ asks[c].session = asks[d].session =>
            c = d \/ asks[c].session \in crossed
CopyFresh ==
    \A c \in Call :
        LET row == rows[asks[c].session]
        IN  pc[c] = "commit" /\ copy[c] # None =>
                /\ row # None /\ row.who.tenant = asks[c].who.tenant
                /\ asks[c].session \notin crossed => row.turns = copy[c]
TurnsTold ==
    /\ \A s \in Session : rows[s] # None => \A c \in Talk!Members(rows[s].turns) : Appended(c)
    /\ \A d \in Call : copy[d] # None => \A c \in Talk!Members(copy[d]) : Appended(c)

Kept(c) ==
    LET s == asks[c].session
        kept == Talk!Turns(asks[c].who, s)
    IN  \/ c \in Talk!Members(kept) /\ (kept[1] = c => s \in Talk!Listed(asks[c].who))
        \/ Len(kept) = MaxTurns
        \/ s \in crossed
CommitsKept ==
    \A c \in Call :
        pc[c] \in {"tell", "audit", "ended"} \/ c \in answered \cup audited => Kept(c)

TalkNamed == TurnsAreCounted /\ NoneIsNoTurn
TalkInv ==
    /\ TalkNamed /\ Talk!TypeOK
    /\ AskedFirst /\ AnsweredLate /\ AfterAnswers /\ OneAppend /\ CopyFresh /\ TurnsTold
    /\ CommitsKept /\ Talk!FollowUpsAreInformed

LEMMA TalkInit == TalkNamed /\ Talk!Init => TalkInv
<1> SUFFICES ASSUME TalkNamed, Talk!Init PROVE TalkInv
  OBVIOUS
<1>1. /\ asks \in [Call -> Talk!Ask \cup {None}]
      /\ pc \in [Call -> {"idle"}]
      /\ seen \in [Call -> Seq(Call)]
      /\ copy \in [Call -> {None}]
      /\ rows \in [Session -> {None}]
      /\ answered = {} /\ audited = {} /\ crossed = {}
  BY DEF Talk!Init
<1>2. Talk!TypeOK
  BY <1>1 DEF Talk!TypeOK
<1>3. /\ \A c \in Call : pc[c] = "idle" /\ copy[c] = None
      /\ \A s \in Session : rows[s] = None
  BY <1>1
<1>4. AskedFirst /\ AnsweredLate /\ AfterAnswers /\ OneAppend
  BY <1>1, <1>3 DEF AskedFirst, AnsweredLate, AfterAnswers, OneAppend
<1>5. CopyFresh /\ TurnsTold /\ CommitsKept /\ Talk!FollowUpsAreInformed
  BY <1>1, <1>3 DEF CopyFresh, TurnsTold, CommitsKept, Talk!FollowUpsAreInformed
<1> QED BY <1>2, <1>4, <1>5 DEF TalkInv

\* The types of one call and of one row.
LEMMA TalkTypes ==
    ASSUME Talk!TypeOK, NEW c \in Call, asks[c] # None
    PROVE  /\ asks[c] \in Talk!Ask /\ asks[c].session \in Session
           /\ asks[c].who \in Principal /\ asks[c].after \subseteq Call
  BY DEF Talk!TypeOK, Talk!Ask

LEMMA MembersAreCalls == \A q \in Seq(Call) : Talk!Members(q) \subseteq Call
  BY DEF Talk!Members

\* A step of one call that neither asks nor writes the row leaves the others as they were.
LEMMA TalkMoves ==
    ASSUME TalkInv, NEW c \in Call, pc[c] \in Talk!Running,
           NEW where \in {"search", "append", "tell", "audit", "ended", "gone"},
           pc' = [pc EXCEPT ![c] = where],
           Appended(c) => where \in {"audit", "ended", "gone"},
           where \in {"tell", "audit", "ended"} => Appended(c),
           where = "search" => pc[c] = "load",
           NEW q \in Seq(Call), seen' \in {seen, [seen EXCEPT ![c] = q]},
           where = "search" => seen'[c] = Talk!Turns(asks[c].who, asks[c].session),
           copy' \in {copy, [copy EXCEPT ![c] = None]},
           answered' \in {answered, answered \cup {c}},
           audited' \in {audited, audited \cup {c}},
           answered' # answered \/ audited' # audited => where \in {"audit", "ended"},
           UNCHANGED <<asks, rows, crossed>>
    PROVE  TalkInv'
<1>1. /\ pc'[c] = where
      /\ \A d \in Call \ {c} : pc'[d] = pc[d]
      /\ pc' \in [Call -> Talk!Running \cup {"idle", "ended", "gone"}]
  BY DEF TalkInv, Talk!TypeOK, Talk!Running
<1>2. /\ seen' \in [Call -> Seq(Call)]
      /\ \A d \in Call \ {c} : seen'[d] = seen[d]
  <2>1. seen \in [Call -> Seq(Call)]
    BY DEF TalkInv, Talk!TypeOK
  <2>2. CASE seen' = seen
    BY <2>1, <2>2
  <2>3. CASE seen' = [seen EXCEPT ![c] = q]
    BY <2>1, <2>3
  <2> QED BY <2>2, <2>3
<1>3. /\ copy' \in [Call -> Seq(Call) \cup {None}]
      /\ \A d \in Call : copy'[d] # None => copy'[d] = copy[d]
      /\ \A d \in Call \ {c} : copy'[d] = copy[d]
  BY DEF TalkInv, Talk!TypeOK
<1>4. Talk!TypeOK'
  BY <1>1, <1>2, <1>3 DEF TalkInv, Talk!TypeOK
<1>5. \A d \in Call : Appended(d) => Appended(d)'
  BY <1>1 DEF Appended
<1>6. /\ answered \subseteq answered'
      /\ answered' \cup audited' \subseteq answered \cup audited \cup {c}
      /\ c \in answered' \cup audited' => Appended(c)
  BY DEF TalkInv, AnsweredLate, Appended
<1>7. AskedFirst' /\ AnsweredLate'
  <2>1. AskedFirst'
    BY <1>1 DEF TalkInv, AskedFirst, Talk!Running
  <2>2. \A d \in answered \cup audited : d \in Call /\ Appended(d)
    BY DEF TalkInv, AnsweredLate, Talk!TypeOK
  <2>3. \A d \in answered' \cup audited' : d \in Call /\ Appended(d)
    BY <1>6, <2>2
  <2> QED BY <1>5, <2>1, <2>3 DEF AnsweredLate
<1>8. AfterAnswers'
  BY <1>1, <1>6 DEF TalkInv, AfterAnswers
<1>9. OneAppend'
  BY <1>1 DEF TalkInv, OneAppend
<1>10. CopyFresh'
  BY <1>1, <1>3 DEF TalkInv, CopyFresh
<1>11. TurnsTold'
  <2>1. \A s \in Session : rows[s] # None => Talk!Members(rows[s].turns) \subseteq Call
    BY MembersAreCalls DEF TalkInv, Talk!TypeOK
  <2>2. \A d \in Call : copy[d] # None => Talk!Members(copy[d]) \subseteq Call
    BY MembersAreCalls DEF TalkInv, Talk!TypeOK
  <2>3. \A d \in Call : copy'[d] # None => Talk!Members(copy'[d]) = Talk!Members(copy[d])
    BY <1>3
  <2> QED BY <1>3, <1>5, <2>1, <2>2, <2>3 DEF TalkInv, TurnsTold
<1>12. \A d \in Call : Kept(d) => Kept(d)'
  BY DEF Kept, Talk!Turns, Talk!Found, Talk!Listed
<1>13. CommitsKept'
  <2> SUFFICES ASSUME NEW d \in Call,
                      pc'[d] \in {"tell", "audit", "ended"} \/ d \in answered' \cup audited'
      PROVE  Kept(d)
    BY <1>12 DEF CommitsKept
  <2>1. CASE d # c
    BY <1>1, <1>6, <2>1 DEF TalkInv, CommitsKept
  <2>2. CASE d = c
    <3>1. Appended(c)
      BY <1>1, <1>6, <2>2
    <3>2. pc[c] \in {"tell", "audit", "ended"} \/ c \in answered \cup audited
      BY <3>1 DEF Appended, Talk!Running
    <3> QED BY <2>2, <3>2 DEF TalkInv, CommitsKept
  <2> QED BY <2>1, <2>2
<1>14. Talk!FollowUpsAreInformed'
  <2> SUFFICES ASSUME NEW d \in Call, pc'[d] = "search"
      PROVE  \/ asks[d].after \subseteq Talk!Members(seen'[d])
             \/ Len(seen'[d]) = MaxTurns
             \/ asks[d].session \in crossed
    BY DEF Talk!FollowUpsAreInformed, Talk!PromptHistory
  <2>1. CASE d # c
    BY <1>1, <1>2, <2>1 DEF TalkInv, Talk!FollowUpsAreInformed, Talk!PromptHistory
  <2>2. CASE d = c
    <3> DEFINE kept == Talk!Turns(asks[c].who, asks[c].session)
    <3>1. pc[c] = "load" /\ seen'[c] = kept
      BY <1>1, <2>2
    <3>2. ASSUME NEW e \in asks[c].after, asks[c].session \notin crossed, Len(kept) # MaxTurns
          PROVE  e \in Talk!Members(kept)
      <4>1. /\ e \in answered /\ e \in Call
            /\ asks[e].session = asks[c].session
            /\ asks[e].who.tenant = asks[c].who.tenant
        BY <3>1 DEF TalkInv, AfterAnswers, Talk!TypeOK
      <4>2. Talk!Turns(asks[e].who, asks[e].session) = kept
        BY <4>1 DEF Talk!Turns, Talk!Found
      <4>3. Kept(e)
        BY <4>1 DEF TalkInv, CommitsKept
      <4> QED BY <3>2, <4>1, <4>2, <4>3 DEF Kept
    <3> QED BY <2>2, <3>1, <3>2
  <2> QED BY <2>1, <2>2
<1> QED
  BY <1>4, <1>7, <1>8, <1>9, <1>10, <1>11, <1>13, <1>14 DEF TalkInv, TalkNamed, TurnsAreCounted,
     NoneIsNoTurn

\* Who asks next is told by the answers that are there, none of which is the call's own.
LEMMA TalkSends ==
    ASSUME TalkInv, NEW c \in Call, NEW p \in Principal, NEW s \in Session,
           NEW b \in BOOLEAN, Talk!Send(c, p, s, b)
    PROVE  TalkInv'
<1>1. PICK ask \in Talk!Ask :
         /\ ask = [who |-> p, session |-> s, streamed |-> b,
                   after |-> {d \in answered \cap Talk!InSession(s) :
                                asks[d].who.tenant = p.tenant}]
         /\ asks' = [asks EXCEPT ![c] = ask]
  BY DEF Talk!Send, Talk!Ask, Talk!InSession
<1>2. /\ asks' \in [Call -> Talk!Ask \cup {None}]
      /\ asks'[c] = ask
      /\ \A d \in Call \ {c} : asks'[d] = asks[d]
  BY <1>1 DEF TalkInv, Talk!TypeOK
<1>3. /\ pc' \in [Call -> Talk!Running \cup {"idle", "ended", "gone"}]
      /\ pc'[c] = "load" /\ pc[c] = "idle"
      /\ \A d \in Call \ {c} : pc'[d] = pc[d]
  BY DEF Talk!Send, Talk!At, TalkInv, Talk!TypeOK, Talk!Running
<1>4. UNCHANGED <<seen, copy, rows, answered, audited, crossed>>
  BY DEF Talk!Send
<1>5. ask # None
  BY DEF TalkInv, TalkNamed, NoneIsNoTurn
<1>6. \A d \in answered \cup audited : d \in Call \ {c} /\ Appended(d)
  BY <1>3 DEF TalkInv, AnsweredLate, Appended, Talk!TypeOK
<1>7. \A d \in Call : Appended(d)' <=> Appended(d)
  BY <1>3 DEF Appended
<1>8. Talk!TypeOK'
  BY <1>2, <1>3, <1>4 DEF TalkInv, Talk!TypeOK
<1>9. AskedFirst'
  BY <1>2, <1>3, <1>5 DEF TalkInv, AskedFirst
<1>10. AnsweredLate'
  BY <1>4, <1>6, <1>7 DEF AnsweredLate
<1>11. AfterAnswers'
  <2> SUFFICES ASSUME NEW d \in Call, pc'[d] \in {"load", "search"}, NEW e \in asks'[d].after
      PROVE  /\ e \in answered /\ asks'[e] # None
             /\ asks'[e].session = asks'[d].session
             /\ asks'[e].who.tenant = asks'[d].who.tenant
    BY <1>4 DEF AfterAnswers
  <2>1. CASE d = c
    <3>1. /\ e \in answered /\ e \in Talk!InSession(s) /\ asks[e].who.tenant = p.tenant
          /\ asks'[d].session = s /\ asks'[d].who = p
      BY <1>1, <1>2, <2>1
    <3> QED BY <1>2, <1>6, <3>1 DEF Talk!InSession
  <2>2. CASE d # c
    BY <1>2, <1>3, <1>6, <2>2 DEF TalkInv, AfterAnswers
  <2> QED BY <2>1, <2>2
<1>12. OneAppend' /\ CopyFresh'
  BY <1>2, <1>3, <1>4 DEF TalkInv, OneAppend, CopyFresh
<1>13. TurnsTold'
  <2>1. \A t \in Session : rows[t] # None => Talk!Members(rows[t].turns) \subseteq Call
    BY MembersAreCalls DEF TalkInv, Talk!TypeOK
  <2>2. \A d \in Call : copy[d] # None => Talk!Members(copy[d]) \subseteq Call
    BY MembersAreCalls DEF TalkInv, Talk!TypeOK
  <2> QED BY <1>4, <1>7, <2>1, <2>2 DEF TalkInv, TurnsTold
<1>14. CommitsKept'
  <2> SUFFICES ASSUME NEW d \in Call,
                      pc'[d] \in {"tell", "audit", "ended"} \/ d \in answered' \cup audited'
      PROVE  Kept(d)'
    BY DEF CommitsKept
  <2>1. d # c /\ Kept(d)
    BY <1>3, <1>4, <1>6 DEF TalkInv, CommitsKept
  <2> QED BY <1>2, <1>4, <2>1 DEF Kept, Talk!Turns, Talk!Found, Talk!Listed
<1>15. Talk!FollowUpsAreInformed'
  BY <1>2, <1>3, <1>4 DEF TalkInv, Talk!FollowUpsAreInformed, Talk!PromptHistory
<1> QED
  BY <1>8, <1>9, <1>10, <1>11, <1>12, <1>13, <1>14, <1>15
     DEF TalkInv, TalkNamed, TurnsAreCounted, NoneIsNoTurn

\* Whoever reads the row to append to it finds a session with another reader crossed.
LEMMA TalkReads ==
    ASSUME TalkInv, NEW c \in Call, Talk!AppendReads(c)
    PROVE  TalkInv'
<1> DEFINE s == asks[c].session
<1>1. /\ pc[c] = "append" /\ asks[c] # None
      /\ s \in Session /\ asks[c].who \in Principal
  BY TalkTypes DEF Talk!AppendReads, TalkInv, AskedFirst
<1>2. /\ pc' \in [Call -> Talk!Running \cup {"idle", "ended", "gone"}]
      /\ pc'[c] = "commit"
      /\ \A d \in Call \ {c} : pc'[d] = pc[d]
  BY DEF Talk!AppendReads, Talk!At, TalkInv, Talk!TypeOK, Talk!Running
<1>3. PICK q \in Seq(Call) \cup {None} :
         /\ q = IF Talk!Found(asks[c].who, s) THEN rows[s].turns ELSE None
         /\ copy' = [copy EXCEPT ![c] = q]
  BY <1>1 DEF Talk!AppendReads, Talk!Found, TalkInv, Talk!TypeOK
<1>4. /\ copy' \in [Call -> Seq(Call) \cup {None}]
      /\ copy'[c] = q
      /\ \A d \in Call \ {c} : copy'[d] = copy[d]
  BY <1>3 DEF TalkInv, Talk!TypeOK
<1>5. /\ seen' \in [Call -> Seq(Call)]
      /\ \A d \in Call \ {c} : seen'[d] = seen[d]
  BY DEF Talk!AppendReads, Talk!Forget, TalkInv, Talk!TypeOK
<1>6. /\ UNCHANGED <<asks, rows, answered, audited>>
      /\ crossed \subseteq crossed' /\ crossed' \subseteq Session
      /\ Talk!Appending(s) # {} => s \in crossed'
  BY <1>1 DEF Talk!AppendReads, TalkInv, Talk!TypeOK
<1>7. Talk!TypeOK'
  BY <1>2, <1>4, <1>5, <1>6 DEF TalkInv, Talk!TypeOK
<1>8. \A d \in Call : Appended(d)' <=> Appended(d)
  BY <1>1, <1>2 DEF Appended
<1>9. AskedFirst' /\ AfterAnswers'
  BY <1>1, <1>2, <1>6 DEF TalkInv, AskedFirst, AfterAnswers
<1>10. AnsweredLate'
  BY <1>6, <1>8 DEF TalkInv, AnsweredLate, Talk!TypeOK
<1>11. OneAppend'
  <2> SUFFICES ASSUME NEW d \in Call, NEW e \in Call, pc'[d] = "commit", pc'[e] = "commit",
                      asks[d].session = asks[e].session, d # e
      PROVE  asks[d].session \in crossed'
    BY <1>6 DEF OneAppend
  <2>1. CASE d # c /\ e # c
    BY <1>2, <1>6, <2>1 DEF TalkInv, OneAppend
  <2>2. ASSUME NEW f \in Call, f # c, pc[f] = "commit", asks[f].session = s
        PROVE  s \in crossed'
    BY <1>6, <2>2 DEF Talk!Appending, Talk!InSession, TalkInv, AskedFirst
  <2> QED BY <1>2, <2>1, <2>2
<1>12. CopyFresh'
  <2> SUFFICES ASSUME NEW d \in Call, pc'[d] = "commit", copy'[d] # None
      PROVE  /\ rows[asks[d].session] # None
             /\ rows[asks[d].session].who.tenant = asks[d].who.tenant
             /\ asks[d].session \notin crossed' => rows[asks[d].session].turns = copy'[d]
    BY <1>6 DEF CopyFresh
  <2>1. CASE d # c
    BY <1>2, <1>4, <1>6, <2>1 DEF TalkInv, CopyFresh
  <2>2. CASE d = c
    BY <1>3, <1>4, <2>2 DEF Talk!Found
  <2> QED BY <2>1, <2>2
<1>13. TurnsTold'
  <2>1. \A t \in Session : rows[t] # None => Talk!Members(rows[t].turns) \subseteq Call
    BY MembersAreCalls DEF TalkInv, Talk!TypeOK
  <2>2. \A d \in Call : copy'[d] # None => Talk!Members(copy'[d]) \subseteq Call
    BY <1>4, MembersAreCalls
  <2>3. copy'[c] # None => rows[s] # None /\ copy'[c] = rows[s].turns
    BY <1>3, <1>4 DEF Talk!Found
  <2> QED BY <1>1, <1>4, <1>6, <1>8, <2>1, <2>2, <2>3 DEF TalkInv, TurnsTold
<1>14. CommitsKept'
  <2>1. \A d \in Call : Kept(d) => Kept(d)'
    BY <1>6 DEF Kept, Talk!Turns, Talk!Found, Talk!Listed
  <2> QED BY <1>2, <1>6, <2>1 DEF TalkInv, CommitsKept
<1>15. Talk!FollowUpsAreInformed'
  BY <1>2, <1>5, <1>6 DEF TalkInv, Talk!FollowUpsAreInformed, Talk!PromptHistory
<1> QED
  BY <1>7, <1>9, <1>10, <1>11, <1>12, <1>13, <1>14, <1>15
     DEF TalkInv, TalkNamed, TurnsAreCounted, NoneIsNoTurn

\* The commit of a turn: what the session held is still there or the window is full, and
\* the session stays with the user who began it.
LEMMA TalkCommits ==
    ASSUME TalkInv, NEW c \in Call, Talk!AppendCommits(c)
    PROVE  TalkInv'
<1> DEFINE s == asks[c].session
<1>1. /\ pc[c] = "commit" /\ asks[c] # None
      /\ s \in Session /\ asks[c].who \in Principal
      /\ copy[c] = None => rows[s] = None
  BY TalkTypes DEF Talk!AppendCommits, Talk!Collides, TalkInv, AskedFirst
<1>2. PICK q \in Seq(Call) : q = IF copy[c] = None THEN <<>> ELSE copy[c]
  <2>1. <<>> \in Seq(Call) /\ copy[c] \in Seq(Call) \cup {None}
    BY DEF TalkInv, Talk!TypeOK
  <2> QED BY <2>1
<1>3. PICK w \in Seq(Call) :
         /\ w = Talk!Turn(c) /\ Len(w) \in 1..MaxTurns
         /\ c \in Talk!Members(w)
         /\ Talk!Members(w) \subseteq Talk!Members(q) \cup {c}
         /\ Len(w) # MaxTurns =>
               /\ Len(w) = Len(q) + 1
               /\ Talk!Members(w) = Talk!Members(q) \cup {c}
               /\ w[1] = IF Len(q) = 0 THEN c ELSE q[1]
  BY <1>2, WindowKeeps DEF TalkInv, TalkNamed, Talk!Turn
<1>4. PICK who \in Principal :
         /\ who = IF copy[c] = None THEN asks[c].who ELSE rows[s].who
         /\ rows' = [rows EXCEPT ![s] = [who |-> who, turns |-> w]]
  <2> DEFINE v == IF copy[c] = None THEN asks[c].who ELSE rows[s].who
  <2>1. v \in Principal
    <3>1. copy[c] # None => rows[s] \in [who : Principal, turns : Seq(Call)]
      BY <1>1 DEF TalkInv, CopyFresh, Talk!TypeOK
    <3> QED BY <1>1, <3>1
  <2>2. rows' = [rows EXCEPT ![s] = [who |-> v, turns |-> w]]
    <3>1. rows' = [rows EXCEPT ![s] = [who |-> IF copy[c] = None THEN asks[c].who ELSE rows[s].who,
                                       turns |-> Talk!Turn(c)]]
      BY <1>1 DEF Talk!AppendCommits, TalkInv, Talk!TypeOK
    <3> QED BY <1>3, <3>1
  <2> QED BY <2>1, <2>2
<1>5. /\ rows'[s] = [who |-> who, turns |-> w]
      /\ rows'[s] # None
      /\ \A t \in Session \ {s} : rows'[t] = rows[t]
      /\ rows' \in [Session -> [who : Principal, turns : Seq(Call)] \cup {None}]
  <2>1. [who |-> who, turns |-> w] \in [who : Principal, turns : Seq(Call)]
    BY <1>3, <1>4
  <2>2. rows \in [Session -> [who : Principal, turns : Seq(Call)] \cup {None}]
    BY DEF TalkInv, Talk!TypeOK
  <2> QED BY <1>1, <1>4, <2>1, <2>2 DEF TalkInv, TalkNamed, NoneIsNoTurn
<1>6. /\ pc' \in [Call -> Talk!Running \cup {"idle", "ended", "gone"}]
      /\ pc'[c] \in {"tell", "audit"}
      /\ \A d \in Call \ {c} : pc'[d] = pc[d]
  BY <1>1 DEF Talk!AppendCommits, Talk!At, TalkInv, Talk!TypeOK, Talk!Running
<1>7. /\ copy' \in [Call -> Seq(Call) \cup {None}]
      /\ copy'[c] = None
      /\ \A d \in Call \ {c} : copy'[d] = copy[d]
  BY DEF Talk!AppendCommits, TalkInv, Talk!TypeOK
<1>8. UNCHANGED <<asks, seen, answered, audited, crossed>>
  BY DEF Talk!AppendCommits
<1>9. Talk!TypeOK'
  <2>1. \A t \in Session : rows'[t] # None => Len(rows'[t].turns) \in 1..MaxTurns
    <3>1. rows'[s].turns = w
      BY <1>5
    <3>2. \A t \in Session \ {s} : rows'[t] # None => Len(rows'[t].turns) \in 1..MaxTurns
      BY <1>5 DEF TalkInv, Talk!TypeOK
    <3> QED BY <1>3, <3>1, <3>2
  <2> QED BY <1>5, <1>6, <1>7, <1>8, <2>1 DEF TalkInv, Talk!TypeOK
<1>10. \A d \in Call : (Appended(d)' <=> Appended(d) \/ d = c) /\ ~Appended(c)
  BY <1>1, <1>6 DEF Appended
<1>11. AskedFirst' /\ AfterAnswers' /\ OneAppend'
  BY <1>1, <1>6, <1>8 DEF TalkInv, AskedFirst, AfterAnswers, OneAppend
<1>12. AnsweredLate'
  BY <1>8, <1>10 DEF TalkInv, AnsweredLate, Talk!TypeOK
\* Who owns a session is settled by its first turn.
<1>13. \A t \in Session : rows[t] # None => rows'[t] # None /\ rows'[t].who = rows[t].who
  BY <1>1, <1>4, <1>5
<1>14. CopyFresh'
  <2> SUFFICES ASSUME NEW d \in Call, pc'[d] = "commit", copy'[d] # None
      PROVE  /\ rows'[asks[d].session] # None
             /\ rows'[asks[d].session].who.tenant = asks[d].who.tenant
             /\ asks[d].session \notin crossed => rows'[asks[d].session].turns = copy'[d]
    BY <1>8 DEF CopyFresh
  <2>1. d # c /\ pc[d] = "commit" /\ copy'[d] = copy[d] /\ asks[d].session \in Session
    BY <1>6, <1>7, TalkTypes DEF TalkInv, AskedFirst
  <2>2. /\ rows[asks[d].session] # None
        /\ rows[asks[d].session].who.tenant = asks[d].who.tenant
        /\ asks[d].session \notin crossed => rows[asks[d].session].turns = copy[d]
    BY <2>1 DEF TalkInv, CopyFresh
  <2>3. asks[d].session = s => s \in crossed
    BY <1>1, <2>1 DEF TalkInv, OneAppend
  <2> QED BY <1>5, <1>13, <2>1, <2>2, <2>3
<1>15. TurnsTold'
  <2>1. \A t \in Session : rows[t] # None => Talk!Members(rows[t].turns) \subseteq Call
    BY MembersAreCalls DEF TalkInv, Talk!TypeOK
  <2>2. \A d \in Call : copy[d] # None => Talk!Members(copy[d]) \subseteq Call
    BY MembersAreCalls DEF TalkInv, Talk!TypeOK
  <2>3. Talk!Members(<<>>) = {}
    BY DEF Talk!Members
  <2>4. \A d \in Talk!Members(w) : d \in Call /\ (d = c \/ Appended(d))
    BY <1>2, <1>3, <2>2, <2>3 DEF TalkInv, TurnsTold
  <2>5. ASSUME NEW t \in Session, rows'[t] # None, NEW d \in Talk!Members(rows'[t].turns)
        PROVE  Appended(d)'
    <3>1. CASE t = s
      BY <1>5, <1>10, <2>4, <2>5, <3>1
    <3>2. CASE t # s
      BY <1>5, <1>10, <2>1, <2>5, <3>2 DEF TalkInv, TurnsTold
    <3> QED BY <3>1, <3>2
  <2>6. ASSUME NEW e \in Call, copy'[e] # None, NEW d \in Talk!Members(copy'[e])
        PROVE  Appended(d)'
    BY <1>7, <1>10, <2>2, <2>6 DEF TalkInv, TurnsTold
  <2> QED BY <2>5, <2>6 DEF TurnsTold
<1>16. CommitsKept'
  <2> SUFFICES ASSUME NEW d \in Call,
                      pc'[d] \in {"tell", "audit", "ended"} \/ d \in answered \cup audited
      PROVE  Kept(d)'
    BY <1>8 DEF CommitsKept
  <2>1. CASE d = c
    <3>1. rows'[s].who.tenant = asks[c].who.tenant
      BY <1>1, <1>4, <1>5 DEF TalkInv, CopyFresh
    <3>2. Talk!Turns(asks[c].who, s)' = w
      BY <1>5, <1>8, <3>1 DEF Talk!Turns, Talk!Found
    <3>3. ASSUME copy[c] # None, s \notin crossed, Len(w) # MaxTurns
          PROVE  w[1] # c
      <4>1. q = rows[s].turns /\ rows[s] # None /\ Len(q) # 0
        BY <1>1, <1>2, <3>3 DEF TalkInv, CopyFresh, Talk!TypeOK
      <4>2. w[1] = q[1] /\ q[1] \in Talk!Members(q)
        BY <1>2, <1>3, <3>3, <4>1 DEF Talk!Members
      <4> QED BY <1>1, <1>10, <4>1, <4>2 DEF TalkInv, TurnsTold
    <3>4. s \notin crossed /\ Len(w) # MaxTurns /\ w[1] = c => rows'[s].who = asks[c].who
      BY <1>4, <1>5, <3>3
    <3> QED BY <1>1, <1>3, <1>5, <1>8, <2>1, <3>2, <3>4 DEF Kept, Talk!Listed
  <2>2. CASE d # c
    <3>1. Kept(d)
      BY <1>6, <2>2 DEF TalkInv, CommitsKept
    <3>2. CASE asks[d].session # s \/ s \in crossed
      <4>1. asks[d].session \in Session
        BY <2>2, TalkTypes, <1>6 DEF TalkInv, AskedFirst, AnsweredLate, Appended
      <4> QED BY <1>5, <1>8, <3>1, <3>2, <4>1 DEF Kept, Talk!Turns, Talk!Found, Talk!Listed
    <3>3. CASE asks[d].session = s /\ s \notin crossed
      <4> DEFINE old == Talk!Turns(asks[d].who, s)
      <4>1. \/ d \in Talk!Members(old) /\ (old[1] = d => rows[s].who = asks[d].who)
            \/ Len(old) = MaxTurns
        BY <3>1, <3>3 DEF Kept, Talk!Listed
      <4>2. Talk!Members(<<>>) = {} /\ Len(<<>>) # MaxTurns
        BY DEF Talk!Members, TalkInv, TalkNamed, TurnsAreCounted
      <4>3. rows[s] # None /\ rows[s].who.tenant = asks[d].who.tenant /\ old = rows[s].turns
        BY <4>1, <4>2 DEF Talk!Turns, Talk!Found
      <4>4. q = old /\ Len(q) # 0
        BY <1>1, <1>2, <3>3, <4>3 DEF TalkInv, CopyFresh, Talk!TypeOK
      <4>5. Talk!Turns(asks[d].who, s)' = w
        BY <1>1, <1>5, <1>8, <1>13, <4>3 DEF Talk!Turns, Talk!Found
      <4>6. CASE Len(w) = MaxTurns
        BY <1>8, <3>3, <4>5, <4>6 DEF Kept
      <4>7. CASE Len(w) # MaxTurns
        <5>1. w[1] = q[1] /\ Talk!Members(w) = Talk!Members(q) \cup {c}
          BY <1>3, <4>4, <4>7
        <5>2. Len(q) # MaxTurns
          BY <1>2, <1>3, <4>4, <4>7
        <5>3. d \in Talk!Members(w) /\ (w[1] = d => rows[s].who = asks[d].who)
          BY <4>1, <4>4, <5>1, <5>2
        <5> QED BY <1>1, <1>5, <1>8, <1>13, <3>3, <4>3, <4>5, <5>3 DEF Kept, Talk!Listed
      <4> QED BY <4>6, <4>7
    <3> QED BY <3>2, <3>3
  <2> QED BY <2>1, <2>2
<1>17. Talk!FollowUpsAreInformed'
  BY <1>6, <1>8 DEF TalkInv, Talk!FollowUpsAreInformed, Talk!PromptHistory
<1> QED
  BY <1>9, <1>11, <1>12, <1>14, <1>15, <1>16, <1>17
     DEF TalkInv, TalkNamed, TurnsAreCounted, NoneIsNoTurn

LEMMA TalkStep == TalkInv /\ [Talk!Next]_Talk!vars => TalkInv'
<1> SUFFICES ASSUME TalkInv, [Talk!Next]_Talk!vars PROVE TalkInv'
  OBVIOUS
<1>1. ASSUME NEW c \in Call, NEW p \in Principal, NEW s \in Session, NEW b \in BOOLEAN,
             Talk!Send(c, p, s, b)
      PROVE  TalkInv'
  BY <1>1, TalkSends
<1>2. ASSUME NEW c \in Call, Talk!Load(c) PROVE TalkInv'
  <2>1. Talk!Turns(asks[c].who, asks[c].session) \in Seq(Call)
    <3>1. asks[c] # None
      BY <1>2 DEF Talk!Load, TalkInv, AskedFirst
    <3>2. asks[c].session \in Session
      BY <3>1, TalkTypes DEF TalkInv
    <3>3. <<>> \in Seq(Call)
      OBVIOUS
    <3> QED BY <3>2, <3>3 DEF Talk!Turns, Talk!Found, TalkInv, Talk!TypeOK
  <2>2. seen \in [Call -> Seq(Call)]
    BY DEF TalkInv, Talk!TypeOK
  <2> QED BY <1>2, <2>1, <2>2, TalkMoves DEF Talk!Load, Talk!At, Talk!Running, Appended
<1>3. ASSUME NEW c \in Call, Talk!Generate(c) PROVE TalkInv'
  <2>1. <<>> \in Seq(Call)
    OBVIOUS
  <2> QED BY <1>3, <2>1, TalkMoves DEF Talk!Generate, Talk!At, Talk!Running, Appended
<1>4. ASSUME NEW c \in Call, Talk!AppendReads(c) PROVE TalkInv'
  BY <1>4, TalkReads
<1>5. ASSUME NEW c \in Call, Talk!AppendCommits(c) PROVE TalkInv'
  BY <1>5, TalkCommits
<1>6. ASSUME NEW c \in Call, Talk!Tell(c) PROVE TalkInv'
  <2>1. <<>> \in Seq(Call)
    OBVIOUS
  <2> QED BY <1>6, <2>1, TalkMoves DEF Talk!Tell, Talk!At, Talk!Running, Appended
<1>7. ASSUME NEW c \in Call, Talk!Audit(c) PROVE TalkInv'
  <2>1. <<>> \in Seq(Call)
    OBVIOUS
  <2> QED BY <1>7, <2>1, TalkMoves DEF Talk!Audit, Talk!At, Talk!Running, Appended
<1>8. ASSUME NEW c \in Call, Talk!Fail(c) \/ Talk!Leave(c) PROVE TalkInv'
  <2>1. <<>> \in Seq(Call)
    OBVIOUS
  <2>2. /\ pc[c] \in Talk!Running
        /\ pc' = [pc EXCEPT ![c] = "gone"]
        /\ seen' = [seen EXCEPT ![c] = <<>>]
        /\ copy' = [copy EXCEPT ![c] = None]
        /\ UNCHANGED <<asks, rows, answered, audited, crossed>>
    BY <1>8 DEF Talk!Fail, Talk!Leave, Talk!Drop, Talk!Forget, Talk!At, Talk!Running
  <2> QED BY <2>1, <2>2, TalkMoves
<1>9. CASE UNCHANGED Talk!vars
  <2>1. UNCHANGED <<asks, pc, seen, copy, rows, answered, audited, crossed>>
    BY <1>9 DEF Talk!vars
  <2>2. \A c : Kept(c)' <=> Kept(c)
    BY <2>1 DEF Kept, Talk!Turns, Talk!Found, Talk!Listed
  <2>3. /\ Talk!TypeOK' /\ AskedFirst' /\ AnsweredLate' /\ AfterAnswers' /\ OneAppend'
        /\ CopyFresh'
    BY <2>1 DEF TalkInv, Talk!TypeOK, AskedFirst, AnsweredLate, AfterAnswers, OneAppend,
                CopyFresh, Appended
  <2>4. TurnsTold' /\ CommitsKept'
    BY <2>1, <2>2 DEF TalkInv, TurnsTold, CommitsKept, Appended
  <2>5. Talk!FollowUpsAreInformed'
    BY <2>1 DEF TalkInv, Talk!FollowUpsAreInformed, Talk!PromptHistory
  <2> QED
    BY <2>3, <2>4, <2>5 DEF TalkInv, TalkNamed, TurnsAreCounted, NoneIsNoTurn
<1> QED BY <1>1, <1>2, <1>3, <1>4, <1>5, <1>6, <1>7, <1>8, <1>9 DEF Talk!Next

LEMMA TalkProves == TalkInv => Talk!AnswersAreKept /\ Talk!FollowUpsAreInformed
<1> SUFFICES ASSUME TalkInv, NEW c \in answered \cup audited PROVE Kept(c)
  BY DEF TalkInv, Talk!AnswersAreKept, Kept
<1> QED BY DEF TalkInv, CommitsKept, Talk!TypeOK

\* However the calls of a session interleave, fail and are left, an answer its client or
\* an auditor knows of stays in the history, and a follow-up is answered from all its
\* client had read; the window and overlapping appends are the only exceptions
\* (memory.py:30-98, routes/ask.py:93-167).
THEOREM HistoryKept ==
    TalkNamed => (Talk!Spec => [](Talk!AnswersAreKept /\ Talk!FollowUpsAreInformed))
<1>1. TalkNamed /\ Talk!Spec => []TalkInv
  BY TalkInit, TalkStep, PTL DEF Talk!Spec
<1> QED BY <1>1, TalkProves, PTL
------------------------------------------------------------------------------
(* ---- AuditTrail -------------------------------------------------------- *)

TrailNamed ==
    /\ Limit \in Nat /\ MaxClock \in Nat
    /\ None \notin Trail!Telling \cup Trail!Write \cup Trail!Page

LEMMA TrailCardinality == \A S : Trail!Cardinality(S) = Cardinality(S)
  BY DEF Trail!Cardinality, Cardinality

(***************************************************************************)
(* The invariant. A row of the opening list that has not been shown has at *)
(* least as many newer rows before it as the pages shown hold: rows that   *)
(* arrive only push it further back, and rows that grow too old are behind *)
(* it.                                                                     *)
(***************************************************************************)
Rows(r) == {w \in rows : w.of = r}
OneTeller ==
    /\ \A w \in rows : requests[w.of] # None /\ w.kind = requests[w.of].kind
    /\ \A r \in Request :
          requests[r] # None =>
             /\ requests[r].open # None => requests[r].open.kind = requests[r].kind
             /\ requests[r].kind = "ask" =>
                  /\ requests[r].left \subseteq {"route"}
                  /\ requests[r].open # None => requests[r].left = {} /\ Rows(r) = {}
                  /\ Rows(r) # {} => requests[r].left = {}
                  /\ \A v, w \in Rows(r) : v = w

Unseen == {s \in paging.start : s > since /\ s \notin paging.seen}
Behind == IF paging.step = "shown" THEN paging.offset + Limit ELSE paging.offset
PagesFollow ==
    paging # None =>
        /\ \A s \in paging.start : \E w \in rows : w.at = s
        /\ \A s \in Unseen : Trail!Rank(s) >= Behind
        /\ paging.step = "page" /\ ~crossed => paging.total = Trail!Cardinality(Trail!Listed)
        /\ Trail!AtTheEnd /\ ~crossed => Unseen = {}

TrailInv == TrailNamed /\ Trail!TypeOK /\ OneTeller /\ PagesFollow

LEMMA TrailInit == TrailNamed /\ Trail!Init => TrailInv
<1> SUFFICES ASSUME TrailNamed, Trail!Init PROVE TrailInv
  OBVIOUS
<1>1. /\ clock = 0 /\ rows = {} /\ since = 0 /\ paging = None /\ crossed = FALSE
      /\ requests \in [Request -> {None}]
  BY DEF Trail!Init
<1>2. MaxClock \in Nat
  BY DEF TrailNamed
<1>3. Trail!TypeOK
  <2>1. requests \in [Request -> Trail!Telling \cup {None}]
    BY <1>1
  <2>2. 0 \in 0..MaxClock
    BY <1>2
  <2> QED BY <1>1, <2>1, <2>2 DEF Trail!TypeOK, Trail!Telling
<1> QED BY <1>1, <1>3 DEF TrailInv, OneTeller, PagesFollow

\* The list of a page is finite, and a row has fewer rows before it than there are.
LEMMA ListIsFinite ==
    ASSUME TrailNamed, Trail!TypeOK
    PROVE  /\ Trail!Listed \subseteq Trail!Stamp /\ IsFiniteSet(Trail!Listed)
           /\ Trail!Cardinality(Trail!Listed) \in Nat
           /\ \A s \in Trail!Stamp : Trail!Rank(s) \in Nat
           /\ \A s \in Trail!Listed : Trail!Rank(s) < Trail!Cardinality(Trail!Listed)
<1>1. Trail!Listed \subseteq Trail!Stamp
  BY DEF Trail!Listed, Trail!TypeOK
<1>2. IsFiniteSet(Trail!Stamp)
  BY FS_Interval DEF TrailNamed, Trail!Stamp
<1>3. IsFiniteSet(Trail!Listed) /\ Cardinality(Trail!Listed) \in Nat
  BY <1>1, <1>2, FS_Subset, FS_CardinalityType
<1>4. ASSUME NEW s \in Trail!Stamp
      PROVE  /\ Trail!Rank(s) \in Nat
             /\ s \in Trail!Listed => Trail!Rank(s) < Cardinality(Trail!Listed)
  <2> DEFINE before == {t \in Trail!Listed : t > s}
  <2>1. /\ IsFiniteSet(before) /\ Cardinality(before) \in Nat
        /\ Cardinality(before) <= Cardinality(Trail!Listed)
        /\ Cardinality(before) = Cardinality(Trail!Listed) => before = Trail!Listed
    BY <1>3, FS_Subset, FS_CardinalityType
  <2>2. Trail!Rank(s) = Cardinality(before)
    BY TrailCardinality DEF Trail!Rank
  <2>3. s \notin before
    BY DEF Trail!Stamp
  <2> QED BY <1>3, <2>1, <2>2, <2>3
<1> QED BY <1>1, <1>3, <1>4, TrailCardinality

\* A row never moves towards the front of the list.
LEMMA RankOnlyGrows ==
    ASSUME TrailNamed, Trail!TypeOK, Trail!TypeOK', NEW s \in Trail!Stamp, s > since',
           \/ Trail!Listed \subseteq Trail!Listed'
           \/ rows' = rows
    PROVE  /\ Trail!Rank(s)' \in Nat /\ Trail!Rank(s) \in Nat
           /\ Trail!Rank(s)' >= Trail!Rank(s)
<1> DEFINE before == {t \in Trail!Listed : t > s}
           after == {t \in Trail!Listed' : t > s}
<1>1. before \subseteq after
  <2>1. CASE Trail!Listed \subseteq Trail!Listed'
    BY <2>1
  <2>2. CASE rows' = rows
    <3>1. ASSUME NEW t \in before PROVE t \in Trail!Listed' /\ t > s
      <4>1. PICK w \in rows : w.at = t /\ t > s
        BY DEF Trail!Listed
      <4>2. t \in Nat /\ s \in Nat /\ since' \in Nat
        BY <4>1 DEF Trail!TypeOK, Trail!Stamp
      <4>3. t > since'
        BY <4>1, <4>2
      <4> QED BY <2>2, <4>1, <4>3 DEF Trail!Listed
    <3> QED BY <3>1
  <2> QED BY <2>1, <2>2
<1>2. Trail!Listed' \subseteq Trail!Stamp
  BY DEF Trail!Listed, Trail!TypeOK
<1>3. IsFiniteSet(after)
  <2>1. IsFiniteSet(Trail!Stamp)
    BY FS_Interval DEF TrailNamed, Trail!Stamp
  <2> QED BY <1>2, <2>1, FS_Subset
<1>4. Cardinality(before) <= Cardinality(after)
  BY <1>1, <1>3, FS_Subset
<1>5. Trail!Rank(s) = Cardinality(before)
  BY TrailCardinality DEF Trail!Rank
<1>6. Trail!Rank(s)' = Cardinality(after)
  BY TrailCardinality DEF Trail!Rank
<1>7. Cardinality(before) \in Nat /\ Cardinality(after) \in Nat
  BY <1>1, <1>3, FS_Subset, FS_CardinalityType
<1> QED BY <1>4, <1>5, <1>6, <1>7

\* What is told of a request changes only the request and, by a commit, the rows.
LEMMA TrailTells ==
    ASSUME TrailInv, NEW r \in Request, NEW q \in Trail!Telling,
           requests' = [requests EXCEPT ![r] = q],
           clock' \in {clock, clock + 1}, clock' <= MaxClock,
           UNCHANGED <<since, paging>>,
           \/ rows' = rows /\ crossed' = crossed
           \/ \E by \in {"route", "middleware"}, at \in Trail!Stamp :
                 /\ rows' = rows \cup {[by |-> by, kind |-> q.kind, at |-> at, of |-> r]}
                 /\ crossed' = (crossed \/ (paging # None /\ paging.step = "page"))
                 /\ q.open = None /\ requests[r] # None
                 /\ q.kind = "ask" => q.left = {} /\ Rows(r) = {},
           requests[r] # None => q.kind = requests[r].kind,
           q.open # None => q.open.kind = q.kind,
           requests[r] # None /\ q.kind = "ask" => q.left \subseteq requests[r].left,
           q.kind = "ask" => q.left \subseteq {"route"},
           q.kind = "ask" /\ q.open # None => q.left = {} /\ Rows(r) = {}
    PROVE  TrailInv'
<1>1. /\ requests' \in [Request -> Trail!Telling \cup {None}]
      /\ requests'[r] = q /\ q # None
      /\ \A p \in Request \ {r} : requests'[p] = requests[p]
  BY DEF TrailInv, TrailNamed, Trail!TypeOK, Trail!Telling
<1>2. /\ q.kind \in Trail!Kind
      /\ rows \subseteq rows'
      /\ rows' \subseteq [by : {"route", "middleware"}, kind : Trail!Kind, at : Trail!Stamp,
                          of : Request]
      /\ crossed' \in BOOLEAN
  <2>1. q.kind \in Trail!Kind /\ rows \subseteq rows'
    BY DEF Trail!Telling
  <2>2. rows \subseteq [by : {"route", "middleware"}, kind : Trail!Kind, at : Trail!Stamp,
                         of : Request]
    BY DEF TrailInv, Trail!TypeOK
  <2>3. CASE rows' = rows /\ crossed' = crossed
    BY <2>1, <2>2, <2>3 DEF TrailInv, Trail!TypeOK
  <2>4. CASE ~(rows' = rows /\ crossed' = crossed)
    <3>1. PICK by \in {"route", "middleware"}, at \in Trail!Stamp :
             /\ rows' = rows \cup {[by |-> by, kind |-> q.kind, at |-> at, of |-> r]}
             /\ crossed' = (crossed \/ (paging # None /\ paging.step = "page"))
      BY <2>4
    <3>2. [by |-> by, kind |-> q.kind, at |-> at, of |-> r]
            \in [by : {"route", "middleware"}, kind : Trail!Kind, at : Trail!Stamp,
                 of : Request]
      BY <2>1
    <3> QED BY <2>1, <2>2, <3>1, <3>2 DEF TrailInv, Trail!TypeOK
  <2> QED BY <2>3, <2>4
<1>3. Trail!TypeOK'
  BY <1>1, <1>2 DEF TrailInv, TrailNamed, Trail!TypeOK, Trail!Telling
<1>4. \A w \in rows' \ rows : w.of = r /\ w.kind = q.kind /\ requests[r] # None
  OBVIOUS
<1>5. \A w \in rows : w.of \in Request
  BY DEF TrailInv, Trail!TypeOK
<1>6. OneTeller'
  <2>1. \A w \in rows' : requests'[w.of] # None /\ w.kind = requests'[w.of].kind
    BY <1>1, <1>4, <1>5 DEF TrailInv, OneTeller
  <2>2. ASSUME NEW p \in Request, requests'[p] # None
        PROVE  /\ requests'[p].open # None => requests'[p].open.kind = requests'[p].kind
               /\ requests'[p].kind = "ask" =>
                    /\ requests'[p].left \subseteq {"route"}
                    /\ requests'[p].open # None => requests'[p].left = {} /\ Rows(p)' = {}
                    /\ Rows(p)' # {} => requests'[p].left = {}
                    /\ \A v, w \in Rows(p)' : v = w
    <3>1. CASE p # r
      <4>1. requests'[p] = requests[p] /\ Rows(p)' = Rows(p)
        BY <1>1, <1>2, <1>4, <3>1 DEF Rows
      <4> QED BY <2>2, <4>1 DEF TrailInv, OneTeller
    <3>2. CASE p = r /\ rows' = rows
      <4>1. Rows(p)' = Rows(p) /\ requests'[p] = q
        BY <1>1, <3>2 DEF Rows
      <4>2. requests[r] = None => Rows(r) = {}
        BY DEF TrailInv, OneTeller, Rows
      <4> QED BY <3>2, <4>1, <4>2 DEF TrailInv, OneTeller
    <3>3. CASE p = r /\ rows' # rows
      <4>1. PICK w : rows' = rows \cup {w} /\ q.open = None /\ w.of = r
                     /\ (q.kind = "ask" => q.left = {} /\ Rows(r) = {})
        BY <3>3
      <4>2. q.kind = "ask" => Rows(p)' = {w}
        BY <3>3, <4>1 DEF Rows
      <4> QED BY <1>1, <3>3, <4>1, <4>2
    <3> QED BY <3>1, <3>2, <3>3
  <2> QED BY <2>1, <2>2 DEF OneTeller
<1>7. Trail!Listed \subseteq Trail!Listed'
  BY <1>2 DEF Trail!Listed
<1>8. PagesFollow'
  <2> SUFFICES ASSUME paging # None PROVE PagesFollow'
    BY DEF PagesFollow
  <2>1. Unseen' = Unseen /\ Behind' = Behind /\ (Trail!AtTheEnd' <=> Trail!AtTheEnd)
    BY DEF Unseen, Behind, Trail!AtTheEnd
  <2>2. \A s \in paging.start : \E w \in rows' : w.at = s
    BY <1>2 DEF TrailInv, PagesFollow
  <2>3. ASSUME NEW s \in Unseen
        PROVE  Trail!Rank(s)' >= Behind
    <3>1. s \in Trail!Stamp /\ s > since'
      BY DEF Unseen, TrailInv, Trail!TypeOK, Trail!Page
    <3>2. /\ Trail!Rank(s)' \in Nat /\ Trail!Rank(s) \in Nat
          /\ Trail!Rank(s)' >= Trail!Rank(s)
      BY <1>3, <1>7, <3>1, RankOnlyGrows DEF TrailInv
    <3>3. Trail!Rank(s) >= Behind
      BY DEF TrailInv, PagesFollow
    <3>4. Behind \in Nat
      BY DEF Behind, TrailInv, TrailNamed, Trail!TypeOK, Trail!Page
    <3> QED BY <3>2, <3>3, <3>4
  <2>4. ASSUME paging.step = "page", ~crossed'
        PROVE  paging.total = Trail!Cardinality(Trail!Listed)'
    <3>1. rows' = rows /\ crossed' = crossed
      BY <2>4
    <3>2. Trail!Listed' = Trail!Listed
      BY <3>1 DEF Trail!Listed
    <3>3. Trail!Cardinality(Trail!Listed)' = Trail!Cardinality(Trail!Listed)
      BY <3>2, TrailCardinality
    <3> QED BY <2>4, <3>1, <3>3 DEF TrailInv, PagesFollow
  <2>5. ~crossed' => ~crossed
    OBVIOUS
  <2> QED BY <2>1, <2>2, <2>3, <2>4, <2>5 DEF TrailInv, PagesFollow
<1> QED BY <1>3, <1>6, <1>8 DEF TrailInv, TrailNamed, Trail!Telling

LEMMA TrailServe ==
    ASSUME TrailInv, NEW r \in Request, NEW k \in Trail!Kind, NEW succeeds \in BOOLEAN,
           Trail!Serve(r, k, succeeds)
    PROVE  TrailInv'
<1> DEFINE q == [kind |-> k, open |-> None,
                 left |-> {w \in {"route"} : k \in Trail!RichlyTold /\ succeeds}
                          \cup {w \in {"middleware"} :
                                  Trail!ShouldAudit(k) /\ k \in Trail!HasPrincipal}]
<1>1. q \in Trail!Telling /\ q.kind = k /\ q.open = None
  BY DEF Trail!Telling
<1>2. k = "ask" => q.left \subseteq {"route"}
  BY DEF Trail!ShouldAudit, Trail!RichPath
<1>3. requests' = [requests EXCEPT ![r] = q] /\ requests[r] = None
  BY DEF Trail!Serve
<1>4. UNCHANGED <<clock, rows, since, paging, crossed>> /\ clock \in Nat /\ clock <= MaxClock
  BY DEF Trail!Serve, TrailInv, TrailNamed, Trail!TypeOK
<1> HIDE DEF q
<1> QED BY <1>1, <1>2, <1>3, <1>4, TrailTells

LEMMA TrailTell ==
    ASSUME TrailInv, NEW r \in Request, NEW by \in {"route", "middleware"},
           Trail!Tell(r, by)
    PROVE  TrailInv'
<1>1. PICK p \in Trail!Telling : p = requests[r] /\ p # None /\ p.open = None /\ by \in p.left
  BY DEF Trail!Tell, TrailInv, TrailNamed, Trail!TypeOK, Trail!Telling
<1>2. clock' = clock + 1 /\ clock + 1 \in Trail!Stamp
  BY DEF Trail!Tell, TrailInv, TrailNamed, Trail!TypeOK, Trail!Stamp
<1> DEFINE o == [by |-> by, kind |-> p.kind, at |-> clock + 1]
           q == [p EXCEPT !.left = p.left \ {by}, !.open = o]
<1>3. o \in Trail!Write /\ o.kind = p.kind
  BY <1>2 DEF Trail!Telling, Trail!Write
<1>4. q \in Trail!Telling /\ q.kind = p.kind /\ q.left = p.left \ {by} /\ q.open = o
  BY <1>3 DEF Trail!Telling
<1>5. requests' = [requests EXCEPT ![r] = q]
  BY <1>1, <1>2 DEF Trail!Tell, TrailInv, Trail!TypeOK
<1>6. p.kind = "ask" => p.left \subseteq {"route"} /\ Rows(r) = {} /\ q.left = {}
  BY <1>1, <1>4 DEF TrailInv, OneTeller
<1>7. UNCHANGED <<rows, since, paging, crossed>> /\ clock + 1 <= MaxClock
  BY DEF Trail!Tell, TrailInv, TrailNamed, Trail!TypeOK
<1> HIDE DEF o, q
<1> QED BY <1>1, <1>2, <1>3, <1>4, <1>5, <1>6, <1>7, TrailTells

LEMMA TrailEnds ==
    ASSUME TrailInv, NEW r \in Request, Trail!Commit(r) \/ Trail!Lose(r)
    PROVE  TrailInv'
<1>1. PICK p \in Trail!Telling : p = requests[r] /\ p # None /\ p.open # None
  BY DEF Trail!Commit, Trail!Lose, Trail!Told, TrailInv, TrailNamed, Trail!TypeOK, Trail!Telling
<1> DEFINE q == [kind |-> p.kind, left |-> p.left, open |-> None]
<1>2. q \in Trail!Telling /\ q.kind = p.kind /\ q.left = p.left /\ q.open = None
  BY DEF Trail!Telling
<1>3. requests' = [requests EXCEPT ![r] = q]
  <2>1. [p EXCEPT !.open = None] = q
    BY DEF Trail!Telling
  <2>2. requests' = [requests EXCEPT ![r] = [p EXCEPT !.open = None]]
    BY <1>1 DEF Trail!Commit, Trail!Lose, Trail!Told, TrailInv, Trail!TypeOK
  <2> QED BY <2>1, <2>2
<1>4. /\ p.open.kind = p.kind
      /\ p.kind = "ask" => p.left = {} /\ Rows(r) = {}
  BY <1>1 DEF TrailInv, OneTeller
<1>5. p.open.by \in {"route", "middleware"} /\ p.open.at \in Trail!Stamp
  BY <1>1 DEF Trail!Telling, Trail!Write
<1>6. UNCHANGED <<clock, since, paging>> /\ clock <= MaxClock
  BY DEF Trail!Commit, Trail!Lose, TrailInv, TrailNamed, Trail!TypeOK
<1> HIDE DEF q
<1>7. CASE Trail!Lose(r)
  <2>1. rows' = rows /\ crossed' = crossed
    BY <1>7 DEF Trail!Lose
  <2> QED BY <1>1, <1>2, <1>3, <1>4, <1>6, <2>1, TrailTells
<1>8. CASE Trail!Commit(r)
  <2>1. /\ rows' = rows \cup {[by |-> p.open.by, kind |-> q.kind, at |-> p.open.at, of |-> r]}
        /\ crossed' = (crossed \/ (paging # None /\ paging.step = "page"))
    BY <1>1, <1>2, <1>4, <1>8 DEF Trail!Commit
  <2> QED BY <1>1, <1>2, <1>3, <1>4, <1>5, <1>6, <2>1, TrailTells
<1> QED BY <1>7, <1>8

\* The days go by while the owner looks at a page: nothing enters the list, and what leaves
\* it is behind the rows that stay.
LEMMA TrailDayPasses ==
    ASSUME TrailInv, Trail!DayPasses
    PROVE  TrailInv'
<1>1. /\ UNCHANGED <<clock, requests, rows, paging, crossed>>
      /\ since' = since + 1 /\ since \in Nat /\ since' \in 0..MaxClock
      /\ paging # None => paging.step = "shown"
  BY DEF Trail!DayPasses, TrailInv, TrailNamed, Trail!TypeOK
<1>2. Trail!TypeOK'
  BY <1>1 DEF TrailInv, Trail!TypeOK
<1>3. OneTeller'
  BY <1>1 DEF TrailInv, OneTeller, Rows
<1>4. ASSUME paging # None
      PROVE  PagesFollow'
  <2>1. paging.start \subseteq Trail!Stamp
    BY <1>4 DEF TrailInv, Trail!TypeOK, Trail!Page
  <2>2. /\ Unseen' \subseteq Unseen /\ Behind' = Behind
        /\ (Trail!AtTheEnd' <=> Trail!AtTheEnd)
    BY <1>1, <2>1 DEF Unseen, Behind, Trail!AtTheEnd, Trail!Stamp
  <2>3. ASSUME NEW s \in Unseen'
        PROVE  Trail!Rank(s)' >= Behind
    <3>1. s \in Trail!Stamp /\ s > since' /\ s \in Unseen
      BY <1>1, <2>1, <2>2 DEF Unseen
    <3>2. /\ Trail!Rank(s)' \in Nat /\ Trail!Rank(s) \in Nat
          /\ Trail!Rank(s)' >= Trail!Rank(s)
      BY <1>1, <1>2, <3>1, RankOnlyGrows DEF TrailInv
    <3>3. Trail!Rank(s) >= Behind
      BY <1>4, <3>1 DEF TrailInv, PagesFollow
    <3>4. Behind \in Nat
      BY <1>4 DEF Behind, TrailInv, TrailNamed, Trail!TypeOK, Trail!Page
    <3> QED BY <3>2, <3>3, <3>4
  <2> QED BY <1>1, <1>4, <2>2, <2>3 DEF TrailInv, PagesFollow
<1>5. PagesFollow'
  BY <1>1, <1>4 DEF PagesFollow
<1> QED BY <1>2, <1>3, <1>5 DEF TrailInv, TrailNamed, Trail!Telling

\* A page that has been counted holds all that is left of the list when it is the last.
LEMMA TrailPages ==
    ASSUME TrailInv, Trail!Turn \/ Trail!Count \/ Trail!ShowPage
    PROVE  TrailInv'
<1>1. UNCHANGED <<clock, requests, rows, since, crossed>>
  BY DEF Trail!Turn, Trail!Count, Trail!ShowPage
<1>2. /\ Trail!Listed' = Trail!Listed
      /\ \A s : Trail!Rank(s)' = Trail!Rank(s)
  <2>1. Trail!Listed' = Trail!Listed
    BY <1>1 DEF Trail!Listed
  <2> QED BY <2>1, TrailCardinality DEF Trail!Rank
<1>3. /\ Trail!Listed \subseteq Trail!Stamp
      /\ Trail!Cardinality(Trail!Listed) \in Nat
      /\ \A s \in Trail!Stamp : Trail!Rank(s) \in Nat
      /\ \A s \in Trail!Listed : Trail!Rank(s) < Trail!Cardinality(Trail!Listed)
  BY ListIsFinite DEF TrailInv
<1>4. Trail!Cardinality(Trail!Listed)' = Trail!Cardinality(Trail!Listed)
  BY <1>2, TrailCardinality
<1>5. OneTeller'
  BY <1>1 DEF TrailInv, OneTeller, Rows
<1>6. Limit \in Nat
  BY DEF TrailInv, TrailNamed
<1>7. CASE paging = None
  <2>1. paging' = [step |-> "count", offset |-> 0, total |-> 0,
                   start |-> Trail!Listed, seen |-> {}]
    BY <1>7 DEF Trail!Turn, Trail!Count, Trail!ShowPage
  <2>2. paging' \in Trail!Page
    BY <1>3, <2>1 DEF Trail!Page
  <2>3. Trail!TypeOK'
    BY <1>1, <2>2 DEF TrailInv, Trail!TypeOK
  <2>4. Unseen' \subseteq Trail!Listed /\ Behind' = 0 /\ ~Trail!AtTheEnd'
    BY <2>1 DEF Unseen, Behind, Trail!AtTheEnd
  <2>5. \A s \in Trail!Listed : \E w \in rows : w.at = s
    BY DEF Trail!Listed
  <2>6. \A s \in Unseen' : Trail!Rank(s)' >= 0
    BY <1>2, <1>3, <2>4
  <2>7. PagesFollow'
    BY <1>1, <2>1, <2>4, <2>5, <2>6 DEF PagesFollow
  <2> QED BY <1>5, <2>3, <2>7 DEF TrailInv, TrailNamed, Trail!Telling
<1>8. CASE paging # None
  <2>1. PICK p \in Trail!Page : p = paging
    BY <1>8 DEF TrailInv, Trail!TypeOK
  <2>2. /\ \A s \in p.start : \E w \in rows : w.at = s
        /\ \A s \in Unseen : Trail!Rank(s) >= Behind
        /\ p.step = "page" /\ ~crossed => p.total = Trail!Cardinality(Trail!Listed)
    BY <1>8, <2>1 DEF TrailInv, PagesFollow
  <2>3. CASE Trail!Turn
    <3>1. /\ p.step = "shown"
          /\ paging' = [p EXCEPT !.step = "count", !.offset = p.offset + Limit]
      BY <1>8, <2>1, <2>3 DEF Trail!Turn
    <3>2. /\ paging' \in Trail!Page /\ paging'.step = "count"
          /\ paging'.offset = p.offset + Limit
          /\ paging'.start = p.start /\ paging'.seen = p.seen
      <4>1. p.offset + Limit \in Nat
        BY <1>6 DEF Trail!Page
      <4>2. paging' = [step |-> "count", offset |-> p.offset + Limit, total |-> p.total,
                       start |-> p.start, seen |-> p.seen]
        BY <3>1 DEF Trail!Page
      <4> QED BY <4>1, <4>2 DEF Trail!Page
    <3>3. /\ Unseen' = Unseen /\ Behind' = Behind /\ ~Trail!AtTheEnd'
      BY <1>1, <2>1, <3>1, <3>2 DEF Unseen, Behind, Trail!AtTheEnd
    <3>4. PagesFollow'
      BY <1>1, <1>2, <2>2, <3>2, <3>3 DEF PagesFollow
    <3>5. Trail!TypeOK'
      BY <1>1, <3>2 DEF TrailInv, Trail!TypeOK
    <3> QED BY <1>5, <3>4, <3>5 DEF TrailInv, TrailNamed, Trail!Telling
  <2>4. CASE Trail!Count
    <3>1. /\ p.step = "count"
          /\ paging' = [p EXCEPT !.step = "page",
                                 !.total = Trail!Cardinality(Trail!Listed)]
      BY <1>8, <2>1, <2>4 DEF Trail!Count
    <3>2. /\ paging' \in Trail!Page /\ paging'.step = "page" /\ paging'.offset = p.offset
          /\ paging'.start = p.start /\ paging'.seen = p.seen
          /\ paging'.total = Trail!Cardinality(Trail!Listed)
      BY <1>3, <3>1 DEF Trail!Page
    <3>3. /\ Unseen' = Unseen /\ Behind' = Behind /\ ~Trail!AtTheEnd'
      BY <1>1, <2>1, <3>1, <3>2 DEF Unseen, Behind, Trail!AtTheEnd
    <3>4. PagesFollow'
      BY <1>1, <1>2, <1>4, <2>2, <3>2, <3>3 DEF PagesFollow
    <3>5. Trail!TypeOK'
      BY <1>1, <3>2 DEF TrailInv, Trail!TypeOK
    <3> QED BY <1>5, <3>4, <3>5 DEF TrailInv, TrailNamed, Trail!Telling
  <2>5. CASE Trail!ShowPage
    <3> DEFINE page == {s \in Trail!Listed : /\ Trail!Rank(s) >= p.offset
                                             /\ Trail!Rank(s) < p.offset + Limit}
    <3>1. /\ p.step = "page"
          /\ paging' = [p EXCEPT !.step = "shown", !.seen = p.seen \cup page]
      BY <1>8, <2>1, <2>5 DEF Trail!ShowPage
    <3>2. /\ paging' \in Trail!Page /\ paging'.step = "shown" /\ paging'.offset = p.offset
          /\ paging'.start = p.start /\ paging'.seen = p.seen \cup page
          /\ paging'.total = p.total
      BY <1>3, <3>1 DEF Trail!Page
    <3>3. Behind' = p.offset + Limit /\ Behind = p.offset
      BY <2>1, <3>1, <3>2 DEF Behind
    <3>4. ASSUME NEW s \in Unseen'
          PROVE  s \in Trail!Listed /\ Trail!Rank(s) >= p.offset + Limit
      <4>1. s \in Unseen /\ s \notin page
        BY <1>1, <2>1, <3>2 DEF Unseen
      <4>2. s \in Trail!Listed
        BY <2>1, <2>2, <4>1 DEF Unseen, Trail!Listed
      <4>3. Trail!Rank(s) >= p.offset /\ Trail!Rank(s) \in Nat
        BY <1>3, <2>2, <3>3, <4>1, <4>2
      <4> QED BY <1>6, <4>1, <4>2, <4>3 DEF Trail!Page
    <3>5. ASSUME Trail!AtTheEnd', ~crossed
          PROVE  Unseen' = {}
      <4>1. p.total = Trail!Cardinality(Trail!Listed) /\ p.offset + Limit >= p.total
        BY <2>2, <3>1, <3>2, <3>5 DEF Trail!AtTheEnd
      <4>2. \A s \in Unseen' : Trail!Rank(s) < p.total /\ Trail!Rank(s) \in Nat
        BY <1>3, <3>4, <4>1
      <4> QED BY <1>3, <1>6, <3>4, <4>1, <4>2 DEF Trail!Page
    <3>6. PagesFollow'
      BY <1>1, <1>2, <2>2, <3>2, <3>3, <3>4, <3>5 DEF PagesFollow
    <3>7. Trail!TypeOK'
      BY <1>1, <3>2 DEF TrailInv, Trail!TypeOK
    <3> QED BY <1>5, <3>6, <3>7 DEF TrailInv, TrailNamed, Trail!Telling
  <2> QED BY <2>3, <2>4, <2>5
<1> QED BY <1>7, <1>8

LEMMA TrailStep == TrailInv /\ [Trail!Next]_Trail!vars => TrailInv'
<1> SUFFICES ASSUME TrailInv, [Trail!Next]_Trail!vars PROVE TrailInv'
  OBVIOUS
<1>1. CASE UNCHANGED Trail!vars
  <2>1. UNCHANGED <<clock, requests, rows, since, paging, crossed>>
    BY <1>1 DEF Trail!vars
  <2>2. Trail!Listed' = Trail!Listed
    BY <2>1 DEF Trail!Listed
  <2>3. /\ Trail!Cardinality(Trail!Listed)' = Trail!Cardinality(Trail!Listed)
        /\ \A s : Trail!Rank(s)' = Trail!Rank(s)
    BY <2>2, TrailCardinality DEF Trail!Rank
  <2>4. PagesFollow'
    BY <2>1, <2>3 DEF TrailInv, PagesFollow, Unseen, Behind, Trail!AtTheEnd
  <2> QED
    BY <2>1, <2>4 DEF TrailInv, TrailNamed, Trail!Telling, Trail!TypeOK, OneTeller, Rows
<1> QED
  BY <1>1, TrailServe, TrailTell, TrailEnds, TrailDayPasses, TrailPages DEF Trail!Next

LEMMA TrailProves == TrailInv => Trail!PagesMissNothing
<1> SUFFICES ASSUME TrailInv PROVE Trail!PagesMissNothing
  OBVIOUS
<1>1. Trail!AtTheEnd /\ ~crossed =>
         \A s \in paging.start : s > since => s \in paging.seen
  BY DEF TrailInv, PagesFollow, Unseen, Trail!AtTheEnd
<1>2. ASSUME NEW v \in rows, NEW w \in rows, v.of = w.of, v.kind = "ask"
      PROVE  v = w
  <2>1. v.of \in Request /\ requests[v.of] # None /\ requests[v.of].kind = "ask"
    BY <1>2 DEF TrailInv, OneTeller, Trail!TypeOK
  <2> QED BY <1>2, <2>1 DEF TrailInv, OneTeller, Rows
<1> QED BY <1>1, <1>2 DEF Trail!PagesMissNothing

\* For any page size and any number of requests that write rows meanwhile: the owner who
\* pages to the end has seen every row there was, and an ask is told once
\* (routes/audit.py:86-112, middleware/audit.py:26-99).
THEOREM NothingMissed == TrailNamed => (Trail!Spec => []Trail!PagesMissNothing)
<1>1. TrailNamed /\ Trail!Spec => []TrailInv
  BY TrailInit, TrailStep, PTL DEF Trail!Spec
<1> QED BY <1>1, TrailProves, PTL
------------------------------------------------------------------------------
(* ---- Summaries --------------------------------------------------------- *)

SumsNamed == MaxText \in Nat /\ None \notin (0..MaxText) \cup Sums!Task

(***************************************************************************)
(* The invariant. A document without a row has no task, queued or to come. *)
(* One with text that is not excused has a task in the queue or to come;   *)
(* or else all its runs have read the text there is, or nothing, and one   *)
(* of them is still to write unless the summary is there already.          *)
(***************************************************************************)
Runs(w, d) == work[w] # None /\ work[w].doc = d
RowsFirst ==
    \A d \in Doc : text[d] = None =>
        queue[d] = 0 /\ ~Sums!Unqueued(d) /\ \A w \in Worker : ~Runs(w, d)
DocsNamed == \A r \in PipelineRun : run[r].at # "idle" => run[r].doc \in Doc
Watched(d) == d \notin excused /\ text[d] # None /\ text[d] # 0
ToCome(d) == queue[d] > 0 \/ Sums!Unqueued(d)
UpToDate(d) ==
    /\ \A w \in Worker : Runs(w, d) => work[w].text \in {0, text[d]}
    /\ summary[d] \in {0, text[d]} \/ \E w \in Worker : Runs(w, d)
Followed == \A d \in Doc : Watched(d) => ToCome(d) \/ UpToDate(d)

SumsInv == SumsNamed /\ Sums!TypeOK /\ RowsFirst /\ DocsNamed /\ Followed

LEMMA SumsInit == SumsNamed /\ Sums!Init => SumsInv
<1> SUFFICES ASSUME SumsNamed, Sums!Init PROVE SumsInv
  OBVIOUS
<1>1. /\ auto \in BOOLEAN /\ excused = {}
      /\ text \in [Doc -> {None}] /\ summary \in [Doc -> {0}]
      /\ queue \in [Doc -> {0}] /\ work \in [Worker -> {None}]
      /\ run = [r \in PipelineRun |-> Sums!NewPipeline]
  BY DEF Sums!Init
<1>2. Sums!NewPipeline \in Sums!Pipeline /\ Sums!NewPipeline.at = "idle"
  BY DEF Sums!NewPipeline, Sums!Pipeline
<1>3. /\ text \in [Doc -> 0..MaxText \cup {None}] /\ summary \in [Doc -> 0..MaxText]
      /\ queue \in [Doc -> 0..2] /\ work \in [Worker -> Sums!Task \cup {None}]
  <2>1. 0 \in 0..MaxText /\ 0 \in 0..2
    BY DEF SumsNamed
  <2> QED BY <1>1, <2>1
<1>4. run \in [PipelineRun -> Sums!Pipeline] /\ \A r \in PipelineRun : run[r].at = "idle"
  BY <1>1, <1>2
<1>5. Sums!TypeOK
  BY <1>1, <1>3, <1>4 DEF Sums!TypeOK
<1>6. \A d \in Doc : ~Sums!Unqueued(d)
  BY <1>4 DEF Sums!Unqueued
<1>7. RowsFirst /\ DocsNamed /\ Followed
  BY <1>1, <1>4, <1>6 DEF RowsFirst, DocsNamed, Followed, Watched, Runs
<1> QED BY <1>5, <1>7 DEF SumsInv

\* A task is put in the queue or found there already.
LEMMA QueueKeeps ==
    ASSUME Sums!TypeOK, NEW ds \in SUBSET Doc
    PROVE  /\ Sums!Queued(ds) \in [Doc -> 0..2]
           /\ \A d \in Doc : Sums!Queued(ds)[d] >= queue[d]
           /\ \A d \in ds : Sums!Queued(ds)[d] > 0
           /\ \A d \in Doc \ ds : Sums!Queued(ds)[d] = queue[d]
<1>1. \A d \in Doc : queue[d] \in 0..2
  BY DEF Sums!TypeOK
<1> QED BY <1>1 DEF Sums!Queued

LEMMA SumsQueue ==
    ASSUME SumsInv, NEW ds \in SUBSET Sums!Rows, queue' = Sums!Queued(ds),
           UNCHANGED <<auto, text, summary, work, run, excused>>
    PROVE  SumsInv'
<1>1. /\ ds \subseteq Doc /\ queue' \in [Doc -> 0..2]
      /\ \A d \in Doc : queue'[d] >= queue[d] /\ queue[d] \in 0..2 /\ queue'[d] \in 0..2
      /\ \A d \in Doc : text[d] = None => queue'[d] = queue[d]
  <2>1. ds \subseteq Doc /\ \A d \in ds : text[d] # None
    BY DEF Sums!Rows
  <2>2. \A d \in Doc : queue[d] \in 0..2
    BY DEF SumsInv, Sums!TypeOK
  <2> QED BY <2>1, <2>2, QueueKeeps DEF SumsInv
<1>2. Sums!TypeOK'
  BY <1>1 DEF SumsInv, Sums!TypeOK, Sums!Pipeline, Sums!Task
<1>3. RowsFirst' /\ DocsNamed'
  BY <1>1 DEF SumsInv, RowsFirst, DocsNamed, Runs, Sums!Unqueued
<1>4. \A d \in Doc : /\ Watched(d)' => Watched(d)
                     /\ ToCome(d) => ToCome(d)'
                     /\ UpToDate(d) => UpToDate(d)'
  BY <1>1 DEF Watched, ToCome, UpToDate, Runs, Sums!Unqueued
<1>5. Followed'
  BY <1>4 DEF SumsInv, Followed
<1> QED BY <1>2, <1>3, <1>5 DEF SumsInv, SumsNamed, Sums!Task

\* A pipeline goes on: the others are as they were.
LEMMA RunBecomes ==
    ASSUME Sums!TypeOK, NEW r \in PipelineRun, NEW d \in Doc \cup {None},
           NEW at \in {"idle", "begun", "committed"}, NEW toggle \in {"unread", "on", "off"},
           Sums!Becomes(r, d, at, toggle)
    PROVE  /\ run' \in [PipelineRun -> Sums!Pipeline]
           /\ run'[r].doc = d /\ run'[r].at = at
           /\ \A q \in PipelineRun \ {r} : run'[q] = run[q]
<1>1. [doc |-> d, at |-> at, toggle |-> toggle] \in Sums!Pipeline
  BY DEF Sums!Pipeline
<1> QED BY <1>1 DEF Sums!Becomes, Sums!TypeOK

\* What follows where the tasks and the queue are as they were or longer, and the ingest
\* that was to queue a task has done so.
LEMMA SumsRuns ==
    ASSUME SumsInv, NEW r \in PipelineRun,
           run' \in [PipelineRun -> Sums!Pipeline], \A q \in PipelineRun \ {r} : run'[q] = run[q],
           run'[r].at # "idle" => run'[r].doc \in Doc,
           run'[r].at = "committed" => text'[run'[r].doc] # None,
           text' \in [Doc -> 0..MaxText \cup {None}],
           \A d \in Doc : text'[d] = None => text[d] = None,
           queue' \in [Doc -> 0..2],
           \A d \in Doc : queue'[d] >= queue[d] /\ (text[d] = None => queue'[d] = 0),
           excused' \subseteq Doc, UNCHANGED <<auto, summary, work>>,
           \A d \in Doc : \/ Watched(d)' => ToCome(d)'
                          \/ /\ Watched(d)' => Watched(d)
                             /\ Sums!Unqueued(d) => Sums!Unqueued(d)'
                             /\ text'[d] = text[d]
    PROVE  SumsInv'
<1>1. Sums!TypeOK'
  BY DEF SumsInv, Sums!TypeOK, Sums!Pipeline, Sums!Task
<1>2. DocsNamed'
  BY DEF SumsInv, DocsNamed
<1>3. RowsFirst'
  <2> SUFFICES ASSUME NEW d \in Doc, text'[d] = None
      PROVE  queue'[d] = 0 /\ ~Sums!Unqueued(d)' /\ \A w \in Worker : ~Runs(w, d)'
    BY DEF RowsFirst
  <2>1. text[d] = None /\ queue'[d] = 0
    OBVIOUS
  <2>2. ~Sums!Unqueued(d) /\ \A w \in Worker : ~Runs(w, d)
    BY <2>1 DEF SumsInv, RowsFirst
  <2>3. ~Sums!Unqueued(d)'
    BY <2>2 DEF Sums!Unqueued
  <2>4. \A w \in Worker : ~Runs(w, d)'
    BY <2>2 DEF Runs
  <2> QED BY <2>1, <2>3, <2>4
<1>4. Followed'
  <2> SUFFICES ASSUME NEW d \in Doc, Watched(d)' PROVE ToCome(d)' \/ UpToDate(d)'
    BY DEF Followed
  <2>1. CASE Watched(d)' => ToCome(d)'
    BY <2>1
  <2>2. CASE /\ Watched(d)' => Watched(d)
             /\ Sums!Unqueued(d) => Sums!Unqueued(d)'
             /\ text'[d] = text[d]
    <3>1. ToCome(d) \/ UpToDate(d)
      BY <2>2 DEF SumsInv, Followed
    <3>2. queue[d] \in 0..2 /\ queue'[d] \in 0..2 /\ queue'[d] >= queue[d]
      BY DEF SumsInv, Sums!TypeOK
    <3>3. ToCome(d) => ToCome(d)'
      BY <2>2, <3>2 DEF ToCome
    <3>4. UpToDate(d) => UpToDate(d)'
      BY <2>2 DEF UpToDate, Runs
    <3> QED BY <3>1, <3>3, <3>4
  <2> QED BY <2>1, <2>2
<1> QED BY <1>1, <1>2, <1>3, <1>4 DEF SumsInv, SumsNamed, Sums!Task

\* What a step of a pipeline leaves alone.
LEMMA QueueStands ==
    ASSUME SumsInv, queue' = queue
    PROVE  /\ queue' \in [Doc -> 0..2]
           /\ \A d \in Doc : queue'[d] >= queue[d] /\ (text[d] = None => queue'[d] = 0)
<1>1. \A d \in Doc : queue[d] \in 0..2 /\ (text[d] = None => queue[d] = 0)
  BY DEF SumsInv, RowsFirst, Sums!TypeOK
<1> QED BY <1>1 DEF SumsInv, Sums!TypeOK

LEMMA SumsStart ==
    ASSUME SumsInv, NEW r \in PipelineRun, Sums!Start(r)
    PROVE  SumsInv'
<1>1. run[r].at = "idle" /\ UNCHANGED <<auto, text, summary, queue, work, excused>>
  BY DEF Sums!Start
<1>2. Sums!NewPipeline \in Sums!Pipeline /\ Sums!NewPipeline.at = "idle"
  BY DEF Sums!NewPipeline, Sums!Pipeline
<1>3. /\ run' \in [PipelineRun -> Sums!Pipeline] /\ run'[r].at = "idle"
      /\ \A q \in PipelineRun \ {r} : run'[q] = run[q]
  BY <1>2 DEF Sums!Start, SumsInv, Sums!TypeOK
<1>4. \A d \in Doc : Sums!Unqueued(d) => Sums!Unqueued(d)'
  BY <1>1, <1>3 DEF Sums!Unqueued
<1>5. \A d \in Doc : Watched(d)' => Watched(d)
  BY <1>1 DEF Watched
<1>6. text' \in [Doc -> 0..MaxText \cup {None}] /\ excused' \subseteq Doc
  BY <1>1 DEF SumsInv, Sums!TypeOK
<1> QED BY <1>1, <1>3, <1>4, <1>5, <1>6, QueueStands, SumsRuns

LEMMA SumsBegin ==
    ASSUME SumsInv, NEW r \in PipelineRun, NEW d \in Doc, Sums!Begin(r, d)
    PROVE  SumsInv'
<1>1. run[r].at = "idle" /\ UNCHANGED <<auto, summary, queue, work, excused>>
  BY DEF Sums!Begin
<1>2. run[r].toggle \in {"unread", "on", "off"}
  BY DEF SumsInv, Sums!TypeOK, Sums!Pipeline
<1>3. /\ run' \in [PipelineRun -> Sums!Pipeline] /\ run'[r].doc = d /\ run'[r].at = "begun"
      /\ \A q \in PipelineRun \ {r} : run'[q] = run[q]
  BY <1>2, RunBecomes DEF Sums!Begin, SumsInv
<1>4. \A e \in Doc : Sums!Unqueued(e) => Sums!Unqueued(e)'
  BY <1>1, <1>3 DEF Sums!Unqueued
<1>5. 0 \in 0..MaxText /\ None # 0
  BY DEF SumsInv, SumsNamed
<1>6. /\ text' \in [Doc -> 0..MaxText \cup {None}]
      /\ \A e \in Doc \ {d} : text'[e] = text[e]
      /\ IF text[d] # None THEN text'[d] = 0 ELSE text'[d] = None
  BY <1>5 DEF Sums!Begin, Sums!Rows, SumsInv, Sums!TypeOK
<1>7. ~Watched(d)'
  BY <1>6 DEF Watched
<1>8. \A e \in Doc \ {d} : Watched(e)' => Watched(e)
  BY <1>1, <1>6 DEF Watched
<1>9. excused' \subseteq Doc
  BY <1>1 DEF SumsInv, Sums!TypeOK
<1>10. \A e \in Doc : text'[e] = None => text[e] = None
  BY <1>5, <1>6
<1>11. \A e \in Doc : \/ Watched(e)' => ToCome(e)'
                      \/ /\ Watched(e)' => Watched(e)
                         /\ Sums!Unqueued(e) => Sums!Unqueued(e)'
                         /\ text'[e] = text[e]
  BY <1>4, <1>6, <1>7, <1>8
<1> QED BY <1>1, <1>3, <1>6, <1>9, <1>10, <1>11, QueueStands, SumsRuns

\* The new text has its task to come; no text needs none.
LEMMA SumsCommit ==
    ASSUME SumsInv, NEW r \in PipelineRun, NEW n \in 0..MaxText, Sums!Commit(r, n)
    PROVE  SumsInv'
<1>1. PICK d \in Doc : d = run[r].doc
  BY DEF SumsInv, DocsNamed, Sums!Commit
<1>2. /\ run[r].at = "begun" /\ UNCHANGED <<auto, summary, queue, work>>
      /\ excused' = excused \ {d}
  BY <1>1 DEF Sums!Commit
<1>3. /\ run[r].toggle \in {"unread", "on", "off"}
      /\ n # None
  BY DEF SumsInv, SumsNamed, Sums!TypeOK, Sums!Pipeline
<1>4. /\ text' \in [Doc -> 0..MaxText \cup {None}] /\ text'[d] = n
      /\ \A e \in Doc \ {d} : text'[e] = text[e]
  BY <1>1 DEF Sums!Commit, SumsInv, Sums!TypeOK
<1>5. /\ run' \in [PipelineRun -> Sums!Pipeline]
      /\ \A q \in PipelineRun \ {r} : run'[q] = run[q]
      /\ IF n = 0 THEN run'[r].at = "idle"
                  ELSE run'[r].at = "committed" /\ run'[r].doc = d
  <2>1. CASE n = 0
    <3>1. Sums!Becomes(r, None, "idle", run[r].toggle)
      BY <2>1 DEF Sums!Commit
    <3> QED BY <1>3, <2>1, <3>1, RunBecomes DEF SumsInv
  <2>2. CASE n # 0
    <3>1. Sums!Becomes(r, d, "committed", run[r].toggle)
      BY <1>1, <2>2 DEF Sums!Commit
    <3> QED BY <1>3, <2>2, <3>1, RunBecomes DEF SumsInv
  <2> QED BY <2>1, <2>2
<1>6. \A e \in Doc : Sums!Unqueued(e) => Sums!Unqueued(e)'
  BY <1>2, <1>5 DEF Sums!Unqueued
<1>7. Watched(d)' => ToCome(d)'
  <2>1. CASE n = 0
    BY <1>4, <2>1 DEF Watched
  <2>2. CASE n # 0
    BY <1>5, <2>2 DEF ToCome, Sums!Unqueued
  <2> QED BY <2>1, <2>2
<1>8. \A e \in Doc \ {d} : Watched(e)' => Watched(e)
  BY <1>2, <1>4 DEF Watched
<1>9. excused' \subseteq Doc
  BY <1>2 DEF SumsInv, Sums!TypeOK
<1>10. /\ \A e \in Doc : text'[e] = None => text[e] = None
       /\ run'[r].at # "idle" => run'[r].doc \in Doc
       /\ run'[r].at = "committed" => text'[run'[r].doc] # None
  BY <1>3, <1>4, <1>5
<1>11. \A e \in Doc : \/ Watched(e)' => ToCome(e)'
                      \/ /\ Watched(e)' => Watched(e)
                         /\ Sums!Unqueued(e) => Sums!Unqueued(e)'
                         /\ text'[e] = text[e]
  BY <1>4, <1>6, <1>7, <1>8
<1> QED BY <1>2, <1>4, <1>5, <1>9, <1>10, <1>11, QueueStands, SumsRuns

\* An ingest that is cut short, or that queues its task, is over.
LEMMA SumsLeaves ==
    ASSUME SumsInv, NEW r \in PipelineRun, Sums!Interrupted(r) \/ Sums!Enqueue(r)
    PROVE  SumsInv'
<1>1. PICK d \in Doc : d = run[r].doc
  BY DEF SumsInv, DocsNamed, Sums!Interrupted, Sums!Enqueue
<1>2. UNCHANGED <<auto, text, summary, work>>
  BY DEF Sums!Interrupted, Sums!Enqueue
<1>3. run[r].toggle \in {"unread", "on", "off"}
  BY DEF SumsInv, Sums!TypeOK, Sums!Pipeline
<1>4. PICK toggle \in {"unread", "on", "off"} : Sums!Becomes(r, None, "idle", toggle)
  <2>1. CASE Sums!Interrupted(r)
    BY <1>3, <2>1 DEF Sums!Interrupted
  <2>2. CASE Sums!Enqueue(r)
    BY <2>2 DEF Sums!Enqueue
  <2> QED BY <2>1, <2>2
<1>5. /\ run' \in [PipelineRun -> Sums!Pipeline] /\ run'[r].at = "idle"
      /\ \A q \in PipelineRun \ {r} : run'[q] = run[q]
  BY <1>4, RunBecomes DEF SumsInv
<1>6. \A e \in Doc : e # d \/ run[r].at # "committed"
                        => (Sums!Unqueued(e) => Sums!Unqueued(e)')
  BY <1>1, <1>5 DEF Sums!Unqueued
<1>7. queue' = queue \/ (queue' = Sums!Queued({d}) /\ run[r].at = "committed")
  BY <1>1 DEF Sums!Interrupted, Sums!Enqueue
<1>8. {d} \in SUBSET Doc
  OBVIOUS
<1>9. run[r].at = "committed" => text[d] # None
  <2>1. run[r].at = "committed" => Sums!Unqueued(d)
    BY <1>1 DEF Sums!Unqueued
  <2> QED BY <2>1 DEF SumsInv, RowsFirst
<1>10. /\ queue' \in [Doc -> 0..2]
       /\ \A e \in Doc : queue'[e] >= queue[e] /\ (text[e] = None => queue'[e] = 0)
  <2>1. CASE queue' = queue
    BY <2>1, QueueStands
  <2>2. CASE queue' = Sums!Queued({d}) /\ run[r].at = "committed"
    <3>1. \A e \in Doc : text[e] = None => queue[e] = 0
      BY DEF SumsInv, RowsFirst
    <3> QED BY <1>8, <1>9, <2>2, <3>1, QueueKeeps DEF SumsInv
  <2> QED BY <1>7, <2>1, <2>2
<1>11. /\ excused' \subseteq Doc /\ excused \subseteq excused'
       /\ run[r].at = "committed" => d \in excused' \/ queue'[d] > 0
  <2>1. excused \subseteq Doc
    BY DEF SumsInv, Sums!TypeOK
  <2>2. CASE Sums!Interrupted(r)
    BY <1>1, <2>1, <2>2 DEF Sums!Interrupted
  <2>3. CASE Sums!Enqueue(r)
    <3>1. \/ queue' = Sums!Queued({d}) /\ excused' = excused
          \/ excused' = excused \cup {d}
      BY <1>1, <2>3 DEF Sums!Enqueue
    <3>2. queue' = Sums!Queued({d}) => queue'[d] > 0
      BY <1>8, QueueKeeps DEF SumsInv
    <3> QED BY <2>1, <3>1, <3>2
  <2> QED BY <2>2, <2>3
<1>12. \A e \in Doc : Watched(e)' => Watched(e)
  BY <1>2, <1>11 DEF Watched
<1>13. run[r].at = "committed" => (Watched(d)' => ToCome(d)')
  BY <1>11 DEF Watched, ToCome
<1>14. text' \in [Doc -> 0..MaxText \cup {None}]
  BY <1>2 DEF SumsInv, Sums!TypeOK
<1>15. \A e \in Doc : \/ Watched(e)' => ToCome(e)'
                      \/ /\ Watched(e)' => Watched(e)
                         /\ Sums!Unqueued(e) => Sums!Unqueued(e)'
                         /\ text'[e] = text[e]
  BY <1>2, <1>6, <1>12, <1>13
<1> QED BY <1>2, <1>5, <1>10, <1>11, <1>14, <1>15, SumsRuns

LEMMA SumsRead ==
    ASSUME SumsInv, NEW w \in Worker, NEW d \in Doc, Sums!Read(w, d)
    PROVE  SumsInv'
<1>1. /\ work[w] = None /\ UNCHANGED <<auto, text, summary, run>>
      /\ queue[d] > 0
  BY DEF Sums!Read
<1>0. queue[d] # 0 /\ text[d] # None /\ text[d] \in 0..MaxText
  <2>1. queue[d] \in 0..2
    BY DEF SumsInv, Sums!TypeOK
  <2>2. queue[d] # 0
    BY <1>1, <2>1
  <2> QED BY <2>2 DEF SumsInv, RowsFirst, Sums!TypeOK
<1>2. /\ queue' \in [Doc -> 0..2]
      /\ \A e \in Doc \ {d} : queue'[e] = queue[e]
  <2>1. queue \in [Doc -> 0..2] /\ queue' = [queue EXCEPT ![d] = @ - 1]
    BY DEF Sums!Read, SumsInv, Sums!TypeOK
  <2>2. queue[d] - 1 \in 0..2
    BY <1>1, <2>1
  <2> QED BY <2>1, <2>2
<1>3. PICK task \in Sums!Task : task = [doc |-> d, text |-> text[d]]
  BY <1>0 DEF Sums!Task
<1>4. /\ work' \in [Worker -> Sums!Task \cup {None}]
      /\ work'[w] = task /\ task # None
      /\ \A v \in Worker \ {w} : work'[v] = work[v]
  BY <1>3 DEF Sums!Read, SumsInv, SumsNamed, Sums!TypeOK
<1>5. /\ excused \subseteq excused' /\ excused' \subseteq excused \cup {d}
      /\ d \notin excused' => \A v \in Worker : ~Runs(v, d)
  BY DEF Sums!Read, Sums!Working, Runs
<1>6. /\ Runs(w, d)' /\ work'[w].text = text[d]
      /\ \A e \in Doc \ {d} : \A v \in Worker : Runs(v, e)' <=> Runs(v, e)
      /\ \A v \in Worker \ {w} : Runs(v, d)' <=> Runs(v, d)
  BY <1>1, <1>3, <1>4 DEF Runs
<1>7. Sums!TypeOK' /\ DocsNamed'
  BY <1>1, <1>2, <1>4, <1>5 DEF SumsInv, Sums!TypeOK, DocsNamed, Sums!Pipeline, Sums!Task
<1>8. \A e \in Doc : Sums!Unqueued(e)' <=> Sums!Unqueued(e)
  BY <1>1 DEF Sums!Unqueued
<1>9. RowsFirst'
  BY <1>0, <1>1, <1>2, <1>6, <1>8 DEF SumsInv, RowsFirst
<1>10. Followed'
  <2> SUFFICES ASSUME NEW e \in Doc, Watched(e)' PROVE ToCome(e)' \/ UpToDate(e)'
    BY DEF Followed
  <2>1. CASE e = d
    <3>1. \A v \in Worker : Runs(v, d)' => v = w
      BY <1>5, <1>6, <2>1 DEF Watched
    <3> QED BY <1>1, <1>6, <2>1, <3>1 DEF UpToDate
  <2>2. CASE e # d
    <3>1. ToCome(e) \/ UpToDate(e)
      BY <1>1, <1>5 DEF SumsInv, Followed, Watched
    <3>2. ToCome(e) => ToCome(e)'
      BY <1>2, <1>8, <2>2 DEF ToCome
    <3>3. \A v \in Worker : Runs(v, e)' => work'[v] = work[v]
      BY <1>3, <1>4, <2>2 DEF Runs
    <3>4. UpToDate(e) => UpToDate(e)'
      BY <1>1, <1>6, <2>2, <3>3 DEF UpToDate
    <3> QED BY <3>1, <3>2, <3>4
  <2> QED BY <2>1, <2>2
<1> QED BY <1>7, <1>9, <1>10 DEF SumsInv, SumsNamed, Sums!Task

\* A run that ends has written its text or nothing, is excused, or is delivered again.
LEMMA SumsEnds ==
    ASSUME SumsInv, NEW w \in Worker, Sums!TaskEnds(w)
    PROVE  SumsInv'
<1>a. (\E made \in 0..MaxText : Sums!Write(w, made)) \/ Sums!Fail(w) \/ Sums!Crash(w)
  BY DEF Sums!TaskEnds
<1>1. PICK task \in Sums!Task : task = work[w] /\ work[w] # None
  BY <1>a DEF Sums!Write, Sums!Fail, Sums!Crash, SumsInv, Sums!TypeOK
<1> DEFINE d == task.doc
<1>2. d \in Doc /\ task.text \in 0..MaxText /\ text[d] # None /\ Runs(w, d)
  BY <1>1 DEF Sums!Task, SumsInv, RowsFirst, Runs
<1>3. /\ UNCHANGED <<auto, text, run>>
      /\ work' \in [Worker -> Sums!Task \cup {None}]
      /\ work'[w] = None
      /\ \A v \in Worker \ {w} : work'[v] = work[v]
  BY <1>a DEF Sums!Write, Sums!Fail, Sums!Crash, SumsInv, Sums!TypeOK
<1>4. \A e \in Doc : \A v \in Worker : Runs(v, e)' <=> Runs(v, e) /\ v # w
  BY <1>3 DEF Runs
<1>5. /\ queue' \in [Doc -> 0..2]
      /\ \A e \in Doc : queue'[e] >= queue[e] /\ queue[e] \in 0..2 /\ queue'[e] \in 0..2
      /\ \A e \in Doc \ {d} : queue'[e] = queue[e]
  <2>1. queue \in [Doc -> 0..2]
    BY DEF SumsInv, Sums!TypeOK
  <2>2. queue' \in {queue, Sums!Queued({d})}
    BY <1>1, <1>a DEF Sums!Write, Sums!Fail, Sums!Crash
  <2>3. {d} \in SUBSET Doc
    BY <1>2
  <2> QED BY <2>1, <2>2, <2>3, QueueKeeps DEF SumsInv
<1>6. \/ /\ summary' = summary /\ d \in excused'
      \/ /\ summary' = summary /\ queue'[d] > 0
      \/ \E made \in {0, task.text} : summary' = [summary EXCEPT ![d] = made]
  <2>1. CASE \E made \in 0..MaxText : Sums!Write(w, made)
    BY <1>1, <2>1 DEF Sums!Write, Sums!Written
  <2>2. CASE Sums!Fail(w)
    BY <1>1, <2>2 DEF Sums!Fail
  <2>3. CASE Sums!Crash(w)
    <3>1. queue' = Sums!Queued({d}) /\ {d} \in SUBSET Doc /\ summary' = summary
      BY <1>1, <1>2, <2>3 DEF Sums!Crash
    <3> QED BY <3>1, QueueKeeps DEF SumsInv
  <2> QED BY <1>a, <2>1, <2>2, <2>3
<1>7. /\ summary' \in [Doc -> 0..MaxText]
      /\ \A e \in Doc \ {d} : summary'[e] = summary[e]
      /\ d \in excused' \/ queue'[d] > 0 \/ summary'[d] \in {0, task.text}
  <2>1. summary \in [Doc -> 0..MaxText] /\ 0 \in 0..MaxText
    BY DEF SumsInv, SumsNamed, Sums!TypeOK
  <2>2. CASE summary' = summary
    BY <1>2, <1>6, <2>1, <2>2
  <2>3. CASE \E made \in {0, task.text} : summary' = [summary EXCEPT ![d] = made]
    BY <1>2, <2>1, <2>3
  <2> QED BY <1>6, <2>2, <2>3
<1>8. excused \subseteq excused' /\ excused' \subseteq excused \cup {d}
  BY <1>1, <1>a DEF Sums!Write, Sums!Fail, Sums!Crash
<1> HIDE DEF d
<1>9. Sums!TypeOK' /\ DocsNamed'
  BY <1>2, <1>3, <1>5, <1>7, <1>8 DEF SumsInv, Sums!TypeOK, DocsNamed, Sums!Pipeline, Sums!Task
<1>10. \A e \in Doc : Sums!Unqueued(e)' <=> Sums!Unqueued(e)
  BY <1>3 DEF Sums!Unqueued
<1>11. RowsFirst'
  BY <1>2, <1>3, <1>4, <1>5, <1>10 DEF SumsInv, RowsFirst
<1>12. Followed'
  <2> SUFFICES ASSUME NEW e \in Doc, Watched(e)', ~ToCome(e)' PROVE UpToDate(e)'
    BY DEF Followed
  <2>1. Watched(e) /\ ~ToCome(e)
    BY <1>3, <1>5, <1>8, <1>10 DEF Watched, ToCome
  <2>2. UpToDate(e)
    BY <2>1 DEF SumsInv, Followed
  <2>3. \A v \in Worker : Runs(v, e)' => v # w /\ Runs(v, e) /\ work'[v] = work[v]
    BY <1>3, <1>4
  <2>4. \A v \in Worker : Runs(v, e)' => work'[v].text \in {0, text'[e]}
    BY <1>3, <2>2, <2>3 DEF UpToDate
  <2>5. CASE e = d
    <3>1. task.text \in {0, text[d]}
      BY <1>1, <1>2, <2>2, <2>5 DEF UpToDate
    <3>2. summary'[d] \in {0, task.text}
      BY <1>7, <2>5 DEF Watched, ToCome
    <3> QED BY <1>3, <2>4, <2>5, <3>1, <3>2 DEF UpToDate
  <2>6. CASE e # d
    <3>1. \A v \in Worker : Runs(v, e) => v # w
      BY <1>1, <2>6 DEF Runs, d
    <3>2. summary[e] \in {0, text[e]} \/ \E v \in Worker : Runs(v, e)
      BY <2>2 DEF UpToDate
    <3>3. summary'[e] \in {0, text'[e]} \/ \E v \in Worker : Runs(v, e)'
      BY <1>3, <1>4, <1>7, <2>6, <3>1, <3>2
    <3> QED BY <2>4, <3>3 DEF UpToDate
  <2> QED BY <2>5, <2>6
<1> QED BY <1>9, <1>11, <1>12 DEF SumsInv, SumsNamed, Sums!Task

LEMMA SumsStep == SumsInv /\ [Sums!Next]_Sums!vars => SumsInv'
<1> SUFFICES ASSUME SumsInv, [Sums!Next]_Sums!vars PROVE SumsInv'
  OBVIOUS
<1>1. ASSUME Sums!Sweep \/ Sums!SummariseMissing \/ \E d \in Doc : Sums!SummariseNow(d)
      PROVE  SumsInv'
  <2>1. PICK ds \in SUBSET Sums!Rows : queue' = Sums!Queued(ds)
    <3>1. CASE Sums!Sweep
      BY <3>1 DEF Sums!Sweep, Sums!Pending
    <3>2. CASE Sums!SummariseMissing
      BY <3>2 DEF Sums!SummariseMissing, Sums!Pending
    <3>3. CASE \E d \in Doc : Sums!SummariseNow(d)
      BY <3>3 DEF Sums!SummariseNow
    <3> QED BY <1>1, <3>1, <3>2, <3>3
  <2>2. UNCHANGED <<auto, text, summary, work, run, excused>>
    BY <1>1 DEF Sums!Sweep, Sums!SummariseMissing, Sums!SummariseNow
  <2> QED BY <2>1, <2>2, SumsQueue
<1>2. ASSUME UNCHANGED Sums!vars \/ \E b \in BOOLEAN : Sums!SetAuto(b)
      PROVE  SumsInv'
  <2>1. auto' \in BOOLEAN /\ UNCHANGED <<text, summary, queue, work, run, excused>>
    BY <1>2 DEF Sums!SetAuto, Sums!vars, SumsInv, Sums!TypeOK
  <2>2. Sums!TypeOK' /\ RowsFirst' /\ DocsNamed'
    BY <2>1 DEF SumsInv, Sums!TypeOK, Sums!Pipeline, Sums!Task, RowsFirst, DocsNamed, Runs,
                Sums!Unqueued
  <2>3. Followed'
    BY <2>1 DEF SumsInv, Followed, Watched, ToCome, UpToDate, Runs, Sums!Unqueued
  <2> QED BY <2>2, <2>3 DEF SumsInv, SumsNamed, Sums!Task
<1>3. ASSUME NEW r \in PipelineRun, Sums!IngestStep(r) PROVE SumsInv'
  BY <1>3, SumsStart, SumsBegin, SumsCommit, SumsLeaves DEF Sums!IngestStep
<1> QED BY <1>1, <1>2, <1>3, SumsRead, SumsEnds DEF Sums!Next

LEMMA SumsProves == SumsInv => Sums!SummariesFollowTheText
  BY DEF SumsInv, Followed, Watched, ToCome, UpToDate, Runs, Sums!SummariesFollowTheText,
         Sums!Rows, Sums!Working

\* For any number of workers, pipelines, documents and texts: the summary of a document with
\* text was made of the text it has, or a run that will write it is to come, queued or under
\* way, but for the documents that are excused, because enrichment was off for their last
\* ingest or that was cut short before it queued the task, or because a task was refused, has
\* failed or has overlapped another (pipeline.py:173-253, service.py:49-77, tasks.py:67-103).
THEOREM SummariesFollow == SumsNamed => (Sums!Spec => []Sums!SummariesFollowTheText)
<1>1. SumsNamed /\ Sums!Spec => []SumsInv
  BY SumsInit, SumsStep, PTL DEF Sums!Spec
<1> QED BY <1>1, SumsProves, PTL
------------------------------------------------------------------------------
(* ---- Validators -------------------------------------------------------- *)

JudgeNamed == MaxClaims \in Nat /\ None \notin Judge!Job \cup Judge!Result

\* A score in thousandths, of g green ones of a.
LEMMA DivBound ==
    ASSUME NEW g \in Nat, NEW a \in Nat, a > 0, g <= a
    PROVE  (2000 * g + a) \div (2 * a) \in 0..1000
<1> DEFINE x == 2000 * g + a
           y == 2 * a
           k == x \div y
<1>1. x \in Nat /\ y \in Nat /\ y > 0 /\ x < 1001 * y
  OBVIOUS
<1> HIDE DEF x, y
<1>2. k \in Int /\ y * k <= x /\ x < y * k + y
  BY <1>1
<1>3. k >= 0
  BY <1>1, <1>2
<1>4. k <= 1000
  BY <1>1, <1>2
<1> QED BY <1>2, <1>3, <1>4 DEF x, y

LEMMA NoClaims == Judge!Musts(0) = <<>>
  BY DEF Judge!Musts

(***************************************************************************)
(* The invariant. Whatever the validator counted itself is amber, the      *)
(* verdicts add up to the entries gone through, and a claim is neither     *)
(* inapplicable nor a duty.                                                *)
(***************************************************************************)
OnlyAmber == \A v \in Judge!Verdict \ {"amber"} : counts["validator"][v] = 0
AddUp ==
    done = Judge!Of("green") + Judge!Of("amber") + Judge!Of("red") + Judge!Of("n/a")
ClaimsApply ==
    job = None \/ job.list = <<>> => counts["model"]["n/a"] = 0 /\ mustReds = 0
Idle ==
    job = None => counts = Judge!Zero /\ report = None
Finished == report # None => done = Judge!Entries

JudgeInv ==
    /\ JudgeNamed /\ Judge!TypeOK
    /\ OnlyAmber /\ AddUp /\ ClaimsApply /\ Idle /\ Finished
    /\ Judge!GreenIsEarned

LEMMA ZeroCounts ==
    /\ Judge!Zero \in [Judge!Scorer -> [Judge!Verdict -> Nat]]
    /\ \A by \in Judge!Scorer, v \in Judge!Verdict : Judge!Zero[by][v] = 0
  BY DEF Judge!Zero, Judge!Scorer, Judge!Verdict, Judge!Light

LEMMA Names ==
    /\ "model" \in Judge!Scorer /\ "validator" \in Judge!Scorer
    /\ "green" \in Judge!Verdict /\ "amber" \in Judge!Verdict
    /\ "red" \in Judge!Verdict /\ "n/a" \in Judge!Verdict
  BY DEF Judge!Scorer, Judge!Verdict, Judge!Light

LEMMA JudgeInit == JudgeNamed /\ Judge!Init => JudgeInv
<1> SUFFICES ASSUME JudgeNamed, Judge!Init PROVE JudgeInv
  OBVIOUS
<1>1. job = None /\ done = 0 /\ counts = Judge!Zero /\ mustReds = 0 /\ report = None
  BY DEF Judge!Init
<1>2. Judge!TypeOK
  BY <1>1, ZeroCounts DEF Judge!TypeOK
<1>3. OnlyAmber /\ AddUp /\ ClaimsApply
  BY <1>1, ZeroCounts, Names DEF OnlyAmber, AddUp, ClaimsApply, Judge!Of
<1>4. Idle /\ Finished /\ Judge!GreenIsEarned
  BY <1>1 DEF Idle, Finished, Judge!GreenIsEarned
<1> QED BY <1>2, <1>3, <1>4 DEF JudgeInv

\* One verdict more, for one entry more.
LEMMA JudgeCounts ==
    ASSUME JudgeInv, NEW v \in Judge!Verdict, NEW by \in Judge!Scorer, Judge!Count(v, by),
           by = "validator" => v = "amber"
    PROVE  JudgeInv'
<1>1. /\ job # None /\ report = None /\ job' = job /\ report' = report
      /\ done' = done + 1 /\ done \in Nat
  BY DEF Judge!Count, JudgeInv, Judge!TypeOK
<1>2. counts \in [Judge!Scorer -> [Judge!Verdict -> Nat]]
  BY DEF JudgeInv, Judge!TypeOK
<1>3. /\ counts' \in [Judge!Scorer -> [Judge!Verdict -> Nat]]
      /\ counts'[by][v] = counts[by][v] + 1
      /\ \A b \in Judge!Scorer, u \in Judge!Verdict :
            b # by \/ u # v => counts'[b][u] = counts[b][u]
  <2>1. counts' = [counts EXCEPT ![by][v] = @ + 1]
    BY DEF Judge!Count
  <2> QED BY <1>2, <2>1
<1>4. mustReds' \in Nat
  BY DEF Judge!Count, JudgeInv, Judge!TypeOK
<1>5. Judge!TypeOK'
  BY <1>1, <1>3, <1>4 DEF JudgeInv, Judge!TypeOK
<1>6. OnlyAmber'
  BY <1>3, Names DEF JudgeInv, OnlyAmber
<1>7. AddUp'
  <2>1. /\ Judge!Of(v)' = Judge!Of(v) + 1
        /\ \A u \in Judge!Verdict \ {v} : Judge!Of(u)' = Judge!Of(u)
    <3>1. \A b \in Judge!Scorer, u \in Judge!Verdict : counts[b][u] \in Nat
      BY <1>2
    <3> QED BY <1>3, <3>1, Names DEF Judge!Of, Judge!Scorer
  <2>2. \A u \in Judge!Verdict : Judge!Of(u) \in Nat
    BY <1>2, Names DEF Judge!Of
  <2>3. v \in {"green", "amber", "red", "n/a"}
    BY DEF Judge!Verdict, Judge!Light
  <2> QED BY <1>1, <2>1, <2>2, <2>3, Names DEF JudgeInv, AddUp
<1>8. ClaimsApply'
  <2>1. job.list = <<>> => v # "n/a" /\ mustReds' = mustReds
    BY DEF Judge!Count, Judge!Severity
  <2> QED BY <1>1, <1>3, <2>1, Names DEF JudgeInv, ClaimsApply
<1> QED
  BY <1>1, <1>5, <1>6, <1>7, <1>8
     DEF JudgeInv, JudgeNamed, Idle, Finished, Judge!GreenIsEarned

\* A new job, or one given up, begins with nothing counted.
LEMMA JudgeBegins ==
    ASSUME JudgeInv, job' \in Judge!Job \cup {None}, done' = 0, counts' = Judge!Zero,
           report = None, report' = None,
           mustReds' = 0 \/ (mustReds' = mustReds /\ job = None)
    PROVE  JudgeInv'
<1>0. mustReds' = 0
  BY DEF JudgeInv, ClaimsApply
<1>1. Judge!TypeOK'
  BY <1>0, ZeroCounts DEF JudgeInv, Judge!TypeOK
<1>2. OnlyAmber' /\ AddUp'
  BY ZeroCounts, Names DEF OnlyAmber, AddUp, Judge!Of
<1>3. ClaimsApply'
  BY <1>0, ZeroCounts, Names DEF ClaimsApply
<1> QED
  BY <1>1, <1>2, <1>3 DEF JudgeInv, JudgeNamed, Idle, Finished, Judge!GreenIsEarned

\* What a green light takes: all that applied was counted, and the greens are the model's.
LEMMA JudgeReports ==
    ASSUME JudgeInv, Judge!Report
    PROVE  JudgeInv'
<1>1. /\ job # None /\ done = Judge!Entries /\ report = None
      /\ UNCHANGED <<job, done, counts, mustReds>>
      /\ report' = [light |-> IF job.list = <<>> THEN Judge!ClaimsLight ELSE Judge!PackLight,
                    score |-> Judge!Score]
  BY DEF Judge!Report
<1>2. /\ \A v \in Judge!Verdict : Judge!Of(v) \in Nat /\ Judge!ByModel(v) \in Nat
      /\ \A v \in Judge!Verdict \ {"amber"} : Judge!Of(v) = Judge!ByModel(v)
  <2>1. counts \in [Judge!Scorer -> [Judge!Verdict -> Nat]]
    BY DEF JudgeInv, Judge!TypeOK
  <2>2. \A b \in Judge!Scorer, v \in Judge!Verdict : counts[b][v] \in Nat
    BY <2>1
  <2> QED BY <2>2, Names DEF JudgeInv, OnlyAmber, Judge!Of, Judge!ByModel
<1>3. Judge!Applicable \in Nat /\ Judge!Of("green") <= Judge!Applicable
  BY <1>2, Names DEF Judge!Applicable
<1>4. Judge!Score \in 0..1000
  <2>1. CASE job.list = <<>> \/ Judge!Applicable = 0
    BY <2>1 DEF Judge!Score
  <2>2. CASE ~(job.list = <<>> \/ Judge!Applicable = 0)
    <3>1. Judge!Of("green") \in Nat /\ Judge!Applicable > 0
      BY <1>2, <1>3, <2>2, Names
    <3>2. PICK g, a : g = Judge!Of("green") /\ a = Judge!Applicable
      OBVIOUS
    <3>3. g \in Nat /\ a \in Nat /\ a > 0 /\ g <= a
      BY <1>3, <3>1, <3>2
    <3>4. (2000 * g + a) \div (2 * a) \in 0..1000
      BY <3>3, DivBound
    <3> QED BY <2>2, <3>2, <3>4 DEF Judge!Score
  <2> QED BY <2>1, <2>2
<1>5. report' \in Judge!Result
  BY <1>1, <1>4 DEF Judge!Result, Judge!Light, Judge!ClaimsLight, Judge!PackLight
<1>6. Judge!TypeOK'
  BY <1>1, <1>5 DEF JudgeInv, Judge!TypeOK
<1>7. done = Judge!Applicable + Judge!ByModel("n/a")
  BY <1>2, Names DEF JudgeInv, AddUp, Judge!Applicable
<1>8. Judge!ByModel("green") \in Nat /\ Judge!ByModel("n/a") \in Nat
  BY <1>2, Names
<1>9. ASSUME report'.light = "green"
      PROVE  /\ 10 * Judge!ByModel("green") >= 7 * (Judge!Entries - Judge!ByModel("n/a"))
             /\ Judge!ByModel("green") > 0
             /\ mustReds = 0
             /\ job.list = <<>> => Judge!ByModel("red") = 0
  <2>1. CASE job.list = <<>>
    <3>1. /\ Judge!Of("red") = 0 /\ Judge!Entries > 0
          /\ 10 * Judge!Of("green") >= 7 * Judge!Entries
      <4>1. Judge!ClaimsLight = "green"
        BY <1>1, <1>9, <2>1
      <4>2. Judge!Of("red") \in Nat
        BY <1>2, Names
      <4> QED BY <4>1, <4>2 DEF Judge!ClaimsLight
    <3>2. Judge!ByModel("n/a") = 0 /\ mustReds = 0
      BY <2>1 DEF JudgeInv, ClaimsApply, Judge!ByModel
    <3>3. Judge!Of("green") = Judge!ByModel("green") /\ Judge!Of("red") = Judge!ByModel("red")
      BY <1>2, Names
    <3>4. Judge!Entries \in Nat
      BY <1>1, <1>6 DEF Judge!TypeOK
    <3> QED BY <1>8, <3>1, <3>2, <3>3, <3>4
  <2>2. CASE job.list # <<>>
    <3>1. /\ mustReds = 0 /\ Judge!Applicable > 0
          /\ 10 * Judge!Of("green") >= 7 * Judge!Applicable
      <4>1. Judge!PackLight = "green"
        BY <1>1, <1>9, <2>2
      <4>2. mustReds \in Nat
        BY DEF JudgeInv, Judge!TypeOK
      <4> QED BY <4>1, <4>2 DEF Judge!PackLight
    <3>2. Judge!Of("green") = Judge!ByModel("green")
      BY <1>2, Names
    <3> QED BY <1>1, <1>3, <1>7, <1>8, <2>2, <3>1, <3>2
  <2> QED BY <2>1, <2>2
<1>10. Judge!GreenIsEarned'
  BY <1>1, <1>9 DEF Judge!GreenIsEarned, Judge!Entries, Judge!ByModel
<1>11. OnlyAmber' /\ AddUp' /\ ClaimsApply' /\ Idle' /\ Finished'
  BY <1>1 DEF JudgeInv, OnlyAmber, AddUp, ClaimsApply, Idle, Finished, Judge!Of, Judge!Entries
<1> QED BY <1>6, <1>10, <1>11 DEF JudgeInv, JudgeNamed

LEMMA JudgeStep == JudgeInv /\ [Judge!Next]_Judge!vars => JudgeInv'
<1> SUFFICES ASSUME JudgeInv, [Judge!Next]_Judge!vars PROVE JudgeInv'
  OBVIOUS
<1>1. ASSUME NEW pack \in Judge!Packs, Judge!Run(pack) PROVE JudgeInv'
  <2>1. [list |-> pack, claims |-> 0] \in Judge!Job
    BY DEF Judge!Job, JudgeInv, JudgeNamed
  <2> QED
    BY <1>1, <2>1, JudgeBegins, ZeroCounts, Names
       DEF Judge!Run, JudgeInv, Idle, AddUp, Judge!Of
<1>2. ASSUME NEW n \in 0..MaxClaims, Judge!ExtractClaims(n) PROVE JudgeInv'
  <2>1. [list |-> <<>>, claims |-> n] \in Judge!Job
    BY NoClaims DEF Judge!Job
  <2> QED
    BY <1>2, <2>1, JudgeBegins, ZeroCounts, Names
       DEF Judge!ExtractClaims, JudgeInv, Idle, AddUp, Judge!Of
<1>3. ASSUME NEW v \in Judge!Verdict, Judge!Adjudicate(v) PROVE JudgeInv'
  BY <1>3, JudgeCounts, Names DEF Judge!Adjudicate
<1>4. ASSUME Judge!NotAdjudicated PROVE JudgeInv'
  BY <1>4, JudgeCounts, Names DEF Judge!NotAdjudicated, Judge!NotScored
<1>5. ASSUME Judge!Aborts PROVE JudgeInv'
  <2>1. Judge!Entries \in Nat /\ done \in Nat
    <3>1. \A pack \in Judge!Packs : Len(pack) \in Nat
      BY DEF Judge!Packs, Judge!FcaConsumerDuty, Judge!HmrcAml, Judge!UkGdpr,
             Judge!UkDebtCollectionsLetter, Judge!Musts
    <3>2. job.list \in Judge!Packs \cup {<<>>} /\ job.claims \in Nat /\ done \in Nat
      BY <1>5, NoClaims DEF Judge!Aborts, JudgeInv, JudgeNamed, Judge!TypeOK, Judge!Job
    <3> QED BY <3>1, <3>2 DEF Judge!Entries
  <2>2. report = None
    BY <1>5, <2>1 DEF Judge!Aborts, JudgeInv, Finished
  <2> QED BY <1>5, <2>2, JudgeBegins DEF Judge!Aborts
<1>6. ASSUME Judge!Report PROVE JudgeInv'
  BY <1>6, JudgeReports
<1>7. CASE UNCHANGED Judge!vars
  BY <1>7 DEF Judge!vars, JudgeInv, JudgeNamed, Judge!TypeOK, OnlyAmber, AddUp, ClaimsApply, Idle,
              Finished, Judge!GreenIsEarned, Judge!Of, Judge!Entries, Judge!ByModel
<1> QED BY <1>1, <1>2, <1>3, <1>4, <1>5, <1>6, <1>7 DEF Judge!Next

LEMMA JudgeProves == JudgeInv => Judge!GreenIsEarned
  BY DEF JudgeInv

\* For any packs' verdicts and any number of claims, whatever calls fail: a green light is
\* earned by what the model itself found (rule_pack_validator.py:128-159, 228-272,
\* pipeline.py:92-109, 210-266).
THEOREM LightsEarned == JudgeNamed => (Judge!Spec => []Judge!GreenIsEarned)
<1>1. JudgeNamed /\ Judge!Spec => []JudgeInv
  BY JudgeInit, JudgeStep, PTL DEF Judge!Spec
<1> QED BY <1>1, JudgeProves, PTL
=============================================================================
