----------------------------- MODULE MCPlatform -----------------------------
(***************************************************************************)
(* The parts behind the API on small instances: the gateway, and the parts *)
(* that share nothing but the principal with it and with each other, so    *)
(* that a behaviour is one of any of them, the side. The sides other than  *)
(* the gateway keep their variables in slots, which hold None where a side *)
(* has fewer of them.                                                      *)
(***************************************************************************)
EXTENDS MCGateway

CONSTANTS
    Call, Session, Principal, MaxTurns,
    Owner, MaxVersions,
    Chunk, DocumentOf, Depth, Limits, Pool, MaxBatch, MaxVotes,
    Option, NoKey, Points, Weight, Awarded, Mark, MaxQuestions, MaxCriteria,
    SavedModule, Learner, Id, MaxRecords,
    Tenant, Email, MaxTokens,
    Request, Limit, MaxClock,
    MaxClaims,
    Source, Preset,
    Doc, PipelineRun, Worker, Swept, MaxText

VARIABLES side, s1, s2, s3, s4, s5, s6, s7, s8

slots == <<s1, s2, s3, s4, s5, s6, s7, s8>>

Talk == INSTANCE Conversation WITH
    asks <- s1, pc <- s2, seen <- s3, copy <- s4, rows <- s5, answered <- s6,
    audited <- s7, crossed <- s8
Texts == INSTANCE Prompts WITH
    saved <- s1, active <- s2, txn <- s3, choice <- s4, crossed <- s5
Finds == INSTANCE Retrieval WITH search <- s1, answer <- s2
Course == INSTANCE Courses WITH
    kind <- s1, left <- s2, made <- s3, module <- s4, record <- s5
Staff == INSTANCE Assignments WITH
    Module <- SavedModule, User <- Learner, rows <- s1, records <- s2, txn <- s3
People == INSTANCE Accounts WITH
    tenants <- s1, users <- s2, txn <- s3, tokens <- s4, invites <- s5
Trail == INSTANCE AuditTrail WITH
    clock <- s1, requests <- s2, since <- s3, paging <- s4, rows <- s5, crossed <- s8
Judge == INSTANCE Validators WITH
    job <- s1, done <- s2, counts <- s3, mustReds <- s4, report <- s5
Sums == INSTANCE Summaries WITH
    Batch <- Swept,
    auto <- s1, text <- s2, summary <- s3, queue <- s4, work <- s5, run <- s6,
    excused <- s7
Creates == INSTANCE Sources WITH
    sources <- s1, drawn <- s2, profiles <- s3, asks <- s4, crossed <- s5

\* The bounds are numbers, a window and a page among them; rubrics are as the page sends them
\* (Training.tsx:45-58); a search keeps a pool no smaller than what is asked for, of lists
\* of at most 600 hits (core/schemas/search.py:16, service.py:103, hybrid.py:52); and None is
\* none of the values it may stand beside.
ASSUME PlatformBounds ==
    /\ MaxTurns \in Nat \ {0} /\ MaxVersions \in Nat /\ MaxRecords \in Nat
    /\ Limit \in Nat /\ MaxClock \in Nat /\ MaxClaims \in Nat /\ MaxText \in Nat
ASSUME CourseBounds ==
    /\ MaxQuestions \in Nat /\ MaxCriteria \in Nat /\ Mark \subseteq 0..1000
    /\ \A p \in Points : p \in Nat /\ p >= 10000 /\ p % 10 = 0
    /\ \A w \in Weight : w \in Nat \ {0}
    /\ \A points \in Awarded : points = None \/ points \in Int
ASSUME SearchBounds ==
    /\ Depth \in 0..600 /\ MaxBatch \in Nat \ {0} /\ MaxVotes \in Nat
    /\ \A k \in Limits : k \in Nat \ {0} /\ Pool[k] \in Nat /\ k <= Pool[k]
    /\ IsFiniteSet(Finds!Document)
ASSUME NoneIsNoData ==
    /\ None \notin Id \cup {"trial", "lapsed"}
    /\ None \notin Talk!Ask \cup Seq(Call) \cup [who : Principal, turns : Seq(Call)]
    /\ None \notin Trail!Telling \cup Trail!Write \cup Trail!Page
    /\ None \notin Judge!Job \cup Judge!Result
    /\ None \notin (0..MaxText) \cup Sums!Task
    /\ None \notin Course!Kind \cup Course!Module \cup Course!Grade
    /\ None \notin [k : Limits, vector : Seq(Chunk), keyword : Seq(Chunk),
                    found : Seq(Chunk), stage : {"fused", "ranked"}]
    /\ None \notin [found : Seq(Chunk), hits : Seq(Chunk), signals : Finds!Signals]

MCInit ==
    /\ Init
    /\ \/ side = "gateway" /\ s1 = None /\ s2 = None /\ s3 = None /\ s4 = None
          /\ s5 = None /\ s6 = None /\ s7 = None /\ s8 = None
       \/ side = "conversation" /\ Talk!Init
       \/ side = "prompts" /\ Texts!Init /\ s6 = None /\ s7 = None /\ s8 = None
       \/ side = "retrieval" /\ Finds!Init /\ s3 = None /\ s4 = None /\ s5 = None
          /\ s6 = None /\ s7 = None /\ s8 = None
       \/ side = "courses" /\ Course!Init /\ s6 = None /\ s7 = None /\ s8 = None
       \/ side = "assignments" /\ Staff!Init /\ s4 = None /\ s5 = None /\ s6 = None
          /\ s7 = None /\ s8 = None
       \/ side = "accounts" /\ People!Init /\ s6 = None /\ s7 = None /\ s8 = None
       \/ side = "audit" /\ Trail!Init /\ s6 = None /\ s7 = None
       \/ side = "validators" /\ Judge!Init /\ s6 = None /\ s7 = None /\ s8 = None
       \/ side = "summaries" /\ Sums!Init /\ s8 = None
       \/ side = "sources" /\ Creates!Init /\ s6 = None /\ s7 = None /\ s8 = None

MCNext ==
    /\ UNCHANGED side
    /\ \/ side = "gateway" /\ Next /\ UNCHANGED slots
       \/ side = "conversation" /\ Talk!Next /\ UNCHANGED vars
       \/ side = "prompts" /\ Texts!Next /\ UNCHANGED <<vars, s6, s7, s8>>
       \/ side = "retrieval" /\ Finds!Next /\ UNCHANGED <<vars, s3, s4, s5, s6, s7, s8>>
       \/ side = "courses" /\ Course!Next /\ UNCHANGED <<vars, s6, s7, s8>>
       \/ side = "assignments" /\ Staff!Next /\ UNCHANGED <<vars, s4, s5, s6, s7, s8>>
       \/ side = "accounts" /\ People!Next /\ UNCHANGED <<vars, s6, s7, s8>>
       \/ side = "audit" /\ Trail!Next /\ UNCHANGED <<vars, s6, s7>>
       \/ side = "validators" /\ Judge!Next /\ UNCHANGED <<vars, s6, s7, s8>>
       \/ side = "summaries" /\ Sums!Next /\ UNCHANGED <<vars, s8>>
       \/ side = "sources" /\ Creates!Next /\ UNCHANGED <<vars, s6, s7, s8>>

MCSpec == MCInit /\ [][MCNext]_<<side, vars, slots>>

Somebody == [tenant |-> 1, user |-> 1]
Colleagues == {Somebody, [Somebody EXCEPT !.user = 2]}
Strangers == Colleagues \cup {[tenant |-> 2, user |-> 1]}
TwoDocuments == [c \in Chunk |-> IF c = "c3" THEN "d2" ELSE "d1"]
SmallPools == [k \in Limits |-> IF k = 1 THEN 2 ELSE 3]
TroublesomePoints == {None, -1, 6996, 7000, 12000}
-----------------------------------------------------------------------------
\* The type invariant of whichever part runs.
PlatformTypeOK ==
    /\ side = "conversation" => Talk!TypeOK
    /\ side = "prompts" => Texts!TypeOK
    /\ side = "retrieval" => Finds!TypeOK
    /\ side = "courses" => Course!TypeOK
    /\ side = "assignments" => Staff!TypeOK
    /\ side = "accounts" => People!TypeOK
    /\ side = "audit" => Trail!TypeOK
    /\ side = "validators" => Judge!TypeOK
    /\ side = "summaries" => Sums!TypeOK
    /\ side = "sources" => Creates!TypeOK

\* Each is the property of its module, of the behaviours of that module: see there.
AnswersAreKept == side = "conversation" => Talk!AnswersAreKept
FollowUpsAreInformed == side = "conversation" => Talk!FollowUpsAreInformed
LastChoiceServes == side = "prompts" => Texts!LastChoiceServes
OrderFollowsEvidence == side = "retrieval" => Finds!OrderFollowsEvidence
MarksAgree == side = "courses" => Course!MarksAgree
CompletionsAreProven == side = "assignments" => Staff!CompletionsAreProven
TokensNameTheirAccount == side = "accounts" => People!TokensNameTheirAccount
PagesMissNothing == side = "audit" => Trail!PagesMissNothing
GreenIsEarned == side = "validators" => Judge!GreenIsEarned
SummariesFollowTheText == side = "summaries" => Sums!SummariesFollowTheText
FoundOnce == side = "sources" => Creates!FoundOnce
=============================================================================
