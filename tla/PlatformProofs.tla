---------------------------- MODULE PlatformProofs ----------------------------
(***************************************************************************)
(* The properties of MCPlatform, for every value of its constants: the     *)
(* invariants of the parts, proved in RequestsProofs and ListingProofs of  *)
(* the variables they have there, hold of the slots, and so the platform's *)
(* own behaviours keep what its run checks on one instance.                *)
(***************************************************************************)
EXTENDS MCPlatform, TLAPS

Rq == INSTANCE RequestsProofs WITH
    sources <- s1, drawn <- s2, profiles <- s3, posts <- s4, overlapped <- s5,
    saved <- s1, active <- s2, txn <- s3, choice <- s4,
    assigned <- s1, records <- s2,
    tenants <- s1, users <- s2, tokens <- s4, invites <- s5,
    asks <- s1, pc <- s2, seen <- s3, copy <- s4, rows <- s5, answered <- s6,
    audited <- s7, crossed <- s8,
    clock <- s1, requests <- s2, since <- s3, paging <- s4,
    auto <- s1, text <- s2, summary <- s3, queue <- s4, work <- s5, run <- s6,
    excused <- s7,
    job <- s1, done <- s2, counts <- s3, mustReds <- s4, report <- s5
Ls == INSTANCE ListingProofs WITH
    kind <- s1, left <- s2, made <- s3, module <- s4, record <- s5,
    search <- s1, answer <- s2
-------------------------------------------------------------------------------
(***************************************************************************)
(* A part is instantiated twice, by MCPlatform and by the module that      *)
(* proves about it, with the same slots: every definition of the one is    *)
(* that of the other. The leaves expand both to the last operator.         *)
(***************************************************************************)
LEMMA CreatesSame ==
    /\ Rq!Creates!Init <=> Creates!Init
    /\ [Rq!Creates!Next]_Rq!Creates!vars <=> [Creates!Next]_Creates!vars
    /\ Rq!Creates!FoundOnce <=> Creates!FoundOnce
    /\ Rq!Creates!TypeOK <=> Creates!TypeOK
  BY DEF Rq!Creates!Init, Creates!Init, Rq!Creates!Next, Creates!Next, Rq!Creates!vars,
         Creates!vars, Rq!Creates!TypeOK, Creates!TypeOK, Rq!Creates!FoundOnce,
         Creates!FoundOnce, Rq!Creates!Folder, Creates!Folder, Rq!Creates!Kind, Creates!Kind,
         Rq!Creates!Read, Creates!Read, Rq!Creates!Insert, Creates!Insert, Rq!Creates!Abort,
         Creates!Abort, Rq!Creates!Delete, Creates!Delete, Rq!Creates!Ask, Creates!Ask,
         Rq!Creates!Pending, Creates!Pending, Rq!Creates!SourcesOf, Creates!SourcesOf,
         Rq!Creates!NotEnabled, Creates!NotEnabled

LEMMA TextsSame ==
    /\ Rq!Texts!Init <=> Texts!Init
    /\ [Rq!Texts!Next]_Rq!Texts!vars <=> [Texts!Next]_Texts!vars
    /\ Rq!Texts!LastChoiceServes <=> Texts!LastChoiceServes
    /\ Rq!Texts!TypeOK <=> Texts!TypeOK
  BY DEF Rq!Texts!Init, Texts!Init, Rq!Texts!Next, Texts!Next, Rq!Texts!vars, Texts!vars,
         Rq!Texts!TypeOK, Texts!TypeOK, Rq!Texts!LastChoiceServes, Texts!LastChoiceServes,
         Rq!Texts!SaveReads, Texts!SaveReads, Rq!Texts!Version, Texts!Version,
         Rq!Texts!ActivateReads, Texts!ActivateReads, Rq!Texts!UpdateBegins, Texts!UpdateBegins,
         Rq!Texts!UpdateEnds, Texts!UpdateEnds, Rq!Texts!Save, Texts!Save, Rq!Texts!Activate,
         Texts!Activate, Rq!Texts!Fail, Texts!Fail, Rq!Texts!Txn, Texts!Txn, Rq!Texts!Served,
         Texts!Served, Rq!Texts!Shown, Texts!Shown, Rq!Texts!Begin, Texts!Begin, Rq!Texts!Open,
         Texts!Open, Rq!Texts!LockedByOthers, Texts!LockedByOthers, Rq!Texts!Ready, Texts!Ready,
         Rq!Texts!Chosen, Texts!Chosen, Rq!Texts!Behind, Texts!Behind, Rq!Texts!Close,
         Texts!Close

LEMMA StaffSame ==
    /\ Rq!Staff!Init <=> Staff!Init
    /\ [Rq!Staff!Next]_Rq!Staff!vars <=> [Staff!Next]_Staff!vars
    /\ Rq!Staff!CompletionsAreProven <=> Staff!CompletionsAreProven
    /\ Rq!Staff!TypeOK <=> Staff!TypeOK
  BY DEF Rq!Staff!Init, Staff!Init, Rq!Staff!Next, Staff!Next, Rq!Staff!vars, Staff!vars,
         Rq!Staff!TypeOK, Staff!TypeOK, Rq!Staff!CompletionsAreProven,
         Staff!CompletionsAreProven, Rq!Staff!AssignReads, Staff!AssignReads,
         Rq!Staff!AssignCommits, Staff!AssignCommits, Rq!Staff!AssignFails, Staff!AssignFails,
         Rq!Staff!Submit, Staff!Submit, Rq!Staff!Row, Staff!Row, Rq!Staff!Record, Staff!Record,
         Rq!Staff!Txn, Staff!Txn, Rq!Staff!Assigned, Staff!Assigned, Rq!Staff!Drawn,
         Staff!Drawn, Rq!Staff!Unique, Staff!Unique, Rq!Staff!Cardinality, Staff!Cardinality

LEMMA PeopleSame ==
    /\ Rq!People!Init <=> People!Init
    /\ [Rq!People!Next]_Rq!People!vars <=> [People!Next]_People!vars
    /\ Rq!People!TokensNameTheirAccount <=> People!TokensNameTheirAccount
    /\ Rq!People!TypeOK <=> People!TypeOK
  BY DEF Rq!People!Init, People!Init, Rq!People!Next, People!Next, Rq!People!vars, People!vars,
         Rq!People!TypeOK, People!TypeOK, Rq!People!TokensNameTheirAccount,
         People!TokensNameTheirAccount, Rq!People!SignupReads, People!SignupReads,
         Rq!People!Signup, People!Signup, Rq!People!Accept, People!Accept, Rq!People!Fail,
         People!Fail, Rq!People!CreateInvite, People!CreateInvite, Rq!People!AcceptReads,
         People!AcceptReads, Rq!People!Login, People!Login, Rq!People!TokenExpires,
         People!TokenExpires, Rq!People!InviteExpires, People!InviteExpires,
         Rq!People!TrialLapses, People!TrialLapses, Rq!People!User, People!User,
         Rq!People!Invite, People!Invite, Rq!People!FoundBy, People!FoundBy, Rq!People!Opened,
         People!Opened, Rq!People!Pending, People!Pending, Rq!People!Reads, People!Reads,
         Rq!People!FreeEmail, People!FreeEmail, Rq!People!Room, People!Room, Rq!People!Token,
         People!Token, Rq!People!Close, People!Close, Rq!People!MayInvite, People!MayInvite,
         Rq!People!Role, People!Role, Rq!People!Registered, People!Registered, Rq!People!Scopes,
         People!Scopes, Rq!People!Cardinality, People!Cardinality

LEMMA TalkSame ==
    /\ Rq!Talk!Init <=> Talk!Init
    /\ [Rq!Talk!Next]_Rq!Talk!vars <=> [Talk!Next]_Talk!vars
    /\ Rq!Talk!AnswersAreKept <=> Talk!AnswersAreKept
    /\ Rq!Talk!FollowUpsAreInformed <=> Talk!FollowUpsAreInformed
    /\ Rq!Talk!TypeOK <=> Talk!TypeOK
  BY DEF Rq!Talk!Init, Talk!Init, Rq!Talk!Next, Talk!Next, Rq!Talk!vars, Talk!vars,
         Rq!Talk!TypeOK, Talk!TypeOK, Rq!Talk!AnswersAreKept, Talk!AnswersAreKept,
         Rq!Talk!FollowUpsAreInformed, Talk!FollowUpsAreInformed, Rq!Talk!Send, Talk!Send,
         Rq!Talk!Load, Talk!Load, Rq!Talk!Generate, Talk!Generate, Rq!Talk!AppendReads,
         Talk!AppendReads, Rq!Talk!AppendCommits, Talk!AppendCommits, Rq!Talk!Tell, Talk!Tell,
         Rq!Talk!Audit, Talk!Audit, Rq!Talk!Fail, Talk!Fail, Rq!Talk!Leave, Talk!Leave,
         Rq!Talk!Ask, Talk!Ask, Rq!Talk!Running, Talk!Running, Rq!Talk!Turns, Talk!Turns,
         Rq!Talk!Members, Talk!Members, Rq!Talk!Listed, Talk!Listed, Rq!Talk!PromptHistory,
         Talk!PromptHistory, Rq!Talk!InSession, Talk!InSession, Rq!Talk!At, Talk!At,
         Rq!Talk!Found, Talk!Found, Rq!Talk!Appending, Talk!Appending, Rq!Talk!Forget,
         Talk!Forget, Rq!Talk!Collides, Talk!Collides, Rq!Talk!Turn, Talk!Turn, Rq!Talk!Drop,
         Talk!Drop, Rq!Talk!Window, Talk!Window

LEMMA TrailSame ==
    /\ Rq!Trail!Init <=> Trail!Init
    /\ [Rq!Trail!Next]_Rq!Trail!vars <=> [Trail!Next]_Trail!vars
    /\ Rq!Trail!PagesMissNothing <=> Trail!PagesMissNothing
    /\ Rq!Trail!TypeOK <=> Trail!TypeOK
  BY DEF Rq!Trail!Init, Trail!Init, Rq!Trail!Next, Trail!Next, Rq!Trail!vars, Trail!vars,
         Rq!Trail!TypeOK, Trail!TypeOK, Rq!Trail!PagesMissNothing, Trail!PagesMissNothing,
         Rq!Trail!Kind, Trail!Kind, Rq!Trail!Serve, Trail!Serve, Rq!Trail!Tell, Trail!Tell,
         Rq!Trail!Commit, Trail!Commit, Rq!Trail!Lose, Trail!Lose, Rq!Trail!DayPasses,
         Trail!DayPasses, Rq!Trail!Turn, Trail!Turn, Rq!Trail!Count, Trail!Count,
         Rq!Trail!ShowPage, Trail!ShowPage, Rq!Trail!Telling, Trail!Telling, Rq!Trail!Stamp,
         Trail!Stamp, Rq!Trail!Page, Trail!Page, Rq!Trail!AtTheEnd, Trail!AtTheEnd,
         Rq!Trail!RichlyTold, Trail!RichlyTold, Rq!Trail!ShouldAudit, Trail!ShouldAudit,
         Rq!Trail!HasPrincipal, Trail!HasPrincipal, Rq!Trail!Told, Trail!Told, Rq!Trail!Fits,
         Trail!Fits, Rq!Trail!Listed, Trail!Listed, Rq!Trail!Rank, Trail!Rank, Rq!Trail!Write,
         Trail!Write, Rq!Trail!Prefixed, Trail!Prefixed, Rq!Trail!RichPath, Trail!RichPath,
         Rq!Trail!Cardinality, Trail!Cardinality

LEMMA SumsSame ==
    /\ Rq!Sums!Init <=> Sums!Init
    /\ [Rq!Sums!Next]_Rq!Sums!vars <=> [Sums!Next]_Sums!vars
    /\ Rq!Sums!SummariesFollowTheText <=> Sums!SummariesFollowTheText
    /\ Rq!Sums!TypeOK <=> Sums!TypeOK
  BY DEF Rq!Sums!Init, Sums!Init, Rq!Sums!Next, Sums!Next, Rq!Sums!vars, Sums!vars,
         Rq!Sums!TypeOK, Sums!TypeOK, Rq!Sums!SummariesFollowTheText,
         Sums!SummariesFollowTheText, Rq!Sums!SetAuto, Sums!SetAuto, Rq!Sums!SummariseNow,
         Sums!SummariseNow, Rq!Sums!Sweep, Sums!Sweep, Rq!Sums!SummariseMissing,
         Sums!SummariseMissing, Rq!Sums!Read, Sums!Read, Rq!Sums!Write, Sums!Write, Rq!Sums!Fail,
         Sums!Fail, Rq!Sums!Crash, Sums!Crash, Rq!Sums!Task, Sums!Task, Rq!Sums!Rows, Sums!Rows,
         Rq!Sums!Working, Sums!Working, Rq!Sums!Queued, Sums!Queued, Rq!Sums!Pending,
         Sums!Pending, Rq!Sums!Written, Sums!Written, Rq!Sums!Cardinality, Sums!Cardinality,
         Rq!Sums!Pipeline, Sums!Pipeline, Rq!Sums!NewPipeline, Sums!NewPipeline, Rq!Sums!Held,
         Sums!Held, Rq!Sums!Unqueued, Sums!Unqueued, Rq!Sums!Becomes, Sums!Becomes,
         Rq!Sums!Start, Sums!Start, Rq!Sums!Begin, Sums!Begin, Rq!Sums!Commit, Sums!Commit,
         Rq!Sums!Interrupted, Sums!Interrupted, Rq!Sums!Enriches, Sums!Enriches, Rq!Sums!Enqueue,
         Sums!Enqueue, Rq!Sums!IngestStep, Sums!IngestStep, Rq!Sums!TaskEnds, Sums!TaskEnds

LEMMA JudgeSame ==
    /\ Rq!Judge!Init <=> Judge!Init
    /\ [Rq!Judge!Next]_Rq!Judge!vars <=> [Judge!Next]_Judge!vars
    /\ Rq!Judge!GreenIsEarned <=> Judge!GreenIsEarned
    /\ Rq!Judge!TypeOK <=> Judge!TypeOK
  BY DEF Rq!Judge!Init, Judge!Init, Rq!Judge!Next, Judge!Next, Rq!Judge!vars, Judge!vars,
         Rq!Judge!TypeOK, Judge!TypeOK, Rq!Judge!GreenIsEarned, Judge!GreenIsEarned,
         Rq!Judge!Zero, Judge!Zero, Rq!Judge!Packs, Judge!Packs, Rq!Judge!Run, Judge!Run,
         Rq!Judge!ExtractClaims, Judge!ExtractClaims, Rq!Judge!Verdict, Judge!Verdict,
         Rq!Judge!Adjudicate, Judge!Adjudicate, Rq!Judge!NotAdjudicated, Judge!NotAdjudicated,
         Rq!Judge!Aborts, Judge!Aborts, Rq!Judge!Report, Judge!Report, Rq!Judge!Job,
         Judge!Job, Rq!Judge!Scorer, Judge!Scorer, Rq!Judge!Result, Judge!Result,
         Rq!Judge!ByModel, Judge!ByModel, Rq!Judge!Entries, Judge!Entries,
         Rq!Judge!FcaConsumerDuty, Judge!FcaConsumerDuty, Rq!Judge!HmrcAml, Judge!HmrcAml,
         Rq!Judge!UkGdpr, Judge!UkGdpr, Rq!Judge!UkDebtCollectionsLetter,
         Judge!UkDebtCollectionsLetter, Rq!Judge!Light, Judge!Light, Rq!Judge!Count,
         Judge!Count, Rq!Judge!NotScored, Judge!NotScored, Rq!Judge!ClaimsLight,
         Judge!ClaimsLight, Rq!Judge!PackLight, Judge!PackLight, Rq!Judge!Score, Judge!Score,
         Rq!Judge!Musts, Judge!Musts, Rq!Judge!Severity, Judge!Severity, Rq!Judge!Of, Judge!Of,
         Rq!Judge!Applicable, Judge!Applicable

LEMMA CourseSame ==
    /\ Ls!Course!Init <=> Course!Init
    /\ [Ls!Course!Next]_Ls!Course!vars <=> [Course!Next]_Course!vars
    /\ Ls!Course!MarksAgree <=> Course!MarksAgree
    /\ Ls!Course!TypeOK <=> Course!TypeOK
<1>1. Ls!Course!Init <=> Course!Init
  BY DEF Ls!Course!Init, Course!Init
<1>2. [Ls!Course!Next]_Ls!Course!vars <=> [Course!Next]_Course!vars
  BY DEF Ls!Course!Next, Course!Next, Ls!Course!vars, Course!vars, Ls!Course!Kind, Course!Kind,
         Ls!Course!Generate, Course!Generate, Ls!Course!Make, Course!Make, Ls!Course!MakeFails,
         Course!MakeFails, Ls!Course!Rubric, Course!Rubric, Ls!Course!Save, Course!Save,
         Ls!Course!SubmitAnswers, Course!SubmitAnswers, Ls!Course!SubmitText, Course!SubmitText,
         Ls!Course!Pieces, Course!Pieces, Ls!Course!Reply, Course!Reply, Ls!Course!QuestionsIn,
         Course!QuestionsIn, Ls!Course!ShownQuestions, Course!ShownQuestions,
         Ls!Course!McqQuestions, Course!McqQuestions, Ls!Course!GradeMcq, Course!GradeMcq,
         Ls!Course!GradeText, Course!GradeText, Ls!Course!Ungraded, Course!Ungraded,
         Ls!Course!QuizReply, Course!QuizReply, Ls!Course!ExamReply, Course!ExamReply,
         Ls!Course!ScenarioReply, Course!ScenarioReply, Ls!Course!LessonReply,
         Course!LessonReply, Ls!Course!CardsReply, Course!CardsReply, Ls!Course!Of, Course!Of,
         Ls!Course!Keyed, Course!Keyed, Ls!Course!Percent, Course!Percent, Ls!Course!Score,
         Course!Score, Ls!Course!Total, Course!Total, Ls!Course!Earned, Course!Earned,
         Ls!Course!Rounded, Course!Rounded, Ls!Course!Parsed, Course!Parsed,
         Ls!Course!Questions, Course!Questions, Ls!Course!HasKey, Course!HasKey,
         Ls!Course!Right, Course!Right, Ls!Course!Clamp, Course!Clamp, Ls!Course!Question,
         Course!Question, Ls!Course!Cardinality, Course!Cardinality, Ls!Course!Only,
         Course!Only, Ls!Course!SeqOf, Course!SeqOf
<1>3. Ls!Course!MarksAgree <=> Course!MarksAgree
  BY DEF Ls!Course!MarksAgree, Course!MarksAgree, Ls!Course!McqQuestions, Course!McqQuestions,
         Ls!Course!HasKey, Course!HasKey, Ls!Course!GradeMcq, Course!GradeMcq,
         Ls!Course!ShownQuestions, Course!ShownQuestions, Ls!Course!Percent, Course!Percent,
         Ls!Course!Score, Course!Score, Ls!Course!Keyed, Course!Keyed, Ls!Course!Right,
         Course!Right, Ls!Course!Cardinality, Course!Cardinality, Ls!Course!Only, Course!Only
<1>4. Ls!Course!TypeOK <=> Course!TypeOK
  BY DEF Ls!Course!TypeOK, Course!TypeOK, Ls!Course!Kind, Course!Kind, Ls!Course!Artefact,
         Course!Artefact, Ls!Course!Module, Course!Module, Ls!Course!Grade, Course!Grade,
         Ls!Course!Questions, Course!Questions, Ls!Course!Rubric, Course!Rubric,
         Ls!Course!Question, Course!Question, Ls!Course!SeqOf, Course!SeqOf
<1> QED BY <1>1, <1>2, <1>3, <1>4

LEMMA FindsSame ==
    /\ Ls!Finds!Init <=> Finds!Init
    /\ [Ls!Finds!Next]_Ls!Finds!vars <=> [Finds!Next]_Finds!vars
    /\ Ls!Finds!OrderFollowsEvidence <=> Finds!OrderFollowsEvidence
    /\ Ls!Finds!TypeOK <=> Finds!TypeOK
<1>1. \A s, n : Ls!Finds!Clip(s, n) = Finds!Clip(s, n)
  BY DEF Ls!Finds!Clip, Finds!Clip
<1>2. \A s, key : Ls!Finds!Sorted(s, key) = Finds!Sorted(s, key)
  BY DEF Ls!Finds!Sorted, Finds!Sorted, Ls!Finds!Cardinality, Finds!Cardinality
<1>3. \A s, I : Ls!Finds!Only(s, I) = Finds!Only(s, I)
  BY DEF Ls!Finds!Only, Finds!Only, Ls!Finds!Cardinality, Finds!Cardinality
<1>4. /\ \A s, c : Ls!Finds!Contains(s, c) <=> Finds!Contains(s, c)
      /\ \A s : Ls!Finds!IsInjective(s) <=> Finds!IsInjective(s)
      /\ \A s : Ls!Finds!ToSet(s) = Finds!ToSet(s)
  BY DEF Ls!Finds!Contains, Finds!Contains, Ls!Finds!IsInjective, Finds!IsInjective,
     Ls!Finds!ToSet, Finds!ToSet
<1>5. \A c, v, w : Ls!Finds!RRF(c, v, w) = Finds!RRF(c, v, w)
  BY DEF Ls!Finds!RRF, Finds!RRF, Ls!Finds!Share, Finds!Share, Ls!Finds!Contains, Finds!Contains
<1>6. \A v, w : Ls!Finds!Fuse(v, w) = Finds!Fuse(v, w)
  BY <1>2, <1>3, <1>4, <1>5 DEF Ls!Finds!Fuse, Finds!Fuse
<1>7. \A s, f : Ls!Finds!Best(s, f) = Finds!Best(s, f)
  BY <1>2 DEF Ls!Finds!Best, Finds!Best
<1>8. \A s, f : Ls!Finds!Scored(s, f) = Finds!Scored(s, f)
  BY <1>7 DEF Ls!Finds!Scored, Finds!Scored, Ls!Finds!Batch, Finds!Batch
<1>9. \A s, f : Ls!Finds!Reranked(s, f) = Finds!Reranked(s, f)
  BY <1>7, <1>8 DEF Ls!Finds!Reranked, Finds!Reranked
<1>10. /\ \A f, d : Ls!Finds!Signal(f, d) = Finds!Signal(f, d)
      /\ \A f, d : Ls!Finds!Moved(f, d) = Finds!Moved(f, d)
  BY DEF Ls!Finds!Signal, Finds!Signal, Ls!Finds!Moved, Finds!Moved, Ls!Finds!Shift,
     Finds!Shift, Ls!Finds!Squash, Finds!Squash
<1>11. \A s, f : Ls!Finds!Nudged(s, f) = Finds!Nudged(s, f)
  BY <1>2, <1>10 DEF Ls!Finds!Nudged, Finds!Nudged
<1>12. /\ Ls!Finds!Document = Finds!Document /\ Ls!Finds!Signals = Finds!Signals
      /\ \A s : Ls!Finds!Orders(s) = Finds!Orders(s)
  BY DEF Ls!Finds!Document, Finds!Document, Ls!Finds!Signals, Finds!Signals, Ls!Finds!Asked,
     Finds!Asked, Ls!Finds!Orders, Finds!Orders, Ls!Finds!ToSet, Finds!ToSet
<1>13. Ls!Finds!VectorHits = Finds!VectorHits /\ Ls!Finds!KeywordHits = Finds!KeywordHits
  BY DEF Ls!Finds!VectorHits, Finds!VectorHits, Ls!Finds!KeywordHits, Finds!KeywordHits,
     Ls!Finds!Lists, Finds!Lists, Ls!Finds!SeqOf, Finds!SeqOf, Ls!Finds!IsInjective,
     Finds!IsInjective
<1>14. \A s : Ls!Finds!Ranked(s) <=> Finds!Ranked(s)
  BY DEF Ls!Finds!Ranked, Finds!Ranked
<1>15. \A k, v, w : Ls!Finds!Search(k, v, w) <=> Finds!Search(k, v, w)
  BY <1>1, <1>6 DEF Ls!Finds!Search, Finds!Search
<1>16. /\ Ls!Finds!NoRerank <=> Finds!NoRerank
       /\ Ls!Finds!RerankFails <=> Finds!RerankFails
       /\ Ls!Finds!Return <=> Finds!Return
  BY <1>1, <1>14 DEF Ls!Finds!NoRerank, Finds!NoRerank, Ls!Finds!RerankFails, Finds!RerankFails,
     Ls!Finds!Return, Finds!Return
<1>17. \A f : Ls!Finds!Rerank(f) <=> Finds!Rerank(f)
  BY <1>1, <1>9, <1>14 DEF Ls!Finds!Rerank, Finds!Rerank
<1>18. \A f : Ls!Finds!Answer(f) <=> Finds!Answer(f)
  BY <1>11 DEF Ls!Finds!Answer, Finds!Answer
<1>19. [Ls!Finds!Next]_Ls!Finds!vars <=> [Finds!Next]_Finds!vars
  BY <1>12, <1>13, <1>15, <1>16, <1>17, <1>18 DEF Ls!Finds!Next, Finds!Next, Ls!Finds!vars,
     Finds!vars
<1>20. \A v, w, s, n : Ls!Finds!AgreementWins(v, w, s, n) <=> Finds!AgreementWins(v, w, s, n)
  <2> SUFFICES ASSUME NEW v, NEW w, NEW s, NEW n
               PROVE  Ls!Finds!AgreementWins(v, w, s, n) <=> Finds!AgreementWins(v, w, s, n)
    OBVIOUS
  <2> QED
    BY DEF Ls!Finds!AgreementWins, Finds!AgreementWins, Ls!Finds!Ahead, Finds!Ahead,
       Ls!Finds!Precedes, Finds!Precedes, Ls!Finds!Place, Finds!Place, Ls!Finds!ToSet,
       Finds!ToSet, Ls!Finds!IsInjective, Finds!IsInjective
<1>21. \A s, k : Ls!Finds!BestAreLeft(s, k) <=> Finds!BestAreLeft(s, k)
  BY <1>1, <1>4, <1>9, <1>12 DEF Ls!Finds!BestAreLeft, Finds!BestAreLeft
<1>22. \A s, t, f : Ls!Finds!VotesOnlyReorder(s, t, f) <=> Finds!VotesOnlyReorder(s, t, f)
  <2> SUFFICES ASSUME NEW s, NEW t, NEW f
               PROVE  Ls!Finds!VotesOnlyReorder(s, t, f) <=> Finds!VotesOnlyReorder(s, t, f)
    OBVIOUS
  <2> QED
    BY DEF Ls!Finds!VotesOnlyReorder, Finds!VotesOnlyReorder, Ls!Finds!Precedes,
       Finds!Precedes, Ls!Finds!Place, Finds!Place, Ls!Finds!Cardinality, Finds!Cardinality,
       Ls!Finds!ToSet, Finds!ToSet, Ls!Finds!Document, Finds!Document, Ls!Finds!Signal,
       Finds!Signal
<1>23. Ls!Finds!OrderFollowsEvidence <=> Finds!OrderFollowsEvidence
  BY <1>20, <1>21, <1>22 DEF Ls!Finds!OrderFollowsEvidence, Finds!OrderFollowsEvidence
<1>24. Ls!Finds!Init <=> Finds!Init
  BY DEF Ls!Finds!Init, Finds!Init
<1>25. Ls!Finds!TypeOK <=> Finds!TypeOK
  BY <1>12 DEF Ls!Finds!TypeOK, Finds!TypeOK
<1> QED BY <1>24, <1>19, <1>23, <1>25
-------------------------------------------------------------------------------
\* What the proofs assume of the constants is what MCPlatform assumes of them.
LEMMA Assumed ==
    /\ Rq!VersionsAreCounted /\ Rq!IdsAreIds /\ Rq!RecordsAreCounted /\ Rq!NoneIsNone
    /\ Rq!TalkNamed /\ Rq!TrailNamed /\ Rq!SumsNamed /\ Rq!JudgeNamed
    /\ Ls!CourseNamed /\ Ls!FindsNamed
<1>1. Rq!VersionsAreCounted /\ Rq!IdsAreIds /\ Rq!RecordsAreCounted /\ Rq!NoneIsNone
  BY PlatformBounds, NoneIsNoData
     DEF Rq!VersionsAreCounted, Rq!IdsAreIds, Rq!RecordsAreCounted, Rq!NoneIsNone
<1>2. Rq!TalkNamed
  BY PlatformBounds, NoneIsNoData
     DEF Rq!TalkNamed, Rq!TurnsAreCounted, Rq!NoneIsNoTurn, Rq!Talk!Ask, Talk!Ask
<1>3. Rq!TrailNamed
  BY PlatformBounds, NoneIsNoData
     DEF Rq!TrailNamed, Rq!Trail!Telling, Trail!Telling, Rq!Trail!Write, Trail!Write,
         Rq!Trail!Page, Trail!Page, Rq!Trail!Kind, Trail!Kind, Rq!Trail!Stamp, Trail!Stamp
<1>4. Rq!SumsNamed
  BY PlatformBounds, NoneIsNoData DEF Rq!SumsNamed, Rq!Sums!Task, Sums!Task
<1>5. Rq!JudgeNamed
  BY PlatformBounds, NoneIsNoData
     DEF Rq!JudgeNamed, Rq!Judge!Job, Judge!Job, Rq!Judge!Result, Judge!Result,
         Rq!Judge!Packs, Judge!Packs, Rq!Judge!Light, Judge!Light, Rq!Judge!Musts, Judge!Musts,
         Rq!Judge!FcaConsumerDuty, Judge!FcaConsumerDuty, Rq!Judge!HmrcAml, Judge!HmrcAml,
         Rq!Judge!UkGdpr, Judge!UkGdpr, Rq!Judge!UkDebtCollectionsLetter,
         Judge!UkDebtCollectionsLetter
<1>6. Ls!CourseNamed
  <2>1. \A p \in Points : p \in Nat /\ p >= Ls!TenPoints
    BY CourseBounds DEF Ls!TenPoints
  <2>2. \A p \in Points : p \in Ls!Tens
    <3> SUFFICES ASSUME NEW p \in Points PROVE p \in Ls!Tens
      OBVIOUS
    <3>1. p \in Nat /\ p % 10 = 0
      BY CourseBounds
    <3>2. PICK k \in Nat : p = 10 * k
      <4>1. p \div 10 \in Nat /\ p = 10 * (p \div 10)
        BY <3>1
      <4> QED BY <4>1
    <3> QED BY <3>2 DEF Ls!Tens
  <2>3. /\ MaxQuestions \in Nat /\ MaxCriteria \in Nat
        /\ \A mark \in Mark : mark \in Nat /\ mark <= 1000
        /\ \A weight \in Weight : weight \in Nat /\ weight > 0
        /\ \A points \in Awarded : points = None \/ points \in Int
    BY CourseBounds
  <2>4. /\ None \notin Ls!Course!Kind /\ None \notin Ls!Course!Module
        /\ None \notin Ls!Course!Grade
    BY NoneIsNoData
       DEF Ls!Course!Module, Course!Module, Ls!Course!Grade, Course!Grade, Ls!Course!Kind,
           Course!Kind, Ls!Course!Questions, Course!Questions, Ls!Course!Rubric, Course!Rubric,
           Ls!Course!Question, Course!Question, Ls!Course!SeqOf, Course!SeqOf
  <2> QED BY <2>1, <2>2, <2>3, <2>4 DEF Ls!CourseNamed
<1>7. Ls!FindsNamed
  <2>1. Ls!Finds!Document = Finds!Document /\ Ls!Finds!Signals = Finds!Signals
    BY DEF Ls!Finds!Document, Finds!Document, Ls!Finds!Signals, Finds!Signals,
           Ls!Finds!Asked, Finds!Asked
  <2>2. /\ Depth \in Nat /\ Depth <= 600 /\ MaxBatch \in Nat /\ MaxBatch > 0
        /\ MaxVotes \in Nat
        /\ \A k \in Limits : k \in Nat /\ k > 0 /\ Pool[k] \in Nat /\ k <= Pool[k]
    BY SearchBounds
  <2>3. Ls!IsFiniteSet(Ls!Finds!Document)
    BY SearchBounds, <2>1 DEF Ls!IsFiniteSet, IsFiniteSet
  <2> QED BY NoneIsNoData, <2>1, <2>2, <2>3 DEF Ls!FindsNamed
<1> QED BY <1>1, <1>2, <1>3, <1>4, <1>5, <1>6, <1>7

\* The invariant of whichever part runs.
PlatformInv ==
    /\ side = "sources" => Rq!CreatesInv
    /\ side = "prompts" => Rq!TextsInv
    /\ side = "assignments" => Rq!StaffInv
    /\ side = "accounts" => Rq!PeopleInv
    /\ side = "conversation" => Rq!TalkInv
    /\ side = "audit" => Rq!TrailInv
    /\ side = "summaries" => Rq!SumsInv
    /\ side = "validators" => Rq!JudgeInv
    /\ side = "courses" => Ls!CourseInv
    /\ side = "retrieval" => Ls!FindsInv

LEMMA PlatformInit == MCInit => PlatformInv
<1> SUFFICES ASSUME MCInit PROVE PlatformInv
  OBVIOUS
<1>1. side = "sources" => Rq!CreatesInv
  BY CreatesSame, Rq!CreatesInit DEF MCInit
<1>2. side = "prompts" => Rq!TextsInv
  BY TextsSame, Rq!TextsInit, Assumed DEF MCInit
<1>3. side = "assignments" => Rq!StaffInv
  BY StaffSame, Rq!StaffInit, Assumed DEF MCInit
<1>4. side = "accounts" => Rq!PeopleInv
  BY PeopleSame, Rq!PeopleInit, Assumed DEF MCInit
<1>5. side = "conversation" => Rq!TalkInv
  BY TalkSame, Rq!TalkInit, Assumed DEF MCInit
<1>6. side = "audit" => Rq!TrailInv
  BY TrailSame, Rq!TrailInit, Assumed DEF MCInit
<1>7. side = "summaries" => Rq!SumsInv
  BY SumsSame, Rq!SumsInit, Assumed DEF MCInit
<1>8. side = "validators" => Rq!JudgeInv
  BY JudgeSame, Rq!JudgeInit, Assumed DEF MCInit
<1>9. side = "courses" => Ls!CourseInv
  BY CourseSame, Ls!CourseInit, Assumed DEF MCInit
<1>10. side = "retrieval" => Ls!FindsInv
  BY FindsSame, Ls!FindsInit, Assumed DEF MCInit
<1> QED
  BY <1>1, <1>2, <1>3, <1>4, <1>5, <1>6, <1>7, <1>8, <1>9, <1>10
     DEF PlatformInv

LEMMA PlatformStep == PlatformInv /\ [MCNext]_<<side, vars, slots>> => PlatformInv'
<1> SUFFICES ASSUME PlatformInv, [MCNext]_<<side, vars, slots>> PROVE PlatformInv'
  OBVIOUS
<1>1. side' = side
  BY DEF MCNext
<1>2. ASSUME side = "sources" PROVE Rq!CreatesInv'
  <2>1. [Creates!Next]_Creates!vars
    BY <1>2 DEF MCNext, slots, Creates!vars
  <2> QED BY <1>2, <2>1, CreatesSame, Rq!CreatesStep DEF PlatformInv
<1>3. ASSUME side = "prompts" PROVE Rq!TextsInv'
  <2>1. [Texts!Next]_Texts!vars
    BY <1>3 DEF MCNext, slots, Texts!vars
  <2> QED BY <1>3, <2>1, TextsSame, Rq!TextsStep DEF PlatformInv
<1>4. ASSUME side = "assignments" PROVE Rq!StaffInv'
  <2>1. [Staff!Next]_Staff!vars
    BY <1>4 DEF MCNext, slots, Staff!vars
  <2> QED BY <1>4, <2>1, StaffSame, Rq!StaffStep DEF PlatformInv
<1>5. ASSUME side = "accounts" PROVE Rq!PeopleInv'
  <2>1. [People!Next]_People!vars
    BY <1>5 DEF MCNext, slots, People!vars
  <2> QED BY <1>5, <2>1, PeopleSame, Rq!PeopleStep DEF PlatformInv
<1>6. ASSUME side = "conversation" PROVE Rq!TalkInv'
  <2>1. [Talk!Next]_Talk!vars
    BY <1>6 DEF MCNext, slots, Talk!vars
  <2> QED BY <1>6, <2>1, TalkSame, Rq!TalkStep DEF PlatformInv
<1>7. ASSUME side = "audit" PROVE Rq!TrailInv'
  <2>1. [Trail!Next]_Trail!vars
    BY <1>7 DEF MCNext, slots, Trail!vars
  <2> QED BY <1>7, <2>1, TrailSame, Rq!TrailStep DEF PlatformInv
<1>8. ASSUME side = "summaries" PROVE Rq!SumsInv'
  <2>1. [Sums!Next]_Sums!vars
    BY <1>8 DEF MCNext, slots, Sums!vars
  <2> QED BY <1>8, <2>1, SumsSame, Rq!SumsStep DEF PlatformInv
<1>9. ASSUME side = "validators" PROVE Rq!JudgeInv'
  <2>1. [Judge!Next]_Judge!vars
    BY <1>9 DEF MCNext, slots, Judge!vars
  <2> QED BY <1>9, <2>1, JudgeSame, Rq!JudgeStep DEF PlatformInv
<1>10. ASSUME side = "courses" PROVE Ls!CourseInv'
  <2>1. [Course!Next]_Course!vars
    BY <1>10 DEF MCNext, slots, Course!vars
  <2> QED BY <1>10, <2>1, CourseSame, Ls!CourseStep DEF PlatformInv
<1>11. ASSUME side = "retrieval" PROVE Ls!FindsInv'
  <2>1. [Finds!Next]_Finds!vars
    BY <1>11 DEF MCNext, slots, Finds!vars
  <2> QED BY <1>11, <2>1, FindsSame, Ls!FindsStep DEF PlatformInv
<1> QED
  BY <1>1, <1>2, <1>3, <1>4, <1>5, <1>6, <1>7, <1>8, <1>9, <1>10, <1>11
     DEF PlatformInv

THEOREM PlatformInvariant == MCSpec => []PlatformInv
  BY PlatformInit, PlatformStep, PTL DEF MCSpec
-------------------------------------------------------------------------------
\* Requests that create sources may overlap, fail and be deleted from: until two of one
\* preset overlap, a preset has one source and the tenant one default profile
\* (routes/ingestion.py:42-76, 152-168).
THEOREM SourcesFoundOnce == MCSpec => []FoundOnce
<1>1. PlatformInv => FoundOnce
  BY CreatesSame, Rq!CreatesProves DEF PlatformInv, FoundOnce
<1> QED BY <1>1, PlatformInvariant, PTL

\* The version chosen last serves and is shown, for any number of owners and versions
\* (gateway/prompts.py:100-111, routes/prompts.py:152-246).
THEOREM ChoicesServe == MCSpec => []LastChoiceServes
<1>1. PlatformInv => LastChoiceServes
  BY TextsSame, Rq!TextsProves DEF PlatformInv, LastChoiceServes
<1> QED BY <1>1, PlatformInvariant, PTL

\* However assigns and submissions overlap, a learner has one row for a module, and it is
\* completed exactly when a training record names it (routes/training.py:294-344, 443-459,
\* db/models.py:741-807).
THEOREM CompletionsProven == MCSpec => []CompletionsAreProven
<1>1. PlatformInv => CompletionsAreProven
  BY StaffSame, Rq!StaffProves DEF PlatformInv, CompletionsAreProven
<1> QED BY <1>1, PlatformInvariant, PTL

\* However signups, invitations and acceptances overlap, a token leads back to the account it
\* was given to, and a workspace has one owner (routes/auth.py:83-152, 193-242,
\* routes/admin.py:119-251, db/models.py:85-120).
THEOREM TokensLeadBack == MCSpec => []TokensNameTheirAccount
<1>1. PlatformInv => TokensNameTheirAccount
  BY PeopleSame, Rq!PeopleProves DEF PlatformInv, TokensNameTheirAccount
<1> QED BY <1>1, PlatformInvariant, PTL

\* However the asks of a session overlap, fail and are left, a turn its client or an auditor
\* knows of is still in the history, or was pushed out by the window or by an append that
\* crossed it (memory.py:65-98, service.py:208-220, routes/ask.py:93-118, 150-167).
THEOREM AnswersKept == MCSpec => []AnswersAreKept
<1>1. PlatformInv => AnswersAreKept
  BY TalkSame, Rq!TalkProves DEF PlatformInv, AnswersAreKept
<1> QED BY <1>1, PlatformInvariant, PTL

\* A follow-up is answered from all its client had read, for any number of calls and any
\* window (memory.py:30-56, prompts/rag.py:72-111).
THEOREM FollowUpsInformed == MCSpec => []FollowUpsAreInformed
<1>1. PlatformInv => FollowUpsAreInformed
  BY TalkSame, Rq!TalkProves DEF PlatformInv, FollowUpsAreInformed
<1> QED BY <1>1, PlatformInvariant, PTL

\* An owner who pages to the end of the audit log has seen every row there was, for any page
\* size and any number of requests that write meanwhile (routes/audit.py:86-112,
\* middleware/audit.py:26-99).
THEOREM AuditPagesComplete == MCSpec => []PagesMissNothing
<1>1. PlatformInv => PagesMissNothing
  BY TrailSame, Rq!TrailProves DEF PlatformInv, PagesMissNothing
<1> QED BY <1>1, PlatformInvariant, PTL

\* A summary is of the text the document holds, or a run that will write it is queued or
\* under way, for any number of workers and documents (pipeline.py:242-247, service.py:49-77,
\* tasks.py:67-103).
THEOREM SummariesFollowed == MCSpec => []SummariesFollowTheText
<1>1. PlatformInv => SummariesFollowTheText
  BY SumsSame, Rq!SumsProves DEF PlatformInv, SummariesFollowTheText
<1> QED BY <1>1, PlatformInvariant, PTL

\* A green light is earned by what the model itself found of the claims, for any number of
\* them and whatever calls fail (rule_pack_validator.py:128-159, 228-272, pipeline.py:92-109,
\* 210-266).
THEOREM GreensEarned == MCSpec => []GreenIsEarned
<1>1. PlatformInv => GreenIsEarned
  BY JudgeSame, Rq!JudgeProves DEF PlatformInv, GreenIsEarned
<1> QED BY <1>1, PlatformInvariant, PTL

\* A verdict and the percentage beside it agree on both paths, for every list of questions,
\* rubric and award (training.py:514-568, grade.py:121-196, Training.tsx:775-792).
THEOREM MarksAgreed == MCSpec => []MarksAgree
<1>1. PlatformInv => MarksAgree
  BY CourseSame, Ls!CourseProves DEF PlatformInv, MarksAgree
<1> QED BY <1>1, PlatformInvariant, PTL

\* The order a reader sees follows the evidence, for any chunks, documents, batches, pools,
\* scores and votes, and for lists of up to 600 hits (retrievers/hybrid.py:64-95,
\* rerankers/tei.py:60-84, feedback.py:79-108).
THEOREM EvidenceFollowed == MCSpec => []OrderFollowsEvidence
<1>1. PlatformInv => OrderFollowsEvidence
  BY FindsSame, Ls!FindsProves DEF PlatformInv, OrderFollowsEvidence
<1> QED BY <1>1, PlatformInvariant, PTL

\* Every part keeps its types: each invariant says so of its part.
THEOREM PlatformTyped == MCSpec => []PlatformTypeOK
<1>1. PlatformInv => PlatformTypeOK
  <2> SUFFICES ASSUME PlatformInv PROVE PlatformTypeOK
    OBVIOUS
  <2>1. side = "sources" => Creates!TypeOK
    BY CreatesSame DEF PlatformInv, Rq!CreatesInv
  <2>2. side = "prompts" => Texts!TypeOK
    BY TextsSame DEF PlatformInv, Rq!TextsInv
  <2>3. side = "assignments" => Staff!TypeOK
    BY StaffSame DEF PlatformInv, Rq!StaffInv, Rq!StaffTyped
  <2>4. side = "accounts" => People!TypeOK
    BY PeopleSame DEF PlatformInv, Rq!PeopleInv
  <2>5. side = "conversation" => Talk!TypeOK
    BY TalkSame DEF PlatformInv, Rq!TalkInv
  <2>6. side = "audit" => Trail!TypeOK
    BY TrailSame DEF PlatformInv, Rq!TrailInv
  <2>7. side = "summaries" => Sums!TypeOK
    BY SumsSame DEF PlatformInv, Rq!SumsInv
  <2>8. side = "validators" => Judge!TypeOK
    BY JudgeSame DEF PlatformInv, Rq!JudgeInv
  <2>9. side = "courses" => Course!TypeOK
    BY CourseSame DEF PlatformInv, Ls!CourseInv
  <2>10. side = "retrieval" => Finds!TypeOK
    BY FindsSame DEF PlatformInv, Ls!FindsInv
  <2> QED
    BY <2>1, <2>2, <2>3, <2>4, <2>5, <2>6, <2>7, <2>8, <2>9, <2>10
       DEF PlatformTypeOK
<1> QED BY <1>1, PlatformInvariant, PTL
===============================================================================
