------------------------------ MODULE Courses -------------------------------
(***************************************************************************)
(* One piece of compliance training, from the request that generates it to *)
(* the mark a learner gets: TrainingGenerator, the module that is saved,   *)
(* the page that shows its questions, _grade_mcq and TrainingGrader.       *)
(*                                                                         *)
(* A question is its answer key, NoKey when it has none; texts and the     *)
(* passages they cite are left out. Percentages are integers in tenths,    *)
(* points in thousandths.                                                  *)
(***************************************************************************)
EXTENDS Integers, Sequences, FiniteSets, SequencesExt, Listing

CONSTANTS
    Option,       \* answers a question offers: indices
    NoKey,        \* a question without answer_index
    Points,       \* points a criterion of a rubric can earn
    Weight,       \* weights of a criterion
    Awarded,      \* points a model may award for one, None for a missing row
    Mark,         \* pass marks, in tenths of a percent
    MaxQuestions, \* bound: questions of a list
    MaxCriteria,  \* bound: criteria of a rubric
    None

VARIABLES
    kind,     \* what was asked for
    left,     \* the artefacts still to be made
    made,     \* those made
    module,   \* the saved module
    record    \* the graded submission

vars == <<kind, left, made, module, record>>

\* _ARTEFACT_KINDS: lesson and revision guide are one here, flashcards and slides another.
Kind == {"lesson", "cards", "quiz", "exam", "scenario", "blended"}

Question == Option \cup {NoKey}
Questions == SeqOf(Question, MaxQuestions)
Artefact == [kind : Kind \ {"blended"}, questions : Questions]
Rubric == SeqOf([max : Points, weight : Weight], MaxCriteria)
Module == [quiz : Questions, data : Questions, rubric : Rubric, mark : Mark]
Grade == [path : {"mcq", "text"}, score : Nat, max : Nat, pct : Nat,
          passed : BOOLEAN \cup {None}]

TypeOK ==
    /\ kind \in Kind \cup {None}
    /\ left \in Seq(Kind) /\ made \in Seq(Artefact)
    /\ module \in Module \cup {None}
    /\ record \in Grade \cup {None}
    /\ record # None => module # None

Init == kind = None /\ left = <<>> /\ made = <<>> /\ module = None
        /\ record = None
-----------------------------------------------------------------------------
(* ---- Generation ------------------------------------------------------------ *)

\* A blended module is a lesson, a quiz and, if wanted, a scenario, one after the other.
Pieces(k) ==
    IF k = "blended" THEN {<<"lesson", "quiz">>, <<"lesson", "quiz", "scenario">>}
    ELSE {<<k>>}

Generate(k) ==
    /\ kind = None
    /\ kind' = k
    /\ left' \in Pieces(k)
    /\ UNCHANGED <<made, module, record>>

\* _questions_of: a reply that is no JSON counts as no questions.
Parsed(questions) == {<<>>} \cup questions

\* A question of a quiz may lack its key, whatever the prompt asked for.
QuizReply == Parsed(Questions)
ExamReply == Parsed(SeqOf({NoKey}, MaxQuestions))
ScenarioReply == Parsed(SeqOf({NoKey}, MaxQuestions))
LessonReply == {<<>>}
CardsReply == {<<>>}

Reply(k) ==
    CASE k = "quiz" -> QuizReply
      [] k = "exam" -> ExamReply
      [] k = "scenario" -> ScenarioReply
      [] k = "lesson" -> LessonReply
      [] k = "cards" -> CardsReply

\* Every generator retrieves for itself and completes through the gateway.
Make ==
    /\ left # <<>>
    /\ \E qs \in Reply(Head(left)) :
          made' = Append(made, [kind |-> Head(left), questions |-> qs])
    /\ left' = Tail(left)
    /\ UNCHANGED <<kind, module, record>>

\* The gateway refuses or fails: what was made before is lost with it.
MakeFails ==
    /\ left # <<>>
    /\ kind' = None /\ left' = <<>> /\ made' = <<>>
    /\ UNCHANGED <<module, record>>

(* ---- The saved module ------------------------------------------------------ *)

Of(k) == {i \in DOMAIN made : made[i].kind = k}
QuestionsIn(k) ==
    IF Of(k) = {} THEN <<>>
    ELSE made[CHOOSE i \in Of(k) : \A j \in Of(k) : i <= j].questions

\* create_module keeps what the page sends: the artefacts, a rubric and a pass mark.
Save(rubric, mark) ==
    /\ kind # None /\ left = <<>> /\ module = None
    /\ module' = [quiz |-> IF kind = "blended" THEN QuestionsIn("quiz") ELSE <<>>,
                  data |-> IF kind = "blended" THEN <<>> ELSE made[1].questions,
                  rubric |-> rubric, mark |-> mark]
    /\ UNCHANGED <<kind, left, made, record>>

\* _mcq_questions: the quiz of a blended module before the questions of an artefact.
McqQuestions(m) == IF m.quiz # <<>> THEN m.quiz ELSE m.data

\* mcqQuestions of the page keeps the questions that have a key.
HasKey(q) == q # NoKey
Keyed(qs) == Only(qs, {i \in DOMAIN qs : HasKey(qs[i])})
ShownQuestions(m) == IF Keyed(m.quiz) # <<>> THEN Keyed(m.quiz) ELSE Keyed(m.data)

(* ---- Marks ----------------------------------------------------------------- *)

\* round(part / whole * 100, 1), in tenths. A tie goes up here and to even in the code; no
\* verdict hangs on one, for a pass mark is a whole tenth.
Percent(part, whole) == (2 * 1000 * part + whole) \div (2 * whole)

Right(qs, answers) ==
    {i \in DOMAIN qs : i <= Len(answers) /\ answers[i] = qs[i]}

Score(qs, answers) == Cardinality(Right(qs, answers))

\* _grade_mcq.
GradeMcq(m, answers) ==
    LET qs == McqQuestions(m)
        pct == Percent(Score(qs, answers), Len(qs))
    IN [path |-> "mcq", score |-> Score(qs, answers), max |-> Len(qs), pct |-> pct,
        passed |-> pct >= m.mark]

\* A criterion earns nothing for a missing row, and stays within its points.
Clamp(points, max) ==
    IF points = None \/ points < 0 THEN 0 ELSE IF points > max THEN max ELSE points

\* Hundredths of a point, as the record keeps them.
Rounded(points) == ((points + 5) \div 10) * 10

Total(seq) ==
    LET sum[i \in 0..Len(seq)] == IF i = 0 THEN 0 ELSE sum[i - 1] + seq[i]
    IN sum[Len(seq)]

\* Fault: what the model awards is not held to the criterion.
EarnedAsAwarded(rubric, points) ==
    [i \in DOMAIN rubric |->
       IF points[i] = None THEN 0 ELSE points[i] * rubric[i].weight]
Earned(rubric, points) ==
    [i \in DOMAIN rubric |-> Clamp(points[i], rubric[i].max) * rubric[i].weight]

\* TrainingGrader.grade: the verdict is taken from the exact percentage, and the record
\* keeps rounded points and a rounded percentage of them.
GradeText(m, points) ==
    LET total == Total(Earned(m.rubric, points))
        max == Total([i \in DOMAIN m.rubric |-> m.rubric[i].max * m.rubric[i].weight])
    IN [path |-> "text", score |-> Rounded(total), max |-> Rounded(max),
        pct |-> Percent(Rounded(total), Rounded(max)),
        passed |-> total * 1000 >= m.mark * max]

\* A reply that is no JSON is recorded without a score or a verdict.
Ungraded(m) ==
    [path |-> "text", score |-> 0, pct |-> 0, passed |-> None,
     max |-> Total([i \in DOMAIN m.rubric |-> m.rubric[i].max])]

\* The page sends an answer for each question it shows; without a question the backend
\* answers 422.
SubmitAnswers ==
    /\ module # None /\ record = None
    /\ ShownQuestions(module) # <<>> /\ McqQuestions(module) # <<>>
    /\ \E answers \in [DOMAIN ShownQuestions(module) -> Option] :
          record' = GradeMcq(module, answers)
    /\ UNCHANGED <<kind, left, made, module>>

\* Without questions it sends text; without a rubric the backend answers 422.
SubmitText ==
    /\ module # None /\ record = None
    /\ ShownQuestions(module) = <<>> /\ module.rubric # <<>>
    /\ \/ \E points \in [DOMAIN module.rubric -> Awarded] :
             record' = GradeText(module, points)
       \/ record' = Ungraded(module)
    /\ UNCHANGED <<kind, left, made, module>>

Next ==
    \/ \E k \in Kind : Generate(k)
    \/ Make \/ MakeFails
    \/ \E rubric \in Rubric, mark \in Mark : Save(rubric, mark)
    \/ SubmitAnswers \/ SubmitText

Spec == Init /\ [][Next]_vars
-----------------------------------------------------------------------------
\* Marks mean one thing on every path. A record that says passed never shows a percentage
\* below the pass mark, and one that shows more than the mark says passed, whether the
\* verdict was taken from the rounded percentage (training.py:543-549) or from the exact one
\* (grade.py:168-176); at the mark itself a rounded percentage may stand beside either
\* verdict. When every question of a quiz has its key, the right answers to what the page
\* shows make 100% (Training.tsx:775-792, training.py:514-568); with a question that lacks
\* its key the page and the backend number the questions differently.
MarksAgree ==
    /\ record # None /\ record.passed # None =>
          /\ record.passed => record.pct >= module.mark
          /\ record.pct > module.mark => record.passed
          /\ record.score <= record.max
    /\ module # None /\ McqQuestions(module) # <<>>
       /\ (\A i \in DOMAIN McqQuestions(module) : HasKey(McqQuestions(module)[i])) =>
          LET best == GradeMcq(module, ShownQuestions(module))
          IN  best.pct = 1000 /\ best.passed
=============================================================================
