------------------------------ MODULE Evaluation ------------------------------
(***************************************************************************)
(* The evaluator of evaluation.py on the answers of the orchestrator: a    *)
(* report that compares a labelled dataset with what was answered, and the *)
(* calibration that recommends a confidence threshold.                     *)
(*                                                                         *)
(* The answered requests of PlanExecution are the dataset; cases gives     *)
(* each of them its label.  Ratios are per ten thousand, as the report     *)
(* rounds them; latencies are left out.                                    *)
(***************************************************************************)
EXTENDS PlanExecution

CONSTANTS Labels,           \* AgentEvaluationCase, without its question
          Candidates,       \* the thresholds calibration compares
          FalseAcceptCost, FalseHandoffCost, SafetyMargin,
          Short             \* confidences that fall short when the margin is taken away

\* calibrate_threshold's arguments, in percent where they are confidences, and
\* a dataset, which is a list read from a file.
ASSUME EvaluationAssumption ==
  /\ IsFiniteSet(Requests)
  /\ \A case \in Labels : case.handoff \in BOOLEAN
  /\ Candidates # {} /\ Candidates \subseteq 0..100
  /\ FalseAcceptCost \in Nat /\ FalseHandoffCost \in Nat /\ SafetyMargin \in Nat
  /\ Short \subseteq 0..100
  /\ None \notin Nat

Ratio(n, d) == IF d = 0 THEN None ELSE (20000 * n + d) \div (2 * d)

-----------------------------------------------------------------------------
(* evaluate_cases                                                          *)

IntentOk(case, answer) == answer.intent = case.intent

TaskOk(case, answer) ==
  /\ IntentOk(case, answer)
  /\ answer.agent = case.agent
  /\ ~answer.human
  /\ case.tools \subseteq answer.tools

Bug_Fails(case, answer) ==
  \/ ~IntentOk(case, answer)
  \/ case.agent # None /\ answer.agent # case.agent
  \/ answer.human # case.handoff

Fails(case, answer) ==
  \/ ~IntentOk(case, answer)
  \/ case.agent # None /\ answer.agent # case.agent
  \/ answer.human # case.handoff
  \/ ~case.handoff /\ ~TaskOk(case, answer)

\* The report on the answers to the cases, which are functions on one domain.
Report(cases, answers) ==
  LET ids == DOMAIN cases
      routed == {c \in ids : cases[c].agent # None}
      automatable == {c \in ids : ~cases[c].handoff}
      handed == {c \in ids : answers[c].human}
      Share(part, whole) == Ratio(Cardinality(part), Cardinality(whole))
  IN [ratios |->
        [intent_accuracy |->
           Share({c \in ids : IntentOk(cases[c], answers[c])}, ids),
         routing_accuracy |->
           Share({c \in routed : answers[c].agent = cases[c].agent}, routed),
         automated_task_completion_rate |->
           Share({c \in automatable : TaskOk(cases[c], answers[c])}, automatable),
         handoff_precision |-> Share(handed \ automatable, handed),
         handoff_recall |-> Share(handed \ automatable, ids \ automatable)],
      failed_cases |-> {c \in ids : Fails(cases[c], answers[c])}]

-----------------------------------------------------------------------------
(* calibrate_threshold                                                     *)

Bug_AutoRoute(answer, threshold) ==
  answer.intent # "unknown" /\ answer.confidence > threshold

AutoRoute(answer, threshold) ==
  answer.intent # "unknown" /\ answer.confidence >= threshold

Row(cases, answers, threshold) ==
  LET auto == {c \in DOMAIN cases : AutoRoute(answers[c], threshold)}
      handoff == {c \in DOMAIN cases : cases[c].handoff}
      accepts == Cardinality(auto \cap handoff)
      handoffs == Cardinality((DOMAIN cases \ auto) \ handoff)
  IN [false_accepts |-> accepts,
      false_handoffs |-> handoffs,
      weighted_cost |-> accepts * FalseAcceptCost + handoffs * FalseHandoffCost]

Cost(cases, answers, threshold) == Row(cases, answers, threshold).weighted_cost

\* best_rows
Cheapest(cases, answers) ==
  {t \in Candidates :
     \A u \in Candidates : Cost(cases, answers, t) <= Cost(cases, answers, u)}

\* positive_confidences
Positive(cases, answers) ==
  {answers[c].confidence : c \in
     {d \in DOMAIN cases : ~cases[d].handoff /\ IntentOk(cases[d], answers[d])}}

\* A confidence less the margin, as the greatest percent that does not exceed
\* it.  Floats are subtracted: of a confidence in Short, which are fixed by the
\* margin, the difference lies below the percents' (0.85 - 0.05 < 0.80).
LessMargin(confidence) ==
  confidence - SafetyMargin - (IF confidence \in Short THEN 1 ELSE 0)

\* safety_ceiling
Ceiling(cases, answers) ==
  LET confidences == Positive(cases, answers)
  IN IF confidences = {} THEN 80 ELSE LessMargin(Min(confidences))

Bug_Recommended(cases, answers) == Max(Cheapest(cases, answers))

Recommended(cases, answers) ==
  LET best == Cheapest(cases, answers)
      eligible == {t \in best : t <= Ceiling(cases, answers)}
  IN Max(IF eligible # {} THEN eligible ELSE best)

-----------------------------------------------------------------------------
(* Properties, at the end of every dataset the requests can be.            *)

Over == \A r \in Requests : phase[r] \in {"answered", "cancelled"}

Finished == {r \in Requests : phase[r] = "answered"}

\* Questions the calibration and the orchestrator see alike: of one part, and
\* with nothing for the guardrails.
Plain == {r \in Finished : ~question[r].injection /\ ~IsMulti(r)}

\* evaluation.py:111-131, README.md:110-117: the list of failed cases and the
\* ratios tell the same story.  The list is empty exactly when every ratio
\* that has a denominator is 100 %: no failure hides in a ratio, and no ratio
\* below 100 % is left without a case to look at.  Of 20000 cases and more, a
\* ratio may miss one and still be rounded to 100 %.
CleanReportIsPerfect ==
  Over /\ Finished # {} =>
    \A cases \in [Finished -> Labels] :
      LET report == Report(cases, response) IN
      report.failed_cases = {}
        <=> \A name \in DOMAIN report.ratios : report.ratios[name] \in {None, 10000}

\* README.md:135, evaluation.py:205: what calibration counts for a threshold
\* is what the orchestrator does under it: the cases that were, and that were
\* not, kept from an agent for want of confidence.
CalibrationAgrees ==
  Over =>
    \A cases \in [Plain -> Labels] :
      LET row == Row(cases, response, Threshold)
          kept == {r \in Plain : response[r].decision = "low_confidence_handoff"}
      IN /\ row.false_accepts = Cardinality({r \in Plain \ kept : cases[r].handoff})
         /\ row.false_handoffs = Cardinality({r \in kept : ~cases[r].handoff})

KeepsMargin(confidence, t) ==
  /\ confidence >= t + SafetyMargin
  /\ confidence \in Short => confidence # t + SafetyMargin

\* evaluation.py:228-230: under the recommended threshold the orchestrator
\* loses no case it understood and may answer alone, and none comes closer to
\* it than the margin, unless every threshold of the least cost is too high.
\* A case exactly the margin above a threshold counts as closer if it is in
\* Short: between 0.80 and 0.85 of like cost, a weakest case of 0.85 has 0.85
\* recommended, and no margin left, though evaluation.py:238-241 promises one.
RecommendedKeepsGood ==
  Over =>
    \A cases \in [Plain -> Labels] :
      LET recommended == Recommended(cases, response)
          good == {r \in Plain : ~cases[r].handoff /\ IntentOk(cases[r], response[r])}
          Safe(t) == \A r \in good : KeepsMargin(response[r].confidence, t)
      IN /\ \A t \in Candidates :
              Cost(cases, response, recommended) <= Cost(cases, response, t)
         /\ (\E t \in Cheapest(cases, response) : Safe(t)) => Safe(recommended)

=============================================================================
