SPECIFICATION FairSpec
CONSTANTS
  o1 = o1 o2 = o2 q1 = q1 q2 = q2
  None = None
  Deferred = Deferred
  Requests = {q1, q2}
  Questions <- MCQuestions
  ModelAnswers <- MCModelAnswers
  Routes <- MCRoutes
  Orders = {o1, o2}
  Threshold = 80
  MaxTasks = 2
  MaxParallel = 1
  Guardrails = TRUE
  Faults = {"raise", "cancel"}
  Labels <- MCLabels
  Candidates = {50, 80, 81, 95}
  FalseAcceptCost = 5
  FalseHandoffCost = 1
  SafetyMargin = 5
  Short = {6, 9, 12, 15, 21, 22, 57, 58, 59, 60, 61, 69, 70, 71, 72, 73,
           82, 83, 84, 85, 86, 94, 95, 96, 97, 98}
CHECK_DEADLOCK FALSE
INVARIANTS TypeOK SlotsConserved ActsOnlyWhenDecided ActsOnExaminedOrder NoSilentFailure
  CleanReportIsPerfect CalibrationAgrees RecommendedKeepsGood
PROPERTIES RequestsEnd
