SPECIFICATION Spec
CONSTANTS
  Tasks = {"T1", "T2"}
  NoTask = "none"
  Queries = {"q1", "q2", "q3"}
  Question = "q1"
  Texts <- const_Texts
  MaxTurns = 4
  MaxFormatErrors = 2
  MaxRejections = 1
  SearchLimit = 1
  PerSubquestion = 2
  LimitCap = 2
  Scores <- const_Scores
  MinGain = 1
  RequireEvidence = TRUE
  PlateauNeedsEvidence = TRUE
  AllowInternal = TRUE
  AutoSearches = TRUE
  ForceAnswer = TRUE
CHECK_DEADLOCK FALSE
INVARIANT BudgetHolds NothingAskedTwice AnswersAreEarned GivesUpForAReason
