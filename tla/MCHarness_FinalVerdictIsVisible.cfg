SPECIFICATION Spec
CONSTANTS
  MaxRounds = 4
  MaxQueries = 8
  MaxToolFailures = 3
  UnderstandLLM = FALSE
  PlannerLLM = FALSE
  CriticLLM = FALSE
  ContextLLM = FALSE
  Tasks <- RecipeTasks
  Answers <- SmallAnswers
  Proposals = {}
  Dependencies <- NoDependencies
INVARIANT FinalVerdictIsVisible
CHECK_DEADLOCK FALSE
