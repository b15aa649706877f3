SPECIFICATION Spec
CONSTANTS
  MaxRounds = 4
  MaxQueries = 8
  MaxToolFailures = 3
  UnderstandLLM = FALSE
  PlannerLLM = FALSE
  CriticLLM = FALSE
  ContextLLM = FALSE
  Tasks <- RecipeTasks
  Answers <- RecipeAnswers
  Proposals = {}
  Dependencies <- NoDependencies
INVARIANTS
  NeverRepeatsSuccess
  ReplanIsActionable
  PassIsComplete
  ClaimsCiteLatest
CHECK_DEADLOCK FALSE
