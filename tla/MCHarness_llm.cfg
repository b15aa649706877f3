SPECIFICATION FairSpec
CONSTANTS
  MaxRounds = 4
  MaxQueries = 4
  MaxToolFailures = 3
  UnderstandLLM = TRUE
  PlannerLLM = TRUE
  CriticLLM = TRUE
  ContextLLM = TRUE
  Tasks <- LLMTasks
  Answers <- SmallAnswers
  Proposals <- LLMProposals
  Dependencies <- SomeDependencies
INVARIANTS
  WithinBudget
PROPERTIES
  KeepsContract
  BoundedRun
  EventuallyEnds
CHECK_DEADLOCK FALSE
