SPECIFICATION Spec
CONSTANTS
  MAXARGS = 3
  NPROC = 6
  NOFILE = 5
  Tokens = {"a", "|", ";", "&", "<", "(", ")"}
  MaxTokens = 4
  Scenarios <- MCScenarios
INVARIANTS ParsesGrammar ProgramsWired PromptMeansDone
PROPERTIES PromptReturns
CHECK_DEADLOCK FALSE
