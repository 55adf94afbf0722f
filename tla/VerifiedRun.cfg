\* One task, two contents, one message, one oddity.
SPECIFICATION FairSpec
CONSTANTS
  None = None
  Contents <- MCContents
  Prompts <- MCPrompts
  Doings <- MCDoings
  MaxReflections = 2
  MaxRecoveries = 1
  StepBudget = 2
  MaxMessages = 1
  MaxLog = 2
  MaxOddities = 1
INVARIANTS
  EvidenceIsTemporal
  
  UpdatesHeard
PROPERTY
  RunConcludes
CHECK_DEADLOCK FALSE
