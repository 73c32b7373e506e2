SPECIFICATION Spec
CONSTANTS
  KeepFirst = 2
  MaxSize = 8
  ActionObservation = 3
  ActionError = 3
  Monologue = 2
  AlternatingPattern = 4
  Window = 8
  Contents = {"x"}
  Replies = {"exceeded", "calls", "thinking", "invalid", "torn"}
  Answers = {"observation"}
  NativeCalls = TRUE
  MaxBatch = 2
  MaxLog = 18
  MaxRare = 2
  MaxUpdates = 6
INVARIANT SummaryBetweenUnits
CHECK_DEADLOCK FALSE
