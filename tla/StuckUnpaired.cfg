SPECIFICATION Spec
CONSTANTS
  KeepFirst = 2
  MaxSize = 8
  ActionObservation = 3
  ActionError = 3
  Monologue = 2
  AlternatingPattern = 9
  Window = 8
  Contents = {"x", "y"}
  Replies = {"calls", "confirm"}
  Answers = {"observation"}
  NativeCalls = TRUE
  MaxBatch = 1
  MaxLog = 15
  MaxRare = 2
  MaxUpdates = 3
INVARIANT StuckOnPairs
CHECK_DEADLOCK FALSE
