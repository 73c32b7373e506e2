SPECIFICATION Spec
CONSTANTS
  KeepFirst = 2
  MaxSize = 8
  ActionObservation = 3
  ActionError = 3
  Monologue = 2
  AlternatingPattern = 4
  Window = 8
  Contents = {"x"}
  Replies = {"exceeded", "calls"}
  Answers = {"observation"}
  NativeCalls = FALSE
  MaxBatch = 1
  MaxLog = 17
  MaxRare = 3
  MaxUpdates = 3
INVARIANT ViewMatched
CHECK_DEADLOCK FALSE
