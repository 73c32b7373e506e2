SPECIFICATION Spec
CONSTANTS
  KeepFirst = 3
  MaxSize = 10
  ActionObservation = 9
  ActionError = 9
  Monologue = 9
  AlternatingPattern = 9
  Window = 8
  Contents = {"x"}
  Replies = {"thinking", "message"}
  Answers = {"observation"}
  NativeCalls = TRUE
  MaxBatch = 1
  MaxLog = 19
  MaxRare = 3
  MaxUpdates = 3
INVARIANT CondensingShrinks
CHECK_DEADLOCK FALSE
