SPECIFICATION Spec
CONSTANTS
  KeepFirst = 2
  MaxSize = 8
  ActionObservation = 2
  ActionError = 2
  Monologue = 2
  AlternatingPattern = 4
  Window = 7
  Contents = {"x"}
  Replies <- AllReplies
  Answers <- AllAnswers
  NativeCalls = TRUE
  MaxBatch = 2
  MaxLog = 12
  MaxRare = 3
  MaxUpdates = 5
INVARIANTS
  ViewMatched
  CondensesInPlace
  RepetitionBounded
CHECK_DEADLOCK FALSE
