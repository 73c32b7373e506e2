SPECIFICATION ServiceSpec
CONSTANTS
  NoThread = NoThread
  Runs = {r1, r2}
  Senders = {}
  Rejecters = {}
  Reviewers = {}
  Condensers = {}
  MaxActions = 1
  MaxBatch = 1
  MaxIterations = 2
  MaxPauses = 0
  Policy = "never"
  StuckDetection = FALSE
  Hooks = {}
  Replies = {"tools"}
  ToolResults = {"observation"}
  Kinds = {"plain"}
  RunSenders = {}
  GuardedStarts = TRUE
  MaxCrashes = 1
PROPERTY InterruptedNotRepeated
