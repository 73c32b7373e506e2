SPECIFICATION ServiceSpec
CONSTANTS
  NoThread = NoThread
  Runs = {r1}
  Senders = {s1}
  Rejecters = {j1}
  Reviewers = {}
  Condensers = {}
  MaxActions = 1
  MaxBatch = 1
  MaxIterations = 2
  MaxPauses = 0
  Policy = "always"
  StuckDetection = FALSE
  Hooks = {}
  Replies = {"tools"}
  ToolResults = {"observation"}
  Kinds = {"plain"}
  RunSenders = {}
  GuardedStarts = TRUE
  MaxCrashes = 0
PROPERTY ConfirmedBeforeRun
