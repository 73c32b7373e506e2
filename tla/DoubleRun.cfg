SPECIFICATION ServiceSpec
CONSTANTS
  NoThread = NoThread
  Runs = {r1, r2}
  Senders = {s1, s2}
  Rejecters = {}
  Reviewers = {}
  Condensers = {}
  MaxActions = 1
  MaxBatch = 1
  MaxIterations = 2
  MaxPauses = 0
  Policy = "always"
  StuckDetection = FALSE
  Hooks = {}
  Replies = {"tools"}
  ToolResults = {"observation"}
  Kinds = {"plain"}
  RunSenders = {s1, s2}
  GuardedStarts = FALSE
  MaxCrashes = 0
PROPERTY ConfirmedBeforeRun
