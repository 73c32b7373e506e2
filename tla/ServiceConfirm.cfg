SPECIFICATION ServiceSpec
CONSTANTS
  NoThread = NoThread
  Runs = {r1, r2}
  Senders = {s1}
  Rejecters = {}
  Reviewers = {}
  Condensers = {}
  MaxActions = 2
  MaxBatch = 2
  MaxIterations = 2
  MaxPauses = 2
  Policy = "always"
  StuckDetection = FALSE
  Hooks = {"pre_tool_use"}
  Replies = {"message", "quiet", "tools", "failure"}
  ToolResults = {"observation", "value_error", "exception"}
  Kinds = {"plain", "finish"}
  RunSenders = {}
  GuardedStarts = TRUE
  MaxCrashes = 1
SYMMETRY Symmetry
INVARIANTS OneRunAtATime
PROPERTIES ConfirmedBeforeRun PauseIsLastStep
