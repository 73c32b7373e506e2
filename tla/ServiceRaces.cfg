SPECIFICATION ServiceSpec
CONSTANTS
  NoThread = NoThread
  Runs = {r1, r2}
  Senders = {s1}
  Rejecters = {j1}
  Reviewers = {v1}
  Condensers = {c1}
  MaxActions = 1
  MaxBatch = 1
  MaxIterations = 2
  MaxPauses = 1
  Policy = "never"
  StuckDetection = FALSE
  Hooks = {"stop"}
  Replies = {"message", "tools"}
  ToolResults = {"observation"}
  Kinds = {"memory_review"}
  RunSenders = {s1}
  GuardedStarts = FALSE
  MaxCrashes = 1
SYMMETRY Symmetry
INVARIANTS NoOrphanRunning OneRunSteps
