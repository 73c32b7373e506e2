SPECIFICATION Spec
CONSTANTS
  NoThread = NoThread
  Runs = {r1}
  Senders = {}
  Rejecters = {}
  Reviewers = {}
  Condensers = {c1}
  MaxActions = 1
  MaxBatch = 1
  MaxIterations = 2
  MaxPauses = 0
  Policy = "never"
  StuckDetection = FALSE
  Hooks = {}
  Replies = {"message"}
  ToolResults = {"observation"}
  Kinds = {"plain"}
INVARIANT CondenseWaitsForStep
