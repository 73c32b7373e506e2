SPECIFICATION Spec
CONSTANTS
  NoThread = NoThread
  Runs = {r1}
  Senders = {}
  Rejecters = {}
  Reviewers = {}
  Condensers = {}
  MaxActions = 1
  MaxBatch = 1
  MaxIterations = 2
  MaxPauses = 0
  Policy = "never"
  StuckDetection = FALSE
  Hooks = {}
  Replies = {"message", "tools"}
  ToolResults = {"value_error"}
  Kinds = {"plain"}
PROPERTY ErrorGoesBackToAgent
