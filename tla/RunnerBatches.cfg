SPECIFICATION Spec
CONSTANTS
  NoThread = NoThread
  Runs = {r1, r2}
  Senders = {s1}
  Rejecters = {j1}
  Reviewers = {}
  Condensers = {}
  MaxActions = 2
  MaxBatch = 2
  MaxIterations = 1
  MaxPauses = 1
  Policy = "never"
  StuckDetection = FALSE
  Hooks = {"pre_tool_use", "stop", "user_prompt_submit"}
  Replies = {"message", "quiet", "malformed", "tools"}
  ToolResults = {"observation", "value_error", "exception"}
  Kinds = {"plain", "finish", "memory_review"}
SYMMETRY Symmetry
INVARIANT DeniedNeverRuns
PROPERTY ObservedNeverRerun
