SPECIFICATION FairServiceSpec
CONSTANTS
  NoThread = NoThread
  Runs = {r1, r2}
  Senders = {s1, s2}
  Rejecters = {j1}
  Reviewers = {}
  Condensers = {}
  MaxActions = 1
  MaxBatch = 1
  MaxIterations = 2
  MaxPauses = 1
  Policy = "risky"
  StuckDetection = TRUE
  Hooks = {"stop", "user_prompt_submit"}
  Replies = {"message", "quiet", "malformed", "tools", "failure"}
  ToolResults = {"observation", "value_error", "exception"}
  Kinds = {"plain"}
  RunSenders = {s1, s2}
  GuardedStarts = FALSE
  MaxCrashes = 0
INVARIANT FinishedSawPrompt
PROPERTIES MessageAnswered RunTerminates
