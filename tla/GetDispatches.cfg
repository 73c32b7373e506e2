SPECIFICATION Spec
CONSTANTS
  Post = Post
  Gets = {g1}
  Servers = {s1}
  NoServer = NoServer
  NoTask = NoTask
  Shared = TRUE
  MaxLeaves = 0
  MaxAttempts = 3
  MaxFaults = 0
INVARIANT GetSchedulesOnlyWithoutTask
CHECK_DEADLOCK FALSE
