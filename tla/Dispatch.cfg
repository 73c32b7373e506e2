SPECIFICATION FairSpec
CONSTANTS
  Post = Post
  Gets = {g1}
  Servers = {s1, s2}
  NoServer = NoServer
  NoTask = NoTask
  MaxLeaves = 1
  Shared = TRUE
  MaxAttempts = 3
  MaxFaults = 1
INVARIANTS RunningWasHosted OneHost MessageSentOnce RestoresWhatWasStarted
PROPERTIES ScheduleEnds DeadServerForgotten
CHECK_DEADLOCK FALSE
