SPECIFICATION FairSpec
CONSTANTS
  agent = agent  user = user
  Publishers = {agent, user}
  Kinds <- KindsOfThreads
  None = None
  MaxEvents = 3
  BufferSize = 2
  MaxAttempts = 2
  PageSize = 1
  MaxFaults = 2
CHECK_DEADLOCK FALSE
INVARIANTS NothingForgotten OnceWithWebhook BufferBounded NoDeadTimer NothingMissed
PROPERTY EventReachesClient
