SPECIFICATION Spec
CONSTANTS
  agent = agent  user = user
  Publishers = {agent}
  None = None
  MaxEvents = 3
  BufferSize = 2
  MaxAttempts = 2
  PageSize = 1
  MaxFaults = 0
CHECK_DEADLOCK FALSE
INVARIANT BufferedHasTimer
