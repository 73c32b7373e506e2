SPECIFICATION Spec
CONSTANTS
  a = a  b = b
  w1 = w1  w2 = w2  w3 = w3
  Convs = {a, b}
  Sockets = {w1, w2, w3}
  None = None
  MaxRetries = 2
  MaxClicks = 3
  MaxEvents = 1
CHECK_DEADLOCK FALSE
INVARIANT ShowsOneConversation
