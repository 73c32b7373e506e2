SPECIFICATION Spec
CONSTANTS
  a = a  b = b
  w1 = w1  w2 = w2  w3 = w3
  Convs = {a, b}
  Sockets = {w1, w2, w3}
  None = None
  MaxRetries = 2
  MaxClicks = 4
  MaxEvents = 1
SYMMETRY Symmetry
CHECK_DEADLOCK FALSE
INVARIANTS OneLiveSocket LeftStaysLeft RetriedOrGivenUp NothingBlanked
