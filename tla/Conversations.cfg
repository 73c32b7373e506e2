SPECIFICATION Spec
CONSTANTS
  r1 = r1  r2 = r2  always = always  never = never
  Requests = {r1, r2}
  Policies = {always, never}
  FirstPolicy = never
  NoMeta = NoMeta
  MaxBuilds = 2
  MaxCalls = 3
SYMMETRY MCSymmetry
INVARIANTS NoGhostRunning OneRunUnlessDeleted PolicyKept FirstRequestKept StatusStored
