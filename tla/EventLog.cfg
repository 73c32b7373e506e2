SPECIFICATION Spec
CONSTANTS
  Nobody = Nobody
  Logs = {l1, l2, l3}
  Ids = {e1, e2, e3}
  MaxFaults = 2
SYMMETRY Symmetry
INVARIANTS NoIndexShared IndexAgrees AppendedStays
PROPERTY ImplementsLog
