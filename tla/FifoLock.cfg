SPECIFICATION FairSpec
CONSTANTS
  NoThread = NoThread
  Threads = {t1, t2, t3, t4}
  Impatient = {t1, t2}
  MaxDepth = 2
INVARIANTS NoLostWakeup
PROPERTY WaiterServed
