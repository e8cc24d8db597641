\* init blocked in wait() inherits a zombie.
SPECIFICATION FairSpec
CONSTANTS
  MaxPid = 5
  NProcs = 5
  NQueues = 2
  Quantum = 1
  TimeMod = 2
  MaxTime = 1
  MaxSleep = 1
  BufSize = 0
  Statuses = {"s"}
  Protected = {1, 2}
PROPERTY OrphansCollected
