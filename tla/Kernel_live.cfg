\* The clock wraps: times are 0..3. At most 4 of 5 processes at a time.  No input buffer.
SPECIFICATION FairSpec
CONSTANTS
  MaxPid = 5
  NProcs = 4
  NQueues = 2
  Quantum = 1
  TimeMod = 4
  MaxTime = 3
  MaxSleep = 2
  BufSize = 0
  Statuses = {"s"}
  Protected = {1, 2}
PROPERTIES
  TopRuns
  SleepersWake
  InitCollects
