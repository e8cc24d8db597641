\* A killed process becomes a zombie.
SPECIFICATION Spec
CONSTANTS
  MaxPid = 4
  NProcs = 4
  NQueues = 2
  Quantum = 1
  TimeMod = 3
  MaxTime = 2
  MaxSleep = 1
  BufSize = 1
  Statuses = {"s"}
  Protected = {1, 2}
PROPERTY KilledZombieSaysSo
