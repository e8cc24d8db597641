\* Processes 1 (init), 2 (idle) and 3-5.
SPECIFICATION Spec
CONSTANTS
  MaxPid = 5
  NProcs = 5
  NQueues = 2
  Quantum = 2
  TimeMod = 100
  MaxTime = 2
  MaxSleep = 2
  BufSize = 1
  Statuses = {"s"}
  Protected = {1, 2}
INVARIANTS
  TypeOK
  QueuesMatchStates
  FamilyTree
  SomebodyToRun
  NoLostWakeup
  ProcsCounted
  NoPanic
PROPERTIES
  KilledIsFinal
  ScheduledRightly
  ReapedByParent
