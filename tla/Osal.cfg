SPECIFICATION FairSpec
CONSTANTS
  tasksCnt = 3
  m1 = m1
  m2 = m2
  Msgs <- MCMsgs
  Flags = {"f", "g"}
  SYS_EVENT_MSG = "SYS"
  TASK_NO_TASK = 255
  DiscardingTasks <- Task2
  IsrTasks <- Task1
  MaxOps = 2
INVARIANTS
  TypeOK
  NoLostWakeup
  BufferConservation
  StrictPriority
PROPERTIES
  ImplementsPromise
  TopTaskServed
  DeliveredUnlessStarved
