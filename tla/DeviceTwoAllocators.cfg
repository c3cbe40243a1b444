SPECIFICATION Spec
CONSTANTS
  t1 = t1
  t2 = t2
  t3 = t3
  d1 = d1
  d2 = d2
  a1 = a1
  a2 = a2
  None = None
  Tasks <- TwoTasks
  Jobs <- TwoTasks
  Devices <- OneDevice
  Allocators <- TwoAllocators
  AllocatorOf <- Separate
  JobOf <- OwnJobs
  Wants <- AnyDevice
  FailThreshold = 2
  FaultThreshold = 3
  WatchdogOn = FALSE
  AdminRemoves = FALSE
  MaxForced = 0
  MaxCrashes = 0
  MaxUnplugs = 0
INVARIANTS
  ExclusiveUse
CHECK_DEADLOCK FALSE
