SPECIFICATION FairSpec
CONSTANTS
  t1 = t1
  t2 = t2
  t3 = t3
  d1 = d1
  d2 = d2
  a1 = a1
  a2 = a2
  None = None
  Tasks <- ThreeTasks
  Jobs <- ThreeTasks
  Devices <- OneDevice
  Allocators <- OneAllocator
  AllocatorOf <- Shared
  JobOf <- OwnJobs
  Wants <- AnyDevice
  FailThreshold = 2
  FaultThreshold = 3
  WatchdogOn = FALSE
  AdminRemoves = FALSE
  MaxForced = 1
  MaxCrashes = 1
  MaxUnplugs = 0
INVARIANTS
  ExclusiveUse
  BusyIsHeld
PROPERTY TakenComesBack
PROPERTY LeaseEnds
CHECK_DEADLOCK FALSE
