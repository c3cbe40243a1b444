SPECIFICATION FairSpec
CONSTANTS
  t1 = t1
  t2 = t2
  t3 = t3
  d1 = d1
  d2 = d2
  a1 = a1
  a2 = a2
  None = None
  Tasks <- OneTask
  Jobs <- OneTask
  Devices <- OneDevice
  Allocators <- OneAllocator
  AllocatorOf <- Shared
  JobOf <- OwnJobs
  Wants <- AnyDevice
  FailThreshold = 2
  FaultThreshold = 3
  WatchdogOn = TRUE
  AdminRemoves = TRUE
  MaxForced = 1
  MaxCrashes = 1
  MaxUnplugs = 2
INVARIANTS
  TypeOK
PROPERTY SeizedAfterFailures
PROPERTY FaultStays
PROPERTY DeadIsNoticed
PROPERTY OfflineHeals
