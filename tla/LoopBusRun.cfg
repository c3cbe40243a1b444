SPECIFICATION FairSpec
CONSTANTS
  failure = failure
  change = change
  None = None
  Keys <- OneKey
  Subs <- TwoSubs
  SubsOf <- MCSubsOf
  MaxRetries = 2
  MaxIds = 2
  MaxEmits = 1
  MaxFailures = 3
  MaxRecoveries = 1
  MaxFaults = 1
INVARIANTS
  TypeOK
  ProcessedIsHandled
  NothingForgotten
  FailureIsKept
PROPERTIES
  RecoveredIsEmitted
  ImplementsDelivery
CHECK_DEADLOCK FALSE
