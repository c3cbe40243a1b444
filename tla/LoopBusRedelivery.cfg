SPECIFICATION Spec
CONSTANTS
  failure = failure
  change = change
  None = None
  Keys <- TwoKeys
  Subs <- TwoSubs
  SubsOf <- MCSubsOf
  MaxRetries = 1
  MaxIds = 2
  MaxEmits = 1
  MaxFailures = 3
  MaxRecoveries = 1
  MaxFaults = 0
PROPERTIES
  NoRedelivery
CHECK_DEADLOCK FALSE
