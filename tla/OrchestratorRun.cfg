SPECIFICATION FairSpec
CONSTANTS
  G3 = G3
  G4 = G4
  G10 = G10
  None = None
  Steps <- FiveSteps
  GateNames <- ThreeGates
  GateSteps <- MCGateSteps
  Advisory <- OnlyG4
  DeclaredNA <- NoGate
  Reusable <- Deploy
  Text <- Report
  Unsigned <- Review
  FinalReport = 5
  Gate <- MCGate
  Groups <- DeployGroup
  Outcomes <- MCOutcomes
  Profiles <- MCProfiles
  FromSteps <- FreshOrThird
  Modes <- BothModes
  LateRaise = FALSE
  MaxRuns = 2
  MaxFaults = 1
INVARIANTS
  TypeOK
  GreenIsEarned
  CompletedOnDisk
  NothingLeftRunning
  OnlyEarlierRestored
  SavedAsReturned
PROPERTIES
  StopsAfterBlock
  FailedStays
  JobEnds
CHECK_DEADLOCK FALSE
