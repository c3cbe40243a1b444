SPECIFICATION Spec
CONSTANTS
  G3 = G3
  G4 = G4
  G10 = G10
  None = None
  Steps <- FiveSteps
  GateNames <- ThreeGates
  GateSteps <- MCGateSteps
  Advisory <- OnlyG4
  DeclaredNA <- NoGate
  Reusable <- Deploy
  Text <- Report
  Unsigned <- Review
  FinalReport = 5
  Gate <- MCGate
  Groups <- DeployGroup
  Outcomes <- MCOutcomes
  Profiles <- PlannedProfiles
  FromSteps <- Fresh
  Modes <- Parallel
  LateRaise = FALSE
  MaxRuns = 1
  MaxFaults = 0
INVARIANT GreenMeansEveryStepRan
CHECK_DEADLOCK FALSE
