SPECIFICATION FairSpec
CONSTANTS
  r1 = r1
  r2 = r2
  agent = agent
  Runs <- TwoRuns
  Pipelines <- OnePipeline
  N = 3
  Requests <- AllRequests
  JobPipeline = agent
  JobRows <- OneClickRows
  MaxPublishes = 1
  MaxCrashes = 1
  MaxFaults = 1
INVARIANTS
  TypeOK
  OneOpPerPipeline
  CompletedLeavesNothing
  NoStepBeforeItsTurn
  HistoryIsOwn
PROPERTY LateStopHonoured
PROPERTY SlotReturns
