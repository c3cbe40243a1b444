SPECIFICATION Spec
CONSTANTS
  r1 = r1
  r2 = r2
  agent = agent
  Runs <- TwoRuns
  Pipelines <- OnePipeline
  N = 2
  Requests <- ValidRequests
  JobPipeline = agent
  JobRows <- OneClickRows
  MaxPublishes = 0
  MaxCrashes = 1
  MaxFaults = 0
INVARIANT CompletedMeansSettled
