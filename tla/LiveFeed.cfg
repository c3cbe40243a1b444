SPECIFICATION FairSpec
CONSTANTS
  r1 = r1
  r2 = r2
  None = None
  Publishers <- OneRun
  Bodies <- FeedBodies
  Ephemeral <- Frames
  Streaming = r1
  QueueSize = 2
  HistorySize = 2
  MaxIds = 5
  MaxLosses = 1
  MaxStages = 1
  MaxCalls = 2
  MaxAttempts = 2
  MaxDeltas = 2
INVARIANTS
  TypeOK
  NoGap
  PanelIsOneAnswer
PROPERTY BoardSettles
CHECK_DEADLOCK FALSE
