SPECIFICATION FairSpec
CONSTANTS
  c1 = c1
  w1 = w1
  p1 = p1
  org = org
  mock = mock
  None = None
  Global = global
  Mock = mock
  Writers <- BothWriters
  Callers <- OneCaller
  Others <- OneOther
  Tenants <- OneTenant
  Bodies <- DraftsAndOthers
  Order <- RepeatedFallback
  Providers <- TwoProviders
  MaxDays = 2
  MaxRecords = 1
  MaxCalls = 2
INVARIANTS
  TypeOK
  
  
  AskedInTurn
PROPERTY EveryCallReturns
CHECK_DEADLOCK FALSE
