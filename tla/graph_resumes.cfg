CONSTANTS
  api1 = api1
  api2 = api2
  wk = wk
  None = None
  Attempt <- NoAttempts
  Api <- TwoApis
  Origin = api1
  Background = wk
  MaxCrashes = 1
  MaxStalls = 0
  MaxErrors = 1
  MaxEarly = 1
  MaxHaste = 1
  MaxDisturbances = 1
SPECIFICATION FairSpec
CHECK_DEADLOCK FALSE
INVARIANTS
  TypeOK
  GraphHasItsPlan
PROPERTIES
  UndisturbedRunIsJudged
  StalledApprovalIsResumed
