CONSTANTS
  api1 = api1
  api2 = api2
  wk = wk
  None = None
  Attempt <- NoAttempts
  Api <- TwoApis
  Origin = api1
  Background = wk
  MaxCrashes = 0
  MaxStalls = 0
  MaxErrors = 0
  MaxEarly = 0
  MaxHaste = 1
  MaxDisturbances = 1
SPECIFICATION Spec
CHECK_DEADLOCK FALSE
INVARIANT
  CapabilitiesAreGranted
