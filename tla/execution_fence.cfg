CONSTANTS
  w1 = w1
  w2 = w2
  p1 = p1
  a1 = a1
  a2 = a2
  a3 = a3
  a4 = a4
  a5 = a5
  None = None
  Attempt <- Attempts
  Worker <- TwoWorkers
  Recoverer <- OneRecoverer
  Gates = {"pass"}
  Judges = {"pass"}
  MaxCrashes = 0
  MaxStalls = 1
  MaxControls = 0
  MaxRetries = 0
  MaxDisturbances = 1
SPECIFICATION Spec
CHECK_DEADLOCK FALSE
INVARIANT
  OldWorkerIsRefused
