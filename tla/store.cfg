CONSTANTS
  a1 = a1
  c1 = c1
  c2 = c2
  r1 = r1
  r2 = r2
  k1 = k1
  k2 = k2
  None = None
  Attempt <- Attempts
  Run <- Runs
  Client <- Clients
  UserKey <- Keys
  Request <- StoreRequests
  MaxEvents = 9
SPECIFICATION PartsSpec
SYMMETRY ClientSymmetry
CHECK_DEADLOCK FALSE
INVARIANTS
  TypeOK
  LogChained
  ReplayAgrees
  KeyCommitsOnce
  OneConclusion
  WaitingRunHasNoOwner
  QueuedRunIsDispatched
  PassIsNeverInferred
PROPERTY
  ImplementsAbstractRun
