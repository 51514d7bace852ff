CONSTANTS
  a1 = a1
  c1 = c1
  c2 = c2
  r1 = r1
  r2 = r2
  k1 = k1
  k2 = k2
  None = None
  Attempt <- Attempts
  Run <- OneRun
  Client <- OneClient
  UserKey <- OneKey
  Request <- RepairPlanRequests
  MaxEvents = 9
SPECIFICATION SoleSpec
CHECK_DEADLOCK FALSE
INVARIANT ReviewPassesByApproval
