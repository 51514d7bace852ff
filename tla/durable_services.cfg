CONSTANTS
  NoLedger = NoLedger
  NoReceipt = NoReceipt
  NoOutcome = NoOutcome
  NoAppend = NoAppend
  NoJob = NoJob
  p1 = p1
  p2 = p2
  l1 = l1
  l2 = l2
  l3 = l3
  s1 = s1
  Whole = Whole
  x1 = x1
  x2 = x2
  x3 = x3
  o1 = o1
  o2 = o2
  ok = ok
  bad = bad
  j1 = j1
  j2 = j2
  r1 = r1
  r2 = r2
  r3 = r3
  k1 = k1
  k2 = k2
  f1 = f1
  Process <- TwoProcesses
  LlmCall <- ThreeCalls
  CallHome <- Homes
  Scope <- OneScope
  CallScope <- CallScopes
  MaxCalls = 2
  MaxTokens = 4
  Estimate = 2
  Usage <- Usages
  MaxTries = 2
  MaxLlmFaults = 2
  ActionAttempt <- ThreeAttempts
  Operation <- Operations
  OperationOf <- Named
  Outcome <- Outcomes
  MaxActionFaults = 2
  MaxEffects = 2
  OutboxJob <- TwoJobs
  Publisher <- TwoProcesses
  ClaimLimit = 2
  MaxOutboxFaults = 2
  Emitter <- TwoProcesses
  TreeRun <- Family
  TreeRoot <- FamilyRoots
  CreationRoot <- FamilyNamed
  EventKey <- TwoKeys
  MaxTrajectory = 3
  MaxRestarts = 1
  Artifact <- OneArtifact
  Reconciler <- TwoProcesses
  MaxArtifactFaults = 2
  MaxLongPauses = 1
SPECIFICATION ServicesFairSpec
CHECK_DEADLOCK FALSE
INVARIANTS
  ServicesTypeOK
  ReservationsAreReturned
  ActionAppliedOnce
  ReceiptTellsTheEffect
  OpenAppendIsNotRefused
  RootNumbersAreDense
PROPERTIES
  GrantedCallsFit
  GrantedTokensFit
  RecordedJobIsDelivered
  ReferencedObjectIsKept
  LostObjectStaysMarked
