CONSTANTS
  w1 = w1
  w2 = w2
  None = None
  Attempt <- Versions
  Item <- TwoItems
  Worker <- TwoWorkers
  Outcome = {"completed", "failed", "blocked", "awaiting-human-review"}
  MaxPolls = 2
  MaxFaults = 2
SPECIFICATION FairSpec
CHECK_DEADLOCK FALSE
INVARIANTS
  TypeOK
  PassMeansEveryChildCompleted
  DispositionNeverOverstates
  AggregateMissesNoItem
PROPERTY ParentConcludes
