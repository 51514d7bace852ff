CONSTANTS
  w1 = w1
  w2 = w2
  None = None
  Attempt <- Versions
  Item <- TwoItems
  Worker <- OneWorker
  Outcome = {"completed"}
  MaxPolls = 2
  MaxFaults = 0
SPECIFICATION Spec
CHECK_DEADLOCK FALSE
INVARIANT AggregatedCoverageIsTerminal
