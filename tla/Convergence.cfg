SPECIFICATION FairSpec
CONSTANTS
  w1 = w1
  w2 = w2
  Workers = {w1, w2}
  Admitter = w1
  None = None
  LastEvent = 2
  MaxGenerations = 3
  MaxFaults = 2
INVARIANTS
  OneOutcome
  DoneIsConsistent
PROPERTIES
  ConvergenceEnds
  ImplementsOutcome
CHECK_DEADLOCK FALSE
