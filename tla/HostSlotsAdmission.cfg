SPECIFICATION AdmissionSpec
CONSTANTS
  h1 = h1
  r1 = r1
  r2 = r2
  s1 = s1
  s2 = s2
  w1 = w1
  w2 = w2
  None = None
  Hosts <- OneHost
  Runs <- BothRuns
  Slots <- TwoSlots
  Workers <- NoWorkers
  Limits <- TwoLimits
  Reported <- Succeeded
  MaxFence = 0
SYMMETRY SymmetryNoWorkers
INVARIANTS
  CountersMatch
  HostWithinLimits
PROPERTIES
  ClosedSlotIsFinal
  ImplementsSlotPool
