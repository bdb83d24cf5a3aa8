SPECIFICATION SteadySpec
CONSTANTS
  h1 = h1
  r1 = r1
  r2 = r2
  s1 = s1
  s2 = s2
  w1 = w1
  w2 = w2
  None = None
  Hosts <- OneHost
  Runs <- OneRunOnly
  Slots <- OneSlot
  Workers <- OneWorker
  Limits <- OneLimit
  Reported <- Succeeded
  MaxFence = 1
SYMMETRY Symmetry
PROPERTIES
  TerminalDispatchIsFinal
