SPECIFICATION FairSpec
CONSTANTS
  r1 = r1
  r2 = r2
  p1 = p1
  Runs = {r1}
  Procs = {p1}
  MaxFence = 1
  MaxFaults = 1
  None = None
PROPERTIES
  RestartedWorkerConverges
CHECK_DEADLOCK FALSE
