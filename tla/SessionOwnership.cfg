SPECIFICATION Spec
CONSTANTS
  r1 = r1
  r2 = r2
  p1 = p1
  Runs = {r1, r2}
  Procs = {p1}
  MaxFence = 3
  MaxFaults = 1
  None = None
SYMMETRY Symmetry
INVARIANTS
  TypeOK
  SessionHeldWhileRunning
  LockOfEndedAdmissionIsRecorded
CHECK_DEADLOCK FALSE
