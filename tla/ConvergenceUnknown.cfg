SPECIFICATION UnknownSpec
CONSTANTS
  w1 = w1
  Workers = {w1}
  Admitter = w1
  None = None
  LastEvent = 2
  MaxGenerations = 1
  MaxFaults = 0
PROPERTY
  UnknownSubmitConverges
CHECK_DEADLOCK FALSE
