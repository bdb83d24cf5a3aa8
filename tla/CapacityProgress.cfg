SPECIFICATION ProgressSpec
CONSTANTS
  r1 = r1
  r2 = r2
  a1 = a1
  a2 = a2
  a3 = a3
  a4 = a4
  model = model
  None = None
  Runs = {r1}
  Attempts = {a1, a2}
  RunOf <- MCRunOf
  CapacityKeys = {model}
  KeysOf <- MCKeysOf
  Limit <- MCLimit
  MaxVersion = 3
  MaxRestarts = 2
  Unreliable = {a1}
PROPERTIES
  OrphanedCapacityIsFreed
