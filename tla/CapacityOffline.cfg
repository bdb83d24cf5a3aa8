SPECIFICATION OfflineSpec
CONSTANTS
  r1 = r1
  r2 = r2
  a1 = a1
  a2 = a2
  a3 = a3
  a4 = a4
  model = model
  Runs = {r1}
  Attempts = {a1}
  RunOf <- MCRunOf
  CapacityKeys = {model}
  KeysOf <- MCKeysOf
  Limit <- MCLimit
  MaxVersion = 1
  MaxRestarts = 0
  Unreliable = {a1}
  None = None
PROPERTIES
  OfflineDispatchIsOrphaned
