SPECIFICATION ServicesSpec
CONSTANTS
  i1 = i1
  i2 = i2
  t1 = t1
  t2 = t2
  k1 = k1
  k2 = k2
  c1 = c1
  o1 = o1
  j1 = j1
  a1 = a1
  a2 = a2
  p1 = p1
  p2 = p2
  x1 = x1
  s1 = s1
  s2 = s2
  v1 = v1
  v2 = v2
  None = None
  Items = {i1, i2}
  Workers = {w1, w2}
  SourceOf <- ReplayOfFirst
  MaxAttempts <- TwoThenOne
  MaxBeats = 1
  Tasks = {t1, t2}
  Checks = {k1, k2}
  Demands <- MCDemands
  Amounts = {2}
  Adjustments = {1}
  QuotaLimit = 1
  MaxPeriod = 2
  MaxAdjustment = 1
  RunTask = t1
  MaxTries = 2
  Clients = {c1}
  Bystanders = {o1}
  PageSize = 1
  RecoveryBatch = 1
  MaxEvents = 2
  MaxConnects = 2
  Jobs = {j1}
  ScopeOf <- OneScope
  MaxActiveRuns = 1
  ScopeLimit = 1
  MaxFaults = 2
  Attempts = {a1, a2}
  Adapters = {p1, p2}
  AdapterOf <- OwnAdapter
  Nobody = Nobody
  NoKey = NoKey
  NoPlan = NoPlan
  Skills = {1, 2, 3}
  Catalogs <- MCCatalogs
  Requests <- MCRequests
  Hosts <- MCHosts
  RootOf <- MCRoot
  Registered <- MCRegistered
  FixedSkills <- MCFixed
  Workspaces = {x1, x2}
  FirstWorkspace <- StartsWith
  SwitchKeys = {s1, s2}
  ThreadRuns = {r1, r2}
  HistoryPage = 1
  MaxSwitches = 3
  MaxMoves = 1
  Absent = Absent
  Artifacts = {f1}
  Replicas = {v1, v2}
  MaxPasses = 1
  MaxRegistrations = 2
  NoClaim = NoClaim
INVARIANTS
  OneHolder
  FailureIsCompensated
  DeadLetterIsAuditedOnce
  ServicesTypeOK
  BalancesMatch
  RunIsNotForgotten
  ConfirmedOnceAndPaid
  NoEventIsSkipped
  AttestationHolds
  ConsumedOnceInItsTime
  ListedWorkspaceIsPlanned
  ThreadTellsOneStory
  DeletionIsCountedOnce
PROPERTIES
  TaskEndsOnce
  CancelledRunIsNeverSubmitted
  ImplementsFencedQueue
  ItemEnds
  FinalEventIsStreamed
  AttestationIsNotAwaitedForEver
CHECK_DEADLOCK FALSE
