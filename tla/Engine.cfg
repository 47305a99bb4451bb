SPECIFICATION EngineSpec
CONSTANTS
  c1 = c1
  c2 = c2
  Clients <- OneClient
  Sizes <- SmallSizes
  wal_log_size = 7
  MaxRecord = 2
  MaxRecords = 8
  MaxRestarts = 2
  k1 = k1
  k2 = k2
  v1 = v1
  v2 = v2
  Keys <- TwoKeys
  Values <- TwoValues
  MaxTasks = 4
  MaxRotations = 2
  r1 = r1
  r2 = r2
  r3 = r3
  d1 = d1
  Moved = Moved
  Erased = Erased
  NotFound = NotFound
  Dangling = Dangling
  CacheKeys <- ThreeRecords
  CacheValues <- OneContent
  max_probation_mem_size = 5
  max_protected_mem_size = 4
  InitialUsage <- Constructed
  UintModulus = 256
  MaxSets = 2
  MaxGets = 4
SYMMETRY CacheSymmetry
INVARIANTS FileBounded KeptUntilRestart GetIsAnswered LookupIsOfNewestTable
  AnswerIsLastSet CacheIsConsistent
CHECK_DEADLOCK FALSE
