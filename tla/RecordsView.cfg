SPECIFICATION RecordSpec
CONSTANTS
  Keys <- MCKeys
  Values <- MCValues
  FilterBits = 64
  Hashes <- MCHashes
  Numbers = {0}
  Version = 1
  CreateTime = 1700000000
  Seed = 12
  MaxOps = 3
  MaxLevel = 2
INVARIANTS ViewIsBuilt
CHECK_DEADLOCK FALSE
