SPECIFICATION RecordSpec
CONSTANTS
  Keys <- MCKeys
  Values <- TestValues
  FilterBits = 64
  Hashes <- MCHashes
  Numbers = {127, 128}
  Version = 1
  CreateTime = 1700000000
  Seed = 12
  MaxOps = 3
  MaxLevel = 2
INVARIANTS SetReadsBack
CHECK_DEADLOCK FALSE
