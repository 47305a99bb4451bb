SPECIFICATION BytesSpec
CONSTANTS
  Keys <- MCKeys
  Values <- MCValues
  FilterBits = 64
  Hashes <- MCHashes
  Numbers = {0, 128}
  Version = 1
  CreateTime = 1700000000
  Seed = 12
  MaxOps = 3
  MaxLevel = 2
  MaxLen = 1000
  MaxBytes = 70
  MaxTotal = 140
  MaxPiece = 70
  kAppendFileBufferSize = 8
  MaxSize = 12
  MaxAppends = 3
  MaxOpens = 2
INVARIANTS GetReadsBack FileReadsBack LogNamesRequest PrefixIsLongest
  HashReadsTheKey CrcOfBytesInOrder HashOfBytesInOrder AppendsInOrder
CHECK_DEADLOCK FALSE
