SPECIFICATION RedisSpec
CONSTANTS
  c1 = c1
  c2 = c2
  Clients <- TwoClients
  Commands <- SomeCommands
  RawRequests <- SomeRequests
  OtherBytes = {"k", "v"}
  buflen = 26
  MaxRequests = 3
  MaxCuts = 1
SYMMETRY Symmetric
INVARIANT SetIsAccepted
CHECK_DEADLOCK FALSE
