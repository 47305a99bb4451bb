SPECIFICATION BaseSpec
CONSTANTS
  MaxFd = 2
  MaxConns = 3
  Connectioners = {k1, k2}
  Repeated = {r}
  Single = {s}
  MaxRuns = 2
  t1 = t1
  t2 = t2
  Threads <- TwoThreads
  Increments <- CountOrNot
  kLogThreshold = 3
  MaxLines = 2
INVARIANTS AcceptedFindsItself AcceptedKeepsItsSocket TimersFireAsAsked LinesInOrder
  StopWritesAll
PROPERTIES HangupReclaims StopReturns
CHECK_DEADLOCK FALSE
