SPECIFICATION Spec
CONSTANTS
  k1 = k1
  k2 = k2
  v1 = v1
  v2 = v2
  Keys <- OneKey
  Values <- TwoValues
  MaxTasks = 2
  MaxRotations = 0
INVARIANT LastSetIsRead
CHECK_DEADLOCK FALSE
