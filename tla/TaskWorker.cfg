CONSTANTS
  c1 = c1
  c2 = c2
  k1 = k1
  k2 = k2
  w1 = w1
  w2 = w2
  Clients <- TwoClients
  Keys <- TwoKeys
  CompWorkers <- OneCompWorker
  MaxMemTableSize = 1
  MaxTasks = 3
SPECIFICATION FairSpec
INVARIANTS TypeOK TasksInOrder ErasedOnlyAfterFlush EraseInRange
PROPERTIES KeepsTableLifecycle QueuedIsServed SleepingWorkerJoins
CHECK_DEADLOCK FALSE
