SPECIFICATION FairSpec
CONSTANTS
  memtable_N = 2
  task_workers_n = 1
  max_level_n = 1
  MaxTables = 2
  InitEnds = {"null", "key_count", "up"}
INVARIANTS FlushedOnce FlushedInOrder AlwaysReadable
PROPERTIES KeepsTableLifecycle TablesAreWritten
CHECK_DEADLOCK FALSE
