CONSTANTS
  t1 = t1
  t2 = t2
  None = None
  Zero = Zero
  Thread <- MCThread
  Client <- MCClient
  Data <- MCData
  Calls <- MCCalls
  UnpinFlags = {TRUE, FALSE}
  PoolSize = 2
  MaxPages = 4
  Slots = 1
  MaxCalls = 3
SPECIFICATION HeapSpec
INVARIANTS ChainComplete OnlyNestedLatchDeadlocks NullExplained RowsStayInPool
PROPERTY ScanComplete
CHECK_DEADLOCK FALSE
