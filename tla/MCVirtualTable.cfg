CONSTANTS
  Value = {1, 2}
  KeyAttrs <- MCKeyAttrs
  Large <- MCLarge
  Pages = 2
  Slots = 2
  reads = reads
  writes = writes
  Stmt <- MCStmt
  Writer = writes
  Wheres <- MCWheres
  MaxUpdates = 3
  MaxFilters = 2
  MaxSessions = 2
  None = None
SPECIFICATION Spec
INVARIANTS IndexMatchesHeap MarksEndWithStatement NullTransactionExplained 
 
CHECK_DEADLOCK FALSE
