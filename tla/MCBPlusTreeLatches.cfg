CONSTANTS
  t1 = t1
  t2 = t2
  t3 = t3
  v1 = v1
  None = None
  NotFound = NotFound
  Row <- MCRow
  Sizes <- MCSizes
  Thread <- MCThread
  Calls <- MCCalls
  MaxCalls = 1
  Trees <- MCTrees
  MaxPages = 12
SPECIFICATION Spec
INVARIANTS TreeStaysSound ScanComplete
PROPERTIES  WritesLatched CallsReturn
CHECK_DEADLOCK FALSE
