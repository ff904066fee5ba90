CONSTANTS
  NKeys = 8
  NFill = 10
  v1 = v1
  v2 = v2
  Row <- MCRow
  Sizes <- MCSizes
  Fills <- MCFills
  NotFound = NotFound
SPECIFICATION Spec
INVARIANTS TreeSound HeaderNamesRoot ScanComplete
 
