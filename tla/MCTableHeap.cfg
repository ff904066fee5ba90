CONSTANTS
  PageSize = 8
  Unit <- MCUnit
  Zero = "-"
  Tuple <- MCTuple
  MaxPages = 2
  MaxTxns = 3
  MaxWrites = 2
SPECIFICATION Spec
 
PROPERTIES  ScanComplete
CHECK_DEADLOCK FALSE
