CONSTANTS
  PoolSize = 2
  MaxPages = 3
  Data = {zero, a}
  Zero = zero
  Client = {c1}
  UnpinFlags = {TRUE, FALSE}
  MaxLoads = 2
SPECIFICATION Sessions
PROPERTY LossesExplained
CHECK_DEADLOCK FALSE
