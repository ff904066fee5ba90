CONSTANTS
  PoolSize = 2
  MaxPages = 3
  Data = {zero, a}
  Zero = zero
  Client = {c1, c2}
  UnpinFlags = {TRUE, FALSE}
SPECIFICATION Spec
SYMMETRY ClientSymmetry
INVARIANTS FrameAccounting PinnedPagesStay NullOnlyWhenAllPinned
PROPERTY OnlyCleanUnpinsLose
CHECK_DEADLOCK FALSE
