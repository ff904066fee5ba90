SPECIFICATION Spec
CONSTANTS
  t1 = t1 t2 = t2 v1 = v1 v2 = v2
  Null = Null NoValue = NoValue NoThread = NoThread
  Thread <- TwoThreads Key <- FewPageIds Value <- OneValue Calls <- AllCalls
  BucketSize = 1 MaxDepth = 2
SYMMETRY ThreadSymmetry
INVARIANTS DirectoryWellFormed OnlyGetLocalDepthDeadlocks
PROPERTY OnlyStaleStoresMisplace
CHECK_DEADLOCK FALSE
