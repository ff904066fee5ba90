SPECIFICATION FairSpec
CONSTANTS
  t1 = t1 t2 = t2 v1 = v1 v2 = v2
  Null = Null NoValue = NoValue NoThread = NoThread
  Thread <- OneThread Key <- PageIds Value <- TwoValues Calls <- MapCalls
  BucketSize = 2 MaxDepth = 3
PROPERTIES  CallsReturn
CHECK_DEADLOCK FALSE
