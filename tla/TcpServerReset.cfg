SPECIFICATION Spec
CONSTANTS
  Protocol = "Http_Protocal"
  MaxThreads = 2
  Fds = {7, 8}
  MaxConns = 2
  PoolSize = 2
  BucketCount = 2
  MaxUnread = 1
  MaxFresh = 1
INVARIANT UsedOnlyWhileAlive
