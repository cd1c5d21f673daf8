SPECIFICATION RetrySpec
CONSTANTS
  Pools = {p1}
  Leases = {l1}
  TTLLeases = {}
  PoolSpec <- WarmOne
  MaxIndex = 1
  NamespaceLimit = 2
  Env = {"crash", "apiError", "fail"}
  None = None
INVARIANT WithinMaxSize
PROPERTIES ReleaseCompletes PendingServed SaturationReported
