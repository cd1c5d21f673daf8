SPECIFICATION FairSpec
CONSTANTS
  Pools = {p1}
  Leases = {l1, l2}
  TTLLeases = {}
  PoolSpec <- MinOne
  MaxIndex = 1
  NamespaceLimit = 2
  Env = {}
  None = None
PROPERTIES PendingServed ExcessTrimmed
