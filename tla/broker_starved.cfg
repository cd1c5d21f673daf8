SPECIFICATION FairSpec
CONSTANTS
  Pools = {p1}
  Leases = {l1, l2}
  TTLLeases = {}
  PoolSpec <- OnDemand
  MaxIndex = 1
  NamespaceLimit = 2
  Env = {"demote"}
  None = None
PROPERTY PendingServed
