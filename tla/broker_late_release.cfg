SPECIFICATION Spec
CONSTANTS
  Pools = {p1}
  Leases = {l1, l2}
  TTLLeases = {}
  PoolSpec <- OnDemand
  MaxIndex = 1
  NamespaceLimit = 3
  Env = {"adminDelete"}
  None = None
PROPERTY ReleaseDeletesOwn
