SPECIFICATION Spec
CONSTANTS
  Pools = {p1, p2}
  Leases = {l1, l2}
  TTLLeases = {}
  PoolSpec <- OnDemandOne
  MaxIndex = 0
  NamespaceLimit = 4
  Env = {"editPool"}
  None = None
INVARIANT ExclusiveBinding
