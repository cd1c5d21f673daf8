SPECIFICATION Spec
CONSTANTS
  Pools = {p1, p2}
  Leases = {l1}
  TTLLeases = {}
  PoolSpec <- OnDemandOne
  MaxIndex = 0
  NamespaceLimit = 2
  Env <- Administration
  None = None
SYMMETRY Symmetry
INVARIANT TrimSparesClaims
