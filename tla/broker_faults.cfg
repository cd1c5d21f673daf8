SPECIFICATION Spec
CONSTANTS
  Pools = {p1}
  Leases = {l1, l2}
  TTLLeases = {l1, l2}
  PoolSpec <- OnDemand
  MaxIndex = 1
  NamespaceLimit = 3
  Env <- Faults
  None = None
SYMMETRY Symmetry
INVARIANTS TypeOK InductiveInv ExclusiveBinding TrimSparesClaims
PROPERTIES LeasedOnce ReleaseReclaims ImplementsPromise
