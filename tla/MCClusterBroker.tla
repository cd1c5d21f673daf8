--------------------------- MODULE MCClusterBroker ---------------------------
(***************************************************************************)
(* Instances of ClusterBroker for TLC: pool specs and environments.        *)
(***************************************************************************)
EXTENDS ClusterBroker, TLC

OnDemand == [p \in Pools |-> [minSize |-> 0, warmSpares |-> 0, maxSize |-> 2]]
OnDemandOne == [p \in Pools |-> [minSize |-> 0, warmSpares |-> 0, maxSize |-> 1]]
MinOne == [p \in Pools |-> [minSize |-> 1, warmSpares |-> 0, maxSize |-> 2]]
WarmOne == [p \in Pools |-> [minSize |-> 0, warmSpares |-> 1, maxSize |-> 1]]

Faults == {"crash", "adminDelete", "demote"}
Administration == {"standalone", "namespace", "resourceQuota", "editPool"}
Symmetry == Permutations(Leases) \cup Permutations(Pools)
=============================================================================
