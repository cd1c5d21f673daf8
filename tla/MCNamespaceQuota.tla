-------------------------- MODULE MCNamespaceQuota --------------------------
(* An instance of NamespaceQuota: two pool instances and a standalone one, *)
(* of both types, under any choice of two ResourceQuotas.                  *)
EXTENDS NamespaceQuota

MCPooled == {"p1", "p2"}
MCStandalone == {"s1"}

MCTemplate == [i \in MCPooled \cup MCStandalone |->
  CASE i = "p1" -> [type |-> "crc", cores |-> 2, memory |-> 2, root |-> 0, replicas |-> 0]
    [] i = "p2" -> [type |-> "hcp", cores |-> 1, memory |-> 1, root |-> 1, replicas |-> 2]
    [] i = "s1" -> [type |-> "hcp", cores |-> 1, memory |-> 3, root |-> 0, replicas |-> 0]]

MCDefaultRoot == [type \in {"crc", "hcp"} |-> IF type = "crc" THEN 3 ELSE 1]

MCQuotaObjects == {[d \in {"cpu"} |-> 4], [d \in Dims |-> 5]}
=============================================================================
