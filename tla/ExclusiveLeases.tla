--------------------------- MODULE ExclusiveLeases ---------------------------
(***************************************************************************)
(* What the broker promises the holders of leases, without pools, queues,  *)
(* finalizers or a mutex: a guest cluster is granted once, to one lease,   *)
(* and the lease is over only when that cluster is on its way out.         *)
(***************************************************************************)
CONSTANTS Names, Leases, None

VARIABLES
  live,     \* names under which a guest cluster exists
  retired,  \* those being torn down
  used,     \* those granted to a lease at some time
  holder    \* lease -> the guest cluster granted to it

vars == <<live, retired, used, holder>>

Init == live = {} /\ retired = {} /\ used = {} /\ holder = [l \in Leases |-> None]

Provision(n) ==
  /\ n \notin live
  /\ live' = live \cup {n}
  /\ UNCHANGED <<retired, used, holder>>

Grant(l, n) ==
  /\ holder[l] = None
  /\ n \in live /\ n \notin used
  /\ holder' = [holder EXCEPT ![l] = n]
  /\ used' = used \cup {n}
  /\ UNCHANGED <<live, retired>>

Retire(n) ==
  /\ n \in live
  /\ retired' = retired \cup {n}
  /\ UNCHANGED <<live, used, holder>>

\* A guest cluster that was granted goes only by way of Retire.
Remove(n) ==
  /\ n \in live
  /\ n \in retired \/ n \notin used
  /\ live' = live \ {n} /\ retired' = retired \ {n} /\ used' = used \ {n}
  /\ holder' = [l \in Leases |-> IF holder[l] = n THEN None ELSE holder[l]]

Release(l) ==
  /\ holder[l] \in retired
  /\ holder' = [holder EXCEPT ![l] = None]
  /\ UNCHANGED <<live, retired, used>>

Next ==
  \/ \E n \in Names : Provision(n) \/ Retire(n) \/ Remove(n)
  \/ \E l \in Leases, n \in Names : Grant(l, n)
  \/ \E l \in Leases : Release(l)

Spec == Init /\ [][Next]_vars
=============================================================================
