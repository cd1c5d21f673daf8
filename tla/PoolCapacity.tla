---------------------------- MODULE PoolCapacity ----------------------------
(***************************************************************************)
(* The arithmetic ClusterPoolReconciler.Reconcile runs on the counts it    *)
(* has just listed: how many instances to add (need, room), how many to    *)
(* trim (excess), and which CapacityAvailable reason to report.  A pool's  *)
(* spec is a record [minSize, warmSpares, maxSize].                        *)
(***************************************************************************)
EXTENDS Integers

PoolSpecs == [minSize : Int, warmSpares : Int, maxSize : Int]

Reasons == {"MaxSizeTooSmall", "NamespaceAtCapacity", "AtCapacity",
            "NamespaceResourceQuotaExceeded", "CapacitySufficient"}

Larger(a, b) == IF b > a THEN b ELSE a
Smaller(a, b) == IF b < a THEN b ELSE a

\* The largest of the three deficits.  supply is available + pending.
Need(spec, total, supply, demand) ==
  Larger(Larger(spec.minSize - total, spec.warmSpares - supply), demand - supply)

Room(spec, total) == spec.maxSize - total

\* What both floors leave to trim: warm spares (raised by pending demand)
\* against the available instances, minSize against all of them.
Excess(spec, total, available, demand) ==
  Smaller(available - Larger(spec.warmSpares, demand), total - spec.minSize)

\* Mutant of CapacityReason: a full pool still has room.
CapacityReasonLate(spec, need, room, atLimit, quotaViolation) ==
  IF need > 0 /\ room < 0 THEN "AtCapacity" ELSE "CapacitySufficient"

\* capacityCondition: the first case that applies, in the code's order.
CapacityReason(spec, need, room, atLimit, quotaViolation) ==
  IF spec.maxSize < spec.minSize \/ spec.maxSize < spec.warmSpares THEN "MaxSizeTooSmall"
  ELSE IF need > 0 /\ atLimit THEN "NamespaceAtCapacity"
  ELSE IF need > 0 /\ room <= 0 THEN "AtCapacity"
  ELSE IF need > 0 /\ quotaViolation THEN "NamespaceResourceQuotaExceeded"
  ELSE "CapacitySufficient"
=============================================================================
