--------------------------- MODULE NamespaceQuota ---------------------------
(***************************************************************************)
(* CPU, memory and storage quotas of a namespace.  A pool checks them      *)
(* before it creates an instance, the ClusterInstance controller before it *)
(* authorizes the provisioning of one; both do so under the reservation    *)
(* mutex, on what they list once they hold it.  Users create and delete    *)
(* instances, and change quotas and the namespace, at any time.            *)
(***************************************************************************)
EXTENDS Naturals, FiniteSets, FiniteSetsExt

CONSTANTS
  Pooled,       \* names of instances that a pool may create
  Standalone,   \* names of instances that users may create
  Template,     \* the template of each: type, cores, memory, rootVolumeSize, replicas
  QuotaObjects, \* ResourceQuotas: functions from some of Dims to limits
  MaxCrashes,   \* bound: restarts of the manager
  DefaultRoot   \* root volume size of each type when the template has none (0)

Dims == {"cpu", "memory", "storage"}
Names == Pooled \cup Standalone

ASSUME QuotaAssumption ==
  /\ Pooled \cap Standalone = {} /\ IsFiniteSet(Names) /\ MaxCrashes \in Nat
  /\ DOMAIN Template = Names
  /\ \A i \in Names : /\ Template[i].type \in {"crc", "hcp"} /\ Template[i].cores \in Nat \ {0}
                       /\ Template[i].memory \in Nat /\ Template[i].root \in Nat /\ Template[i].replicas \in Nat
  /\ DefaultRoot \in [{"crc", "hcp"} -> Nat]
  /\ \A q \in QuotaObjects : DOMAIN q \subseteq Dims /\ \A d \in DOMAIN q : q[d] \in Nat

VARIABLES
  inst,       \* each instance: "none", "live", "deleting" or "gone"
  auth,       \* instances with a recorded provisioning authorization
  quotas,     \* the ResourceQuotas there are
  namespace,  \* "enabled", "disabled" or "terminating"
  lock,       \* the holder of clusterInstanceReservation, or "free"
  pool,       \* the pool worker: pc, name to create
  gate,       \* the instance worker: pc, instance, whether it may go on
  tightened,  \* history: has a ResourceQuota been added since an instance last fitted?
  crashes

vars == <<inst, auth, quotas, namespace, lock, pool, gate, tightened, crashes>>
world == <<inst, quotas, namespace, crashes>>

IdlePool == [pc |-> "idle", name |-> {}]
IdleGate == [pc |-> "idle", name |-> {}, fits |-> FALSE]

TypeOK ==
  /\ inst \in [Names -> {"none", "live", "deleting", "gone"}] /\ auth \subseteq Names
  /\ quotas \subseteq QuotaObjects /\ namespace \in {"enabled", "disabled", "terminating"}
  /\ lock \in {"free", "pool", "gate"}
  /\ pool \in [pc : {"idle", "lock", "create"}, name : SUBSET Pooled]
  /\ gate \in [pc : {"idle", "lock", "record"}, name : SUBSET Names, fits : BOOLEAN]
  /\ tightened \in BOOLEAN /\ crashes \in 0..MaxCrashes
  /\ lock = "pool" <=> pool.pc = "create"
  /\ lock = "gate" <=> gate.pc = "record"

Init ==
  /\ inst = [i \in Names |-> "none"] /\ auth = {} /\ quotas \in SUBSET QuotaObjects
  /\ namespace = "enabled" /\ lock = "free" /\ pool = IdlePool /\ gate = IdleGate
  /\ tightened = FALSE /\ crashes = 0

-----------------------------------------------------------------------------
(* The arithmetic.                                                         *)

\* desiredReplicas: only a hosted cluster has several workers.
Replicas(i) == IF Template[i].type = "hcp" /\ Template[i].replicas >= 1 THEN Template[i].replicas ELSE 1

\* clusterInstanceResourceUsage, in cores and bytes.
Usage(i, d) ==
  Replicas(i) *
    CASE d = "cpu" -> Template[i].cores
      [] d = "memory" -> Template[i].memory
      [] d = "storage" ->
           IF Template[i].root = 0 THEN DefaultRoot[Template[i].type] ELSE Template[i].root

Exists(i) == inst[i] \in {"live", "deleting"}

\* Mutant of Reserves: a pool's instance counts when it is authorized.
ReservesOnceAuthorized(i) == Exists(i) /\ i \in auth

\* clusterInstanceReservesResources: being deleted, a pool's, or authorized;
\* the phases it also accepts come after an authorization.
Reserves(i) == Exists(i) /\ (inst[i] = "deleting" \/ i \in Pooled \/ i \in auth)

Used(S, d) == MapThenSumSet(LAMBDA i : Usage(i, d), S)

\* namespaceClusterInstanceResourceLimits: the lowest of the limits, if any.
Limits(d) ==
  LET found == {q \in quotas : d \in DOMAIN q}
  IN  IF found = {} THEN {} ELSE {Min({q[d] : q \in found})}

Within(S) == \A d \in Dims : \A limit \in Limits(d) : Used(S, d) <= limit

\* Mutant of Fits: the candidate is added to a sum that it may be part of.
FitsBesideItself(i) ==
  \A d \in Dims : \A limit \in Limits(d) :
    Used({j \in Names : Reserves(j)}, d) + Usage(i, d) <= limit

\* namespaceClusterInstanceResourceViolation: the candidate counts once.
Fits(i) == Within({j \in Names \ {i} : Reserves(j)} \cup {i})

-----------------------------------------------------------------------------
(* ClusterPool: Reconcile and scaleUpIfNeeded.                             *)

PoolStart ==
  /\ pool.pc = "idle" /\ namespace = "enabled"
  /\ pool' = [IdlePool EXCEPT !.pc = "lock"]
  /\ UNCHANGED <<world, auth, lock, gate, tightened>>

\* The pool wants another instance, under a name that is not in use.
PoolEvaluate ==
  /\ pool.pc = "lock" /\ lock = "free"
  /\ \/ \E i \in Pooled : /\ inst[i] = "none" /\ Fits(i)
                          /\ pool' = [pc |-> "create", name |-> {i}] /\ lock' = "pool"
                          /\ tightened' = FALSE
     \/ pool' = IdlePool /\ UNCHANGED <<lock, tightened>>
  /\ UNCHANGED <<world, auth, gate>>

PoolCreate ==
  /\ pool.pc = "create"
  /\ inst' = [i \in Names |-> IF i \in pool.name /\ namespace # "terminating" THEN "live" ELSE inst[i]]
  /\ pool' = IdlePool /\ lock' = "free"
  /\ UNCHANGED <<auth, quotas, namespace, gate, tightened, crashes>>

-----------------------------------------------------------------------------
(* ClusterInstance: gateNamespaceProvisioning.                             *)

\* The policy is read before the mutex; a closed gate ends the pass.
GateStart(i) ==
  /\ gate.pc = "idle" /\ inst[i] = "live" /\ i \notin auth
  /\ namespace = "enabled"
  /\ gate' = [IdleGate EXCEPT !.pc = "lock", !.name = {i}]
  /\ UNCHANGED <<world, auth, lock, pool, tightened>>

\* Mutant of GateEvaluate: only the authorization is written under the mutex.
GateEvaluateUnlocked ==
  /\ gate.pc = "lock"
  /\ gate' = [gate EXCEPT !.pc = "record", !.fits = \A i \in gate.name : Fits(i)]
  /\ tightened' = (tightened /\ ~gate'.fits)
  /\ UNCHANGED <<world, auth, lock, pool>>

\* readNamespaceResourceQuotaViolation.
GateEvaluate ==
  /\ gate.pc = "lock" /\ lock = "free" /\ lock' = "gate"
  /\ gate' = [gate EXCEPT !.pc = "record", !.fits = \A i \in gate.name : Fits(i)]
  /\ tightened' = (tightened /\ ~gate'.fits)
  /\ UNCHANGED <<world, auth, pool>>

\* The authorization is recorded, or the block; an instance that was deleted
\* meanwhile is a conflict.
GateRecord ==
  /\ gate.pc = "record"
  /\ auth' = IF gate.fits THEN auth \cup {i \in gate.name : inst[i] = "live"} ELSE auth
  /\ gate' = IdleGate /\ lock' = "free"
  /\ UNCHANGED <<world, pool, tightened>>

\* The finalizer goes when the backing objects are gone.
Teardown(i) ==
  /\ inst[i] = "deleting" /\ inst' = [inst EXCEPT ![i] = "gone"] /\ auth' = auth \ {i}
  /\ UNCHANGED <<quotas, namespace, lock, pool, gate, tightened, crashes>>

-----------------------------------------------------------------------------
(* Users, administrators, restarts.                                        *)

CreateStandalone(i) ==
  /\ inst[i] = "none" /\ namespace # "terminating"
  /\ inst' = [inst EXCEPT ![i] = "live"]
  /\ UNCHANGED <<auth, quotas, namespace, lock, pool, gate, tightened, crashes>>

DeleteInstance(i) ==
  /\ inst[i] = "live" /\ inst' = [inst EXCEPT ![i] = "deleting"]
  /\ UNCHANGED <<auth, quotas, namespace, lock, pool, gate, tightened, crashes>>

AddQuota ==
  /\ \E q \in QuotaObjects \ quotas : quotas' = quotas \cup {q}
  /\ tightened' = TRUE
  /\ UNCHANGED <<inst, auth, namespace, lock, pool, gate, crashes>>

RemoveQuota ==
  /\ \E q \in quotas : quotas' = quotas \ {q}
  /\ UNCHANGED <<inst, auth, namespace, lock, pool, gate, tightened, crashes>>

ChangeNamespace ==
  /\ namespace # "terminating"
  /\ namespace' \in {"enabled", "disabled", "terminating"} \ {namespace}
  /\ UNCHANGED <<inst, auth, quotas, lock, pool, gate, tightened, crashes>>

Crash ==
  /\ crashes < MaxCrashes /\ crashes' = crashes + 1
  /\ lock' = "free" /\ pool' = IdlePool /\ gate' = IdleGate
  /\ UNCHANGED <<inst, auth, quotas, namespace, tightened>>

PoolStep == PoolStart \/ PoolEvaluate \/ PoolCreate

GateStep(i) == GateStart(i) \/ (i \in gate.name /\ (GateEvaluate \/ GateRecord))

Next ==
  \/ PoolStep \/ \E i \in Names : GateStep(i) \/ Teardown(i) \/ DeleteInstance(i)
  \/ \E i \in Standalone : CreateStandalone(i)
  \/ AddQuota \/ RemoveQuota \/ ChangeNamespace \/ Crash

Spec == Init /\ [][Next]_vars

\* Go's mutex is fair, each instance is requeued, and teardowns end.
FairSpec ==
  /\ Spec /\ SF_vars(PoolEvaluate) /\ WF_vars(PoolCreate)
  /\ SF_vars(GateEvaluate) /\ WF_vars(GateRecord)
  /\ \A i \in Names : SF_vars(GateStart(i)) /\ WF_vars(Teardown(i))

-----------------------------------------------------------------------------
\* The instances that were let through: a pool's creates and authorized ones.
Admitted == {i \in Names : Exists(i) /\ (i \in Pooled \/ i \in auth)}

\* What the authorized instances and those created by pools need together is
\* within every limit, deleting ones included, although both controllers decide
\* from a list.  A ResourceQuota that is added later may be exceeded at first,
\* but no instance is found to fit until all is within the limits again.
QuotaKept == tightened \/ Within(Admitted)

\* The pool has reserved what its instance needs: unless a quota is added, the
\* instance is authorized, whatever users create beside it.
ReservationHonoured ==
  \A i \in Pooled :
    <>[](inst[i] = "live" /\ namespace = "enabled" /\ ~tightened) => <>(i \in auth)

\* The inductive invariant behind QuotaKept: what a worker found to fit still
\* fits beside everything admitted when it acts on that under the mutex.
QuotaInv ==
  /\ TypeOK /\ QuotaKept
  /\ \A i \in auth : Exists(i)
  /\ \A i, j \in gate.name : i = j
  /\ pool.pc # "create" => pool.name = {}
  /\ pool.pc = "create" => tightened \/ Within(Admitted \cup pool.name)
  /\ gate.pc = "record" /\ gate.fits => tightened \/ Within(Admitted \cup gate.name)
=============================================================================
