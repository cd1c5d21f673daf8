---------------------------- MODULE ClusterBroker ----------------------------
(***************************************************************************)
(* The ClusterPool and ClusterLease controllers of one namespace, running  *)
(* against the API server, with the life cycle of the ClusterInstances     *)
(* they share.  Each controller has one worker, so a reconcile is a        *)
(* process that takes one API call per step; the two workers exclude each  *)
(* other with the process-wide mutex clusterInstanceReservation (lock).    *)
(* Users, the instance controller and a crash of the manager interleave    *)
(* with the workers at every step.                                         *)
(***************************************************************************)
EXTENDS PoolCapacity, FiniteSets

CONSTANTS
  Pools,           \* ClusterPool names
  Leases,          \* ClusterLease names
  TTLLeases,       \* the leases whose spec.ttl is set
  PoolSpec,        \* pool -> [minSize, warmSpares, maxSize]
  MaxIndex,        \* bound on the index in an instance's name
  NamespaceLimit,  \* the ResourceQuota on the number of ClusterInstances
  Env,             \* which environment behaviours are switched on
  None

EnvKinds == {"crash", "apiError", "adminDelete", "standalone", "editPool",
             "namespace", "fail", "demote", "resourceQuota"}

ASSUME PoolSpecAssumption == PoolSpec \in [Pools -> PoolSpecs]
ASSUME FiniteAssumption == IsFiniteSet(Pools) /\ IsFiniteSet(Leases)
ASSUME BoundAssumption == MaxIndex \in Nat /\ NamespaceLimit \in Nat
ASSUME EnvAssumption == TTLLeases \subseteq Leases /\ Env \subseteq EnvKinds
ASSUME NoneAssumption == None \notin Pools \cup Leases \cup (Pools \X (0..MaxIndex))

\* nextInstanceName: "<pool>-<index>".
Names == Pools \X (0..MaxIndex)
PoolOf(n) == n[1]

VARIABLES
  (* ClusterInstance objects *)
  phase,       \* name -> status.phase, "Absent" when there is no such object
  deleting,    \* names with a deletionTimestamp
  instFin,     \* names that carry the instance finalizer
  settled,     \* names Ready for at least scaleDownStabilityPeriod
  standalone,  \* names of instances that carry no pool label
  kubeconfig,  \* names whose canonical kubeconfig Secret exists
  (* ClusterLease objects *)
  lphase,      \* lease -> status.phase ("Pending" also stands for unset)
  lpool,       \* lease -> spec.poolRef
  ref,         \* lease -> status.instanceRef
  ldeleting,   \* leases with a deletionTimestamp
  leaseFin,    \* leases that carry the lease finalizer
  (* the rest of the API server *)
  ns,          \* what readNamespacePolicy sees
  capacity,    \* pool -> reason of status condition CapacityAvailable
  (* the manager process *)
  lock,        \* holder of clusterInstanceReservation
  queue,       \* the pool controller's work queue
  pw,          \* the pool controller's worker
  lw,          \* the lease controller's worker
  (* history, read by no action *)
  leased,      \* names whose present object was bound to a lease at some time
  holds        \* leases whose kubeconfig belongs to the object ref names now

instVars == <<phase, deleting, instFin, settled, standalone, kubeconfig>>
leaseVars == <<lphase, lpool, ref, ldeleting, leaseFin>>
history == <<leased, holds>>
vars == <<instVars, leaseVars, ns, capacity, lock, queue, pw, lw, history>>

PoolWorkers ==
  [pc : {"idle", "waiting", "create", "trim", "status"}, pool : Pools \cup {None},
   policy : {"enabled", "disabled"}, target : Names \cup {None},
   reason : Reasons, requeue : {"yes", "no"}]
LeaseWorkers ==
  [pc : {"idle", "pending", "matched", "copied", "deleting", "released"},
   lease : Leases \cup {None}, version : {"current", "moved"},
   target : Names \cup {None}, copy : {"none", "current", "gone"}]

PoolIdle == [pc |-> "idle", pool |-> None, policy |-> "enabled", target |-> None,
             reason |-> "CapacitySufficient", requeue |-> "no"]
LeaseIdle == [pc |-> "idle", lease |-> None, version |-> "current", target |-> None, copy |-> "none"]

TypeOK ==
  /\ phase \in [Names -> {"Absent", "Provisioning", "Ready", "Failed"}]
  /\ deleting \subseteq Names /\ instFin \subseteq Names /\ settled \subseteq Names
  /\ standalone \subseteq Names /\ kubeconfig \subseteq Names
  /\ lphase \in [Leases -> {"Absent", "Pending", "Bound"}]
  /\ lpool \in [Leases -> Pools]
  /\ ref \in [Leases -> Names \cup {None}]
  /\ ldeleting \subseteq Leases /\ leaseFin \subseteq Leases
  /\ ns \in {"enabled", "disabled", "terminating"}
  /\ capacity \in [Pools -> Reasons \cup {None}]
  /\ lock \in {"free", "pool", "lease"}
  /\ queue \subseteq Pools
  /\ pw \in PoolWorkers /\ lw \in LeaseWorkers
  /\ leased \subseteq Names /\ holds \subseteq Leases

Init ==
  /\ phase = [n \in Names |-> "Absent"]
  /\ deleting = {} /\ instFin = {} /\ settled = {} /\ standalone = {} /\ kubeconfig = {}
  /\ lphase = [l \in Leases |-> "Absent"]
  /\ lpool \in [Leases -> Pools]
  /\ ref = [l \in Leases |-> None]
  /\ ldeleting = {} /\ leaseFin = {}
  /\ ns = "enabled"
  /\ capacity = [p \in Pools |-> None]
  /\ lock = "free" /\ queue = Pools
  /\ pw = PoolIdle /\ lw = LeaseIdle
  /\ leased = {} /\ holds = {}

-----------------------------------------------------------------------------
(* The API server: what a delete and the loss of the last finalizer do.    *)

Exists(n) == phase[n] # "Absent"
Instances == {n \in Names : Exists(n)}

\* The object goes.  Its kubeconfig Secret is left to garbage collection;
\* nobody who copied it holds a kubeconfig of a later object of this name.
RemoveInstance(n) ==
  /\ phase' = [phase EXCEPT ![n] = "Absent"]
  /\ deleting' = deleting \ {n}
  /\ instFin' = instFin \ {n}
  /\ settled' = settled \ {n}
  /\ standalone' = standalone \ {n}
  /\ kubeconfig' = kubeconfig \ {n}
  /\ leased' = leased \ {n}
  /\ holds' = {l \in holds : ref[l] # n}

\* A delete sets the deletionTimestamp, or removes an object without
\* finalizer at once; of a missing object it is NotFound, and ignored.
RequestDelete(n) ==
  IF Exists(n) /\ n \notin instFin
  THEN RemoveInstance(n)
  ELSE /\ deleting' = IF Exists(n) THEN deleting \cup {n} ELSE deleting
       /\ UNCHANGED <<phase, instFin, settled, standalone, kubeconfig, history>>

\* An instance that disappears while the lease worker holds a copy of its
\* kubeconfig leaves that copy without a cluster.
CopyAfterRemoval(n) == IF lw.target = n /\ lw.copy = "current" THEN "gone" ELSE lw.copy

\* A write to a lease by anybody but the lease worker moves its
\* resourceVersion: an Update of what the worker read earlier is a conflict.
TouchLease(l) == lw' = IF lw.lease = l THEN [lw EXCEPT !.version = "moved"] ELSE lw

\* Mutant of WakeOwner: the instance's own name is queued.
WakeOwnerByName(n) == queue' = queue \cup {n}

\* A labelled instance's events wake its owner; creation and deletion of any
\* instance wake every pool of the namespace.
WakeOwner(n) == queue' = IF n \in standalone THEN queue ELSE queue \cup {PoolOf(n)}
WakeAll == queue' = Pools

-----------------------------------------------------------------------------
(* Users and administrators.                                               *)

CreateLease(l, p) ==
  /\ lphase[l] = "Absent"
  /\ lphase' = [lphase EXCEPT ![l] = "Pending"]
  /\ lpool' = [lpool EXCEPT ![l] = p]
  /\ queue' = queue \cup {p}
  /\ UNCHANGED <<instVars, ref, ldeleting, leaseFin, ns, capacity, lock, pw, lw, history>>

\* The lease object goes, and with it the claim its instanceRef made.
RemoveLease(l) ==
  /\ lphase' = [lphase EXCEPT ![l] = "Absent"]
  /\ ref' = [ref EXCEPT ![l] = None]
  /\ ldeleting' = ldeleting \ {l}
  /\ leaseFin' = leaseFin \ {l}
  /\ holds' = holds \ {l}
  /\ UNCHANGED <<lpool, leased>>

RequestLeaseDelete(l) ==
  IF l \in leaseFin
  THEN /\ ldeleting' = ldeleting \cup {l}
       /\ UNCHANGED <<lphase, lpool, ref, leaseFin, history>>
  ELSE RemoveLease(l)

DeleteLease(l) ==
  /\ lphase[l] # "Absent" /\ l \notin ldeleting
  /\ RequestLeaseDelete(l)
  /\ TouchLease(l)
  /\ queue' = queue \cup {lpool[l]}
  /\ UNCHANGED <<instVars, ns, capacity, lock, pw>>

\* spec.poolRef carries no immutability rule, so an update of it is accepted.
EditPoolRef(l, p) ==
  /\ "editPool" \in Env
  /\ lphase[l] # "Absent" /\ lpool[l] # p
  /\ lpool' = [lpool EXCEPT ![l] = p]
  /\ TouchLease(l)
  /\ queue' = queue \cup {lpool[l], p}
  /\ UNCHANGED <<instVars, lphase, ref, ldeleting, leaseFin, ns, capacity, lock, pw, history>>

DeleteInstance(n) ==
  /\ "adminDelete" \in Env
  /\ Exists(n) /\ n \notin deleting
  /\ RequestDelete(n)
  /\ lw' = IF n \in instFin THEN lw ELSE [lw EXCEPT !.copy = CopyAfterRemoval(n)]
  /\ WakeAll
  /\ UNCHANGED <<leaseVars, ns, capacity, lock, pw>>

\* An instance nobody's pool owns, under a name a pool could choose.
CreateStandalone(n) ==
  /\ "standalone" \in Env
  /\ ~Exists(n) /\ Cardinality(Instances) < NamespaceLimit
  /\ phase' = [phase EXCEPT ![n] = "Provisioning"]
  /\ standalone' = standalone \cup {n}
  /\ WakeAll
  /\ UNCHANGED <<deleting, instFin, settled, kubeconfig, leaseVars, ns, capacity, lock, pw, lw, history>>

\* The enabled label is set or removed, or the namespace is deleted.
ChangeNamespace(s) ==
  /\ "namespace" \in Env
  /\ ns # "terminating" /\ ns # s
  /\ ns' = s
  /\ WakeAll
  /\ UNCHANGED <<instVars, leaseVars, capacity, lock, pw, lw, history>>

-----------------------------------------------------------------------------
(* The instance controller, by what it does to status.phase, the finalizer *)
(* and the canonical kubeconfig Secret.  gateNamespaceProvisioning ends    *)
(* every pass but a deletion's in a terminating namespace.                 *)

AddInstanceFinalizer(n) ==
  /\ Exists(n) /\ n \notin deleting /\ n \notin instFin
  /\ instFin' = instFin \cup {n}
  /\ WakeOwner(n)
  /\ UNCHANGED <<phase, deleting, settled, standalone, kubeconfig, leaseVars, ns, capacity, lock, pw, lw, history>>

\* markReady, after the kubeconfig was published.  A Failed instance is
\* reconciled like a provisioning one, so it too becomes Ready once its backing
\* does.  Where guests break, the Secret may be gone again by then.
MarkReady(n) ==
  /\ phase[n] \in {"Provisioning", "Failed"} /\ n \notin deleting /\ n \in instFin
  /\ ns # "terminating"
  /\ phase' = [phase EXCEPT ![n] = "Ready"]
  /\ kubeconfig' = kubeconfig \cup {n} \/ ("demote" \in Env /\ kubeconfig' = kubeconfig)
  /\ WakeOwner(n)
  /\ UNCHANGED <<deleting, instFin, settled, standalone, leaseVars, ns, capacity, lock, pw, lw, history>>

\* markFailedWithReason, from the provisioning passes and from
\* reconcileReadyHyperShift.
MarkFailed(n) ==
  /\ "fail" \in Env
  /\ phase[n] \in {"Provisioning", "Ready"} /\ n \notin deleting /\ n \in instFin
  /\ ns # "terminating"
  /\ phase' = [phase EXCEPT ![n] = "Failed"]
  /\ settled' = settled \ {n}
  /\ WakeOwner(n)
  /\ UNCHANGED <<deleting, instFin, standalone, kubeconfig, leaseVars, ns, capacity, lock, pw, lw, history>>

\* The work queue retries a Failed instance; a pass that gets further and is
\* not done yet records that the instance is provisioning.
Retry(n) ==
  /\ phase[n] = "Failed" /\ n \notin deleting /\ n \in instFin
  /\ ns # "terminating"
  /\ phase' = [phase EXCEPT ![n] = "Provisioning"]
  /\ settled' = settled \ {n}
  /\ WakeOwner(n)
  /\ UNCHANGED <<deleting, instFin, standalone, kubeconfig, leaseVars, ns, capacity, lock, pw, lw, history>>

\* A pass publishes the kubeconfig some time before it marks the instance
\* Ready, and need not know that the instance has been deleted meanwhile.
PublishKubeconfig(n) ==
  /\ "demote" \in Env
  /\ n \in instFin \ kubeconfig /\ ns # "terminating"
  /\ kubeconfig' = kubeconfig \cup {n}
  /\ UNCHANGED <<phase, deleting, instFin, settled, standalone, leaseVars, ns, capacity, lock, queue, pw, lw, history>>

\* The Secret goes: the VMI was replaced (invalidateCRCReadiness), or an
\* administrator deletes it.
InvalidateKubeconfig(n) ==
  /\ "demote" \in Env
  /\ n \in kubeconfig
  /\ kubeconfig' = kubeconfig \ {n}
  /\ UNCHANGED <<phase, deleting, instFin, settled, standalone, leaseVars, ns, capacity, lock, queue, pw, lw, history>>

\* A Ready instance goes back to Provisioning, claimed or not: the platform
\* gate closes, the guest API stops answering, or its VMI was replaced.
Demote(n) ==
  /\ "demote" \in Env
  /\ phase[n] = "Ready" /\ n \notin deleting /\ n \in instFin
  /\ ns # "terminating"
  /\ phase' = [phase EXCEPT ![n] = "Provisioning"]
  /\ settled' = settled \ {n}
  /\ WakeOwner(n)
  /\ UNCHANGED <<deleting, instFin, standalone, kubeconfig, leaseVars, ns, capacity, lock, pw, lw, history>>

\* reconcileDelete: the backing resources are gone, the finalizer follows.
FinishTeardown(n) ==
  /\ n \in deleting /\ n \in instFin
  /\ RemoveInstance(n)
  /\ lw' = [lw EXCEPT !.copy = CopyAfterRemoval(n)]
  /\ WakeAll
  /\ UNCHANGED <<leaseVars, ns, capacity, lock, pw>>

\* scaleDownStabilityPeriod passes since the Ready condition last changed.
Settle(n) ==
  /\ phase[n] = "Ready" /\ n \notin deleting /\ n \notin settled
  /\ settled' = settled \cup {n}
  /\ UNCHANGED <<phase, deleting, instFin, standalone, kubeconfig, leaseVars, ns, capacity, lock, queue, pw, lw, history>>

-----------------------------------------------------------------------------
(* The pool controller.                                                    *)

\* computeLeaseAccounting: every lease's instanceRef is a claim, whatever the
\* lease's pool and even while it is being deleted.
Claimed == {ref[l] : l \in Leases} \ {None}

\* Mutant of PendingDemand: only the configured floors make a pool grow.
PendingDemandIgnored(p) == {}

PendingDemand(p) == {l \in Leases : lphase[l] = "Pending" /\ l \notin ldeleting /\ lpool[l] = p}

\* computeInstanceAccounting.
Members(p) == {n \in Instances : PoolOf(n) = p /\ n \notin standalone}

\* Mutants of Available: a lease in deletion claims nothing; a lease of
\* another pool claims nothing.
AvailableToLiveLeases(p) ==
  {n \in Members(p) : phase[n] = "Ready" /\ n \notin deleting /\ \A l \in Leases \ ldeleting : ref[l] # n}
AvailableInOwnPool(p) ==
  {n \in Members(p) : phase[n] = "Ready" /\ n \notin deleting /\ \A l \in Leases : lpool[l] = p => ref[l] # n}

Available(p) == {n \in Members(p) : phase[n] = "Ready" /\ n \notin deleting /\ n \notin Claimed}
PendingSupply(p) == {n \in Members(p) : n \in deleting \/ phase[n] = "Provisioning"}

Total(p) == Cardinality(Members(p))
NeedOf(p) == Need(PoolSpec[p], Total(p), Cardinality(Available(p)) + Cardinality(PendingSupply(p)),
                  Cardinality(PendingDemand(p)))

\* Mutant of RoomOf: the last instance is not counted.
RoomOffByOne(p) == Room(PoolSpec[p], Total(p) - 1)

RoomOf(p) == Room(PoolSpec[p], Total(p))
ExcessOf(p) == Excess(PoolSpec[p], Total(p), Cardinality(Available(p)), Cardinality(PendingDemand(p)))
AtLimit == Cardinality(Instances) >= NamespaceLimit

\* nextInstanceName: the smallest index no instance with the pool's label uses.
IsNextIndex(p, i) ==
  /\ <<p, i>> \notin Members(p)
  /\ \A j \in 0..(i - 1) : <<p, j>> \in Members(p)

\* Whether the namespace's Guestcluster resource quota blocks one more instance.
QuotaVerdicts == IF "resourceQuota" \in Env THEN BOOLEAN ELSE {FALSE}

ReasonOf(p, violation) == CapacityReason(PoolSpec[p], NeedOf(p), RoomOf(p), AtLimit, violation)

\* Reconcile up to the mutex: a key leaves the queue, the policy is read live.
PoolStart(p) ==
  /\ pw.pc = "idle" /\ p \in queue
  /\ queue' = queue \ {p}
  /\ pw' = [PoolIdle EXCEPT !.pc = "waiting", !.pool = p,
                            !.policy = IF ns = "enabled" THEN "enabled" ELSE "disabled"]
  /\ UNCHANGED <<instVars, leaseVars, ns, capacity, lock, lw, history>>

\* From the mutex to the decision.  The three lists are one step: whatever
\* changes a lease between them neither reads nor writes an instance.
PoolLocks == pw.pc = "waiting" /\ lock = "free" /\ lock' = "pool"

Growing(p) == NeedOf(p) > 0 /\ RoomOf(p) > 0
Shrinking(p) == ~Growing(p) /\ ExcessOf(p) > 0
Blocked(p, violation) == Growing(p) /\ (AtLimit \/ violation)

PoolScaleUp(p) ==
  /\ PoolLocks /\ pw.pool = p /\ pw.policy = "enabled"
  /\ Growing(p) /\ ~AtLimit
  /\ \E i \in 0..MaxIndex :
       /\ IsNextIndex(p, i)
       /\ pw' = [pw EXCEPT !.pc = "create", !.target = <<p, i>>, !.reason = ReasonOf(p, FALSE)]
  /\ UNCHANGED <<instVars, leaseVars, ns, capacity, queue, lw, history>>

\* newestInstance: creation times are abstracted, any eligible one may be it.
PoolScaleDown(p) ==
  /\ PoolLocks /\ pw.pool = p /\ pw.policy = "enabled"
  /\ Shrinking(p)
  /\ \E n \in Available(p) \cap settled :
       pw' = [pw EXCEPT !.pc = "trim", !.target = n, !.reason = ReasonOf(p, FALSE)]
  /\ UNCHANGED <<instVars, leaseVars, ns, capacity, queue, lw, history>>

\* Nothing to create or delete: only the status is written.  The pass asks to
\* be repeated while something blocks it or an excess has not settled.
PoolObserve(p) ==
  /\ PoolLocks /\ pw.pool = p
  /\ \E violation \in QuotaVerdicts, requeue \in {"yes", "no"} :
       /\ \/ pw.policy = "disabled"
          \/ Blocked(p, violation)
          \/ Shrinking(p) /\ Available(p) \cap settled = {}
          \/ ~Growing(p) /\ ~Shrinking(p)
       /\ requeue = "yes" <=> pw.policy = "disabled" \/ Blocked(p, violation) \/ Shrinking(p)
       /\ pw' = [pw EXCEPT !.pc = "status", !.reason = ReasonOf(p, violation), !.requeue = requeue]
  /\ UNCHANGED <<instVars, leaseVars, ns, capacity, queue, lw, history>>

\* createInstance succeeds.
PoolCreate ==
  /\ pw.pc = "create"
  /\ ~Exists(pw.target) /\ ~AtLimit /\ ns # "terminating"
  /\ phase' = [phase EXCEPT ![pw.target] = "Provisioning"]
  /\ pw' = [pw EXCEPT !.pc = "status", !.target = None]
  /\ WakeAll
  /\ UNCHANGED <<deleting, instFin, settled, standalone, kubeconfig, leaseVars, ns, capacity, lock, lw, history>>

\* createInstance takes AlreadyExists for success.
PoolCreateExists ==
  /\ pw.pc = "create"
  /\ Exists(pw.target) /\ ~AtLimit /\ ns # "terminating"
  /\ pw' = [pw EXCEPT !.pc = "status", !.target = None]
  /\ UNCHANGED <<instVars, leaseVars, ns, capacity, lock, queue, lw, history>>

\* The API server's quota admission rejects the create.
PoolCreateRejected ==
  /\ pw.pc = "create"
  /\ AtLimit /\ ns # "terminating"
  /\ pw' = [pw EXCEPT !.pc = "status", !.target = None, !.reason = "NamespaceAtCapacity", !.requeue = "yes"]
  /\ UNCHANGED <<instVars, leaseVars, ns, capacity, lock, queue, lw, history>>

PoolTrim ==
  /\ pw.pc = "trim"
  /\ RequestDelete(pw.target)
  /\ WakeAll
  /\ pw' = [pw EXCEPT !.pc = "status", !.target = None]
  /\ UNCHANGED <<leaseVars, ns, capacity, lock, lw>>

\* Mutant of PoolStatus: RequeueAfter is dropped.
PoolStatusNoRequeue ==
  /\ pw.pc = "status"
  /\ capacity' = [capacity EXCEPT ![pw.pool] = pw.reason]
  /\ queue' = IF capacity[pw.pool] # pw.reason THEN queue \cup {pw.pool} ELSE queue
  /\ pw' = PoolIdle /\ lock' = "free"
  /\ UNCHANGED <<instVars, leaseVars, ns, lw, history>>

\* updateStatusIfChanged, return, unlock.  A changed status is an event.
PoolStatus ==
  /\ pw.pc = "status"
  /\ capacity' = [capacity EXCEPT ![pw.pool] = pw.reason]
  /\ queue' = IF pw.requeue = "yes" \/ capacity[pw.pool] # pw.reason
              THEN queue \cup {pw.pool} ELSE queue
  /\ pw' = PoolIdle /\ lock' = "free"
  /\ UNCHANGED <<instVars, leaseVars, ns, lw, history>>

\* Mutant of PoolError: the error is logged and not returned.
PoolErrorSwallowed ==
  /\ \/ pw.pc = "waiting" /\ lock = "free" /\ "apiError" \in Env
     \/ pw.pc \in {"create", "trim", "status"} /\ "apiError" \in Env
     \/ pw.pc = "create" /\ ns = "terminating"
  /\ pw' = PoolIdle /\ lock' = "free"
  /\ UNCHANGED <<instVars, leaseVars, ns, capacity, queue, lw, history>>

\* A call to the API server fails, from the lists under the mutex to a conflict
\* of the status update; a create in a terminating namespace always does.
PoolError ==
  /\ \/ pw.pc = "waiting" /\ lock = "free" /\ "apiError" \in Env
     \/ pw.pc \in {"create", "trim", "status"} /\ "apiError" \in Env
     \/ pw.pc = "create" /\ ns = "terminating"
  /\ pw' = PoolIdle /\ lock' = "free"
  /\ queue' = queue \cup {pw.pool}
  /\ UNCHANGED <<instVars, leaseVars, ns, capacity, lw, history>>

-----------------------------------------------------------------------------
(* The lease controller.                                                   *)

LeaseAddFinalizer(l) ==
  /\ lw.pc = "idle"
  /\ lphase[l] # "Absent" /\ l \notin ldeleting /\ l \notin leaseFin
  /\ leaseFin' = leaseFin \cup {l}
  /\ queue' = queue \cup {lpool[l]}
  /\ UNCHANGED <<instVars, lphase, lpool, ref, ldeleting, ns, capacity, lock, pw, lw, history>>

\* reconcileBound past the deadline.  Time is abstracted: the deadline of a
\* lease with a TTL may pass at any moment after it was bound.
LeaseExpire(l) ==
  /\ lw.pc = "idle"
  /\ lphase[l] = "Bound" /\ l \in TTLLeases /\ l \notin ldeleting /\ l \in leaseFin
  /\ RequestLeaseDelete(l)
  /\ queue' = queue \cup {lpool[l]}
  /\ UNCHANGED <<instVars, ns, capacity, lock, pw, lw>>

\* Mutants of LeaseStart: the phase is dispatched on before the
\* deletionTimestamp; matching does not wait for the finalizer.
LeaseStartPhaseFirst(l) ==
  /\ lw.pc = "idle"
  /\ l \in leaseFin
  /\ \/ /\ lphase[l] = "Pending"
        /\ lw' = [LeaseIdle EXCEPT !.pc = "pending", !.lease = l]
     \/ /\ lphase[l] # "Pending" /\ l \in ldeleting
        /\ lw' = [LeaseIdle EXCEPT !.pc = "deleting", !.lease = l, !.target = ref[l]]
  /\ UNCHANGED <<instVars, leaseVars, ns, capacity, lock, queue, pw, history>>
LeaseStartUnprotected(l) ==
  /\ lw.pc = "idle"
  /\ \/ /\ l \in ldeleting
        /\ lw' = [LeaseIdle EXCEPT !.pc = "deleting", !.lease = l, !.target = ref[l]]
     \/ /\ l \notin ldeleting /\ lphase[l] = "Pending"
        /\ lw' = [LeaseIdle EXCEPT !.pc = "pending", !.lease = l]
  /\ UNCHANGED <<instVars, leaseVars, ns, capacity, lock, queue, pw, history>>

\* Reconcile reads the lease and dispatches on it, up to the mutex.
LeaseStart(l) ==
  /\ lw.pc = "idle"
  /\ l \in leaseFin
  /\ \/ /\ l \in ldeleting
        /\ lw' = [LeaseIdle EXCEPT !.pc = "deleting", !.lease = l, !.target = ref[l]]
     \/ /\ l \notin ldeleting /\ lphase[l] = "Pending"
        /\ lw' = [LeaseIdle EXCEPT !.pc = "pending", !.lease = l]
  /\ UNCHANGED <<instVars, leaseVars, ns, capacity, lock, queue, pw, history>>

\* Mutants of ClaimedInPool: a lease in deletion claims nothing; no lease does.
ClaimedByLiveLeases(p) == {ref[l] : l \in {k \in Leases \ ldeleting : lpool[k] = p}} \ {None}
ClaimedByNobody(p) == {}

\* Only leases with the same poolRef are consulted.
ClaimedInPool(p) == {ref[l] : l \in {k \in Leases : lpool[k] = p}} \ {None}
Candidates(l) == {n \in Members(lpool[l]) : phase[n] = "Ready" /\ n \notin deleting
                                            /\ n \notin ClaimedInPool(lpool[l])}

\* The lease as read again under the mutex can still be matched.
Matchable(l) == lphase[l] = "Pending" /\ l \notin ldeleting /\ ref[l] = None /\ ns # "terminating"

\* reconcilePending up to the choice of a candidate (the first one listed).
LeaseMatch(l) ==
  /\ lw.pc = "pending" /\ lw.lease = l /\ lock = "free"
  /\ Matchable(l)
  /\ \E n \in Candidates(l) :
       lw' = [lw EXCEPT !.pc = "matched", !.target = n, !.version = "current"]
  /\ lock' = "lease"
  /\ UNCHANGED <<instVars, leaseVars, ns, capacity, queue, pw, history>>

LeaseWait(l) ==
  /\ lw.pc = "pending" /\ lw.lease = l /\ lock = "free"
  /\ ~Matchable(l) \/ Candidates(l) = {}
  /\ lw' = LeaseIdle
  /\ UNCHANGED <<instVars, leaseVars, ns, capacity, lock, queue, pw, history>>

\* bind, first half: the Secret of a removed instance may not be collected yet.
LeaseCopy ==
  /\ lw.pc = "matched"
  /\ lw.target \in kubeconfig \/ ~Exists(lw.target)
  /\ lw' = [lw EXCEPT !.pc = "copied", !.copy = IF Exists(lw.target) THEN "current" ELSE "gone"]
  /\ UNCHANGED <<instVars, leaseVars, ns, capacity, lock, queue, pw, history>>

\* bind, second half: one Status().Update of the lease as read under the mutex.
LeaseCommit ==
  /\ lw.pc = "copied" /\ lw.version = "current"
  /\ lphase' = [lphase EXCEPT ![lw.lease] = "Bound"]
  /\ ref' = [ref EXCEPT ![lw.lease] = lw.target]
  /\ leased' = IF lw.copy = "current" THEN leased \cup {lw.target} ELSE leased
  /\ holds' = IF lw.copy = "current" THEN holds \cup {lw.lease} ELSE holds
  /\ queue' = queue \cup {lpool[lw.lease]}
  /\ lw' = LeaseIdle /\ lock' = "free"
  /\ UNCHANGED <<instVars, lpool, ldeleting, leaseFin, ns, capacity, pw>>

\* Mutant of LeaseRelease: the instance goes back to the pool.
LeaseReleaseRecycles ==
  /\ lw.pc = "deleting" /\ lock = "free"
  /\ lock' = "lease"
  /\ lw' = [lw EXCEPT !.pc = "released"]
  /\ UNCHANGED <<instVars, queue, history, leaseVars, ns, capacity, pw>>

\* reconcileDelete: releaseBoundInstance deletes by name, ...
LeaseRelease ==
  /\ lw.pc = "deleting" /\ lock = "free"
  /\ lock' = "lease"
  /\ IF lw.target = None
     THEN UNCHANGED <<instVars, queue, history>>
     ELSE RequestDelete(lw.target) /\ WakeAll
  /\ lw' = [lw EXCEPT !.pc = "released"]
  /\ UNCHANGED <<leaseVars, ns, capacity, pw>>

\* ... then the finalizer goes, and the lease with it.
LeaseFinalize ==
  /\ lw.pc = "released" /\ lw.version = "current"
  /\ RemoveLease(lw.lease)
  /\ queue' = queue \cup {lpool[lw.lease]}
  /\ lw' = LeaseIdle /\ lock' = "free"
  /\ UNCHANGED <<instVars, ns, capacity, pw>>

\* Every early return with an error: the kubeconfig Secret is missing, the
\* lease was written since it was read, or the API server fails.
LeaseError ==
  /\ \/ lw.pc = "matched" /\ lw.target \notin kubeconfig
     \/ lw.pc \in {"copied", "released"} /\ lw.version = "moved"
     \/ lw.pc \in {"matched", "copied", "released"} /\ "apiError" \in Env
     \/ lw.pc \in {"pending", "deleting"} /\ lock = "free" /\ "apiError" \in Env
  /\ lw' = LeaseIdle /\ lock' = "free"
  /\ UNCHANGED <<instVars, leaseVars, ns, capacity, queue, pw, history>>

-----------------------------------------------------------------------------
\* The manager stops anywhere and a new one starts: the mutex and both
\* workers are new, and the initial list queues every pool.
Crash ==
  /\ "crash" \in Env
  /\ lw.pc # "idle" \/ pw.pc # "idle"
  /\ pw' = PoolIdle /\ lw' = LeaseIdle /\ lock' = "free" /\ queue' = Pools
  /\ UNCHANGED <<instVars, leaseVars, ns, capacity, history>>

UserStep ==
  \/ \E l \in Leases, p \in Pools : CreateLease(l, p) \/ EditPoolRef(l, p)
  \/ \E l \in Leases : DeleteLease(l)
  \/ \E n \in Names : DeleteInstance(n) \/ CreateStandalone(n)
  \/ \E s \in {"enabled", "disabled", "terminating"} : ChangeNamespace(s)

InstanceStep ==
  \E n \in Names : \/ AddInstanceFinalizer(n) \/ MarkReady(n) \/ MarkFailed(n)
                   \/ Retry(n) \/ PublishKubeconfig(n) \/ InvalidateKubeconfig(n) \/ Demote(n)
                   \/ FinishTeardown(n) \/ Settle(n)

PoolStep ==
  \/ \E p \in Pools : PoolStart(p) \/ PoolScaleUp(p) \/ PoolScaleDown(p) \/ PoolObserve(p)
  \/ PoolCreate \/ PoolCreateExists \/ PoolCreateRejected \/ PoolTrim \/ PoolStatus \/ PoolError

LeaseStep ==
  \/ \E l \in Leases : \/ LeaseAddFinalizer(l) \/ LeaseExpire(l) \/ LeaseStart(l)
                       \/ LeaseMatch(l) \/ LeaseWait(l)
  \/ LeaseCopy \/ LeaseCommit \/ LeaseRelease \/ LeaseFinalize \/ LeaseError

Next == UserStep \/ InstanceStep \/ PoolStep \/ LeaseStep \/ Crash

Spec == Init /\ [][Next]_vars

-----------------------------------------------------------------------------
(* Fairness.  A queued key is taken in the end, and a Go mutex does not    *)
(* starve a waiter: strong fairness, for a worker is busy and the mutex    *)
(* taken in between.  A guest nobody uses yet becomes Ready, and teardown   *)
(* ends.  Nothing obliges a leased guest that broke, or a Failed one, to   *)
(* come back.                                                              *)

PoolProgress ==
  \/ \E p \in Pools : PoolScaleUp(p) \/ PoolScaleDown(p) \/ PoolObserve(p)
  \/ PoolCreate \/ PoolCreateExists \/ PoolCreateRejected \/ PoolTrim \/ PoolStatus

LeaseProgress ==
  \/ \E l \in Leases : LeaseMatch(l) \/ LeaseWait(l)
  \/ LeaseCopy \/ LeaseCommit \/ LeaseRelease \/ LeaseFinalize \/ LeaseError

InstanceProgress(n) ==
  \/ AddInstanceFinalizer(n) \/ FinishTeardown(n) \/ Settle(n)
  \/ n \notin leased /\ phase[n] = "Provisioning" /\ MarkReady(n)
  \/ n \notin kubeconfig /\ Demote(n)

FairSpec ==
  /\ Spec
  /\ \A p \in Pools : SF_vars(PoolStart(p))
  /\ SF_vars(PoolProgress)
  /\ \A l \in Leases : SF_vars(LeaseAddFinalizer(l) \/ LeaseStart(l))
  /\ SF_vars(LeaseProgress)
  /\ \A n \in Names : WF_vars(InstanceProgress(n))

\* Where calls fail without end, each call that is retried without end succeeds
\* in the end; and one manager stays up in the end.
RetrySpec ==
  /\ FairSpec
  /\ <>[][~Crash]_vars
  /\ SF_vars(PoolCreate) /\ SF_vars(PoolTrim) /\ SF_vars(PoolStatus)
  /\ \A l \in Leases : /\ SF_vars(LeaseMatch(l))
                       /\ SF_vars(lw.lease = l /\ LeaseCopy) /\ SF_vars(lw.lease = l /\ LeaseCommit)
                       /\ SF_vars(lw.lease = l /\ LeaseRelease) /\ SF_vars(lw.lease = l /\ LeaseFinalize)

-----------------------------------------------------------------------------
(* Safety.                                                                 *)

\* No two ClusterLeases name the same ClusterInstance in status.instanceRef.
ExclusiveBinding ==
  \A l, k \in Leases : ref[l] # None /\ ref[l] = ref[k] => l = k

\* A pool never has more instances than maxSize, Failed and terminating ones
\* included.
WithinMaxSize == \A p \in Pools : Total(p) <= Larger(PoolSpec[p].maxSize, 0)

\* scaleDownExcess never deletes an instance a lease has claimed or is just
\* being bound to, from the lists it decided on to the delete call.
TrimSparesClaims == pw.pc = "trim" => pw.target \notin Claimed \cup {lw.target}

\* A guest cluster is handed to at most one lease in its lifetime: bind never
\* commits an instance object that an earlier lease was bound to.
LeasedOnce == [][\A l \in holds' \ holds : ref'[l] \notin leased]_vars

\* A lease that held a guest cluster leaves the API only when that cluster is
\* being deleted or gone, whatever crashed or failed on the way.
ReleaseReclaims ==
  [][\A l \in holds : lphase'[l] = "Absent" =>
        ref[l] \in deleting' \/ phase'[ref[l]] = "Absent"]_vars

\* releaseBoundInstance deletes the instance the lease was bound to, never a
\* later one of the same name.
ReleaseDeletesOwn ==
  [][(lw.pc = "deleting" /\ lw'.pc = "released" /\ lw.target # None) =>
        ~Exists(lw.target) \/ lw.target \in deleting \/ lw.lease \in holds]_vars

-----------------------------------------------------------------------------
(* The inductive invariant behind the safety properties.                   *)

\* Who holds the mutex, and what each worker may rely on while it works.
WorkerInv ==
  /\ lock = "pool" <=> pw.pc \in {"create", "trim", "status"}
  /\ lock = "lease" <=> lw.pc \in {"matched", "copied", "released"}
  /\ pw.pc # "idle" => pw.pool \in Pools
  /\ pw.pc = "create" => pw.target \in Names /\ PoolOf(pw.target) = pw.pool
  /\ pw.pc = "trim" => pw.target \in Names \ Claimed
  /\ lw.pc # "idle" => lw.lease \in leaseFin
  /\ lw.pc \in {"idle", "pending"} => lw.target = None
  /\ lw.pc \in {"deleting", "released"} => lw.target = ref[lw.lease]
  /\ lw.pc \in {"matched", "copied"} => lw.target \in Names /\ ref[lw.lease] = None
  /\ \A l \in Leases : /\ l \in leaseFin => lphase[l] # "Absent"
                       /\ ref[l] # None => l \in leaseFin

\* The room a create was decided on is still there when it is called.
SizeInv ==
  /\ WithinMaxSize
  /\ pw.pc = "create" => RoomOf(pw.pool) > 0

\* A claim names an instance of the claimant's pool, no two claims are equal,
\* and a guest that was ever leased is claimed or on its way out.
ClaimInv ==
  /\ ExclusiveBinding
  /\ \A l \in Leases : ref[l] # None => PoolOf(ref[l]) = lpool[l]
  /\ lw.pc \in {"matched", "copied"} =>
       lw.target \notin Claimed \cup leased /\ PoolOf(lw.target) = lpool[lw.lease]
  /\ lw.pc = "copied" /\ lw.copy = "current" => lw.target \in Instances
  /\ leased \subseteq Instances \cap (deleting \cup Claimed)
  /\ lw.pc = "released" /\ lw.target \in leased => lw.target \in deleting

\* A lease that holds a guest cluster names it, and every object with something
\* to lose (a kubeconfig, a lease, a copy about to be committed) carries the
\* finalizer, so that no delete removes it at once.
HoldInv ==
  /\ \A l \in holds : ref[l] # None /\ ref[l] \in leased
  /\ leased \cup kubeconfig \subseteq instFin
  /\ instFin \subseteq Instances
  /\ lw.pc = "copied" /\ lw.copy = "current" => lw.target \in instFin

\* The two workers' view of the mutex, of the pools' sizes, of the guests in use
\* and of the claims holds in every state; the claims need a spec.poolRef that is
\* never edited.
InductiveInv == TypeOK /\ WorkerInv /\ SizeInv /\ HoldInv /\ ("editPool" \notin Env => ClaimInv)

\* What could separate a lease from its guest: a release that is repeated after
\* a crash, a failed call or an edit of the lease, and an administrator's delete.
Undisturbed == Env \cap {"crash", "apiError", "editPool", "adminDelete"} = {}

\* Then a lease that names a guest holds it, and no one deletes that guest, until
\* the one pass that releases it; and no guest goes while it is being bound.
OwnInv ==
  /\ \A l \in Leases : ref[l] # None => l \in holds \/ (lw.pc = "released" /\ lw.lease = l)
  /\ \A l \in holds : ref[l] \in deleting => lw.pc = "released" /\ lw.lease = l
  /\ lw.pc \in {"matched", "copied"} => lw.target \in Instances \ deleting
  /\ lw.pc = "copied" => lw.copy = "current"
  /\ lw.pc \in {"deleting", "released"} => lw.lease \in ldeleting /\ lw.version = "current"

-----------------------------------------------------------------------------
(* The promise to lease holders.                                           *)

Promise == INSTANCE ExclusiveLeases WITH
  live <- Instances, retired <- deleting, used <- leased,
  holder <- [l \in Leases |-> IF l \in holds THEN ref[l] ELSE None]

\* The controllers implement the exclusive, single-use leases of module
\* ExclusiveLeases: bind is its Grant, reconcileDelete its Release.
ImplementsPromise == Promise!Spec

-----------------------------------------------------------------------------
(* What this module takes the instance controller to do.                   *)

Life(n) == INSTANCE GuestLifecycle WITH
  object <- IF ~Exists(n) THEN "absent" ELSE IF n \in deleting THEN "deleting" ELSE "live",
  finalizer <- n \in instFin, phase <- phase[n], published <- n \in kubeconfig

-----------------------------------------------------------------------------
(* Liveness.                                                               *)

\* Once users stop deleting leases (each release lets a later lease overtake
\* a waiting one), guests stop breaking and none is left Failed, every lease
\* that is not deleted is bound in the end: the pool provisions for its
\* pendingDemand, and reconcilePending finds the instance.
PendingServed ==
  /\ \A l \in Leases : <>[][~DeleteLease(l)]_vars
  /\ \A n \in Names : <>[][~Demote(n) /\ ~InvalidateKubeconfig(n)]_vars /\ <>[](phase[n] # "Failed")
  => \A l \in Leases : (lphase[l] = "Pending") ~> (lphase[l] = "Bound" \/ l \in ldeleting \/ lphase[l] = "Absent")

\* A deleted lease disappears: its finalizer is always removed in the end.
ReleaseCompletes == \A l \in Leases : l \in ldeleting ~> l \notin ldeleting

\* Instances beyond both floors do not stay: the pool is woken for each of
\* them when its stability period ends.
ExcessTrimmed == \A p \in Pools : []<>(ExcessOf(p) <= 0)

\* A deficit that maxSize keeps from being met is reported in the end.
SaturationReported ==
  \A p \in Pools : <>[](NeedOf(p) > 0 /\ RoomOf(p) <= 0 /\ ~AtLimit) => <>[](capacity[p] = "AtCapacity")

=============================================================================
