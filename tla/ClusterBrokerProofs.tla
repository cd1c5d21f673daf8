------------------------ MODULE ClusterBrokerProofs ------------------------
(***************************************************************************)
(* Proofs of the safety properties of ClusterBroker, for any number of     *)
(* pools, leases and instances and every pool spec.                        *)
(***************************************************************************)
EXTENDS ClusterBroker, FiniteSetTheorems, TLAPS

\* Every reason capacityCondition reports is one of the five it knows.
LEMMA ReasonType ==
  ASSUME NEW p, NEW v PROVE ReasonOf(p, v) \in Reasons
BY DEF ReasonOf, CapacityReason, Reasons

\* What a new worker starts with is well typed.
LEMMA IdleTypes == PoolIdle \in PoolWorkers /\ LeaseIdle \in LeaseWorkers
BY DEF PoolIdle, LeaseIdle, PoolWorkers, LeaseWorkers, Reasons

\* An instance's name starts with its pool's.
LEMMA PoolOfType == ASSUME NEW n \in Names PROVE PoolOf(n) \in Pools
BY DEF Names, PoolOf

\* A delete request leaves the instances well typed.
LEMMA DeleteType ==
  ASSUME TypeOK, NEW n \in Names, RequestDelete(n)
  PROVE  /\ phase' \in [Names -> {"Absent", "Provisioning", "Ready", "Failed"}]
         /\ deleting' \subseteq Names /\ instFin' \subseteq Names /\ settled' \subseteq Names
         /\ standalone' \subseteq Names /\ kubeconfig' \subseteq Names
         /\ leased' \subseteq Names /\ holds' \subseteq Leases
<1>1. CASE Exists(n) /\ n \notin instFin
  BY <1>1 DEF TypeOK, RequestDelete, RemoveInstance
<1>2. CASE ~(Exists(n) /\ n \notin instFin)
  BY <1>2 DEF TypeOK, RequestDelete, history
<1> QED
  BY <1>1, <1>2

\* TypeOK is preserved by every step.
LEMMA TypeStep == TypeOK /\ WorkerInv /\ [Next]_vars => TypeOK'
<1> SUFFICES ASSUME TypeOK, WorkerInv, [Next]_vars PROVE TypeOK'
  OBVIOUS
<1> USE DEF TypeOK
<1>1. ASSUME NEW l \in Leases, NEW p \in Pools, CreateLease(l, p) PROVE TypeOK'
  BY <1>1 DEF CreateLease, instVars, leaseVars, history
<1>2. ASSUME NEW l \in Leases, NEW p \in Pools, EditPoolRef(l, p) PROVE TypeOK'
  <2>1. lw' \in LeaseWorkers
    BY <1>2 DEF EditPoolRef, TouchLease, LeaseWorkers
  <2> QED
    BY <1>2, <2>1 DEF EditPoolRef, instVars, leaseVars, history
<1>3. ASSUME NEW l \in Leases, DeleteLease(l) PROVE TypeOK'
  <2>1. lw' \in LeaseWorkers
    BY <1>3 DEF DeleteLease, TouchLease, LeaseWorkers
  <2> QED
    BY <1>3, <2>1 DEF DeleteLease, RequestLeaseDelete, RemoveLease, instVars, leaseVars, history
<1>4. ASSUME NEW n \in Names, DeleteInstance(n) PROVE TypeOK'
  <2>1. lw' \in LeaseWorkers
    BY <1>4 DEF DeleteInstance, CopyAfterRemoval, LeaseWorkers
  <2> QED
    BY <1>4, DeleteType, <2>1 DEF DeleteInstance, WakeAll, instVars, leaseVars, history
<1>5. ASSUME NEW n \in Names, CreateStandalone(n) PROVE TypeOK'
  BY <1>5 DEF CreateStandalone, WakeAll, Exists, instVars, leaseVars, history
<1>6. ASSUME NEW s \in {"enabled", "disabled", "terminating"}, ChangeNamespace(s) PROVE TypeOK'
  BY <1>6 DEF ChangeNamespace, WakeAll, instVars, leaseVars, history
<1>7. ASSUME NEW n \in Names, AddInstanceFinalizer(n) PROVE TypeOK'
  BY <1>7, PoolOfType DEF AddInstanceFinalizer, WakeOwner, instVars, leaseVars, history
<1>8. ASSUME NEW n \in Names, MarkReady(n) PROVE TypeOK'
  BY <1>8, PoolOfType DEF MarkReady, WakeOwner, instVars, leaseVars, history
<1>9. ASSUME NEW n \in Names, MarkFailed(n) PROVE TypeOK'
  BY <1>9, PoolOfType DEF MarkFailed, WakeOwner, instVars, leaseVars, history
<1>10. ASSUME NEW n \in Names, PublishKubeconfig(n) \/ InvalidateKubeconfig(n) PROVE TypeOK'
  BY <1>10 DEF PublishKubeconfig, InvalidateKubeconfig, instVars, leaseVars, history
<1>9r. ASSUME NEW n \in Names, Retry(n) PROVE TypeOK'
  BY <1>9r, PoolOfType DEF Retry, WakeOwner, instVars, leaseVars, history
<1>11. ASSUME NEW n \in Names, Demote(n) PROVE TypeOK'
  BY <1>11, PoolOfType DEF Demote, WakeOwner, instVars, leaseVars, history
<1>12. ASSUME NEW n \in Names, FinishTeardown(n) PROVE TypeOK'
  <2>1. lw' \in LeaseWorkers
    BY <1>12 DEF FinishTeardown, CopyAfterRemoval, LeaseWorkers
  <2> QED
    BY <1>12, <2>1 DEF FinishTeardown, RemoveInstance, WakeAll, instVars, leaseVars, history
<1>13. ASSUME NEW n \in Names, Settle(n) PROVE TypeOK'
  BY <1>13 DEF Settle, instVars, leaseVars, history
<1>14. ASSUME NEW p \in Pools, PoolStart(p) PROVE TypeOK'
  <2>1. pw' \in PoolWorkers
    BY <1>14, ZenonT(30) DEF PoolStart, PoolIdle, Reasons, PoolWorkers
  <2> QED
    BY <1>14, <2>1 DEF PoolStart, instVars, leaseVars, history
<1>15. ASSUME NEW p \in Pools, PoolScaleUp(p) PROVE TypeOK'
  <2>1. pw' \in PoolWorkers
    <3>1. PICK i \in 0..MaxIndex :
            pw' = [pw EXCEPT !.pc = "create", !.target = <<p, i>>, !.reason = ReasonOf(p, FALSE)]
      BY <1>15, Zenon DEF PoolScaleUp
    <3>2. <<p, i>> \in Names /\ ReasonOf(p, FALSE) \in Reasons
      BY <3>1, ReasonType, Zenon DEF Names
    <3> QED
      BY <3>1, <3>2, Zenon DEF PoolWorkers
  <2> QED
    BY <1>15, <2>1 DEF PoolScaleUp, PoolLocks, instVars, leaseVars, history
<1>16. ASSUME NEW p \in Pools, PoolScaleDown(p) PROVE TypeOK'
  <2>1. pw' \in PoolWorkers
    <3>1. PICK n \in Available(p) \cap settled :
            pw' = [pw EXCEPT !.pc = "trim", !.target = n, !.reason = ReasonOf(p, FALSE)]
      BY <1>16, Zenon DEF PoolScaleDown
    <3>2. n \in Names /\ ReasonOf(p, FALSE) \in Reasons
      BY <3>1, ReasonType, Zenon
    <3> QED
      BY <3>1, <3>2, Zenon DEF PoolWorkers
  <2> QED
    BY <1>16, <2>1 DEF PoolScaleDown, PoolLocks, instVars, leaseVars, history
<1>17. ASSUME NEW p \in Pools, PoolObserve(p) PROVE TypeOK'
  <2>1. pw' \in PoolWorkers
    <3>1. PICK v \in QuotaVerdicts, r \in {"yes", "no"} :
            pw' = [pw EXCEPT !.pc = "status", !.reason = ReasonOf(p, v), !.requeue = r]
      BY <1>17, Zenon DEF PoolObserve
    <3>2. ReasonOf(p, v) \in Reasons
      BY ReasonType
    <3> QED
      BY <3>1, <3>2, Zenon DEF PoolWorkers
  <2> QED
    BY <1>17, <2>1 DEF PoolObserve, PoolLocks, instVars, leaseVars, history
<1>18. CASE PoolCreate
  <2>1. pw' \in PoolWorkers
    BY <1>18, Zenon DEF PoolCreate, PoolWorkers
  <2> QED
    BY <1>18, <2>1 DEF PoolCreate, WakeAll, Exists, instVars, leaseVars, history, WorkerInv
<1>19. CASE PoolCreateExists
  <2>1. pw' \in PoolWorkers
    BY <1>19, Zenon DEF PoolCreateExists, PoolWorkers
  <2> QED
    BY <1>19, <2>1 DEF PoolCreateExists, instVars, leaseVars, history
<1>20. CASE PoolCreateRejected
  <2>1. pw' \in PoolWorkers
    BY <1>20, Zenon DEF PoolCreateRejected, Reasons, PoolWorkers
  <2> QED
    BY <1>20, <2>1 DEF PoolCreateRejected, instVars, leaseVars, history
<1>21. CASE PoolTrim
  <2>1. pw' \in PoolWorkers
    BY <1>21, Zenon DEF PoolTrim, PoolWorkers
  <2> QED
    BY <1>21, DeleteType, <2>1 DEF PoolTrim, WakeAll, instVars, leaseVars, history, WorkerInv
<1>22. CASE PoolStatus
  BY <1>22, IdleTypes DEF PoolStatus, instVars, leaseVars, history, WorkerInv, PoolWorkers
<1>23. CASE PoolError
  BY <1>23, IdleTypes DEF PoolError, instVars, leaseVars, history, WorkerInv
<1>24. ASSUME NEW l \in Leases, LeaseAddFinalizer(l) PROVE TypeOK'
  BY <1>24 DEF LeaseAddFinalizer, instVars, leaseVars, history
<1>25. ASSUME NEW l \in Leases, LeaseExpire(l) PROVE TypeOK'
  BY <1>25 DEF LeaseExpire, RequestLeaseDelete, RemoveLease, instVars, leaseVars, history
<1>26. ASSUME NEW l \in Leases, LeaseStart(l) PROVE TypeOK'
  <2>1. lw' \in LeaseWorkers
    <3>1. \/ lw' = [LeaseIdle EXCEPT !.pc = "deleting", !.lease = l, !.target = ref[l]]
          \/ lw' = [LeaseIdle EXCEPT !.pc = "pending", !.lease = l]
      BY <1>26 DEF LeaseStart
    <3>2. ref[l] \in Names \cup {None}
      OBVIOUS
    <3>3. CASE lw' = [LeaseIdle EXCEPT !.pc = "deleting", !.lease = l, !.target = ref[l]]
      BY <3>2, <3>3, Zenon DEF LeaseIdle, LeaseWorkers
    <3>4. CASE lw' = [LeaseIdle EXCEPT !.pc = "pending", !.lease = l]
      BY <3>4, Zenon DEF LeaseIdle, LeaseWorkers
    <3> QED
      BY <3>1, <3>3, <3>4
  <2> QED
    BY <1>26, <2>1 DEF LeaseStart, instVars, leaseVars, history
<1>27. ASSUME NEW l \in Leases, LeaseMatch(l) PROVE TypeOK'
  <2>1. lw' \in LeaseWorkers
    BY <1>27, ZenonT(30) DEF LeaseMatch, Candidates, Members, Instances, LeaseWorkers
  <2> QED
    BY <1>27, <2>1 DEF LeaseMatch, instVars, leaseVars, history
<1>28. ASSUME NEW l \in Leases, LeaseWait(l) PROVE TypeOK'
  BY <1>28, IdleTypes DEF LeaseWait, instVars, leaseVars, history
<1>29. CASE LeaseCopy
  <2>1. lw' \in LeaseWorkers
    BY <1>29, Zenon DEF LeaseCopy, LeaseWorkers
  <2> QED
    BY <1>29, <2>1 DEF LeaseCopy, instVars, leaseVars, history
<1>30. CASE LeaseCommit
  BY <1>30, IdleTypes DEF LeaseCommit, instVars, leaseVars, history, WorkerInv, LeaseWorkers
<1>31. CASE LeaseRelease
  <2>1. lw' \in LeaseWorkers
    BY <1>31 DEF LeaseRelease, LeaseWorkers
  <2>2. CASE lw.target = None
    BY <1>31, <2>1, <2>2 DEF LeaseRelease, instVars, leaseVars, history
  <2>3. CASE lw.target # None
    <3>1. lw.target \in Names /\ RequestDelete(lw.target)
      BY <1>31, <2>3 DEF LeaseRelease, LeaseWorkers
    <3> QED
      BY <1>31, <2>1, <2>3, <3>1, DeleteType DEF LeaseRelease, WakeAll, instVars, leaseVars, history
  <2> QED
    BY <2>2, <2>3
<1>32. CASE LeaseFinalize
  BY <1>32, IdleTypes DEF LeaseFinalize, RemoveLease, instVars, leaseVars, history, WorkerInv
<1>33. CASE LeaseError
  BY <1>33, IdleTypes DEF LeaseError, instVars, leaseVars, history
<1>34. CASE Crash
  BY <1>34, IdleTypes DEF Crash, instVars, leaseVars, history
<1>35. CASE UNCHANGED vars
  BY <1>35 DEF vars, instVars, leaseVars, history
<1> QED
  BY <1>1, <1>2, <1>3, <1>4, <1>5, <1>6, <1>7, <1>8, <1>9, <1>9r, <1>10, <1>11, <1>12, <1>13, <1>14, <1>15, <1>16, <1>17, <1>18, <1>19, <1>20, <1>21, <1>22, <1>23, <1>24, <1>25, <1>26, <1>27, <1>28, <1>29, <1>30, <1>31, <1>32, <1>33, <1>34, <1>35
 , ZenonT(30) DEF Next, UserStep, InstanceStep, PoolStep, LeaseStep

\* The workers' relation to the mutex and to the leases is preserved.
LEMMA WorkerStep == TypeOK /\ WorkerInv /\ [Next]_vars => WorkerInv'
<1> SUFFICES ASSUME TypeOK, WorkerInv, [Next]_vars PROVE WorkerInv'
  OBVIOUS
<1>a. ASSUME UNCHANGED <<pw, leaseVars, lock>>,
             lw'.pc = lw.pc, lw'.lease = lw.lease, lw'.target = lw.target
      PROVE  WorkerInv'
  BY <1>a DEF WorkerInv, leaseVars, Claimed
<1>b. Names \cap {None} = {}
  BY NoneAssumption DEF Names
<1>1. ASSUME NEW l \in Leases, NEW p \in Pools, CreateLease(l, p) PROVE WorkerInv'
  BY <1>b, <1>1 DEF CreateLease, TypeOK, WorkerInv, Claimed, leaseVars
<1>2. ASSUME NEW l \in Leases, NEW p \in Pools, EditPoolRef(l, p) PROVE WorkerInv'
  BY <1>b, <1>2 DEF EditPoolRef, TouchLease, LeaseWorkers, TypeOK, WorkerInv, Claimed, leaseVars
<1>3. ASSUME NEW l \in Leases, DeleteLease(l) PROVE WorkerInv'
  BY <1>b, <1>3 DEF DeleteLease, RequestLeaseDelete, RemoveLease, TouchLease, LeaseWorkers, TypeOK, WorkerInv, Claimed, leaseVars
<1>4. ASSUME NEW n \in Names, DeleteInstance(n) PROVE WorkerInv'
  BY <1>a, <1>4 DEF DeleteInstance, LeaseWorkers, TypeOK
<1>5. ASSUME NEW n \in Names, CreateStandalone(n) PROVE WorkerInv'
  BY <1>a, <1>5 DEF CreateStandalone
<1>6. ASSUME NEW s \in {"enabled", "disabled", "terminating"}, ChangeNamespace(s) PROVE WorkerInv'
  BY <1>a, <1>6 DEF ChangeNamespace
<1>7. ASSUME NEW n \in Names, AddInstanceFinalizer(n) PROVE WorkerInv'
  BY <1>a, <1>7 DEF AddInstanceFinalizer
<1>8. ASSUME NEW n \in Names, MarkReady(n) PROVE WorkerInv'
  BY <1>a, <1>8 DEF MarkReady
<1>9. ASSUME NEW n \in Names, MarkFailed(n) PROVE WorkerInv'
  BY <1>a, <1>9 DEF MarkFailed
<1>10. ASSUME NEW n \in Names, PublishKubeconfig(n) \/ InvalidateKubeconfig(n) PROVE WorkerInv'
  BY <1>a, <1>10 DEF PublishKubeconfig, InvalidateKubeconfig
<1>9r. ASSUME NEW n \in Names, Retry(n) PROVE WorkerInv'
  BY <1>a, <1>9r DEF Retry
<1>11. ASSUME NEW n \in Names, Demote(n) PROVE WorkerInv'
  BY <1>a, <1>11 DEF Demote
<1>12. ASSUME NEW n \in Names, FinishTeardown(n) PROVE WorkerInv'
  BY <1>a, <1>12 DEF FinishTeardown, LeaseWorkers, TypeOK
<1>13. ASSUME NEW n \in Names, Settle(n) PROVE WorkerInv'
  BY <1>a, <1>13 DEF Settle
<1>14. ASSUME NEW p \in Pools, PoolStart(p) PROVE WorkerInv'
  BY <1>b, <1>14 DEF PoolStart, PoolIdle, TypeOK, WorkerInv, Claimed, leaseVars
<1>15. ASSUME NEW p \in Pools, PoolScaleUp(p) PROVE WorkerInv'
  BY <1>b, <1>15 DEF PoolScaleUp, PoolLocks, PoolWorkers, Names, PoolOf, TypeOK, WorkerInv, Claimed, leaseVars
<1>16. ASSUME NEW p \in Pools, PoolScaleDown(p) PROVE WorkerInv'
  BY <1>b, <1>16 DEF PoolScaleDown, PoolLocks, PoolWorkers, Available, Members, Instances, TypeOK, WorkerInv, Claimed, leaseVars
<1>17. ASSUME NEW p \in Pools, PoolObserve(p) PROVE WorkerInv'
  BY <1>b, <1>17 DEF PoolObserve, PoolLocks, PoolWorkers, TypeOK, WorkerInv, Claimed, leaseVars
<1>18. CASE PoolCreate
  BY <1>b, <1>18 DEF PoolCreate, PoolWorkers, TypeOK, WorkerInv, Claimed, leaseVars
<1>19. CASE PoolCreateExists
  BY <1>b, <1>19 DEF PoolCreateExists, PoolWorkers, TypeOK, WorkerInv, Claimed, leaseVars
<1>20. CASE PoolCreateRejected
  BY <1>b, <1>20 DEF PoolCreateRejected, PoolWorkers, TypeOK, WorkerInv, Claimed, leaseVars
<1>21. CASE PoolTrim
  BY <1>b, <1>21 DEF PoolTrim, PoolWorkers, TypeOK, WorkerInv, Claimed, leaseVars
<1>22. CASE PoolStatus
  BY <1>b, <1>22 DEF PoolStatus, PoolIdle, TypeOK, WorkerInv, Claimed, leaseVars
<1>23. CASE PoolError
  BY <1>b, <1>23 DEF PoolError, PoolIdle, TypeOK, WorkerInv, Claimed, leaseVars
<1>24. ASSUME NEW l \in Leases, LeaseAddFinalizer(l) PROVE WorkerInv'
  BY <1>b, <1>24 DEF LeaseAddFinalizer, TypeOK, WorkerInv, Claimed, leaseVars
<1>25. ASSUME NEW l \in Leases, LeaseExpire(l) PROVE WorkerInv'
  BY <1>b, <1>25 DEF LeaseExpire, RequestLeaseDelete, RemoveLease, TypeOK, WorkerInv, Claimed, leaseVars
<1>26. ASSUME NEW l \in Leases, LeaseStart(l) PROVE WorkerInv'
  <2>1. CASE lw' = [LeaseIdle EXCEPT !.pc = "deleting", !.lease = l, !.target = ref[l]]
    BY <1>26, <2>1 DEF LeaseStart, LeaseIdle, WorkerInv, Claimed, leaseVars
  <2>2. CASE lw' = [LeaseIdle EXCEPT !.pc = "pending", !.lease = l]
    BY <1>26, <2>2 DEF LeaseStart, LeaseIdle, WorkerInv, Claimed, leaseVars
  <2> QED
    BY <1>26, <2>1, <2>2 DEF LeaseStart
<1>27. ASSUME NEW l \in Leases, LeaseMatch(l) PROVE WorkerInv'
  BY <1>b, <1>27 DEF LeaseMatch, Matchable, LeaseWorkers, Candidates, Members, Instances, TypeOK, WorkerInv, Claimed, leaseVars
<1>28. ASSUME NEW l \in Leases, LeaseWait(l) PROVE WorkerInv'
  BY <1>b, <1>28 DEF LeaseWait, LeaseIdle, TypeOK, WorkerInv, Claimed, leaseVars
<1>29. CASE LeaseCopy
  BY <1>b, <1>29 DEF LeaseCopy, LeaseWorkers, TypeOK, WorkerInv, Claimed, leaseVars
<1>30. CASE LeaseCommit
  BY <1>b, <1>30 DEF LeaseCommit, LeaseIdle, TypeOK, WorkerInv, Claimed, leaseVars
<1>31. CASE LeaseRelease
  BY <1>b, <1>31 DEF LeaseRelease, LeaseWorkers, TypeOK, WorkerInv, Claimed, leaseVars
<1>32. CASE LeaseFinalize
  BY <1>b, <1>32 DEF LeaseFinalize, RemoveLease, LeaseIdle, TypeOK, WorkerInv, Claimed, leaseVars
<1>33. CASE LeaseError
  BY <1>b, <1>33 DEF LeaseError, LeaseIdle, TypeOK, WorkerInv, Claimed, leaseVars
<1>34. CASE Crash
  BY <1>b, <1>34 DEF Crash, PoolIdle, LeaseIdle, TypeOK, WorkerInv, Claimed, leaseVars
<1>35. CASE UNCHANGED vars
  BY <1>a, <1>35 DEF vars
<1> QED
  BY <1>1, <1>2, <1>3, <1>4, <1>5, <1>6, <1>7, <1>8, <1>9, <1>9r, <1>10, <1>11, <1>12, <1>13, <1>14, <1>15, <1>16, <1>17, <1>18, <1>19, <1>20, <1>21, <1>22, <1>23, <1>24, <1>25, <1>26, <1>27, <1>28, <1>29, <1>30, <1>31, <1>32, <1>33, <1>34, <1>35
  DEF Next, UserStep, InstanceStep, PoolStep, LeaseStep

\* There are finitely many instance names.
LEMMA NamesFinite == IsFiniteSet(Names)
<1>1. 0 \in Int /\ MaxIndex \in Int
  BY BoundAssumption
<1>2. IsFiniteSet(0..MaxIndex)
  BY <1>1, FS_Interval
<1>3. IsFiniteSet(Pools \X (0..MaxIndex))
  BY <1>2, FiniteAssumption, FS_Product, Zenon
<1> QED
  BY <1>3 DEF Names

\* A pool's instances are finitely many; they are counted in Nat.
LEMMA TotalType == ASSUME NEW p PROVE IsFiniteSet(Members(p)) /\ Total(p) \in Nat
<1>1. Members(p) \subseteq Names
  BY DEF Members, Instances
<1> QED
  BY <1>1, NamesFinite, FS_Subset, FS_CardinalityType DEF Total

\* maxSize is respected by every step: only PoolCreate adds an instance to a
\* pool, and the room it was decided on cannot have been taken meanwhile.
LEMMA SizeStep == TypeOK /\ WorkerInv /\ SizeInv /\ [Next]_vars => SizeInv'
<1> SUFFICES ASSUME TypeOK, WorkerInv, SizeInv, [Next]_vars PROVE SizeInv'
  OBVIOUS
<1>s. \A p \in Pools : PoolSpec[p].maxSize \in Int
  BY PoolSpecAssumption DEF PoolSpecs
<1>a. ASSUME \A p \in Pools : Members(p)' \subseteq Members(p),
             pw'.pc = "create" => pw' = pw
      PROVE  SizeInv'
  <2>1. \A p \in Pools : Total(p) \in Nat /\ Total(p)' \in Nat /\ Total(p)' <= Total(p)
    <3> TAKE p \in Pools
    <3>1. Cardinality(Members(p)') <= Cardinality(Members(p)) /\ IsFiniteSet(Members(p)')
      BY <1>a, TotalType, FS_Subset
    <3> QED
      BY <3>1, TotalType, FS_CardinalityType DEF Total
  <2>2. WithinMaxSize'
    BY <2>1, <1>s DEF SizeInv, WithinMaxSize, Larger
  <2>3. ASSUME pw'.pc = "create" PROVE RoomOf(pw.pool)' > 0
    BY <1>a, <1>s, <2>1, <2>3 DEF SizeInv, WorkerInv, RoomOf, Room
  <2> QED
    BY <1>a, <2>2, <2>3 DEF SizeInv
<1>b. ASSUME UNCHANGED <<phase, standalone>> PROVE \A p \in Pools : Members(p)' = Members(p)
  BY <1>b DEF Members, Instances, Exists
<1>c. ASSUME NEW n \in Names, RemoveInstance(n) PROVE \A p \in Pools : Members(p)' \subseteq Members(p)
  BY <1>c DEF TypeOK, RemoveInstance, Members, Instances, Exists
<1>d. ASSUME NEW n \in Names, RequestDelete(n) PROVE \A p \in Pools : Members(p)' \subseteq Members(p)
  <2>1. CASE Exists(n) /\ n \notin instFin
    BY <1>c, <1>d, <2>1 DEF RequestDelete
  <2>2. CASE ~(Exists(n) /\ n \notin instFin)
    BY <1>b, <1>d, <2>2 DEF RequestDelete
  <2> QED
    BY <2>1, <2>2
<1>e. ASSUME NEW n \in Names, Exists(n), NEW v, v # "Absent",
             phase' = [phase EXCEPT ![n] = v], UNCHANGED standalone
      PROVE  \A p \in Pools : Members(p)' = Members(p)
  BY <1>e DEF TypeOK, Members, Instances, Exists
<1>1. ASSUME NEW l \in Leases, NEW p \in Pools, CreateLease(l, p) PROVE SizeInv'
  BY <1>a, <1>b, <1>1 DEF CreateLease, instVars
<1>2. ASSUME NEW l \in Leases, NEW p \in Pools, EditPoolRef(l, p) PROVE SizeInv'
  BY <1>a, <1>b, <1>2 DEF EditPoolRef, instVars
<1>3. ASSUME NEW l \in Leases, DeleteLease(l) PROVE SizeInv'
  BY <1>a, <1>b, <1>3 DEF DeleteLease, instVars
<1>4. ASSUME NEW n \in Names, DeleteInstance(n) PROVE SizeInv'
  BY <1>a, <1>d, <1>4 DEF DeleteInstance
<1>5. ASSUME NEW n \in Names, CreateStandalone(n) PROVE SizeInv'
  <2>1. \A p \in Pools : Members(p)' = Members(p)
    BY <1>5 DEF CreateStandalone, TypeOK, Members, Instances, Exists
  <2> QED
    BY <1>a, <1>5, <2>1 DEF CreateStandalone
<1>6. ASSUME NEW s \in {"enabled", "disabled", "terminating"}, ChangeNamespace(s) PROVE SizeInv'
  BY <1>a, <1>b, <1>6 DEF ChangeNamespace, instVars
<1>7. ASSUME NEW n \in Names, AddInstanceFinalizer(n) PROVE SizeInv'
  BY <1>a, <1>b, <1>7 DEF AddInstanceFinalizer
<1>8. ASSUME NEW n \in Names, MarkReady(n) PROVE SizeInv'
  BY <1>a, <1>e, <1>8, Zenon DEF MarkReady, Exists
<1>9. ASSUME NEW n \in Names, MarkFailed(n) PROVE SizeInv'
  BY <1>a, <1>e, <1>9, Zenon DEF MarkFailed, Exists
<1>10. ASSUME NEW n \in Names, PublishKubeconfig(n) \/ InvalidateKubeconfig(n) PROVE SizeInv'
  BY <1>a, <1>b, <1>10 DEF PublishKubeconfig, InvalidateKubeconfig
<1>9r. ASSUME NEW n \in Names, Retry(n) PROVE SizeInv'
  BY <1>a, <1>e, <1>9r, Zenon DEF Retry, Exists
<1>11. ASSUME NEW n \in Names, Demote(n) PROVE SizeInv'
  BY <1>a, <1>e, <1>11, Zenon DEF Demote, Exists
<1>12. ASSUME NEW n \in Names, FinishTeardown(n) PROVE SizeInv'
  BY <1>a, <1>c, <1>12 DEF FinishTeardown
<1>13. ASSUME NEW n \in Names, Settle(n) PROVE SizeInv'
  BY <1>a, <1>b, <1>13 DEF Settle
<1>14. ASSUME NEW p \in Pools, PoolStart(p) PROVE SizeInv'
  BY <1>a, <1>b, <1>14 DEF PoolStart, instVars, PoolIdle
<1>15. ASSUME NEW p \in Pools, PoolScaleUp(p) PROVE SizeInv'
  <2>1. \A q \in Pools : Total(q)' = Total(q)
    BY <1>b, <1>15 DEF PoolScaleUp, instVars, Total
  <2>2. pw'.pool = p /\ RoomOf(p) > 0
    BY <1>15 DEF PoolScaleUp, PoolLocks, Growing, TypeOK, PoolWorkers
  <2> QED
    BY <2>1, <2>2 DEF SizeInv, WithinMaxSize, RoomOf
<1>16. ASSUME NEW p \in Pools, PoolScaleDown(p) PROVE SizeInv'
  BY <1>a, <1>b, <1>16 DEF PoolScaleDown, instVars, TypeOK, PoolWorkers
<1>17. ASSUME NEW p \in Pools, PoolObserve(p) PROVE SizeInv'
  BY <1>a, <1>b, <1>17 DEF PoolObserve, instVars, TypeOK, PoolWorkers
<1>18. CASE PoolCreate
  <2>0. PICK q \in Pools : q = pw.pool
    BY <1>18 DEF PoolCreate, WorkerInv
  <2>1. pw.target \in Names /\ PoolOf(pw.target) = q /\ RoomOf(q) > 0
    BY <1>18, <2>0 DEF PoolCreate, WorkerInv, SizeInv
  <2>2. pw'.pc # "create"
    BY <1>18 DEF PoolCreate, TypeOK, PoolWorkers
  <2>3. ASSUME NEW p \in Pools, p # q PROVE Members(p)' = Members(p)
    BY <1>18, <2>1, <2>3 DEF PoolCreate, TypeOK, Members, Instances, Exists
  <2>4. Members(q)' \subseteq Members(q) \cup {pw.target}
    BY <1>18, <2>1 DEF PoolCreate, TypeOK, Members, Instances, Exists
  <2>5. Total(q)' <= Total(q) + 1 /\ Total(q)' \in Nat
    <3>1. /\ IsFiniteSet(Members(q) \cup {pw.target})
          /\ Cardinality(Members(q) \cup {pw.target}) <= Cardinality(Members(q)) + 1
      <4>1. /\ IsFiniteSet(Members(q) \cup {pw.target})
            /\ \/ Cardinality(Members(q) \cup {pw.target}) = Cardinality(Members(q))
               \/ Cardinality(Members(q) \cup {pw.target}) = Cardinality(Members(q)) + 1
        BY TotalType, FS_AddElement, Zenon
      <4> QED
        BY <4>1, TotalType DEF Total
    <3>2. IsFiniteSet(Members(q)') /\ Cardinality(Members(q)') <= Cardinality(Members(q) \cup {pw.target})
      BY <2>4, <3>1, FS_Subset
    <3> QED
      BY <3>1, <3>2, TotalType, FS_CardinalityType DEF Total
  <2>6. Total(q)' <= PoolSpec[q].maxSize
    BY <1>s, <2>1, <2>5, TotalType DEF RoomOf, Room
  <2>7. \A p \in Pools : Total(p)' <= Larger(PoolSpec[p].maxSize, 0)
    <3> TAKE p \in Pools
    <3>1. CASE p = q
      BY <1>s, <2>5, <2>6, <3>1 DEF Larger
    <3>2. CASE p # q
      BY <2>3, <3>2 DEF SizeInv, WithinMaxSize, Total
    <3> QED
      BY <3>1, <3>2
  <2> QED
    BY <2>2, <2>7 DEF SizeInv, WithinMaxSize
<1>19. CASE PoolCreateExists
  BY <1>a, <1>b, <1>19 DEF PoolCreateExists, instVars, TypeOK, PoolWorkers
<1>20. CASE PoolCreateRejected
  BY <1>a, <1>b, <1>20 DEF PoolCreateRejected, instVars, TypeOK, PoolWorkers
<1>21. CASE PoolTrim
  BY <1>a, <1>d, <1>21 DEF PoolTrim, WorkerInv, TypeOK, PoolWorkers
<1>22. CASE PoolStatus
  BY <1>a, <1>b, <1>22 DEF PoolStatus, instVars, PoolIdle
<1>23. CASE PoolError
  BY <1>a, <1>b, <1>23 DEF PoolError, instVars, PoolIdle
<1>24. ASSUME NEW l \in Leases, LeaseAddFinalizer(l) PROVE SizeInv'
  BY <1>a, <1>b, <1>24 DEF LeaseAddFinalizer, instVars
<1>25. ASSUME NEW l \in Leases, LeaseExpire(l) PROVE SizeInv'
  BY <1>a, <1>b, <1>25 DEF LeaseExpire, instVars
<1>26. ASSUME NEW l \in Leases, LeaseStart(l) PROVE SizeInv'
  BY <1>a, <1>b, <1>26 DEF LeaseStart, instVars
<1>27. ASSUME NEW l \in Leases, LeaseMatch(l) PROVE SizeInv'
  BY <1>a, <1>b, <1>27 DEF LeaseMatch, instVars
<1>28. ASSUME NEW l \in Leases, LeaseWait(l) PROVE SizeInv'
  BY <1>a, <1>b, <1>28 DEF LeaseWait, instVars
<1>29. CASE LeaseCopy
  BY <1>a, <1>b, <1>29 DEF LeaseCopy, instVars
<1>30. CASE LeaseCommit
  BY <1>a, <1>b, <1>30 DEF LeaseCommit, instVars
<1>31. CASE LeaseRelease
  <2>1. CASE lw.target = None
    BY <1>a, <1>b, <1>31, <2>1 DEF LeaseRelease, instVars
  <2>2. CASE lw.target # None
    BY <1>a, <1>d, <1>31, <2>2 DEF LeaseRelease, TypeOK, LeaseWorkers
  <2> QED
    BY <2>1, <2>2
<1>32. CASE LeaseFinalize
  BY <1>a, <1>b, <1>32 DEF LeaseFinalize, instVars
<1>33. CASE LeaseError
  BY <1>a, <1>b, <1>33 DEF LeaseError, instVars
<1>34. CASE Crash
  BY <1>a, <1>b, <1>34 DEF Crash, instVars, PoolIdle
<1>35. CASE UNCHANGED vars
  BY <1>a, <1>b, <1>35 DEF vars, instVars
<1> QED
  BY <1>1, <1>2, <1>3, <1>4, <1>5, <1>6, <1>7, <1>8, <1>9, <1>9r, <1>10, <1>11, <1>12, <1>13, <1>14, <1>15, <1>16, <1>17, <1>18, <1>19, <1>20, <1>21, <1>22, <1>23, <1>24, <1>25, <1>26, <1>27, <1>28, <1>29, <1>30, <1>31, <1>32, <1>33, <1>34, <1>35
  DEF Next, UserStep, InstanceStep, PoolStep, LeaseStep

\* Claims stay exclusive and single-use, as long as nobody edits a poolRef: a
\* candidate is checked against the claims of its own pool only.
LEMMA ClaimStep ==
  ASSUME "editPool" \notin Env
  PROVE  TypeOK /\ WorkerInv /\ ClaimInv /\ [Next]_vars => ClaimInv'
<1> SUFFICES ASSUME TypeOK, WorkerInv, ClaimInv, [Next]_vars PROVE ClaimInv'
  OBVIOUS
<1>n. None \notin Names /\ None \notin leased
  BY NoneAssumption DEF Names, TypeOK
<1> DEFINE Gone(n) == n \in Instances /\ n \notin Instances'
           SameWork == lw'.pc = lw.pc /\ lw'.lease = lw.lease /\ lw'.target = lw.target /\ lw'.copy \in {lw.copy, "gone"}
<1>a. ASSUME UNCHANGED <<lpool, ref>>, leased' \subseteq leased, deleting \cap leased' \subseteq deleting',
             SameWork \/ lw'.pc \notin {"matched", "copied", "released"},
             \A n \in Names : Gone(n) => n \notin leased' /\ ~(lw'.pc = "copied" /\ lw'.copy = "current" /\ lw'.target = n)
      PROVE  ClaimInv'
  <2>1. ExclusiveBinding' /\ Claimed' = Claimed
    BY <1>a DEF ClaimInv, ExclusiveBinding, Claimed
  <2>2. leased' \subseteq Instances' \cap (deleting' \cup Claimed')
    BY <1>a, <2>1 DEF ClaimInv, Instances
  <2>3. lw'.pc = "copied" /\ lw'.copy = "current" => lw'.target \in Instances'
    BY <1>a DEF ClaimInv, Instances
  <2>4. lw'.pc \in {"matched", "copied"} =>
          lw'.target \notin Claimed' \cup leased' /\ PoolOf(lw'.target) = lpool'[lw'.lease]
    BY <1>a, <2>1 DEF ClaimInv
  <2>5. lw'.pc = "released" /\ lw'.target \in leased' => lw'.target \in deleting'
    BY <1>a DEF ClaimInv
  <2>6. (\A l \in Leases : ref[l] # None => PoolOf(ref[l]) = lpool[l])'
    BY <1>a DEF ClaimInv
  <2> QED
    BY <2>1, <2>2, <2>3, <2>4, <2>5, <2>6 DEF ClaimInv
<1>b. ASSUME UNCHANGED phase PROVE \A n : ~Gone(n)
  BY <1>b DEF Instances, Exists
<1>c. ASSUME NEW n \in Names, RequestDelete(n)
      PROVE  /\ leased' \subseteq leased /\ deleting \cap leased' \subseteq deleting'
             /\ n \in leased' => n \in deleting'
             /\ \A m \in Names : Gone(m) => m = n /\ n \notin leased' /\ n \notin instFin
  <2>1. CASE Exists(n) /\ n \notin instFin
    BY <1>c, <2>1 DEF RequestDelete, RemoveInstance, Instances, Exists, TypeOK
  <2>2. CASE Exists(n) /\ n \in instFin
    BY <1>b, <1>c, <2>2 DEF RequestDelete, history
  <2>3. CASE ~Exists(n)
    BY <1>b, <1>c, <2>3 DEF RequestDelete, history, ClaimInv, Instances
  <2> QED
    BY <2>1, <2>2, <2>3
<1>d. ASSUME NEW n \in Names, NEW v, v # "Absent", phase' = [phase EXCEPT ![n] = v] PROVE \A m : ~Gone(m)
  BY <1>d DEF Instances, Exists, TypeOK
<1>1. ASSUME NEW l \in Leases, NEW p \in Pools, CreateLease(l, p) PROVE ClaimInv'
  <2>1. l \notin leaseFin /\ ref[l] = None
    BY <1>1 DEF CreateLease, WorkerInv
  <2>2. /\ UNCHANGED <<ref, lw, leased, deleting, phase>> /\ lpool' = [lpool EXCEPT ![l] = p]
        /\ Claimed' = Claimed /\ Instances' = Instances
    BY <1>1 DEF CreateLease, Claimed, Instances, Exists, instVars, history
  <2>3. \A k \in Leases : k # l => lpool'[k] = lpool[k]
    BY <2>2 DEF TypeOK
  <2>4. lw.pc \in {"matched", "copied"} => lw.lease \in Leases /\ lw.lease # l
    BY <2>1 DEF TypeOK, WorkerInv
  <2>5. (\A k \in Leases : ref[k] # None => PoolOf(ref[k]) = lpool[k])'
    BY <2>1, <2>2, <2>3 DEF ClaimInv
  <2> QED
    BY <2>2, <2>3, <2>4, <2>5 DEF ClaimInv, ExclusiveBinding
<1>2. ASSUME NEW l \in Leases, NEW p \in Pools, EditPoolRef(l, p) PROVE ClaimInv'
  BY <1>2 DEF EditPoolRef
<1>3. ASSUME NEW l \in Leases, DeleteLease(l) PROVE ClaimInv'
  <2>1. UNCHANGED <<lpool, ref, leased>>
    <3>1. RequestLeaseDelete(l)
      BY <1>3 DEF DeleteLease
    <3>2. CASE l \in leaseFin
      BY <3>1, <3>2 DEF RequestLeaseDelete, history
    <3>3. CASE l \notin leaseFin
      <4>1. ref[l] = None
        BY <3>3 DEF WorkerInv
      <4> QED
        BY <3>1, <3>3, <4>1 DEF RequestLeaseDelete, RemoveLease, TypeOK
    <3> QED
      BY <3>2, <3>3
  <2> QED
    BY <1>a, <1>b, <1>3, <2>1 DEF DeleteLease, TouchLease, instVars, TypeOK, LeaseWorkers
<1>4. ASSUME NEW n \in Names, DeleteInstance(n) PROVE ClaimInv'
  <2>1. CASE n \in instFin
    BY <1>a, <1>c, <1>4, <2>1 DEF DeleteInstance, leaseVars
  <2>2. CASE n \notin instFin
    <3>1. /\ lw'.pc = lw.pc /\ lw'.lease = lw.lease /\ lw'.target = lw.target
          /\ lw'.copy = CopyAfterRemoval(n)
      BY <1>4, <2>2 DEF DeleteInstance, TypeOK, LeaseWorkers
    <3>2. SameWork /\ ~(lw'.copy = "current" /\ lw'.target = n)
      BY <3>1 DEF CopyAfterRemoval
    <3> QED
      BY <1>a, <1>c, <1>4, <3>1, <3>2 DEF DeleteInstance, leaseVars
  <2> QED
    BY <2>1, <2>2
<1>5. ASSUME NEW n \in Names, CreateStandalone(n) PROVE ClaimInv'
  BY <1>a, <1>d, <1>5, Zenon DEF CreateStandalone, leaseVars, history
<1>6. ASSUME NEW s \in {"enabled", "disabled", "terminating"}, ChangeNamespace(s) PROVE ClaimInv'
  BY <1>a, <1>b, <1>6 DEF ChangeNamespace, instVars, leaseVars, history
<1>7. ASSUME NEW n \in Names, AddInstanceFinalizer(n) PROVE ClaimInv'
  BY <1>a, <1>b, <1>7 DEF AddInstanceFinalizer, leaseVars, history
<1>8. ASSUME NEW n \in Names, MarkReady(n) PROVE ClaimInv'
  BY <1>a, <1>d, <1>8, Zenon DEF MarkReady, leaseVars, history
<1>9. ASSUME NEW n \in Names, MarkFailed(n) PROVE ClaimInv'
  BY <1>a, <1>d, <1>9, Zenon DEF MarkFailed, leaseVars, history
<1>10. ASSUME NEW n \in Names, PublishKubeconfig(n) \/ InvalidateKubeconfig(n) PROVE ClaimInv'
  BY <1>a, <1>b, <1>10 DEF PublishKubeconfig, InvalidateKubeconfig, leaseVars, history
<1>9r. ASSUME NEW n \in Names, Retry(n) PROVE ClaimInv'
  BY <1>a, <1>d, <1>9r, Zenon DEF Retry, leaseVars, history
<1>11. ASSUME NEW n \in Names, Demote(n) PROVE ClaimInv'
  BY <1>a, <1>d, <1>11, Zenon DEF Demote, leaseVars, history
<1>12. ASSUME NEW n \in Names, FinishTeardown(n) PROVE ClaimInv'
  <2>1. /\ lw'.pc = lw.pc /\ lw'.lease = lw.lease /\ lw'.target = lw.target
        /\ lw'.copy = CopyAfterRemoval(n)
    BY <1>12 DEF FinishTeardown, TypeOK, LeaseWorkers
  <2>2. SameWork /\ ~(lw'.copy = "current" /\ lw'.target = n)
    BY <2>1 DEF CopyAfterRemoval
  <2>3. \A m \in Names : Gone(m) => m = n
    BY <1>12 DEF FinishTeardown, RemoveInstance, Instances, Exists, TypeOK
  <2> QED
    BY <1>a, <1>12, <2>1, <2>2, <2>3 DEF FinishTeardown, RemoveInstance, leaseVars
<1>13. ASSUME NEW n \in Names, Settle(n) PROVE ClaimInv'
  BY <1>a, <1>b, <1>13 DEF Settle, leaseVars, history
<1>14. ASSUME NEW p \in Pools, PoolStart(p) PROVE ClaimInv'
  BY <1>a, <1>b, <1>14 DEF PoolStart, instVars, leaseVars, history
<1>15. ASSUME NEW p \in Pools, PoolScaleUp(p) PROVE ClaimInv'
  BY <1>a, <1>b, <1>15 DEF PoolScaleUp, instVars, leaseVars, history
<1>16. ASSUME NEW p \in Pools, PoolScaleDown(p) PROVE ClaimInv'
  BY <1>a, <1>b, <1>16 DEF PoolScaleDown, instVars, leaseVars, history
<1>17. ASSUME NEW p \in Pools, PoolObserve(p) PROVE ClaimInv'
  BY <1>a, <1>b, <1>17 DEF PoolObserve, instVars, leaseVars, history
<1>18. CASE PoolCreate
  BY <1>a, <1>d, <1>18, ZenonT(30) DEF PoolCreate, leaseVars, history, WorkerInv
<1>19. CASE PoolCreateExists
  BY <1>a, <1>b, <1>19 DEF PoolCreateExists, instVars, leaseVars, history
<1>20. CASE PoolCreateRejected
  BY <1>a, <1>b, <1>20 DEF PoolCreateRejected, instVars, leaseVars, history
<1>21. CASE PoolTrim
  <2>1. pw.target \in Names /\ lw.pc # "copied"
    BY <1>21 DEF PoolTrim, WorkerInv
  <2> QED
    BY <1>a, <1>c, <1>21, <2>1 DEF PoolTrim, leaseVars
<1>22. CASE PoolStatus
  BY <1>a, <1>b, <1>22 DEF PoolStatus, instVars, leaseVars, history
<1>23. CASE PoolError
  BY <1>a, <1>b, <1>23 DEF PoolError, instVars, leaseVars, history
<1>24. ASSUME NEW l \in Leases, LeaseAddFinalizer(l) PROVE ClaimInv'
  BY <1>a, <1>b, <1>24 DEF LeaseAddFinalizer, instVars, history
<1>25. ASSUME NEW l \in Leases, LeaseExpire(l) PROVE ClaimInv'
  BY <1>a, <1>b, <1>25 DEF LeaseExpire, instVars, history, RequestLeaseDelete
<1>26. ASSUME NEW l \in Leases, LeaseStart(l) PROVE ClaimInv'
  BY <1>a, <1>b, <1>26, Zenon DEF LeaseStart, instVars, leaseVars, history, LeaseIdle
<1>27. ASSUME NEW l \in Leases, LeaseMatch(l) PROVE ClaimInv'
  <2>1. PICK n \in Candidates(l) : lw' = [lw EXCEPT !.pc = "matched", !.target = n, !.version = "current"]
    BY <1>27, Zenon DEF LeaseMatch
  <2>2. lw'.pc = "matched" /\ lw'.target = n /\ lw'.lease = l
    BY <1>27, <2>1, ZenonT(30) DEF LeaseMatch, TypeOK, LeaseWorkers
  <2>3. n \in Names /\ PoolOf(n) = lpool[l] /\ n \notin deleting /\ n \notin ClaimedInPool(lpool[l])
    BY <2>1 DEF Candidates, Members, Instances
  <2>4. n \notin Claimed
    BY <1>n, <2>3 DEF Claimed, ClaimedInPool, ClaimInv
  <2>5. n \notin leased
    BY <2>3, <2>4 DEF ClaimInv
  <2> QED
    BY <1>27, <2>2, <2>3, <2>4, <2>5
    DEF LeaseMatch, ClaimInv, ExclusiveBinding, Claimed, Instances, Exists, instVars, leaseVars, history
<1>28. ASSUME NEW l \in Leases, LeaseWait(l) PROVE ClaimInv'
  BY <1>a, <1>b, <1>28 DEF LeaseWait, instVars, leaseVars, history, LeaseIdle
<1>29. CASE LeaseCopy
  <2>1. lw.pc = "matched" /\ lw'.pc = "copied" /\ lw'.lease = lw.lease /\ lw'.target = lw.target
    BY <1>29 DEF LeaseCopy, TypeOK, LeaseWorkers
  <2>2. lw.target \in Names
    BY <2>1 DEF WorkerInv
  <2>3. lw'.copy = "current" => Exists(lw.target)
    BY <1>29 DEF LeaseCopy, TypeOK, LeaseWorkers
  <2> QED
    BY <1>29, <2>1, <2>2, <2>3
    DEF LeaseCopy, ClaimInv, ExclusiveBinding, Claimed, Instances, Exists, instVars, leaseVars, history
<1>30. CASE LeaseCommit
  <2>1. /\ lw.lease \in Leases /\ lw.target \in Names /\ ref[lw.lease] = None
        /\ lw.target \notin Claimed /\ PoolOf(lw.target) = lpool[lw.lease]
    BY <1>30 DEF LeaseCommit, TypeOK, WorkerInv, ClaimInv
  <2>2. /\ ref' = [ref EXCEPT ![lw.lease] = lw.target] /\ lw'.pc = "idle"
        /\ UNCHANGED <<lpool, deleting, phase>>
        /\ leased' \subseteq leased \cup {lw.target}
        /\ lw.target \in leased' \ leased => lw.target \in Instances
    BY <1>30 DEF LeaseCommit, LeaseIdle, instVars, ClaimInv
  <2>3. Claimed' = Claimed \cup {lw.target}
    BY <1>n, <2>1, <2>2 DEF TypeOK, Claimed
  <2>4. leased' \subseteq Instances' \cap (deleting' \cup Claimed')
    BY <2>2, <2>3 DEF ClaimInv, Instances, Exists
  <2>5. ExclusiveBinding'
    BY <2>1, <2>2 DEF ClaimInv, TypeOK, ExclusiveBinding, Claimed
  <2>6. (\A l \in Leases : ref[l] # None => PoolOf(ref[l]) = lpool[l])'
    BY <2>1, <2>2 DEF ClaimInv, TypeOK
  <2> QED
    BY <2>2, <2>4, <2>5, <2>6 DEF ClaimInv
<1>31. CASE LeaseRelease
  <2>1. lw'.pc = "released" /\ lw'.target = lw.target /\ lw'.copy = lw.copy
    BY <1>31 DEF LeaseRelease, TypeOK, LeaseWorkers
  <2>2. /\ leased' \subseteq leased /\ deleting \cap leased' \subseteq deleting'
        /\ lw.target \in leased' => lw.target \in deleting'
        /\ \A m \in Names : Gone(m) => m \notin leased'
    <3>1. CASE lw.target = None
      BY <1>b, <1>n, <1>31, <3>1 DEF LeaseRelease, instVars, history
    <3>2. CASE lw.target # None
      BY <1>c, <1>31, <3>2 DEF LeaseRelease, TypeOK, LeaseWorkers
    <3> QED
      BY <3>1, <3>2
  <2>3. leased' \subseteq Instances'
    BY <2>2 DEF ClaimInv, Instances
  <2> QED
    BY <1>31, <2>1, <2>2, <2>3 DEF LeaseRelease, ClaimInv, ExclusiveBinding, Claimed, leaseVars
<1>32. CASE LeaseFinalize
  <2>1. lw.lease \in Leases /\ (ref[lw.lease] \in leased => ref[lw.lease] \in deleting)
    BY <1>32 DEF LeaseFinalize, TypeOK, WorkerInv, ClaimInv
  <2>2. /\ ref' = [ref EXCEPT ![lw.lease] = None] /\ lw'.pc = "idle"
        /\ UNCHANGED <<lpool, leased, deleting, phase>>
    BY <1>32, ZenonT(30) DEF LeaseFinalize, RemoveLease, LeaseIdle, instVars
  <2>3. leased' \subseteq Instances' \cap (deleting' \cup Claimed')
    <3>1. Instances' = Instances /\ leased' = leased /\ deleting' = deleting
      BY <2>2 DEF Instances, Exists
    <3>2. ASSUME NEW n \in leased, n \in Claimed PROVE n \in deleting \/ n \in Claimed'
      <4>1. PICK l \in Leases : ref[l] = n
        BY <3>2 DEF Claimed
      <4>2. CASE l = lw.lease
        BY <2>1, <4>1, <4>2
      <4>3. CASE l # lw.lease
        <5>1. ref'[l] = n
          BY <2>2, <4>1, <4>3 DEF TypeOK
        <5> QED
          BY <1>n, <5>1 DEF Claimed
      <4> QED
        BY <4>2, <4>3
    <3> QED
      BY <3>1, <3>2 DEF ClaimInv
  <2> QED
    BY <2>1, <2>2, <2>3 DEF ClaimInv, TypeOK, ExclusiveBinding
<1>33. CASE LeaseError
  BY <1>a, <1>b, <1>33 DEF LeaseError, instVars, leaseVars, history, LeaseIdle
<1>34. CASE Crash
  BY <1>a, <1>b, <1>34 DEF Crash, instVars, leaseVars, history, LeaseIdle
<1>35. CASE UNCHANGED vars
  BY <1>a, <1>b, <1>35 DEF vars, instVars, leaseVars, history
<1> QED
  BY <1>1, <1>2, <1>3, <1>4, <1>5, <1>6, <1>7, <1>8, <1>9, <1>9r, <1>10, <1>11, <1>12, <1>13, <1>14, <1>15, <1>16, <1>17, <1>18, <1>19, <1>20, <1>21, <1>22, <1>23, <1>24, <1>25, <1>26, <1>27, <1>28, <1>29, <1>30, <1>31, <1>32, <1>33, <1>34, <1>35
  DEF Next, UserStep, InstanceStep, PoolStep, LeaseStep

-----------------------------------------------------------------------------
\* A delete request leaves every finalizer in place, and what it removes at
\* once had nothing to lose.
LEMMA DeleteKeepsHolds ==
  ASSUME TypeOK, HoldInv, NEW n \in Names, RequestDelete(n), UNCHANGED ref
  PROVE  /\ \A l \in holds' : ref'[l] # None /\ ref'[l] \in leased'
         /\ leased' \cup kubeconfig' \subseteq instFin'
         /\ instFin' \subseteq Instances'
         /\ instFin' = instFin
<1>1. CASE Exists(n) /\ n \notin instFin
  <2>1. RemoveInstance(n)
    BY <1>1 DEF RequestDelete
  <2>2. instFin' = instFin /\ leased' = leased /\ kubeconfig' = kubeconfig /\ holds' \subseteq holds
    BY <1>1, <2>1 DEF RemoveInstance, HoldInv
  <2>3. instFin \subseteq Instances'
    BY <1>1, <2>1 DEF RemoveInstance, HoldInv, Instances, Exists, TypeOK
  <2> QED
    BY <2>2, <2>3 DEF HoldInv
<1>2. CASE ~(Exists(n) /\ n \notin instFin)
  <2>1. UNCHANGED <<phase, instFin, kubeconfig, leased, holds>>
    BY <1>2 DEF RequestDelete, history
  <2> QED
    BY <2>1 DEF HoldInv, Instances, Exists
<1> QED
  BY <1>1, <1>2

\* Every step keeps the finalizer on whatever a lease uses, or is about to.
LEMMA HoldStep == TypeOK /\ WorkerInv /\ HoldInv /\ [Next]_vars => HoldInv'
<1> SUFFICES ASSUME TypeOK, WorkerInv, HoldInv, [Next]_vars PROVE HoldInv'
  OBVIOUS
<1> DEFINE SameCopy == lw'.pc = lw.pc /\ lw'.target = lw.target /\ lw'.copy \in {lw.copy, "gone"}
           Apart == SameCopy \/ lw'.pc # "copied"
<1>a. ASSUME UNCHANGED <<ref, leased, holds>>, kubeconfig' \subseteq instFin', instFin \subseteq instFin',
             instFin' \subseteq Instances', Apart
      PROVE  HoldInv'
  BY <1>a DEF HoldInv
<1>b. ASSUME UNCHANGED <<phase, instFin, kubeconfig, ref, leased, holds>>, Apart PROVE HoldInv'
  BY <1>a, <1>b DEF HoldInv, Instances, Exists
<1>c. ASSUME NEW n \in Names, RequestDelete(n), UNCHANGED ref, Apart PROVE HoldInv'
  BY <1>c, DeleteKeepsHolds DEF HoldInv
<1>d. ASSUME NEW n \in Names, NEW v \in {"Provisioning", "Ready", "Failed"}, phase' = [phase EXCEPT ![n] = v]
      PROVE  Instances' = Instances \cup {n}
  BY <1>d DEF Instances, Exists, TypeOK
<1>e. ASSUME NEW l \in Leases, RequestLeaseDelete(l), UNCHANGED <<instVars>>, Apart PROVE HoldInv'
  <2>1. CASE l \in leaseFin
    BY <1>b, <1>e, <2>1 DEF RequestLeaseDelete, history, instVars
  <2>2. CASE l \notin leaseFin
    <3>1. ref' = [ref EXCEPT ![l] = None] /\ holds' = holds \ {l} /\ leased' = leased
      BY <1>e, <2>2 DEF RequestLeaseDelete, RemoveLease
    <3>2. UNCHANGED <<phase, instFin, kubeconfig>>
      BY <1>e DEF instVars
    <3> QED
      BY <1>e, <3>1, <3>2 DEF HoldInv, TypeOK, Instances, Exists
  <2> QED
    BY <2>1, <2>2
<1>1. CASE UserStep
  <2>1. ASSUME NEW l \in Leases, NEW p \in Pools, CreateLease(l, p) \/ EditPoolRef(l, p) PROVE HoldInv'
    BY <1>b, <2>1 DEF CreateLease, EditPoolRef, TouchLease, instVars, history, TypeOK, LeaseWorkers
  <2>2. ASSUME NEW l \in Leases, DeleteLease(l) PROVE HoldInv'
    BY <1>e, <2>2 DEF DeleteLease, TouchLease, TypeOK, LeaseWorkers
  <2>3. ASSUME NEW n \in Names, DeleteInstance(n) PROVE HoldInv'
    <3>1. SameCopy
      BY <2>3 DEF DeleteInstance, CopyAfterRemoval, TypeOK, LeaseWorkers
    <3> QED
      BY <1>c, <2>3, <3>1 DEF DeleteInstance, leaseVars
  <2>4. ASSUME NEW n \in Names, CreateStandalone(n) PROVE HoldInv'
    BY <1>a, <1>d, <2>4, ZenonT(30) DEF CreateStandalone, leaseVars, history, HoldInv
  <2>5. ASSUME NEW s, ChangeNamespace(s) PROVE HoldInv'
    BY <1>b, <2>5 DEF ChangeNamespace, instVars, leaseVars, history
  <2> QED
    BY <1>1, <2>1, <2>2, <2>3, <2>4, <2>5 DEF UserStep
<1>2. CASE InstanceStep
  <2> SUFFICES ASSUME NEW n \in Names,
                      \/ AddInstanceFinalizer(n) \/ MarkReady(n) \/ MarkFailed(n) \/ Retry(n)
                      \/ PublishKubeconfig(n) \/ InvalidateKubeconfig(n) \/ Demote(n) \/ FinishTeardown(n) \/ Settle(n)
               PROVE  HoldInv'
    BY <1>2 DEF InstanceStep
  <2>1. CASE AddInstanceFinalizer(n)
    BY <1>a, <2>1, ZenonT(30) DEF AddInstanceFinalizer, leaseVars, history, HoldInv, Instances, Exists
  <2>2. CASE MarkReady(n) \/ MarkFailed(n) \/ Retry(n) \/ Demote(n)
    <3>1. Instances' = Instances \cup {n}
      BY <1>d, <2>2 DEF MarkReady, MarkFailed, Retry, Demote
    <3> QED
      BY <1>a, <2>2, <3>1, ZenonT(30) DEF MarkReady, MarkFailed, Retry, Demote, leaseVars, history, HoldInv
  <2>3. CASE PublishKubeconfig(n) \/ InvalidateKubeconfig(n)
    BY <1>a, <2>3, ZenonT(30) DEF PublishKubeconfig, InvalidateKubeconfig, leaseVars, history, HoldInv, Instances, Exists
  <2>4. CASE FinishTeardown(n)
    <3>1. /\ instFin' = instFin \ {n} /\ leased' = leased \ {n} /\ kubeconfig' = kubeconfig \ {n}
          /\ holds' = {l \in holds : ref[l] # n} /\ ref' = ref
      BY <2>4 DEF FinishTeardown, RemoveInstance, leaseVars
    <3>2. Instances' = Instances \ {n}
      BY <2>4 DEF FinishTeardown, RemoveInstance, Instances, Exists, TypeOK
    <3>3. lw'.pc = "copied" /\ lw'.copy = "current" =>
            lw.pc = "copied" /\ lw.copy = "current" /\ lw'.target = lw.target /\ lw.target # n
      BY <2>4 DEF FinishTeardown, CopyAfterRemoval, TypeOK, LeaseWorkers
    <3> QED
      BY <3>1, <3>2, <3>3 DEF HoldInv
  <2>5. CASE Settle(n)
    BY <1>b, <2>5 DEF Settle, leaseVars, history
  <2> QED
    BY <2>1, <2>2, <2>3, <2>4, <2>5
<1>3. CASE PoolStep
  <2>1. CASE PoolCreate
    <3>1. pw.target \in Names
      BY <2>1 DEF PoolCreate, WorkerInv
    <3>2. Instances' = Instances \cup {pw.target}
      BY <1>d, <2>1, <3>1, Zenon DEF PoolCreate
    <3> QED
      BY <1>a, <2>1, <3>2 DEF PoolCreate, leaseVars, history, HoldInv
  <2>2. CASE PoolTrim
    <3>1. pw.target \in Names
      BY <2>2 DEF PoolTrim, WorkerInv
    <3> QED
      BY <1>c, <2>2, <3>1 DEF PoolTrim, leaseVars
  <2>3. CASE \/ \E p \in Pools : PoolStart(p) \/ PoolScaleUp(p) \/ PoolScaleDown(p) \/ PoolObserve(p)
             \/ PoolCreateExists \/ PoolCreateRejected \/ PoolStatus \/ PoolError
    BY <1>b, <2>3, ZenonT(30) DEF PoolStart, PoolScaleUp, PoolScaleDown, PoolObserve, PoolCreateExists,
                      PoolCreateRejected, PoolStatus, PoolError, instVars, leaseVars, history
  <2> QED
    BY <1>3, <2>1, <2>2, <2>3 DEF PoolStep
<1>4. CASE LeaseStep
  <2>1. ASSUME NEW l \in Leases, LeaseExpire(l) PROVE HoldInv'
    BY <1>e, <2>1, ZenonT(30) DEF LeaseExpire
  <2>2. CASE LeaseCopy
    <3>1. /\ UNCHANGED <<phase, instFin, kubeconfig, ref, leased, holds>> /\ lw'.target = lw.target
          /\ lw'.copy = "current" => lw.target \in kubeconfig
      BY <2>2 DEF LeaseCopy, instVars, leaseVars, history, TypeOK, LeaseWorkers
    <3> QED
      BY <3>1 DEF HoldInv, Instances, Exists
  <2>3. CASE LeaseCommit
    <3>1. lw.lease \in Leases /\ lw.target \in Names /\ lw.target # None
      BY <2>3, NoneAssumption DEF LeaseCommit, WorkerInv, TypeOK, Names
    <3>2. ref' = [ref EXCEPT ![lw.lease] = lw.target] /\ lw'.pc = "idle" /\ UNCHANGED <<phase, instFin, kubeconfig>>
      BY <2>3, ZenonT(30) DEF LeaseCommit, LeaseIdle, instVars
    <3>3. lw.lease \notin holds
      BY <2>3 DEF LeaseCommit, WorkerInv, HoldInv
    <3>4. \/ leased' = leased \cup {lw.target} /\ holds' = holds \cup {lw.lease} /\ lw.target \in instFin
          \/ leased' = leased /\ holds' = holds
      BY <2>3, ZenonT(30) DEF LeaseCommit, HoldInv
    <3>5. \A l \in holds' : ref'[l] # None /\ ref'[l] \in leased'
      BY <3>1, <3>2, <3>3, <3>4 DEF HoldInv, TypeOK
    <3> QED
      BY <3>2, <3>4, <3>5 DEF HoldInv, Instances, Exists
  <2>4. CASE LeaseRelease
    <3>1. lw'.pc = "released" /\ ref' = ref
      BY <2>4 DEF LeaseRelease, leaseVars, TypeOK, LeaseWorkers
    <3>2. CASE lw.target = None
      BY <1>b, <2>4, <3>1, <3>2 DEF LeaseRelease, instVars, history
    <3>3. CASE lw.target # None
      <4>1. lw.target \in Names
        BY <3>3 DEF TypeOK, LeaseWorkers
      <4> QED
        BY <1>c, <2>4, <3>1, <3>3, <4>1 DEF LeaseRelease
    <3> QED
      BY <3>2, <3>3
  <2>5. CASE LeaseFinalize
    <3>1. /\ ref' = [ref EXCEPT ![lw.lease] = None] /\ holds' = holds \ {lw.lease} /\ lw'.pc = "idle"
          /\ UNCHANGED <<leased, phase, instFin, kubeconfig>>
      BY <2>5 DEF LeaseFinalize, RemoveLease, LeaseIdle, instVars
    <3> QED
      BY <3>1 DEF HoldInv, TypeOK, Instances, Exists
  <2>6. CASE \/ \E l \in Leases : LeaseAddFinalizer(l) \/ LeaseStart(l) \/ LeaseMatch(l) \/ LeaseWait(l)
             \/ LeaseError
    <3>1. lw' = lw \/ lw'.pc # "copied"
      <4>0. ASSUME NEW l \in Leases, LeaseAddFinalizer(l) PROVE lw' = lw
        BY <4>0 DEF LeaseAddFinalizer
      <4>1. ASSUME NEW l \in Leases, LeaseWait(l) PROVE lw'.pc # "copied"
        BY <4>1 DEF LeaseWait, LeaseIdle
      <4>2. ASSUME NEW l \in Leases, LeaseStart(l) PROVE lw'.pc # "copied"
        BY <4>2, Zenon DEF LeaseStart, LeaseIdle
      <4>3. ASSUME NEW l \in Leases, LeaseMatch(l) PROVE lw'.pc # "copied"
        BY <4>3 DEF LeaseMatch, TypeOK, LeaseWorkers
      <4>4. LeaseError => lw'.pc # "copied"
        BY DEF LeaseError, LeaseIdle
      <4> QED
        BY <2>6, <4>0, <4>1, <4>2, <4>3, <4>4
    <3> QED
      BY <1>b, <2>6, <3>1, ZenonT(30) DEF LeaseAddFinalizer, LeaseStart, LeaseMatch, LeaseWait, LeaseError, instVars, leaseVars, history
  <2> QED
    BY <1>4, <2>1, <2>2, <2>3, <2>4, <2>5, <2>6 DEF LeaseStep
<1>5. CASE Crash \/ UNCHANGED vars
  BY <1>b, <1>5 DEF Crash, vars, instVars, leaseVars, history, LeaseIdle
<1> QED
  BY <1>1, <1>2, <1>3, <1>4, <1>5 DEF Next

-----------------------------------------------------------------------------
\* The initial state satisfies the whole invariant.
LEMMA InitInv == Init => TypeOK /\ WorkerInv /\ SizeInv /\ HoldInv /\ ClaimInv
<1> SUFFICES ASSUME Init PROVE TypeOK /\ WorkerInv /\ SizeInv /\ HoldInv /\ ClaimInv
  OBVIOUS
<1>1. TypeOK
  BY IdleTypes DEF Init, TypeOK
<1>2. WorkerInv
  BY DEF Init, WorkerInv, PoolIdle, LeaseIdle
<1>3. \A p \in Pools : Total(p) = 0
  <2>1. \A p \in Pools : Members(p) = {}
    BY DEF Init, Members, Instances, Exists
  <2> QED
    BY <2>1, FS_EmptySet DEF Total
<1>4. SizeInv
  BY <1>3, PoolSpecAssumption DEF Init, SizeInv, WithinMaxSize, Larger, PoolSpecs, PoolIdle
<1>5. ClaimInv
  BY DEF Init, ClaimInv, ExclusiveBinding, LeaseIdle
<1>6. HoldInv
  BY DEF Init, HoldInv, LeaseIdle
<1> QED
  BY <1>1, <1>2, <1>4, <1>5, <1>6

\* In every reachable state the types, the workers' relation to the mutex and
\* the sizes of the pools are right, whatever the environment does.
THEOREM Invariance == Spec => [](TypeOK /\ WorkerInv /\ SizeInv)
<1>1. Init => TypeOK /\ WorkerInv /\ SizeInv
  BY InitInv
<1>2. TypeOK /\ WorkerInv /\ SizeInv /\ [Next]_vars => (TypeOK /\ WorkerInv /\ SizeInv)'
  BY TypeStep, WorkerStep, SizeStep
<1> QED
  BY <1>1, <1>2, PTL DEF Spec

\* Every variable of the model keeps its type.
THEOREM TypeCorrect == Spec => []TypeOK
BY Invariance, PTL

\* No ClusterPool ever has more instances than its maxSize, terminating and
\* Failed ones included: the create that Reconcile decides on under the mutex
\* finds the room it counted, through crashes, retries and taken names.
THEOREM MaxSizeIsACap == Spec => []WithinMaxSize
<1>1. SizeInv => WithinMaxSize
  BY DEF SizeInv
<1> QED
  BY <1>1, Invariance, PTL

\* scaleDownExcess never deletes an instance that a lease claims or is being
\* bound to, even when leases are moved between pools: the mutex keeps the
\* claims it listed valid until the delete.
THEOREM TrimIsSafe == Spec => []TrimSparesClaims
<1>1. TypeOK /\ WorkerInv => TrimSparesClaims
  <2> SUFFICES ASSUME TypeOK, WorkerInv, pw.pc = "trim"
               PROVE  pw.target \notin Claimed /\ pw.target # lw.target
    BY DEF TrimSparesClaims
  <2>1. pw.target \in Names /\ pw.target \notin Claimed /\ lock = "pool"
    BY DEF WorkerInv
  <2>2. pw.target # None
    BY <2>1, NoneAssumption DEF Names
  <2>3. lw.pc \in {"idle", "pending", "deleting"}
    BY <2>1 DEF TypeOK, WorkerInv, LeaseWorkers
  <2>4. CASE lw.pc \in {"idle", "pending"}
    BY <2>1, <2>2, <2>4 DEF WorkerInv
  <2>5. CASE lw.pc = "deleting"
    BY <2>1, <2>2, <2>5 DEF TypeOK, WorkerInv, Claimed
  <2> QED
    BY <2>3, <2>4, <2>5, <2>1
<1> QED
  BY <1>1, Invariance, PTL

\* With poolRefs left alone, the claims are right in every reachable state.
THEOREM ClaimInvariance ==
  ASSUME "editPool" \notin Env
  PROVE  Spec => []InductiveInv
<1>1. Init => InductiveInv
  BY InitInv DEF InductiveInv
<1>2. InductiveInv /\ [Next]_vars => InductiveInv'
  BY TypeStep, WorkerStep, SizeStep, HoldStep, ClaimStep DEF InductiveInv
<1> QED
  BY <1>1, <1>2, PTL DEF Spec

\* No two ClusterLeases are ever bound to the same ClusterInstance, provided
\* that nobody edits a lease's spec.poolRef.
THEOREM BindingIsExclusive ==
  ASSUME "editPool" \notin Env
  PROVE  Spec => []ExclusiveBinding
<1>1. InductiveInv => ExclusiveBinding
  BY DEF InductiveInv, ClaimInv
<1> QED
  BY <1>1, ClaimInvariance, PTL

\* Only bind's status update makes a lease hold a guest cluster.
LEMMA OnlyCommitGrants == [Next]_vars => holds' \subseteq holds \/ LeaseCommit
<1> SUFFICES ASSUME [Next]_vars PROVE holds' \subseteq holds \/ LeaseCommit
  OBVIOUS
<1>r. ASSUME NEW n, RequestDelete(n) PROVE holds' \subseteq holds
  BY <1>r DEF RequestDelete, RemoveInstance, history
<1>1. CASE UserStep
  BY <1>1, <1>r DEF UserStep, CreateLease, EditPoolRef, DeleteLease, RequestLeaseDelete, RemoveLease,
                    DeleteInstance, CreateStandalone, ChangeNamespace, history
<1>2. CASE InstanceStep
  BY <1>2 DEF InstanceStep, AddInstanceFinalizer, MarkReady, MarkFailed, Retry, PublishKubeconfig, InvalidateKubeconfig, Demote,
              FinishTeardown, RemoveInstance, Settle, history
<1>3. CASE PoolStep
  BY <1>3, <1>r, ZenonT(30) DEF PoolStep, PoolStart, PoolScaleUp, PoolScaleDown, PoolObserve, PoolCreate,
                    PoolCreateExists, PoolCreateRejected, PoolTrim, PoolStatus, PoolError, history
<1>4. CASE LeaseStep
  BY <1>4, <1>r, Zenon DEF LeaseStep, LeaseAddFinalizer, LeaseExpire, RequestLeaseDelete, RemoveLease, LeaseStart,
                    LeaseMatch, LeaseWait, LeaseCopy, LeaseRelease, LeaseFinalize, LeaseError, history
<1>5. CASE Crash \/ UNCHANGED vars
  BY <1>5 DEF Crash, vars, history
<1> QED
  BY <1>1, <1>2, <1>3, <1>4, <1>5 DEF Next

\* A guest cluster is handed to at most one lease in its lifetime, provided
\* that nobody edits a lease's spec.poolRef: there is no reuse after a release.
THEOREM GuestsAreSingleUse ==
  ASSUME "editPool" \notin Env
  PROVE  Spec => LeasedOnce
<1>1. InductiveInv /\ [Next]_vars => [\A l \in holds' \ holds : ref'[l] \notin leased]_vars
  <2> SUFFICES ASSUME InductiveInv, [Next]_vars, NEW l \in holds' \ holds PROVE ref'[l] \notin leased
    OBVIOUS
  <2>1. LeaseCommit
    BY OnlyCommitGrants
  <2>2. l = lw.lease /\ lw.target \notin leased
    BY <2>1, ZenonT(30) DEF LeaseCommit, InductiveInv, ClaimInv
  <2>3. l \in Leases
    BY <2>1, <2>2, ZenonT(30) DEF LeaseCommit, InductiveInv, TypeOK, WorkerInv
  <2> QED
    BY <2>1, <2>2, <2>3 DEF LeaseCommit, InductiveInv, TypeOK
<1> QED
  BY <1>1, ClaimInvariance, PTL DEF Spec, LeasedOnce

-----------------------------------------------------------------------------
\* A lease object goes at once only if it holds nothing.
LEMMA DeleteLeaseGoes ==
  ASSUME InductiveInv, NEW l \in Leases, DeleteLease(l) \/ LeaseExpire(l)
  PROVE  /\ UNCHANGED <<phase, deleting, leased>>
         /\ \/ UNCHANGED <<lphase, ref, holds>>
            \/ /\ l \notin holds /\ holds' = holds
               /\ lphase' = [lphase EXCEPT ![l] = "Absent"] /\ ref' = [ref EXCEPT ![l] = None]
<1>1. RequestLeaseDelete(l) /\ UNCHANGED <<phase, deleting>>
  BY DEF DeleteLease, LeaseExpire, instVars
<1>2. l \notin leaseFin => l \notin holds
  BY DEF InductiveInv, HoldInv, WorkerInv
<1> QED
  BY <1>1, <1>2 DEF RequestLeaseDelete, RemoveLease, history

\* When the finalizer goes, the guest cluster the lease holds is being deleted.
LEMMA FinalizeGoes ==
  ASSUME InductiveInv, ClaimInv, LeaseFinalize
  PROVE  /\ UNCHANGED <<phase, deleting, leased>>
         /\ lw.lease \in Leases /\ (lw.lease \in holds => ref[lw.lease] \in deleting)
         /\ lphase' = [lphase EXCEPT ![lw.lease] = "Absent"] /\ ref' = [ref EXCEPT ![lw.lease] = None]
         /\ holds' = holds \ {lw.lease}
<1>1. lw.pc = "released"
  BY DEF LeaseFinalize
<1>2. lw.lease \in Leases /\ lw.target = ref[lw.lease]
  BY <1>1 DEF InductiveInv, WorkerInv, TypeOK
<1>3. lw.lease \in holds => ref[lw.lease] \in deleting
  BY <1>1, <1>2, ZenonT(30) DEF InductiveInv, HoldInv, ClaimInv
<1> QED
  BY <1>2, <1>3, ZenonT(30) DEF LeaseFinalize, RemoveLease, instVars

\* Removing a guest cluster that nobody was granted, or that is being deleted, is
\* a step of the promise.
LEMMA RemovalRefines ==
  ASSUME InductiveInv, NEW n \in Names, n \in Instances, n \in deleting \/ n \notin leased,
         RemoveInstance(n), UNCHANGED ref
  PROVE  Promise!Remove(n)
<1>1. n # None
  BY NoneAssumption DEF Names
<1>2. Instances' = Instances \ {n}
  BY DEF RemoveInstance, Instances, Exists, InductiveInv, TypeOK
<1>3. deleting' = deleting \ {n} /\ leased' = leased \ {n} /\ holds' = {l \in holds : ref[l] # n}
  BY DEF RemoveInstance
<1> QED
  BY <1>1, <1>2, <1>3 DEF Promise!Remove

\* A delete request is a Retire, a Remove, or nothing new.
LEMMA DeleteRefines ==
  ASSUME InductiveInv, NEW n \in Names, RequestDelete(n), UNCHANGED ref
  PROVE  Promise!Remove(n) \/ Promise!Retire(n) \/ UNCHANGED Promise!vars
<1>1. CASE Exists(n) /\ n \notin instFin
  <2>1. n \in Instances /\ n \notin leased
    BY <1>1 DEF Instances, InductiveInv, HoldInv
  <2>2. RemoveInstance(n)
    BY <1>1 DEF RequestDelete
  <2> QED
    BY <2>1, <2>2, RemovalRefines
<1>2. CASE Exists(n) /\ n \in instFin
  <2>1. deleting' = deleting \cup {n} /\ UNCHANGED <<phase, leased, holds>>
    BY <1>2 DEF RequestDelete, history
  <2>2. n \in Instances /\ Instances' = Instances
    BY <1>2, <2>1 DEF Instances, Exists
  <2> QED
    BY <2>1, <2>2 DEF Promise!Retire
<1>3. CASE ~Exists(n)
  <2>1. UNCHANGED <<phase, deleting, leased, holds>>
    BY <1>3 DEF RequestDelete, history
  <2>2. Instances' = Instances
    BY <2>1 DEF Instances, Exists
  <2> QED
    BY <2>1, <2>2 DEF Promise!vars
<1> QED
  BY <1>1, <1>2, <1>3

\* Every step of the controllers, of users and of a crash is a step of the
\* promise to lease holders, or none of its business.
LEMMA PromiseStep ==
  ASSUME InductiveInv, ClaimInv, [Next]_vars
  PROVE  Promise!Next \/ UNCHANGED Promise!vars
<1> DEFINE Goal == Promise!Next \/ UNCHANGED Promise!vars
<1>a. ASSUME Instances' = Instances, UNCHANGED <<deleting, leased, holds, ref>> PROVE Goal
  BY <1>a DEF Promise!vars
<1>b. phase' = phase => Instances' = Instances
  BY DEF Instances, Exists
<1>c. ASSUME NEW n \in Names, RequestDelete(n), UNCHANGED ref PROVE Goal
  BY <1>c, DeleteRefines DEF Promise!Next
<1>d. ASSUME NEW n \in Names, NEW v \in {"Provisioning", "Ready", "Failed"}, phase' = [phase EXCEPT ![n] = v]
      PROVE  Instances' = Instances \cup {n}
  BY <1>d DEF Instances, Exists, InductiveInv, TypeOK
<1>e. ASSUME NEW n \in Names, ~Exists(n), phase' = [phase EXCEPT ![n] = "Provisioning"],
             UNCHANGED <<deleting, leased, holds, ref>>
      PROVE  Goal
  <2>1. n \notin Instances /\ Instances' = Instances \cup {n}
    BY <1>d, <1>e, ZenonT(30) DEF Instances
  <2>2. Promise!Provision(n)
    BY <1>e, <2>1 DEF Promise!Provision
  <2> QED
    BY <2>2 DEF Promise!Next
<1>f. ASSUME NEW l \in Leases, DeleteLease(l) \/ LeaseExpire(l) PROVE Goal
  <2>1. /\ UNCHANGED <<phase, deleting, leased, holds>>
        /\ ref' = ref \/ (l \notin holds /\ ref' = [ref EXCEPT ![l] = None])
    BY <1>f, DeleteLeaseGoes
  <2>2. \A k \in Leases : k \in holds => ref'[k] = ref[k]
    BY <2>1 DEF InductiveInv, TypeOK
  <2> QED
    BY <1>b, <2>1, <2>2 DEF Promise!vars
<1>1. CASE UserStep
  <2>1. ASSUME NEW l \in Leases, NEW p \in Pools, CreateLease(l, p) \/ EditPoolRef(l, p) PROVE Goal
    BY <1>a, <1>b, <2>1 DEF CreateLease, EditPoolRef, instVars, history
  <2>2. ASSUME NEW n \in Names, DeleteInstance(n) PROVE Goal
    BY <1>c, <2>2 DEF DeleteInstance, leaseVars
  <2>3. ASSUME NEW n \in Names, CreateStandalone(n) PROVE Goal
    BY <1>e, <2>3, ZenonT(30) DEF CreateStandalone, leaseVars, history
  <2>4. ASSUME NEW s, ChangeNamespace(s) PROVE Goal
    BY <1>a, <1>b, <2>4 DEF ChangeNamespace, instVars, leaseVars, history
  <2> QED
    BY <1>1, <1>f, <2>1, <2>2, <2>3, <2>4 DEF UserStep
<1>2. CASE InstanceStep
  <2> SUFFICES ASSUME NEW n \in Names,
                      \/ AddInstanceFinalizer(n) \/ MarkReady(n) \/ MarkFailed(n) \/ Retry(n)
                      \/ PublishKubeconfig(n) \/ InvalidateKubeconfig(n) \/ Demote(n) \/ FinishTeardown(n) \/ Settle(n)
               PROVE  Goal
    BY <1>2 DEF InstanceStep
  <2>1. CASE AddInstanceFinalizer(n) \/ PublishKubeconfig(n) \/ InvalidateKubeconfig(n) \/ Settle(n)
    BY <1>a, <1>b, <2>1, ZenonT(30) DEF AddInstanceFinalizer, PublishKubeconfig, InvalidateKubeconfig, Settle, leaseVars, history
  <2>2. CASE MarkReady(n) \/ MarkFailed(n) \/ Retry(n) \/ Demote(n)
    <3>1. Instances' = Instances \cup {n}
      BY <1>d, <2>2 DEF MarkReady, MarkFailed, Retry, Demote
    <3>2. n \in Instances
      BY <2>2 DEF MarkReady, MarkFailed, Retry, Demote, Instances, Exists
    <3>3. UNCHANGED <<deleting, leased, holds, ref>>
      BY <2>2 DEF MarkReady, MarkFailed, Retry, Demote, leaseVars, history
    <3> QED
      BY <1>a, <3>1, <3>2, <3>3
  <2>3. CASE FinishTeardown(n)
    <3>1. n \in Instances /\ n \in deleting /\ RemoveInstance(n) /\ ref' = ref
      BY <2>3 DEF FinishTeardown, InductiveInv, HoldInv, leaseVars
    <3> QED
      BY <3>1, RemovalRefines DEF Promise!Next
  <2> QED
    BY <2>1, <2>2, <2>3
<1>3. CASE PoolStep
  <2>1. CASE PoolCreate
    <3>1. pw.target \in Names
      BY <2>1 DEF PoolCreate, InductiveInv, WorkerInv
    <3> QED
      BY <1>e, <2>1, <3>1, Zenon DEF PoolCreate, leaseVars, history
  <2>2. CASE PoolTrim
    <3>1. pw.target \in Names
      BY <2>2 DEF PoolTrim, InductiveInv, WorkerInv
    <3> QED
      BY <1>c, <2>2, <3>1 DEF PoolTrim, leaseVars
  <2>3. CASE \/ \E p \in Pools : PoolStart(p) \/ PoolScaleUp(p) \/ PoolScaleDown(p) \/ PoolObserve(p)
             \/ PoolCreateExists \/ PoolCreateRejected \/ PoolStatus \/ PoolError
    BY <1>a, <1>b, <2>3, ZenonT(30) DEF PoolStart, PoolScaleUp, PoolScaleDown, PoolObserve, PoolCreateExists,
                            PoolCreateRejected, PoolStatus, PoolError, instVars, leaseVars, history
  <2> QED
    BY <1>3, <2>1, <2>2, <2>3 DEF PoolStep
<1>4. CASE LeaseStep
  <2>1. CASE LeaseCommit
    <3>1. /\ lw.lease \in Leases /\ lw.target \in Names /\ ref[lw.lease] = None /\ lw.target \notin leased
          /\ lw.copy = "current" => lw.target \in Instances
      BY <2>1, ZenonT(30) DEF LeaseCommit, InductiveInv, WorkerInv, TypeOK, ClaimInv
    <3>2. /\ ref' = [ref EXCEPT ![lw.lease] = lw.target] /\ UNCHANGED <<phase, deleting>>
          /\ leased' = IF lw.copy = "current" THEN leased \cup {lw.target} ELSE leased
          /\ holds' = IF lw.copy = "current" THEN holds \cup {lw.lease} ELSE holds
      BY <2>1, ZenonT(30) DEF LeaseCommit, instVars
    <3>3. lw.lease \notin holds
      BY <3>1 DEF InductiveInv, HoldInv
    <3>4. ref \in [Leases -> Names \cup {None}]
      BY DEF InductiveInv, TypeOK
    <3>5. CASE lw.copy = "current"
      <4> DEFINE holder == [l \in Leases |-> IF l \in holds THEN ref[l] ELSE None]
      <4>1. PICK l \in Leases, n \in Names : l = lw.lease /\ n = lw.target
        BY <3>1
      <4>2. leased' = leased \cup {n} /\ holds' = holds \cup {l}
        BY <3>2, <3>5, <4>1
      <4>3. holder' = [holder EXCEPT ![l] = n] /\ holder[l] = None
        BY <3>1, <3>2, <3>3, <3>4, <4>1, <4>2
      <4>4. Promise!Grant(l, n)
        BY <1>b, <3>1, <3>2, <3>5, <4>1, <4>2, <4>3 DEF Promise!Grant
      <4> QED
        BY <4>4 DEF Promise!Next
    <3>6. CASE lw.copy # "current"
      BY <1>b, <3>1, <3>2, <3>3, <3>4, <3>6 DEF Promise!vars
    <3> QED
      BY <3>5, <3>6
  <2>2. CASE LeaseRelease
    <3>1. CASE lw.target = None
      BY <1>a, <1>b, <2>2, <3>1 DEF LeaseRelease, instVars, leaseVars, history
    <3>2. CASE lw.target # None
      <4>1. lw.target \in Names
        BY <3>2 DEF InductiveInv, TypeOK, LeaseWorkers
      <4> QED
        BY <1>c, <2>2, <3>2, <4>1 DEF LeaseRelease, leaseVars
    <3> QED
      BY <3>1, <3>2
  <2>3. CASE LeaseFinalize
    <3>1. /\ UNCHANGED <<phase, deleting, leased>> /\ lw.lease \in Leases
          /\ lw.lease \in holds => ref[lw.lease] \in deleting
          /\ ref' = [ref EXCEPT ![lw.lease] = None] /\ holds' = holds \ {lw.lease}
      BY <2>3, FinalizeGoes
    <3>2. ref \in [Leases -> Names \cup {None}]
      BY DEF InductiveInv, TypeOK
    <3>3. CASE lw.lease \in holds
      <4> DEFINE holder == [l \in Leases |-> IF l \in holds THEN ref[l] ELSE None]
      <4>1. PICK l \in Leases : l = lw.lease
        BY <3>1
      <4>2. holder' = [holder EXCEPT ![l] = None] /\ holder[l] \in deleting
        BY <3>1, <3>2, <3>3, <4>1
      <4>3. Promise!Release(l)
        BY <1>b, <3>1, <4>2 DEF Promise!Release
      <4> QED
        BY <4>3 DEF Promise!Next
    <3>4. CASE lw.lease \notin holds
      BY <1>b, <3>1, <3>2, <3>4 DEF Promise!vars
    <3> QED
      BY <3>3, <3>4
  <2>4. CASE \/ \E l \in Leases : LeaseAddFinalizer(l) \/ LeaseStart(l) \/ LeaseMatch(l) \/ LeaseWait(l)
             \/ LeaseCopy \/ LeaseError
    BY <1>a, <1>b, <2>4, ZenonT(30) DEF LeaseAddFinalizer, LeaseStart, LeaseMatch, LeaseWait, LeaseCopy, LeaseError,
                            instVars, leaseVars, history
  <2> QED
    BY <1>4, <1>f, <2>1, <2>2, <2>3, <2>4 DEF LeaseStep
<1>5. CASE Crash \/ UNCHANGED vars
  BY <1>a, <1>b, <1>5 DEF Crash, vars, instVars, leaseVars, history
<1> QED
  BY <1>1, <1>2, <1>3, <1>4, <1>5 DEF Next

\* The two controllers implement the exclusive, single-use leases they promise,
\* for any number of pools, leases and instances, provided that nobody edits a
\* lease's spec.poolRef: bind is a Grant of a guest nobody was granted before, and
\* reconcileDelete a Release of one that is being deleted.
THEOREM BrokerKeepsPromise ==
  ASSUME "editPool" \notin Env
  PROVE  Spec => ImplementsPromise
<1>1. Init => Promise!Init
  BY DEF Init, Promise!Init, Instances, Exists
<1>2. InductiveInv /\ [Next]_vars => [Promise!Next]_(Promise!vars)
  BY PromiseStep DEF InductiveInv
<1> QED
  BY <1>1, <1>2, ClaimInvariance, PTL DEF Spec, ImplementsPromise, Promise!Spec

\* A lease that held a guest cluster leaves the API only when that cluster is
\* being deleted or gone, through crashes, failed calls and administrators'
\* deletes: the finalizer goes after releaseBoundInstance, never before.
THEOREM ReleaseIsReclaim ==
  ASSUME "editPool" \notin Env
  PROVE  Spec => ReleaseReclaims
<1> DEFINE Reclaims == \A l \in holds : lphase'[l] = "Absent" => ref[l] \in deleting' \/ phase'[ref[l]] = "Absent"
<1>1. InductiveInv /\ [Next]_vars => [Reclaims]_vars
  <2> SUFFICES ASSUME InductiveInv, ClaimInv, [Next]_vars, NEW l \in holds, lphase'[l] = "Absent"
               PROVE  ref[l] \in deleting'
    BY DEF InductiveInv
  <2>1. l \in Leases /\ lphase[l] # "Absent" /\ lphase \in [Leases -> {"Absent", "Pending", "Bound"}]
    BY DEF InductiveInv, HoldInv, WorkerInv, TypeOK
  <2>2. ASSUME NEW k \in Leases, DeleteLease(k) \/ LeaseExpire(k) PROVE FALSE
    BY <2>1, <2>2, DeleteLeaseGoes
  <2>3. CASE LeaseFinalize
    BY <2>1, <2>3, FinalizeGoes
  <2>4. LeaseFinalize
    <3> SUFFICES ASSUME ~LeaseFinalize PROVE FALSE
      OBVIOUS
    <3>0. lphase' # lphase
      BY <2>1
    <3>1. CASE UserStep
      BY <2>1, <2>2, <3>0, <3>1 DEF UserStep, CreateLease, EditPoolRef, DeleteInstance, CreateStandalone,
                                    ChangeNamespace, leaseVars
    <3>2. CASE InstanceStep
      BY <3>0, <3>2 DEF InstanceStep, AddInstanceFinalizer, MarkReady, MarkFailed, Retry, PublishKubeconfig, InvalidateKubeconfig,
                        Demote, FinishTeardown, Settle, leaseVars
    <3>3. CASE PoolStep
      BY <3>0, <3>3, ZenonT(30) DEF PoolStep, PoolStart, PoolScaleUp, PoolScaleDown, PoolObserve, PoolCreate,
                        PoolCreateExists, PoolCreateRejected, PoolTrim, PoolStatus, PoolError, leaseVars
    <3>4. CASE LeaseStep
      <4>1. CASE LeaseCommit
        BY <2>1, <4>1 DEF LeaseCommit
      <4> QED
        BY <2>2, <3>0, <3>4, <4>1, ZenonT(30) DEF LeaseStep, LeaseAddFinalizer, LeaseStart, LeaseMatch, LeaseWait,
                                      LeaseCopy, LeaseRelease, LeaseError, leaseVars
    <3>5. CASE Crash \/ UNCHANGED vars
      BY <3>0, <3>5 DEF Crash, vars, leaseVars
    <3> QED
      BY <3>1, <3>2, <3>3, <3>4, <3>5 DEF Next
  <2> QED
    BY <2>3, <2>4
<1> QED
  BY <1>1, ClaimInvariance, PTL DEF Spec, ReleaseReclaims

-----------------------------------------------------------------------------
\* While nothing disturbs the releases, every step keeps a lease and its guest
\* together until the pass that releases it.
LEMMA OwnStep ==
  ASSUME Undisturbed
  PROVE  TypeOK /\ WorkerInv /\ HoldInv /\ ClaimInv /\ OwnInv /\ [Next]_vars => OwnInv'
<1> SUFFICES ASSUME TypeOK, WorkerInv, HoldInv, ClaimInv, OwnInv, [Next]_vars PROVE OwnInv'
  OBVIOUS
<1>u. "crash" \notin Env /\ "apiError" \notin Env /\ "editPool" \notin Env /\ "adminDelete" \notin Env
  BY DEF Undisturbed
<1>n. None \notin Names /\ None \notin Leases
  BY NoneAssumption DEF Names
<1>a. ASSUME UNCHANGED <<ref, holds, deleting>>, Instances \subseteq Instances', ldeleting \subseteq ldeleting',
             lw' = lw \/ (lw.pc # "released" /\ lw'.pc \in {"idle", "pending"})
      PROVE  OwnInv'
  BY <1>a DEF OwnInv
<1>b. ASSUME UNCHANGED phase PROVE Instances' = Instances
  BY <1>b DEF Instances, Exists
<1>c. ASSUME NEW n \in Names, NEW v \in {"Provisioning", "Ready", "Failed"}, phase' = [phase EXCEPT ![n] = v]
      PROVE  Instances \subseteq Instances'
  BY <1>c DEF Instances, Exists, TypeOK
<1>1. CASE UserStep
  <2>1. ASSUME NEW l \in Leases, NEW p \in Pools, CreateLease(l, p) \/ EditPoolRef(l, p) PROVE OwnInv'
    BY <1>a, <1>b, <1>u, <2>1 DEF CreateLease, EditPoolRef, instVars, history
  <2>2. ASSUME NEW l \in Leases, DeleteLease(l) PROVE OwnInv'
    <3>1. /\ UNCHANGED <<phase, deleting>> /\ l \notin ldeleting
          /\ lw'.pc = lw.pc /\ lw'.lease = lw.lease /\ lw'.target = lw.target /\ lw'.copy = lw.copy
          /\ lw.lease # l => lw' = lw
      BY <2>2 DEF DeleteLease, TouchLease, instVars, TypeOK, LeaseWorkers
    <3>2. Instances' = Instances
      BY <1>b, <3>1
    <3>3. UNCHANGED <<ref, holds>>
      <4>1. CASE l \in leaseFin
        BY <2>2, <4>1, ZenonT(30) DEF DeleteLease, RequestLeaseDelete, history
      <4>2. CASE l \notin leaseFin
        <5>1. ref[l] = None /\ l \notin holds
          BY <4>2, ZenonT(30) DEF WorkerInv, HoldInv
        <5>2. ref' = [ref EXCEPT ![l] = None] /\ holds' = holds \ {l}
          BY <2>2, <4>2 DEF DeleteLease, RequestLeaseDelete, RemoveLease
        <5> QED BY <5>1, <5>2 DEF TypeOK
      <4> QED BY <4>1, <4>2
    <3>4. ldeleting \subseteq ldeleting'
      BY <2>2, <3>1, ZenonT(30) DEF DeleteLease, RequestLeaseDelete, RemoveLease
    <3>5. lw.pc \in {"deleting", "released"} => lw.lease # l
      BY <3>1 DEF OwnInv
    <3> QED BY <3>1, <3>2, <3>3, <3>4, <3>5, ZenonT(30) DEF OwnInv
  <2>3. ASSUME NEW n \in Names, DeleteInstance(n) PROVE OwnInv'
    BY <1>u, <2>3 DEF DeleteInstance
  <2>4. ASSUME NEW n \in Names, CreateStandalone(n) PROVE OwnInv'
    <3>1. Instances \subseteq Instances'
      BY <1>c, <2>4, Zenon DEF CreateStandalone
    <3> QED BY <1>a, <2>4, <3>1 DEF CreateStandalone, leaseVars, history
  <2>5. ASSUME NEW s, ChangeNamespace(s) PROVE OwnInv'
    BY <1>a, <1>b, <2>5 DEF ChangeNamespace, instVars, leaseVars, history
  <2> QED
    BY <1>1, <2>1, <2>2, <2>3, <2>4, <2>5 DEF UserStep
<1>2. CASE InstanceStep
  <2> SUFFICES ASSUME NEW n \in Names,
                      \/ AddInstanceFinalizer(n) \/ MarkReady(n) \/ MarkFailed(n) \/ Retry(n)
                      \/ PublishKubeconfig(n) \/ InvalidateKubeconfig(n) \/ Demote(n) \/ FinishTeardown(n) \/ Settle(n)
               PROVE  OwnInv'
    BY <1>2 DEF InstanceStep
  <2>1. CASE AddInstanceFinalizer(n) \/ PublishKubeconfig(n) \/ InvalidateKubeconfig(n) \/ Settle(n)
    BY <1>a, <1>b, <2>1, ZenonT(30) DEF AddInstanceFinalizer, PublishKubeconfig, InvalidateKubeconfig, Settle, leaseVars, history
  <2>2. CASE MarkReady(n) \/ MarkFailed(n) \/ Retry(n) \/ Demote(n)
    <3>1. Instances \subseteq Instances'
      BY <1>c, <2>2, ZenonT(30) DEF MarkReady, MarkFailed, Retry, Demote
    <3> QED BY <1>a, <2>2, <3>1, ZenonT(30) DEF MarkReady, MarkFailed, Retry, Demote, leaseVars, history
  <2>3. CASE FinishTeardown(n)
    <3>1. /\ n \in deleting /\ deleting' = deleting \ {n} /\ UNCHANGED <<ref, ldeleting>>
          /\ holds' = {l \in holds : ref[l] # n}
      BY <2>3 DEF FinishTeardown, RemoveInstance, leaseVars
    <3>2. Instances' = Instances \ {n}
      BY <2>3 DEF FinishTeardown, RemoveInstance, Instances, Exists, TypeOK
    <3>3. /\ lw'.pc = lw.pc /\ lw'.lease = lw.lease /\ lw'.target = lw.target /\ lw'.version = lw.version
          /\ lw.target # n => lw'.copy = lw.copy
      BY <2>3 DEF FinishTeardown, CopyAfterRemoval, TypeOK, LeaseWorkers
    <3>4. lw.pc \in {"matched", "copied"} => lw.target # n
      BY <3>1, Zenon DEF OwnInv
    <3> QED BY <3>1, <3>2, <3>3, <3>4, ZenonT(30) DEF OwnInv
  <2> QED
    BY <2>1, <2>2, <2>3
<1>3. CASE PoolStep
  <2>1. CASE PoolCreate
    <3>1. pw.target \in Names
      BY <2>1 DEF PoolCreate, WorkerInv
    <3>2. Instances \subseteq Instances'
      BY <1>c, <2>1, <3>1, Zenon DEF PoolCreate
    <3> QED BY <1>a, <2>1, <3>2 DEF PoolCreate, leaseVars, history
  <2>2. CASE PoolTrim
    <3>1. /\ pw.target \in Names \ Claimed /\ RequestDelete(pw.target) /\ lw' = lw /\ UNCHANGED <<ref, ldeleting>>
          /\ lw.pc \notin {"matched", "copied", "released"}
      BY <2>2 DEF PoolTrim, WorkerInv, leaseVars
    <3>2. deleting' \subseteq deleting \cup {pw.target} /\ holds' \subseteq holds
      BY <3>1, ZenonT(30) DEF RequestDelete, RemoveInstance, history
    <3>3. \A l \in Leases : ref[l] # pw.target
      BY <1>n, <3>1 DEF Claimed
    <3>4. holds' = holds
      <4>1. holds' = holds \/ holds' = {l \in holds : ref[l] # pw.target}
        BY <3>1, ZenonT(30) DEF RequestDelete, RemoveInstance, history
      <4>2. \A l \in holds : ref[l] # pw.target
        BY <3>3 DEF TypeOK
      <4> QED BY <4>1, <4>2
    <3> QED BY <3>1, <3>2, <3>3, <3>4, ZenonT(30) DEF OwnInv, TypeOK
  <2>3. CASE \/ \E p \in Pools : PoolStart(p) \/ PoolScaleUp(p) \/ PoolScaleDown(p) \/ PoolObserve(p)
             \/ PoolCreateExists \/ PoolCreateRejected \/ PoolStatus \/ PoolError
    <3>1. UNCHANGED <<phase, ref, holds, deleting, ldeleting, lw>>
      BY <2>3, ZenonT(30) DEF PoolStart, PoolScaleUp, PoolScaleDown, PoolObserve, PoolCreateExists,
                  PoolCreateRejected, PoolStatus, PoolError, instVars, leaseVars, history
    <3> QED BY <1>a, <1>b, <3>1
  <2> QED
    BY <1>3, <2>1, <2>2, <2>3 DEF PoolStep
<1>4. CASE LeaseStep
  <2>1. ASSUME NEW l \in Leases, LeaseExpire(l) \/ LeaseAddFinalizer(l) \/ LeaseWait(l) PROVE OwnInv'
    <3>1. UNCHANGED <<phase, ref, holds, deleting>> /\ ldeleting \subseteq ldeleting'
      BY <2>1, ZenonT(30) DEF LeaseExpire, LeaseAddFinalizer, LeaseWait, RequestLeaseDelete, instVars, leaseVars, history
    <3>2. lw' = lw \/ (lw.pc = "pending" /\ lw'.pc = "idle")
      <4>1. LeaseExpire(l) \/ LeaseAddFinalizer(l) => lw' = lw
        BY ZenonT(30) DEF LeaseExpire, LeaseAddFinalizer
      <4>2. LeaseWait(l) => lw.pc = "pending" /\ lw'.pc = "idle"
        BY DEF LeaseWait, LeaseIdle
      <4> QED BY <2>1, <4>1, <4>2
    <3> QED BY <1>a, <1>b, <3>1, <3>2
  <2>2. ASSUME NEW l \in Leases, LeaseStart(l) PROVE OwnInv'
    <3>1. UNCHANGED <<phase, ref, holds, deleting, ldeleting>> /\ lw.pc = "idle"
      BY <2>2 DEF LeaseStart, instVars, leaseVars, history
    <3>2. CASE lw' = [LeaseIdle EXCEPT !.pc = "pending", !.lease = l]
      BY <1>a, <1>b, <3>1, <3>2 DEF LeaseIdle
    <3>3. CASE l \in ldeleting /\ lw' = [LeaseIdle EXCEPT !.pc = "deleting", !.lease = l, !.target = ref[l]]
      <4>1. lw'.pc = "deleting" /\ lw'.lease = l /\ lw'.version = "current"
        BY <3>3 DEF LeaseIdle
      <4> QED BY <3>1, <3>3, <4>1 DEF OwnInv
    <3> QED BY <2>2, <3>2, <3>3 DEF LeaseStart
  <2>3. ASSUME NEW l \in Leases, LeaseMatch(l) PROVE OwnInv'
    <3>1. UNCHANGED <<phase, ref, holds, deleting, ldeleting>> /\ lw.pc = "pending"
      BY <2>3 DEF LeaseMatch, instVars, leaseVars, history
    <3>2. lw'.pc = "matched" /\ lw'.target \in Candidates(l)
      BY <2>3 DEF LeaseMatch, TypeOK, LeaseWorkers
    <3>3. lw'.target \in Instances' \ deleting'
      BY <1>b, <3>1, <3>2 DEF Candidates, Members
    <3> QED BY <3>1, <3>2, <3>3 DEF OwnInv
  <2>4. CASE LeaseCopy
    <3>1. UNCHANGED <<phase, ref, holds, deleting, ldeleting>> /\ lw.pc = "matched"
      BY <2>4 DEF LeaseCopy, instVars, leaseVars, history
    <3>2. lw.target \in Instances \ deleting
      BY <3>1 DEF OwnInv
    <3>3. lw'.pc = "copied" /\ lw'.target = lw.target /\ lw'.copy = "current"
      BY <2>4, <3>2 DEF LeaseCopy, Instances, TypeOK, LeaseWorkers
    <3> QED BY <1>b, <3>1, <3>2, <3>3, Zenon DEF OwnInv
  <2>5. CASE LeaseCommit
    <3>1. lw.lease \in Leases /\ lw.target \in Names /\ lw.pc = "copied" /\ lw.copy = "current"
      BY <2>5, ZenonT(30) DEF LeaseCommit, WorkerInv, OwnInv, TypeOK
    <3>2. /\ ref' = [ref EXCEPT ![lw.lease] = lw.target] /\ holds' = holds \cup {lw.lease}
          /\ UNCHANGED <<deleting, ldeleting>> /\ lw'.pc = "idle"
      BY <2>5, <3>1, ZenonT(30) DEF LeaseCommit, LeaseIdle, instVars
    <3>3. lw.target \notin deleting
      BY <3>1 DEF OwnInv
    <3> QED BY <3>1, <3>2, <3>3, ZenonT(30) DEF OwnInv, TypeOK
  <2>6. CASE LeaseRelease
    <3>1. /\ lw.pc = "deleting" /\ lw'.pc = "released" /\ lw'.lease = lw.lease /\ lw'.version = lw.version
          /\ UNCHANGED <<ref, ldeleting>> /\ lw.lease \in Leases /\ lw.target = ref[lw.lease]
      BY <2>6 DEF LeaseRelease, leaseVars, TypeOK, LeaseWorkers, WorkerInv
    <3>2. CASE lw.target = None
      <4>1. UNCHANGED <<holds, deleting>>
        BY <2>6, <3>2 DEF LeaseRelease, instVars, history
      <4> QED BY <3>1, <4>1, Zenon DEF OwnInv
    <3>3. CASE lw.target # None
      <4>1. lw.lease \in holds /\ lw.target \in instFin
        BY <3>1, <3>3, Zenon DEF OwnInv, HoldInv
      <4>2. UNCHANGED holds /\ deleting' \subseteq deleting \cup {lw.target}
        BY <2>6, <3>3, <4>1 DEF LeaseRelease, RequestDelete, history
      <4>3. \A l \in Leases : ref[l] = lw.target => l = lw.lease
        BY <3>1, <3>3, ZenonT(30) DEF ClaimInv, ExclusiveBinding
      <4> QED BY <3>1, <4>1, <4>2, <4>3, ZenonT(30) DEF OwnInv, TypeOK
    <3> QED BY <3>2, <3>3
  <2>7. CASE LeaseFinalize
    <3>1. /\ ref' = [ref EXCEPT ![lw.lease] = None] /\ holds' = holds \ {lw.lease} /\ lw'.pc = "idle"
          /\ UNCHANGED deleting /\ lw.pc = "released" /\ lw.lease \in Leases
      BY <2>7, ZenonT(30) DEF LeaseFinalize, RemoveLease, LeaseIdle, instVars, WorkerInv, TypeOK
    <3> QED BY <3>1, ZenonT(30) DEF OwnInv, TypeOK
  <2>8. CASE LeaseError
    <3>1. lw.pc # "released" /\ lw'.pc = "idle"
      BY <1>u, <2>8, ZenonT(30) DEF LeaseError, LeaseIdle, OwnInv
    <3> QED BY <1>a, <1>b, <2>8, <3>1 DEF LeaseError, instVars, leaseVars, history
  <2> QED
    BY <1>4, <2>1, <2>2, <2>3, <2>4, <2>5, <2>6, <2>7, <2>8 DEF LeaseStep
<1>5. CASE Crash \/ UNCHANGED vars
  BY <1>a, <1>b, <1>u, <1>5 DEF Crash, vars, instVars, leaseVars, history
<1> QED
  BY <1>1, <1>2, <1>3, <1>4, <1>5 DEF Next

\* releaseBoundInstance, which deletes by name, deletes the very guest that the
\* lease was bound to, provided that no crash, failed call or edit of the lease
\* makes a release start over and no administrator deletes a leased guest.
\* (Each of the four alone lets a later guest of the same name be deleted.)
THEOREM ReleaseIsOwn ==
  ASSUME Undisturbed
  PROVE  Spec => ReleaseDeletesOwn
<1> DEFINE Own == (lw.pc = "deleting" /\ lw'.pc = "released" /\ lw.target # None) =>
                    ~Exists(lw.target) \/ lw.target \in deleting \/ lw.lease \in holds
<1>1. "editPool" \notin Env
  BY DEF Undisturbed
<1>2. Init => InductiveInv /\ OwnInv
  <2>1. Init => OwnInv
    <3> SUFFICES ASSUME Init PROVE OwnInv
      OBVIOUS
    <3>1. lw.pc = "idle" /\ holds = {} /\ \A l \in Leases : ref[l] = None
      BY DEF Init, LeaseIdle
    <3> QED BY <3>1 DEF OwnInv
  <2> QED BY <2>1, InitInv DEF InductiveInv
<1>3. InductiveInv /\ OwnInv /\ [Next]_vars => (InductiveInv /\ OwnInv)'
  <2> SUFFICES ASSUME InductiveInv, OwnInv, [Next]_vars PROVE InductiveInv' /\ OwnInv'
    OBVIOUS
  <2>1. InductiveInv'
    BY TypeStep, WorkerStep, SizeStep, HoldStep, ClaimStep DEF InductiveInv
  <2>2. OwnInv'
    BY <1>1, OwnStep DEF InductiveInv
  <2> QED BY <2>1, <2>2
<1>4. InductiveInv /\ OwnInv => [Own]_vars
  <2> SUFFICES ASSUME InductiveInv, OwnInv, lw.pc = "deleting", lw.target # None PROVE lw.lease \in holds
    OBVIOUS
  <2>1. lw.lease \in Leases /\ lw.target = ref[lw.lease]
    BY DEF InductiveInv, TypeOK, WorkerInv
  <2> QED BY <2>1 DEF OwnInv
<1> QED
  BY <1>2, <1>3, <1>4, PTL DEF Spec, ReleaseDeletesOwn

-----------------------------------------------------------------------------
(* The lifecycle of an instance.                                           *)


\* A pool or an administrator creates the object of an instance.
CreateObject(n) ==
  /\ ~Exists(n)
  /\ phase' = [phase EXCEPT ![n] = "Provisioning"]
  /\ UNCHANGED <<deleting, instFin, kubeconfig>>

\* Whatever changes an instance is a creation, a delete request, or a step of
\* the instance controller.
LEMMA InstanceChanges ==
  ASSUME InductiveInv, [Next]_vars
  PROVE  \/ UNCHANGED <<phase, deleting, instFin, kubeconfig>>
         \/ \E n \in Names : CreateObject(n) \/ RequestDelete(n)
         \/ InstanceStep
<1>1. CASE UserStep
  <2>1. ASSUME NEW l \in Leases, NEW p, CreateLease(l, p) \/ EditPoolRef(l, p) \/ DeleteLease(l)
        PROVE  UNCHANGED <<phase, deleting, instFin, kubeconfig>>
    BY <2>1 DEF CreateLease, EditPoolRef, DeleteLease, instVars
  <2>2. ASSUME NEW n \in Names, DeleteInstance(n) PROVE RequestDelete(n)
    BY <2>2 DEF DeleteInstance
  <2>3. ASSUME NEW n \in Names, CreateStandalone(n) PROVE CreateObject(n)
    BY <2>3 DEF CreateStandalone, CreateObject
  <2>4. ASSUME NEW s, ChangeNamespace(s) PROVE UNCHANGED <<phase, deleting, instFin, kubeconfig>>
    BY <2>4 DEF ChangeNamespace, instVars
  <2> QED BY <1>1, <2>1, <2>2, <2>3, <2>4 DEF UserStep
<1>2. CASE PoolStep
  <2>1. CASE PoolCreate
    <3>1. pw.target \in Names
      BY <2>1 DEF PoolCreate, InductiveInv, WorkerInv
    <3>2. CreateObject(pw.target)
      BY <2>1 DEF PoolCreate, CreateObject
    <3> QED BY <3>1, <3>2
  <2>2. CASE PoolTrim
    <3>1. pw.target \in Names
      BY <2>2 DEF PoolTrim, InductiveInv, WorkerInv
    <3> QED BY <2>2, <3>1 DEF PoolTrim
  <2>3. CASE ~PoolCreate /\ ~PoolTrim
    BY <1>2, <2>3, ZenonT(30) DEF PoolStep, PoolStart, PoolScaleUp, PoolScaleDown, PoolObserve, PoolCreateExists,
         PoolCreateRejected, PoolStatus, PoolError, instVars
  <2> QED BY <2>1, <2>2, <2>3
<1>3. CASE LeaseStep
  <2>1. CASE LeaseRelease
    <3>1. CASE lw.target = None
      BY <2>1, <3>1 DEF LeaseRelease, instVars
    <3>2. CASE lw.target # None
      <4>1. lw.target \in Names
        BY <3>2 DEF InductiveInv, TypeOK, LeaseWorkers
      <4> QED BY <2>1, <3>2, <4>1 DEF LeaseRelease
    <3> QED BY <3>1, <3>2
  <2>2. CASE ~LeaseRelease
    BY <1>3, <2>2, ZenonT(30) DEF LeaseStep, LeaseAddFinalizer, LeaseExpire, LeaseStart, LeaseMatch, LeaseWait, LeaseCopy,
         LeaseCommit, LeaseFinalize, LeaseError, instVars
  <2> QED BY <2>1, <2>2
<1>4. CASE Crash
  BY <1>4 DEF Crash, instVars
<1>5. CASE UNCHANGED vars
  BY <1>5 DEF vars, instVars
<1> QED BY <1>1, <1>2, <1>3, <1>4, <1>5 DEF Next

\* What the lifecycle sees of an instance.
Seen(n) == <<phase[n], n \in deleting, n \in instFin, n \in kubeconfig>>

\* The lifecycle of one instance does not see the steps of another.
LEMMA UnseenStep ==
  ASSUME NEW n, UNCHANGED Seen(n)
  PROVE  UNCHANGED Life(n)!vars
BY DEF Seen, Life!vars, Exists

\* A creation is a Create,
LEMMA LifeCreate ==
  ASSUME InductiveInv, deleting \subseteq instFin, NEW m \in Names, NEW n \in Names, CreateObject(m)
  PROVE  [Life(n)!Next]_(Life(n)!vars)
<1>1. CASE m # n
  BY <1>1, UnseenStep DEF CreateObject, InductiveInv, TypeOK, Seen
<1>2. CASE m = n
  <2>1. phase[n] = "Absent" /\ phase'[n] = "Provisioning" /\ n \notin instFin \cup kubeconfig \cup deleting
        /\ UNCHANGED <<instFin, kubeconfig, deleting>>
    BY <1>2 DEF CreateObject, InductiveInv, TypeOK, HoldInv, Instances, Exists
  <2>2. Life(n)!Create
    BY <2>1 DEF Life!Create, Life!Absent, Life!Created, Exists
  <2> QED BY <2>2 DEF Life!Next
<1> QED BY <1>1, <1>2

\* the end of an instance a Finish, or a Delete of one without finalizer,
LEMMA LifeRemove ==
  ASSUME InductiveInv, deleting \subseteq instFin, NEW m \in Names, NEW n \in Names, RemoveInstance(m),
         Exists(m), m \in deleting \/ m \notin instFin
  PROVE  [Life(n)!Next]_(Life(n)!vars)
<1>1. CASE m # n
  <2>1. phase'[n] = phase[n]
    BY <1>1 DEF RemoveInstance, InductiveInv, TypeOK
  <2>2. /\ n \in deleting' <=> n \in deleting
        /\ n \in instFin' <=> n \in instFin
        /\ n \in kubeconfig' <=> n \in kubeconfig
    BY <1>1 DEF RemoveInstance
  <2>3. UNCHANGED Seen(n)
    BY <2>1, <2>2 DEF Seen
  <2> QED BY <2>3, UnseenStep
<1>2. CASE m = n
  <2>1. phase'[n] = "Absent" /\ n \notin instFin' \cup kubeconfig' \cup deleting'
    BY <1>2 DEF RemoveInstance, InductiveInv, TypeOK
  <2>2. Life(n)!Absent'
    BY <2>1 DEF Life!Absent, Exists
  <2>3. CASE n \in deleting
    BY <1>2, <2>2, <2>3 DEF Life!Finish, Life!Next
  <2>4. CASE n \notin instFin
    <3>1. n \notin kubeconfig /\ n \notin deleting
      BY <2>4 DEF InductiveInv, HoldInv
    <3> QED BY <1>2, <2>2, <2>4, <3>1 DEF Life!Delete, Life!Next
  <2> QED BY <1>2, <2>3, <2>4
<1> QED BY <1>1, <1>2

\* a delete request a Delete, or nothing new,
LEMMA LifeDelete ==
  ASSUME InductiveInv, deleting \subseteq instFin, NEW m \in Names, NEW n \in Names, RequestDelete(m)
  PROVE  [Life(n)!Next]_(Life(n)!vars)
<1>1. CASE Exists(m) /\ m \notin instFin
  BY <1>1, LifeRemove DEF RequestDelete
<1>2. CASE ~(Exists(m) /\ m \notin instFin)
  <2>1. deleting' = (IF Exists(m) THEN deleting \cup {m} ELSE deleting) /\ UNCHANGED <<phase, instFin, kubeconfig>>
    BY <1>2 DEF RequestDelete
  <2>2. CASE m # n \/ ~Exists(m) \/ m \in deleting
    BY <2>1, <2>2, UnseenStep DEF Seen
  <2>3. CASE m = n /\ Exists(m) /\ m \notin deleting
    <3>1. n \in instFin /\ n \in deleting' /\ n \notin deleting /\ Exists(n) /\ Exists(n)'
      BY <1>2, <2>1, <2>3 DEF Exists
    <3>2. Life(n)!Delete
      BY <2>1, <3>1 DEF Life!Delete
    <3> QED BY <3>2 DEF Life!Next
  <2> QED BY <2>2, <2>3
<1> QED BY <1>1, <1>2

\* and the instance controller's steps are those the lifecycle names.
LEMMA LifeController ==
  ASSUME InductiveInv, deleting \subseteq instFin, NEW n \in Names, InstanceStep
  PROVE  [Life(n)!Next]_(Life(n)!vars)
<1> PICK m \in Names : \/ AddInstanceFinalizer(m) \/ MarkReady(m) \/ MarkFailed(m) \/ Retry(m) \/ PublishKubeconfig(m)
                       \/ InvalidateKubeconfig(m) \/ Demote(m) \/ FinishTeardown(m) \/ Settle(m)
  BY DEF InstanceStep
<1>1. CASE AddInstanceFinalizer(m)
  <2>1. Exists(m) /\ m \notin deleting /\ m \notin instFin /\ instFin' = instFin \cup {m} /\ UNCHANGED <<phase, deleting, kubeconfig>>
    BY <1>1 DEF AddInstanceFinalizer
  <2>2. CASE m = n
    <3>1. Life(n)!Protect
      BY <2>1, <2>2 DEF Life!Protect, Exists
    <3> QED BY <3>1 DEF Life!Next
  <2> QED BY <2>1, <2>2, UnseenStep DEF Seen
<1>2. CASE MarkReady(m) \/ MarkFailed(m) \/ Retry(m) \/ Demote(m)
  <2>1. PICK r \in {"Provisioning", "Ready", "Failed"} :
          /\ phase[m] # r /\ Exists(m) /\ m \notin deleting /\ phase' = [phase EXCEPT ![m] = r]
          /\ kubeconfig' = kubeconfig \/ (r = "Ready" /\ kubeconfig' = kubeconfig \cup {m})
          /\ UNCHANGED <<deleting, instFin>>
    BY <1>2 DEF MarkReady, MarkFailed, Retry, Demote, Exists
  <2>2. m \in instFin
    BY <1>2 DEF MarkReady, MarkFailed, Retry, Demote
  <2>3. CASE m = n
    <3>1. phase'[n] = r
      BY <2>1, <2>3 DEF InductiveInv, TypeOK
    <3>2. Life(n)!Report
      BY <2>1, <2>2, <2>3, <3>1 DEF Life!Report, Life!Reports, Exists
    <3> QED BY <3>2 DEF Life!Next
  <2>4. CASE m # n
    <3>1. phase'[n] = phase[n]
      BY <2>1, <2>4 DEF InductiveInv, TypeOK
    <3>2. n \in kubeconfig' <=> n \in kubeconfig
      BY <2>1, <2>4
    <3>3. UNCHANGED Seen(n)
      BY <2>1, <3>1, <3>2 DEF Seen
    <3> QED BY <3>3, UnseenStep
  <2> QED BY <2>3, <2>4
<1>3. CASE PublishKubeconfig(m) \/ InvalidateKubeconfig(m)
  <2>1. /\ \/ m \in instFin \ kubeconfig /\ kubeconfig' = kubeconfig \cup {m}
           \/ m \in kubeconfig /\ kubeconfig' = kubeconfig \ {m}
        /\ UNCHANGED <<phase, deleting, instFin>>
    BY <1>3 DEF PublishKubeconfig, InvalidateKubeconfig
  <2>2. CASE m = n
    <3>1. Life(n)!Publish \/ Life(n)!Withdraw
      BY <2>1, <2>2 DEF Life!Publish, Life!Withdraw, Exists
    <3> QED BY <3>1 DEF Life!Next
  <2> QED BY <2>1, <2>2, UnseenStep DEF Seen
<1>4. CASE FinishTeardown(m)
  <2>1. m \in deleting /\ RemoveInstance(m) /\ Exists(m)
    BY <1>4 DEF FinishTeardown, InductiveInv, HoldInv, Instances
  <2> QED BY <2>1, LifeRemove
<1>5. CASE Settle(m)
  BY <1>5, UnseenStep DEF Settle, Seen
<1> QED BY <1>1, <1>2, <1>3, <1>4, <1>5

\* An instance being deleted has the finalizer.
LEMMA DeletingProtected ==
  ASSUME InductiveInv, deleting \subseteq instFin, [Next]_vars
  PROVE  (deleting \subseteq instFin)'
<1>1. ASSUME NEW n \in Names, CreateObject(n) \/ RequestDelete(n) PROVE (deleting \subseteq instFin)'
  BY <1>1 DEF CreateObject, RequestDelete, RemoveInstance
<1>2. CASE InstanceStep
  BY <1>2 DEF InstanceStep, AddInstanceFinalizer, MarkReady, MarkFailed, Retry, PublishKubeconfig, InvalidateKubeconfig,
              Demote, FinishTeardown, RemoveInstance, Settle
<1> QED BY <1>1, <1>2, InstanceChanges

\* Every instance keeps to the lifecycle that module Instances implements,
\* whatever the pools, the leases and the administrators do to it.
THEOREM InstancesKeepLifecycle ==
  ASSUME NEW n \in Names
  PROVE  Spec => Life(n)!Spec
<1> DEFINE Protected == deleting \subseteq instFin
<1>1. Init => InductiveInv /\ Protected
  <2>1. Init => Protected
    BY DEF Init
  <2> QED BY <2>1, InitInv DEF InductiveInv
<1>2. InductiveInv /\ Protected /\ [Next]_vars => (InductiveInv /\ Protected)'
  <2> SUFFICES ASSUME InductiveInv, Protected, [Next]_vars PROVE InductiveInv' /\ Protected'
    OBVIOUS
  <2>1. InductiveInv'
    BY TypeStep, WorkerStep, SizeStep, HoldStep, ClaimStep DEF InductiveInv
  <2>2. Protected'
    BY DeletingProtected
  <2> QED BY <2>1, <2>2
<1>3. Init => Life(n)!Init
  BY DEF Init, Life!Init, Life!Absent, Exists
<1>4. InductiveInv /\ Protected /\ [Next]_vars => [Life(n)!Next]_(Life(n)!vars)
  <2> SUFFICES ASSUME InductiveInv, Protected, [Next]_vars PROVE [Life(n)!Next]_(Life(n)!vars)
    OBVIOUS
  <2>1. CASE UNCHANGED <<phase, deleting, instFin, kubeconfig>>
    BY <2>1, UnseenStep DEF Seen
  <2> QED BY <2>1, InstanceChanges, LifeCreate, LifeDelete, LifeController
<1> QED
  BY <1>1, <1>2, <1>3, <1>4, PTL DEF Spec, Life!Spec

\* A step of the lifecycle by the instance controller, and what it means to
\* the pool: the owner is woken, and readiness begins or ends.
GuestMoves(n) ==
  /\ \/ (Life(n)!Protect \/ Life(n)!Report) /\ WakeOwner(n)
     \/ (Life(n)!Publish \/ Life(n)!Withdraw) /\ queue' = queue
  /\ phase' = [phase EXCEPT ![n] = phase'[n]]
  /\ instFin' \in {instFin, instFin \cup {n}}
  /\ kubeconfig' \in {kubeconfig, kubeconfig \cup {n}, kubeconfig \ {n}}
  /\ settled' = IF phase'[n] \in {phase[n], "Ready"} THEN settled ELSE settled \ {n}
  /\ UNCHANGED <<deleting, standalone, leaseVars, ns, capacity, lock, pw, lw, history>>

\* Conversely, where guests may fail and break, no step of the lifecycle that
\* the instance controller may take is missing from this module.
THEOREM BrokerCoversLifecycle ==
  ASSUME NEW n \in Names, TypeOK, "fail" \in Env, "demote" \in Env, ns # "terminating", GuestMoves(n)
  PROVE  InstanceStep
<1> DEFINE Frame == UNCHANGED <<deleting, standalone, leaseVars, ns, capacity, lock, pw, lw, history>>
<1>f. Frame
  BY DEF GuestMoves
<1>g. /\ phase' = [phase EXCEPT ![n] = phase'[n]] /\ phase \in [Names -> {"Absent", "Provisioning", "Ready", "Failed"}]
      /\ instFin' \in {instFin, instFin \cup {n}}
      /\ kubeconfig' \in {kubeconfig, kubeconfig \cup {n}, kubeconfig \ {n}}
      /\ settled' = IF phase'[n] \in {phase[n], "Ready"} THEN settled ELSE settled \ {n}
  BY DEF GuestMoves, TypeOK
<1>s. phase'[n] = phase[n] => phase' = phase /\ settled' = settled
  BY <1>g
<1>i. n \in instFin => instFin' = instFin
  BY <1>g
<1>k. /\ n \in kubeconfig /\ n \in kubeconfig' => kubeconfig' = kubeconfig
      /\ n \notin kubeconfig /\ n \notin kubeconfig' => kubeconfig' = kubeconfig
      /\ n \notin kubeconfig /\ n \in kubeconfig' => kubeconfig' = kubeconfig \cup {n}
      /\ n \in kubeconfig /\ n \notin kubeconfig' => kubeconfig' = kubeconfig \ {n}
  BY <1>g
<1>1. CASE Life(n)!Protect /\ WakeOwner(n)
  <2>1. Exists(n) /\ n \notin deleting /\ n \notin instFin /\ n \in instFin' /\ phase'[n] = phase[n]
        /\ (n \in kubeconfig' <=> n \in kubeconfig)
    BY <1>1 DEF Life!Protect
  <2>2. instFin' = instFin \cup {n} /\ phase' = phase /\ kubeconfig' = kubeconfig /\ settled' = settled /\ WakeOwner(n)
    BY <1>1, <1>g, <1>s, <1>k, <2>1
  <2>3. AddInstanceFinalizer(n)
    BY <1>f, <2>1, <2>2 DEF AddInstanceFinalizer
  <2> QED BY <2>3 DEF InstanceStep
<1>2. CASE Life(n)!Report /\ WakeOwner(n)
  <2> DEFINE r == phase'[n]
  <2>1. /\ Exists(n) /\ n \notin deleting /\ n \in instFin /\ n \in instFin'
        /\ r \in {"Provisioning", "Ready", "Failed"} /\ r # phase[n]
        /\ (n \in kubeconfig' <=> n \in kubeconfig) \/ (r = "Ready" /\ n \in kubeconfig')
    BY <1>2 DEF Life!Report, Life!Reports
  <2>2. instFin' = instFin /\ phase' = [phase EXCEPT ![n] = r] /\ WakeOwner(n)
    BY <1>2, <1>g, <1>i, <2>1
  <2>3. kubeconfig' = kubeconfig \/ (r = "Ready" /\ kubeconfig' = kubeconfig \cup {n})
    BY <1>k, <2>1
  <2>4. settled' = IF r = "Ready" THEN settled ELSE settled \ {n}
    BY <1>g, <2>1
  <2>5. phase[n] \in {"Provisioning", "Ready", "Failed"}
    BY <2>1 DEF TypeOK, Exists
  <2>6. CASE r = "Ready"
    <3>1. MarkReady(n)
      BY <1>f, <2>1, <2>2, <2>3, <2>4, <2>5, <2>6 DEF MarkReady
    <3> QED BY <3>1 DEF InstanceStep
  <2>7. CASE r = "Failed"
    <3>1. MarkFailed(n)
      BY <1>f, <2>1, <2>2, <2>3, <2>4, <2>5, <2>7 DEF MarkFailed
    <3> QED BY <3>1 DEF InstanceStep
  <2>8. CASE r = "Provisioning" /\ phase[n] = "Failed"
    <3>1. Retry(n)
      BY <1>f, <2>1, <2>2, <2>3, <2>4, <2>8 DEF Retry
    <3> QED BY <3>1 DEF InstanceStep
  <2>9. CASE r = "Provisioning" /\ phase[n] = "Ready"
    <3>1. Demote(n)
      BY <1>f, <2>1, <2>2, <2>3, <2>4, <2>9 DEF Demote
    <3> QED BY <3>1 DEF InstanceStep
  <2>10. r \in {"Ready", "Failed"} \/ (r = "Provisioning" /\ phase[n] \in {"Ready", "Failed"})
    BY <2>1, <2>5
  <2> HIDE DEF r
  <2> QED BY <2>6, <2>7, <2>8, <2>9, <2>10
<1>3. CASE (Life(n)!Publish \/ Life(n)!Withdraw) /\ queue' = queue
  <2>1. /\ \/ n \in instFin /\ n \notin kubeconfig /\ n \in kubeconfig'
           \/ n \in kubeconfig /\ n \notin kubeconfig'
        /\ phase'[n] = phase[n] /\ (n \in instFin' <=> n \in instFin)
    BY <1>3 DEF Life!Publish, Life!Withdraw
  <2>2. instFin' = instFin /\ phase' = phase /\ settled' = settled
    BY <1>g, <1>s, <2>1
  <2>3. \/ n \in instFin \ kubeconfig /\ kubeconfig' = kubeconfig \cup {n}
        \/ n \in kubeconfig /\ kubeconfig' = kubeconfig \ {n}
    BY <1>k, <2>1
  <2>4. PublishKubeconfig(n) \/ InvalidateKubeconfig(n)
    BY <1>f, <1>3, <2>2, <2>3 DEF PublishKubeconfig, InvalidateKubeconfig
  <2> QED BY <2>4 DEF InstanceStep
<1> QED BY <1>1, <1>2, <1>3 DEF GuestMoves

-----------------------------------------------------------------------------
\* The pool's arithmetic never oscillates.  On one listing it does not want to
\* add and to trim at once; an instance it trims is not missed when it is gone;
\* an instance it adds is not in excess once it is Ready.
THEOREM NoOscillation ==
  ASSUME NEW spec \in PoolSpecs, NEW total \in Nat, NEW available \in Nat, NEW pending \in Nat, NEW demand \in Nat
  PROVE  /\ Need(spec, total, available + pending, demand) > 0 =>
              /\ Excess(spec, total, available, demand) <= 0
              /\ Excess(spec, total + 1, available + 1, demand) <= 0
         /\ Excess(spec, total, available, demand) > 0 =>
              Need(spec, total - 1, (available - 1) + pending, demand) <= 0
<1>1. spec.minSize \in Int /\ spec.warmSpares \in Int
  BY DEF PoolSpecs
<1>2. Need(spec, total, available + pending, demand) > 0 => Excess(spec, total, available, demand) <= 0
  BY <1>1, SMTT(30) DEF Need, Excess, Larger, Smaller
<1>3. Need(spec, total, available + pending, demand) > 0 => Excess(spec, total + 1, available + 1, demand) <= 0
  BY <1>1, SMTT(30) DEF Need, Excess, Larger, Smaller
<1>4. Excess(spec, total, available, demand) > 0 => Need(spec, total - 1, (available - 1) + pending, demand) <= 0
  BY <1>1, SMTT(30) DEF Need, Excess, Larger, Smaller
<1> QED
  BY <1>2, <1>3, <1>4
=============================================================================
