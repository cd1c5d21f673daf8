------------------------------ MODULE Instances ------------------------------
(***************************************************************************)
(* The ClusterInstance controller at work on one instance of either        *)
(* topology: Reconcile, which both share, dispatches to the steps of       *)
(* CRCInstance or of HyperShiftInstance.                                   *)
(***************************************************************************)
EXTENDS CRCInstance, HyperShiftInstance

vars == <<sharedVars, crcVars, hcpVars>>

\* The kubeconfig is of a VMI or of a HostedCluster, as the topology has it.
TypeOK ==
  /\ CRCTypeOK /\ HCPTypeOK /\ topology \in {"crc", "hypershift"}
  /\ {published, w.uid} \subseteq 0..(IF topology = "crc" THEN MaxUID ELSE MaxHC)

Init == SharedInit /\ CRCInit /\ HCPInit

ReconcileStep ==
  \/ topology = "crc" /\ CRCController /\ UNCHANGED hcpVars
  \/ topology = "hypershift" /\ HCPController /\ UNCHANGED crcVars
  \/ SharedStep /\ UNCHANGED <<crcVars, hcpVars>>

Surroundings ==
  \/ topology = "crc" /\ (Platform \/ SyncCache \/ Agents \/ CRCEnvironment) /\ UNCHANGED hcpVars
  \/ topology = "hypershift" /\ (HyperShift \/ LoseCluster \/ TakeName) /\ UNCHANGED crcVars
  \/ SharedFault /\ UNCHANGED <<crcVars, hcpVars>>

Next == ReconcileStep \/ Surroundings

Spec == Init /\ [][Next]_vars

\* Errors and waits are requeued, so the one worker keeps going.
FairSpec == Spec /\ WF_vars(ReconcileStep) /\ CRCFairness /\ HCPFairness

\* The API host name of an instance never changes once it is recorded, even
\* when its Route is lost and the ingress domain is another one by then.
EndpointStable == [][status.endpoint # 0 => status'.endpoint = status.endpoint]_status

\* The instance as pools and leases see it.
Lifecycle == INSTANCE GuestLifecycle WITH
  object <- IF object = "gone" THEN "absent" ELSE object,
  phase <- IF object = "gone" THEN "Absent" ELSE IF status.phase = "New" THEN "Provisioning" ELSE status.phase,
  published <- object # "gone" /\ published # 0

\* The controller keeps to that lifecycle: it reports and publishes only under
\* the finalizer, a pass that began before the deletion no longer reports
\* (its update is a conflict), and the object goes only by way of teardown.
ImplementsLifecycle == Lifecycle!Spec

\* Every deletion ends: the backing objects go and the finalizer is removed,
\* wherever the deletion, a crash or the loss of a part met the instance.
DeletionEnds == object = "deleting" ~> object = "gone"
=============================================================================
