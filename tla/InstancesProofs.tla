--------------------------- MODULE InstancesProofs ---------------------------
(***************************************************************************)
(* What holds of every ClusterInstance, of whatever topology: its records  *)
(* keep their fields and types, a pass fits the object and the phase it    *)
(* started from, the API host name never changes, and the instance goes    *)
(* through the lifecycle of module GuestLifecycle.                         *)
(***************************************************************************)
EXTENDS Instances, TLAPS

\* The fields of the records.
WorkerShape ==
  w = [pc |-> w.pc, object |-> w.object, uid |-> w.uid, pending |-> w.pending, vmPending |-> w.vmPending]

StatusShape ==
  status = [phase |-> status.phase, endpoint |-> status.endpoint, vmiUID |-> status.vmiUID,
            binding |-> status.binding]

CRCWorld ==
  /\ vmi = [uid |-> vmi.uid, phase |-> vmi.phase] /\ seen = [uid |-> seen.uid, phase |-> seen.phase]
  /\ disk = [state |-> disk.state, src |-> disk.src]
  /\ job = [u \in UIDs |-> job[u]]

HCPWorld == hc = [id |-> hc.id, state |-> hc.state] /\ np = [owner |-> np.owner, state |-> np.state]

Shape == WorkerShape /\ StatusShape /\ CRCWorld /\ HCPWorld

\* Steps of a pass that provisions, and of one that tears down.
ProvisionPCs ==
  {"provision", "source", "key", "disk", "vm", "observe", "rbac", "endpoint", "route", "job", "assess",
   "cert", "createHC", "nodePool", "backing", "finalCert", "guestAPI"}

TeardownPCs ==
  {"terminate", "teardown", "keys", "stopVM", "deleteVMI", "deleteLauncher", "deleteDisk", "leftovers",
   "deleteNodePool", "deleteCert", "awaitWorkers", "finish"}

\* A pass works under the finalizer, provisions only what is not Ready, and
\* tears down only what is being deleted.
PassFits ==
  /\ object \in {"live", "deleting", "gone"}
  /\ w.pc # "idle" => finalizer /\ object # "gone"
  /\ w.pc \in ProvisionPCs => status.phase # "Ready"
  /\ w.pc \in TeardownPCs => object # "live"

PassInv == Shape /\ PassFits

-----------------------------------------------------------------------------
(* The fields.                                                             *)

\* The worker goes on with another VMI.
LEMMA GoesOn ==
  ASSUME WorkerShape, NEW pc, NEW uid, w' = [w EXCEPT !.pc = pc, !.uid = uid]
  PROVE  WorkerShape'
BY DEF WorkerShape

\* The steps for a CRC instance keep the fields of the worker,
LEMMA CRCWorker ==
  ASSUME WorkerShape, CRCController
  PROVE  WorkerShape'
<1> USE DEF WriteStatus, FinishStatus, Goto, EndPass, IdleWorker, NotReady, BootKeyUnavailable, Waiting
<1>1. CASE ProvisionVMI
  BY <1>1 DEF ProvisionVMI, WorkerShape
<1>2. CASE ResolveSource
  BY <1>2 DEF ResolveSource, WorkerShape
<1>3. CASE EnsureBootKey
  BY <1>3 DEF EnsureBootKey, WorkerShape
<1>4. CASE EnsureDisk
  BY <1>4 DEF EnsureDisk, WorkerShape
<1>5. CASE EnsureVM \/ EnsureRBAC \/ CreateRoute
  BY <1>5 DEF EnsureVM, EnsureRBAC, CreateRoute, WorkerShape
<1>6. CASE ObserveVMI
  <2>1. w' = IdleWorker \/ w' = [w EXCEPT !.pc = "rbac", !.uid = seen.uid]
    BY <1>6 DEF ObserveVMI, WorkerShape
  <2>q. QED
    BY <2>1, GoesOn DEF WorkerShape
<1>7. CASE RecordEndpoint
  BY <1>7 DEF RecordEndpoint, WorkerShape
<1>8. CASE EnsureAgentJob
  BY <1>8 DEF EnsureAgentJob, WorkerShape
<1>9. CASE AssessAgent
  BY <1>9 DEF AssessAgent, WorkerShape
<1>10. CASE PublishKubeconfig \/ MarkReady
  BY <1>10 DEF PublishKubeconfig, MarkReady, WorkerShape
<1>11. CASE CheckReadyVMI
  BY <1>11 DEF CheckReadyVMI, WorkerShape
<1>12. CASE CheckPublished
  <2>1. w' = IdleWorker \/ w' = [w EXCEPT !.pc = "publish", !.uid = status.vmiUID]
    BY <1>12 DEF CheckPublished, WorkerShape
  <2>q. QED
    BY <2>1, GoesOn DEF WorkerShape
<1>13. CASE DropStaleJob
  BY <1>13 DEF DropStaleJob, WorkerShape
<1>14. CASE DropPublished \/ Invalidate
  BY <1>14 DEF DropPublished, Invalidate, WorkerShape
<1>15. CASE DeleteJobs \/ DeleteKeys
  BY <1>15 DEF DeleteJobs, DeleteKeys, WorkerShape
<1>16. CASE DeleteVM
  BY <1>16 DEF DeleteVM, WorkerShape
<1>17. CASE DeleteVMI
  BY <1>17 DEF DeleteVMI, WorkerShape
<1>18. CASE AwaitLauncher \/ DeleteDisk \/ DeleteLeftovers
  BY <1>18 DEF AwaitLauncher, DeleteDisk, DeleteLeftovers, WorkerShape
<1>q. QED
  BY <1>1, <1>2, <1>3, <1>4, <1>5, <1>6, <1>7, <1>8, <1>9, <1>10, <1>11, <1>12, <1>13, <1>14, <1>15, <1>16,
    <1>17, <1>18 DEF CRCController, Provision, Recover, Teardown

\* and those of the status.
LEMMA CRCStatus ==
  ASSUME StatusShape, CRCController
  PROVE  StatusShape'
<1> USE DEF WriteStatus, FinishStatus, Goto, EndPass, IdleWorker, NotReady, BootKeyUnavailable, Waiting
<1>1. CASE ProvisionVMI
  BY <1>1 DEF ProvisionVMI, StatusShape
<1>2. CASE ResolveSource
  BY <1>2 DEF ResolveSource, StatusShape
<1>3. CASE EnsureBootKey
  BY <1>3 DEF EnsureBootKey, StatusShape
<1>4. CASE EnsureDisk
  BY <1>4 DEF EnsureDisk, StatusShape
<1>5. CASE EnsureVM \/ EnsureRBAC \/ CreateRoute
  BY <1>5 DEF EnsureVM, EnsureRBAC, CreateRoute, StatusShape
<1>6. CASE ObserveVMI
  BY <1>6 DEF ObserveVMI, StatusShape
<1>7. CASE RecordEndpoint
  BY <1>7 DEF RecordEndpoint, StatusShape
<1>8. CASE EnsureAgentJob
  BY <1>8 DEF EnsureAgentJob, StatusShape
<1>9. CASE AssessAgent
  BY <1>9 DEF AssessAgent, StatusShape
<1>10. CASE PublishKubeconfig \/ MarkReady
  BY <1>10 DEF PublishKubeconfig, MarkReady, StatusShape
<1>11. CASE CheckReadyVMI
  BY <1>11 DEF CheckReadyVMI, StatusShape
<1>12. CASE CheckPublished
  BY <1>12 DEF CheckPublished, StatusShape
<1>13. CASE DropStaleJob
  BY <1>13 DEF DropStaleJob, StatusShape
<1>14. CASE DropPublished \/ Invalidate
  BY <1>14 DEF DropPublished, Invalidate, StatusShape
<1>15. CASE DeleteJobs \/ DeleteKeys
  BY <1>15 DEF DeleteJobs, DeleteKeys, StatusShape
<1>16. CASE DeleteVM
  BY <1>16 DEF DeleteVM, StatusShape
<1>17. CASE DeleteVMI
  BY <1>17 DEF DeleteVMI, StatusShape
<1>18. CASE AwaitLauncher \/ DeleteDisk \/ DeleteLeftovers
  BY <1>18 DEF AwaitLauncher, DeleteDisk, DeleteLeftovers, StatusShape
<1>q. QED
  BY <1>1, <1>2, <1>3, <1>4, <1>5, <1>6, <1>7, <1>8, <1>9, <1>10, <1>11, <1>12, <1>13, <1>14, <1>15, <1>16,
    <1>17, <1>18 DEF CRCController, Provision, Recover, Teardown

\* The steps for a hosted cluster keep the fields of the worker,
LEMMA HCPWorker ==
  ASSUME WorkerShape, HCPController
  PROVE  WorkerShape'
<1> USE DEF WriteStatus, FinishStatus, Goto, EndPass, IdleWorker, Wait, Conflict
<1>1. CASE PlaceHosted
  BY <1>1 DEF PlaceHosted, WorkerShape
<1>2. CASE EnsureServingCert \/ CreateHostedCluster
  BY <1>2 DEF EnsureServingCert, CreateHostedCluster, WorkerShape
<1>3. CASE EnsureNodePool
  <2>1. w' = IdleWorker \/ w' = [w EXCEPT !.pc = "backing", !.uid = hc.id]
    BY <1>3 DEF EnsureNodePool, WorkerShape
  <2>q. QED
    BY <2>1, GoesOn DEF WorkerShape
<1>4. CASE AwaitBacking
  BY <1>4 DEF AwaitBacking, WorkerShape
<1>5. CASE EnsureAPIRoute
  BY <1>5 DEF EnsureAPIRoute, WorkerShape
<1>6. CASE CheckHostedAPI
  BY <1>6 DEF CheckHostedAPI, WorkerShape
<1>7. CASE PublishHosted \/ MarkHostedReady
  BY <1>7 DEF PublishHosted, MarkHostedReady, WorkerShape
<1>8. CASE CheckReadyHosted
  BY <1>8 DEF CheckReadyHosted, WorkerShape
<1>9. CASE CheckReadyAPI
  BY <1>9 DEF CheckReadyAPI, WorkerShape
<1>10. CASE DeleteHostedCluster
  BY <1>10 DEF DeleteHostedCluster, WorkerShape
<1>11. CASE DeleteNodePool
  BY <1>11 DEF DeleteNodePool, WorkerShape
<1>12. CASE DeleteServingCert \/ AwaitWorkers
  BY <1>12 DEF DeleteServingCert, AwaitWorkers, WorkerShape
<1>q. QED
  BY <1>1, <1>2, <1>3, <1>4, <1>5, <1>6, <1>7, <1>8, <1>9, <1>10, <1>11, <1>12 DEF HCPController

\* and those of the status.
LEMMA HCPStatus ==
  ASSUME StatusShape, HCPController
  PROVE  StatusShape'
<1> USE DEF WriteStatus, FinishStatus, Goto, EndPass, IdleWorker, Wait, Conflict
<1>1. CASE PlaceHosted
  BY <1>1 DEF PlaceHosted, StatusShape
<1>2. CASE EnsureServingCert \/ CreateHostedCluster
  BY <1>2 DEF EnsureServingCert, CreateHostedCluster, StatusShape
<1>3. CASE EnsureNodePool
  BY <1>3 DEF EnsureNodePool, StatusShape
<1>4. CASE AwaitBacking
  BY <1>4 DEF AwaitBacking, StatusShape
<1>5. CASE EnsureAPIRoute
  BY <1>5 DEF EnsureAPIRoute, StatusShape
<1>6. CASE CheckHostedAPI
  BY <1>6 DEF CheckHostedAPI, StatusShape
<1>7. CASE PublishHosted \/ MarkHostedReady
  BY <1>7 DEF PublishHosted, MarkHostedReady, StatusShape
<1>8. CASE CheckReadyHosted
  BY <1>8 DEF CheckReadyHosted, StatusShape
<1>9. CASE CheckReadyAPI
  BY <1>9 DEF CheckReadyAPI, StatusShape
<1>10. CASE DeleteHostedCluster
  BY <1>10 DEF DeleteHostedCluster, StatusShape
<1>11. CASE DeleteNodePool
  BY <1>11 DEF DeleteNodePool, StatusShape
<1>12. CASE DeleteServingCert \/ AwaitWorkers
  BY <1>12 DEF DeleteServingCert, AwaitWorkers, StatusShape
<1>q. QED
  BY <1>1, <1>2, <1>3, <1>4, <1>5, <1>6, <1>7, <1>8, <1>9, <1>10, <1>11, <1>12 DEF HCPController

\* Reconcile itself and the faults keep the fields of both.
LEMMA SharedShapes ==
  ASSUME WorkerShape, StatusShape, SharedStep \/ SharedFault
  PROVE  WorkerShape' /\ StatusShape'
<1> USE DEF WriteStatus, FinishStatus, EndPass, IdleWorker
<1>1. CASE AddFinalizer \/ StartPass \/ DeleteInstance \/ Crash \/ LoseRoute \/ EditRoute \/ ChangeDomain
           \/ LosePublished \/ DropFinalizer
  <2>1. StatusShape'
    BY <1>1 DEF AddFinalizer, StartPass, DropFinalizer, DeleteInstance, Crash, LoseRoute, EditRoute, ChangeDomain,
                LosePublished, StatusShape
  <2>2. WorkerShape'
    BY <1>1 DEF AddFinalizer, StartPass, DropFinalizer, DeleteInstance, Crash, LoseRoute, EditRoute, ChangeDomain,
                LosePublished, WorkerShape
  <2>q. QED
    BY <2>1, <2>2
<1>2. CASE Terminate \/ MarkFailed \/ PlatformBlocked
  <2>1. StatusShape'
    BY <1>2 DEF Terminate, MarkFailed, PlatformBlocked, StatusShape
  <2>2. WorkerShape'
    BY <1>2 DEF Terminate, MarkFailed, PlatformBlocked, WorkerShape
  <2>q. QED
    BY <2>1, <2>2
<1>q. QED
  BY <1>1, <1>2 DEF SharedStep, SharedFault

\* Surroundings that work on other things than the object.
CRCSurroundings == Platform \/ SyncCache \/ Agents \/ CRCEnvironment
HCPSurroundings == HyperShift \/ LoseCluster \/ TakeName

\* The platform, the agents and other parties leave worker and status alone.
LEMMA SurroundingsApart ==
  ASSUME CRCSurroundings \/ HCPSurroundings
  PROVE  /\ UNCHANGED <<topology, env, object, finalizer, status, published, w>>
         /\ CRCSurroundings => UNCHANGED route
<1>1. ASSUME Platform \/ SyncCache PROVE UNCHANGED sharedVars
  BY <1>1 DEF Platform, SyncCache, BootVM, RunVM, RemoveVMI, SeeHalt, RemoveVM, RemoveLauncher, CloneDisk, RemovePVC
<1>2. ASSUME Agents \/ CRCEnvironment PROVE UNCHANGED sharedVars
  BY <1>2 DEF Agents, AgentWorks, CRCEnvironment, StopVM, PrepareBundle, LoseCopy, AgentFails
<1>3. ASSUME HCPSurroundings PROVE UNCHANGED sharedVars \/ RemoveControlPlane
  BY <1>3 DEF HCPSurroundings, HyperShift, LoseCluster, TakeName, StartControlPlane, StartWorkers, CascadeNodePool,
              StopWorkers, RemoveNodePool, RemoveHostedCluster, AdmitRoute
<1>q. QED
  BY <1>1, <1>2, <1>3 DEF CRCSurroundings, sharedVars, RemoveControlPlane, Object

\* The cases of a step, with what each topology leaves alone.
LEMMA StepCases ==
  ASSUME Next
  PROVE  \/ topology = "crc" /\ CRCController /\ UNCHANGED hcpVars
         \/ topology = "hypershift" /\ HCPController /\ UNCHANGED crcVars
         \/ topology = "crc" /\ CRCSurroundings /\ UNCHANGED hcpVars
         \/ topology = "hypershift" /\ HCPSurroundings /\ UNCHANGED crcVars
         \/ (SharedStep \/ SharedFault) /\ UNCHANGED <<crcVars, hcpVars>>
BY DEF Next, ReconcileStep, Surroundings, CRCSurroundings, HCPSurroundings

\* Worker and status keep their fields in every step.
LEMMA WorkerShapes ==
  ASSUME Shape, Next
  PROVE  WorkerShape' /\ StatusShape'
<1>a. WorkerShape /\ StatusShape
  BY DEF Shape
<1>1. CASE CRCController
  BY <1>1, <1>a, CRCWorker, CRCStatus
<1>2. CASE HCPController
  BY <1>2, <1>a, HCPWorker, HCPStatus
<1>3. CASE CRCSurroundings \/ HCPSurroundings
  <2>1. w' = w /\ status' = status
    BY <1>3, SurroundingsApart
  <2>q. QED
    BY <1>a, <2>1 DEF WorkerShape, StatusShape
<1>4. CASE SharedStep \/ SharedFault
  BY <1>4, <1>a, SharedShapes
<1>q. QED
  BY <1>1, <1>2, <1>3, <1>4, StepCases

\* The steps for a CRC instance keep the fields of VMI and disk,
LEMMA CRCWorldShape ==
  ASSUME CRCWorld, CRCController \/ CRCSurroundings
  PROVE  CRCWorld'
<1> USE DEF CRCWorld, contractVars, Backing, World
<1>1. CASE Provision
  <2>1. UNCHANGED <<vmi, seen>> /\ job' = [u \in UIDs |-> job'[u]]
    BY <1>1 DEF Provision, ProvisionVMI, ResolveSource, EnsureBootKey, EnsureDisk, EnsureVM, ObserveVMI, EnsureRBAC,
                RecordEndpoint, CreateRoute, EnsureAgentJob, CreateJob, AssessAgent, PublishKubeconfig, MarkReady
  <2>2. disk' = [state |-> disk'.state, src |-> disk'.src]
    <3>1. disk' = disk \/ EnsureDisk
      BY <1>1 DEF Provision, ProvisionVMI, ResolveSource, EnsureBootKey, EnsureVM, ObserveVMI, EnsureRBAC,
                  RecordEndpoint, CreateRoute, EnsureAgentJob, AssessAgent, PublishKubeconfig, MarkReady
    <3>q. QED
      BY <3>1 DEF EnsureDisk
  <2>q. QED
    BY <2>1, <2>2
<1>2. CASE Recover
  BY <1>2 DEF Recover, CheckReadyVMI, CheckPublished, DropStaleJob, DeleteJob, DropPublished, Invalidate
<1>3. CASE Teardown
  <2>1. seen' = seen /\ job' = [u \in UIDs |-> job'[u]]
    BY <1>3 DEF Teardown, DeleteJobs, AllJobsDeleted, DeleteKeys, DeleteVM, DeleteVMI, Stop, AwaitLauncher,
                DeleteDisk, DeleteLeftovers
  <2>2. vmi' = [uid |-> vmi'.uid, phase |-> vmi'.phase]
    <3>1. vmi' = vmi \/ Stop
      BY <1>3 DEF Teardown, DeleteJobs, DeleteKeys, DeleteVM, DeleteVMI, AwaitLauncher, DeleteDisk, DeleteLeftovers
    <3>q. QED
      BY <3>1 DEF Stop
  <2>3. disk' = [state |-> disk'.state, src |-> disk'.src]
    BY <1>3 DEF Teardown, DeleteJobs, DeleteKeys, DeleteVM, DeleteVMI, AwaitLauncher, DeleteDisk, DeleteLeftovers
  <2>q. QED
    BY <2>1, <2>2, <2>3
<1>4. CASE Platform \/ SyncCache
  BY <1>4 DEF Platform, SyncCache, BootVM, Boot, RunVM, Run, RemoveVMI, Vanish, SeeHalt, RemoveVM, RemoveLauncher,
              CloneDisk, RemovePVC, NoDisk
<1>5. CASE Agents
  BY <1>5 DEF Agents, AgentWorks, Prepare, Publish, Complete, JobGone
<1>6. CASE CRCEnvironment
  BY <1>6 DEF CRCEnvironment, StopVM, Stop, PrepareBundle, LoseCopy, AgentFails, Fail
<1>q. QED
  BY <1>1, <1>2, <1>3, <1>4, <1>5, <1>6 DEF CRCController, CRCSurroundings

\* those for a hosted cluster the fields of HostedCluster and NodePool.
LEMMA HCPWorldShape ==
  ASSUME HCPWorld, HCPController \/ HCPSurroundings
  PROVE  HCPWorld'
<1> USE DEF HCPWorld, hcpVars
<1>1. CASE HCPController
  BY <1>1 DEF HCPController, PlaceHosted, EnsureServingCert, CreateHostedCluster, EnsureNodePool, AwaitBacking,
              EnsureAPIRoute, CheckHostedAPI, PublishHosted, MarkHostedReady, CheckReadyHosted, CheckReadyAPI,
              DeleteHostedCluster, DeleteNodePool, DeleteServingCert, AwaitWorkers
<1>2. CASE HCPSurroundings
  BY <1>2 DEF HCPSurroundings, HyperShift, LoseCluster, TakeName, StartControlPlane, StartWorkers, CascadeNodePool,
              StopWorkers, RemoveNodePool, RemoveControlPlane, RemoveHostedCluster, AdmitRoute
<1>q. QED
  BY <1>1, <1>2

\* All records keep their fields.
LEMMA ShapeKept ==
  ASSUME Shape, Next
  PROVE  Shape'
<1>1. CRCWorld /\ HCPWorld
  BY DEF Shape
<1>2. UNCHANGED crcVars => CRCWorld'
  BY <1>1 DEF crcVars, contractVars, CRCWorld
<1>3. UNCHANGED hcpVars => HCPWorld'
  BY <1>1 DEF hcpVars, HCPWorld
<1>4. CRCWorld' /\ HCPWorld'
  BY <1>1, <1>2, <1>3, StepCases, CRCWorldShape, HCPWorldShape
<1>q. QED
  BY <1>4, WorkerShapes DEF Shape

-----------------------------------------------------------------------------
(* The API host name.                                                      *)

EndpointKept == status.endpoint # 0 => status'.endpoint = status.endpoint

\* No step for a CRC instance replaces the recorded host name,
LEMMA CRCEndpoint ==
  ASSUME StatusShape, CRCController
  PROVE  EndpointKept
<1> USE DEF WriteStatus, FinishStatus, Goto, EndPass, IdleWorker, NotReady, BootKeyUnavailable, Waiting, EndpointKept
<1>1. CASE ProvisionVMI
  BY <1>1 DEF ProvisionVMI, StatusShape
<1>2. CASE ResolveSource
  BY <1>2 DEF ResolveSource, StatusShape
<1>3. CASE EnsureBootKey
  BY <1>3 DEF EnsureBootKey, StatusShape
<1>4. CASE EnsureDisk
  BY <1>4 DEF EnsureDisk, StatusShape
<1>5. CASE EnsureVM \/ EnsureRBAC \/ CreateRoute
  BY <1>5 DEF EnsureVM, EnsureRBAC, CreateRoute, StatusShape
<1>6. CASE ObserveVMI
  BY <1>6 DEF ObserveVMI, StatusShape
<1>7. CASE RecordEndpoint
  BY <1>7 DEF RecordEndpoint, StatusShape
<1>8. CASE EnsureAgentJob
  BY <1>8 DEF EnsureAgentJob, StatusShape
<1>9. CASE AssessAgent
  BY <1>9 DEF AssessAgent, StatusShape
<1>10. CASE PublishKubeconfig \/ MarkReady
  BY <1>10 DEF PublishKubeconfig, MarkReady, StatusShape
<1>11. CASE CheckReadyVMI
  BY <1>11 DEF CheckReadyVMI, StatusShape
<1>12. CASE CheckPublished
  BY <1>12 DEF CheckPublished, StatusShape
<1>13. CASE DropStaleJob
  BY <1>13 DEF DropStaleJob, StatusShape
<1>14. CASE DropPublished \/ Invalidate
  BY <1>14 DEF DropPublished, Invalidate, StatusShape
<1>15. CASE DeleteJobs \/ DeleteKeys
  BY <1>15 DEF DeleteJobs, DeleteKeys, StatusShape
<1>16. CASE DeleteVM
  BY <1>16 DEF DeleteVM, StatusShape
<1>17. CASE DeleteVMI
  BY <1>17 DEF DeleteVMI, StatusShape
<1>18. CASE AwaitLauncher \/ DeleteDisk \/ DeleteLeftovers
  BY <1>18 DEF AwaitLauncher, DeleteDisk, DeleteLeftovers, StatusShape
<1>q. QED
  BY <1>1, <1>2, <1>3, <1>4, <1>5, <1>6, <1>7, <1>8, <1>9, <1>10, <1>11, <1>12, <1>13, <1>14, <1>15, <1>16,
    <1>17, <1>18 DEF CRCController, Provision, Recover, Teardown

\* none for a hosted cluster,
LEMMA HCPEndpoint ==
  ASSUME StatusShape, HCPController
  PROVE  EndpointKept
<1> USE DEF WriteStatus, FinishStatus, Goto, EndPass, IdleWorker, Wait, Conflict, EndpointKept
<1>1. CASE PlaceHosted
  BY <1>1 DEF PlaceHosted, StatusShape
<1>2. CASE EnsureServingCert \/ CreateHostedCluster
  BY <1>2 DEF EnsureServingCert, CreateHostedCluster, StatusShape
<1>3. CASE EnsureNodePool
  BY <1>3 DEF EnsureNodePool, StatusShape
<1>4. CASE AwaitBacking
  BY <1>4 DEF AwaitBacking, StatusShape
<1>5. CASE EnsureAPIRoute
  BY <1>5 DEF EnsureAPIRoute, StatusShape
<1>6. CASE CheckHostedAPI
  BY <1>6 DEF CheckHostedAPI, StatusShape
<1>7. CASE PublishHosted \/ MarkHostedReady
  BY <1>7 DEF PublishHosted, MarkHostedReady, StatusShape
<1>8. CASE CheckReadyHosted
  BY <1>8 DEF CheckReadyHosted, StatusShape
<1>9. CASE CheckReadyAPI
  BY <1>9 DEF CheckReadyAPI, StatusShape
<1>10. CASE DeleteHostedCluster
  BY <1>10 DEF DeleteHostedCluster, StatusShape
<1>11. CASE DeleteNodePool
  BY <1>11 DEF DeleteNodePool, StatusShape
<1>12. CASE DeleteServingCert \/ AwaitWorkers
  BY <1>12 DEF DeleteServingCert, AwaitWorkers, StatusShape
<1>q. QED
  BY <1>1, <1>2, <1>3, <1>4, <1>5, <1>6, <1>7, <1>8, <1>9, <1>10, <1>11, <1>12 DEF HCPController

\* and none that both share.
LEMMA SharedEndpoint ==
  ASSUME StatusShape, SharedStep \/ SharedFault
  PROVE  EndpointKept
<1> USE DEF WriteStatus, FinishStatus, EndpointKept
<1>1. CASE SharedStep
  BY <1>1 DEF SharedStep, AddFinalizer, StartPass, Terminate, DropFinalizer, StatusShape
<1>2. CASE SharedFault
  BY <1>2 DEF SharedFault, PlatformBlocked, DeleteInstance, Crash, MarkFailed, LoseRoute, EditRoute, ChangeDomain,
              LosePublished, StatusShape
<1>q. QED
  BY <1>1, <1>2

\* The fields hold initially.
LEMMA InitShape == Init => Shape
BY DEF Init, SharedInit, CRCInit, HCPInit, ContractInit, NewStatus, IdleWorker, NoDisk, Shape, WorkerShape, StatusShape,
       CRCWorld, HCPWorld

\* They hold in every reachable state.
LEMMA ShapeInvariance == Spec => []Shape
<1>1. Shape /\ [Next]_vars => Shape'
  <2> SUFFICES ASSUME Shape, [Next]_vars PROVE Shape'
    OBVIOUS
  <2>1. CASE UNCHANGED vars
    BY <2>1 DEF vars, sharedVars, crcVars, contractVars, hcpVars, Shape, WorkerShape, StatusShape, CRCWorld, HCPWorld
  <2>q. QED
    BY <2>1, ShapeKept
<1>q. QED
  BY <1>1, InitShape, PTL DEF Spec

\* Once ensureCRCAPIRoute or reconcileHyperShift has recorded the API host name,
\* no step of the controller, no fault and no change of the domain replaces it.
THEOREM EndpointsAreStable == Spec => EndpointStable
<1>1. Shape /\ [Next]_vars => [status.endpoint # 0 => status'.endpoint = status.endpoint]_status
  <2> SUFFICES ASSUME Shape, Next PROVE EndpointKept
    BY DEF EndpointKept, vars, sharedVars
  <2>1. StatusShape
    BY DEF Shape
  <2>2. CASE CRCSurroundings \/ HCPSurroundings
    BY <2>2, SurroundingsApart DEF EndpointKept
  <2>q. QED
    BY <2>1, <2>2, StepCases, CRCEndpoint, HCPEndpoint, SharedEndpoint
<1>q. QED
  BY <1>1, ShapeInvariance, PTL DEF Spec, EndpointStable

-----------------------------------------------------------------------------
(* Passes fit the object.                                                  *)

\* The steps for a CRC instance go from one step of a pass to the next.
LEMMA CRCPassFits ==
  ASSUME WorkerShape, StatusShape, PassFits, CRCController
  PROVE  PassFits'
<1> USE DEF WriteStatus, FinishStatus, Goto, EndPass, IdleWorker, NotReady, BootKeyUnavailable, Waiting, At, Rest
<1>1. CASE ProvisionVMI
  BY <1>1 DEF ProvisionVMI, WorkerShape, StatusShape, PassFits, ProvisionPCs, TeardownPCs
<1>2. CASE ResolveSource
  BY <1>2 DEF ResolveSource, WorkerShape, StatusShape, PassFits, ProvisionPCs, TeardownPCs
<1>3. CASE EnsureBootKey
  BY <1>3 DEF EnsureBootKey, WorkerShape, StatusShape, PassFits, ProvisionPCs, TeardownPCs
<1>4. CASE EnsureDisk
  BY <1>4 DEF EnsureDisk, WorkerShape, StatusShape, PassFits, ProvisionPCs, TeardownPCs
<1>5. CASE EnsureVM \/ EnsureRBAC \/ CreateRoute
  BY <1>5 DEF EnsureVM, EnsureRBAC, CreateRoute, WorkerShape, StatusShape, PassFits, ProvisionPCs, TeardownPCs
<1>6. CASE ObserveVMI
  <2>1. w' = IdleWorker \/ w' = [w EXCEPT !.pc = "rbac", !.uid = seen.uid]
    BY <1>6 DEF ObserveVMI, WorkerShape
  <2>2. CASE w' = IdleWorker
    <3>1. w'.pc = "idle"
      BY <2>2
    <3>q. QED
      BY <1>6, <3>1 DEF ObserveVMI, StatusShape, PassFits, ProvisionPCs, TeardownPCs
  <2>3. CASE w' = [w EXCEPT !.pc = "rbac", !.uid = seen.uid]
    <3>1. w'.pc = "rbac"
      BY <2>3 DEF WorkerShape
    <3>q. QED
      BY <1>6, <3>1 DEF ObserveVMI, StatusShape, PassFits, ProvisionPCs, TeardownPCs
  <2>q. QED
    BY <2>1, <2>2, <2>3
<1>7. CASE RecordEndpoint
  BY <1>7 DEF RecordEndpoint, WorkerShape, StatusShape, PassFits, ProvisionPCs, TeardownPCs
<1>8. CASE EnsureAgentJob
  BY <1>8 DEF EnsureAgentJob, WorkerShape, StatusShape, PassFits, ProvisionPCs, TeardownPCs
<1>9. CASE AssessAgent
  BY <1>9 DEF AssessAgent, WorkerShape, StatusShape, PassFits, ProvisionPCs, TeardownPCs
<1>10. CASE PublishKubeconfig \/ MarkReady
  BY <1>10 DEF PublishKubeconfig, MarkReady, WorkerShape, StatusShape, PassFits, ProvisionPCs, TeardownPCs
<1>11. CASE CheckReadyVMI
  BY <1>11 DEF CheckReadyVMI, WorkerShape, StatusShape, PassFits, ProvisionPCs, TeardownPCs
<1>12. CASE CheckPublished
  <2>1. w' = IdleWorker \/ w' = [w EXCEPT !.pc = "publish", !.uid = status.vmiUID]
    BY <1>12 DEF CheckPublished, WorkerShape
  <2>2. CASE w' = IdleWorker
    <3>1. w'.pc = "idle"
      BY <2>2
    <3>q. QED
      BY <1>12, <3>1 DEF CheckPublished, StatusShape, PassFits, ProvisionPCs, TeardownPCs
  <2>3. CASE w' = [w EXCEPT !.pc = "publish", !.uid = status.vmiUID]
    <3>1. w'.pc = "publish"
      BY <2>3 DEF WorkerShape
    <3>q. QED
      BY <1>12, <3>1 DEF CheckPublished, StatusShape, PassFits, ProvisionPCs, TeardownPCs
  <2>q. QED
    BY <2>1, <2>2, <2>3
<1>13. CASE DropStaleJob
  BY <1>13 DEF DropStaleJob, WorkerShape, StatusShape, PassFits, ProvisionPCs, TeardownPCs
<1>14. CASE DropPublished \/ Invalidate
  BY <1>14 DEF DropPublished, Invalidate, WorkerShape, StatusShape, PassFits, ProvisionPCs, TeardownPCs
<1>15. CASE DeleteJobs \/ DeleteKeys
  BY <1>15 DEF DeleteJobs, DeleteKeys, WorkerShape, StatusShape, PassFits, ProvisionPCs, TeardownPCs
<1>16. CASE DeleteVM
  BY <1>16 DEF DeleteVM, WorkerShape, StatusShape, PassFits, ProvisionPCs, TeardownPCs
<1>17. CASE DeleteVMI
  BY <1>17 DEF DeleteVMI, WorkerShape, StatusShape, PassFits, ProvisionPCs, TeardownPCs
<1>18. CASE AwaitLauncher \/ DeleteDisk \/ DeleteLeftovers
  BY <1>18 DEF AwaitLauncher, DeleteDisk, DeleteLeftovers, WorkerShape, StatusShape, PassFits, ProvisionPCs,
    TeardownPCs
<1>q. QED
  BY <1>1, <1>2, <1>3, <1>4, <1>5, <1>6, <1>7, <1>8, <1>9, <1>10, <1>11, <1>12, <1>13, <1>14, <1>15, <1>16,
    <1>17, <1>18 DEF CRCController, Provision, Recover, Teardown

\* So do those for a hosted cluster.
LEMMA HCPPassFits ==
  ASSUME WorkerShape, StatusShape, PassFits, HCPController
  PROVE  PassFits'
<1> USE DEF WriteStatus, FinishStatus, Goto, EndPass, IdleWorker, Wait, Conflict, At, Object
<1>1. CASE PlaceHosted
  BY <1>1 DEF PlaceHosted, WorkerShape, StatusShape, PassFits, ProvisionPCs, TeardownPCs
<1>2. CASE EnsureServingCert \/ CreateHostedCluster
  BY <1>2 DEF EnsureServingCert, CreateHostedCluster, WorkerShape, StatusShape, PassFits, ProvisionPCs,
    TeardownPCs
<1>3. CASE EnsureNodePool
  <2>1. w' = IdleWorker \/ w' = [w EXCEPT !.pc = "backing", !.uid = hc.id]
    BY <1>3 DEF EnsureNodePool, WorkerShape
  <2>2. CASE w' = IdleWorker
    <3>1. w'.pc = "idle"
      BY <2>2
    <3>q. QED
      BY <1>3, <3>1 DEF EnsureNodePool, StatusShape, PassFits, ProvisionPCs, TeardownPCs
  <2>3. CASE w' = [w EXCEPT !.pc = "backing", !.uid = hc.id]
    <3>1. w'.pc = "backing"
      BY <2>3 DEF WorkerShape
    <3>q. QED
      BY <1>3, <3>1 DEF EnsureNodePool, StatusShape, PassFits, ProvisionPCs, TeardownPCs
  <2>q. QED
    BY <2>1, <2>2, <2>3
<1>4. CASE AwaitBacking
  BY <1>4 DEF AwaitBacking, WorkerShape, StatusShape, PassFits, ProvisionPCs, TeardownPCs
<1>5. CASE EnsureAPIRoute
  BY <1>5 DEF EnsureAPIRoute, WorkerShape, StatusShape, PassFits, ProvisionPCs, TeardownPCs
<1>6. CASE CheckHostedAPI
  BY <1>6 DEF CheckHostedAPI, WorkerShape, StatusShape, PassFits, ProvisionPCs, TeardownPCs
<1>7. CASE PublishHosted \/ MarkHostedReady
  BY <1>7 DEF PublishHosted, MarkHostedReady, WorkerShape, StatusShape, PassFits, ProvisionPCs, TeardownPCs
<1>8. CASE CheckReadyHosted
  BY <1>8 DEF CheckReadyHosted, WorkerShape, StatusShape, PassFits, ProvisionPCs, TeardownPCs
<1>9. CASE CheckReadyAPI
  BY <1>9 DEF CheckReadyAPI, WorkerShape, StatusShape, PassFits, ProvisionPCs, TeardownPCs
<1>10. CASE DeleteHostedCluster
  BY <1>10 DEF DeleteHostedCluster, WorkerShape, StatusShape, PassFits, ProvisionPCs, TeardownPCs
<1>11. CASE DeleteNodePool
  <2>1. w' = IdleWorker \/ w' = [w EXCEPT !.pc = "deleteCert", !.pending = TRUE] \/ w' = [w EXCEPT !.pc =
        "deleteCert"]
    BY <1>11 DEF DeleteNodePool, WorkerShape
  <2>2. CASE w' = IdleWorker
    <3>1. w'.pc = "idle"
      BY <2>2
    <3>q. QED
      BY <1>11, <3>1 DEF DeleteNodePool, StatusShape, PassFits, ProvisionPCs, TeardownPCs
  <2>3. CASE w' = [w EXCEPT !.pc = "deleteCert", !.pending = TRUE]
    <3>1. w'.pc = "deleteCert"
      BY <2>3 DEF WorkerShape
    <3>q. QED
      BY <1>11, <3>1 DEF DeleteNodePool, StatusShape, PassFits, ProvisionPCs, TeardownPCs
  <2>4. CASE w' = [w EXCEPT !.pc = "deleteCert"]
    <3>1. w'.pc = "deleteCert"
      BY <2>4 DEF WorkerShape
    <3>q. QED
      BY <1>11, <3>1 DEF DeleteNodePool, StatusShape, PassFits, ProvisionPCs, TeardownPCs
  <2>q. QED
    BY <2>1, <2>2, <2>3, <2>4
<1>12. CASE DeleteServingCert \/ AwaitWorkers
  BY <1>12 DEF DeleteServingCert, AwaitWorkers, WorkerShape, StatusShape, PassFits, ProvisionPCs, TeardownPCs
<1>q. QED
  BY <1>1, <1>2, <1>3, <1>4, <1>5, <1>6, <1>7, <1>8, <1>9, <1>10, <1>11, <1>12 DEF HCPController

\* A pass starts from what it finds, and the rest does not disturb it.
LEMMA SharedPassFits ==
  ASSUME WorkerShape, StatusShape, PassFits, SharedStep \/ SharedFault
  PROVE  PassFits'
<1> USE DEF WriteStatus, FinishStatus, EndPass, IdleWorker, At, PassFits, ProvisionPCs, TeardownPCs
<1>1. CASE AddFinalizer \/ DropFinalizer
  BY <1>1 DEF AddFinalizer, DropFinalizer
<1>2. CASE StartPass
  BY <1>2 DEF StartPass
<1>3. CASE Terminate
  BY <1>3 DEF Terminate, WorkerShape, StatusShape
<1>4. CASE PlatformBlocked \/ Crash \/ MarkFailed
  BY <1>4 DEF PlatformBlocked, Crash, MarkFailed, StatusShape
<1>5. CASE DeleteInstance \/ LoseRoute \/ EditRoute \/ ChangeDomain \/ LosePublished
  BY <1>5 DEF DeleteInstance, LoseRoute, EditRoute, ChangeDomain, LosePublished
<1>q. QED
  BY <1>1, <1>2, <1>3, <1>4, <1>5 DEF SharedStep, SharedFault

\* Every pass fits in every reachable state.
LEMMA PassInvariance == Spec => []PassInv
<1>1. Init => PassFits
  BY DEF Init, SharedInit, IdleWorker, PassFits, ProvisionPCs, TeardownPCs
<1>2. PassFits /\ Shape /\ [Next]_vars => PassFits'
  <2> SUFFICES ASSUME PassFits, Shape, [Next]_vars PROVE PassFits'
    OBVIOUS
  <2>1. CASE UNCHANGED vars
    BY <2>1 DEF vars, sharedVars, PassFits
  <2>2. CASE CRCSurroundings \/ HCPSurroundings
    BY <2>2, SurroundingsApart DEF PassFits
  <2>q. QED
    BY <2>1, <2>2, StepCases, CRCPassFits, HCPPassFits, SharedPassFits DEF Shape
<1>q. QED
  BY <1>1, <1>2, ShapeInvariance, PTL DEF Spec, PassInv

\* What Reconcile itself and the faults may change for the topologies.
LEMMA SharedSteps ==
  ASSUME WorkerShape, StatusShape, SharedStep \/ SharedFault
  PROVE  /\ UNCHANGED <<topology, env>> /\ published' \in {0, published} /\ (route = 0 => route' = 0)
         /\ w' = w \/ w'.pc \in {"idle", "terminate", "ready", "provision", "teardown"}
         /\ /\ status'.endpoint = status.endpoint /\ status'.vmiUID = status.vmiUID
            /\ status'.binding = status.binding
            /\ status'.phase = "Ready" => status.phase = "Ready"
         /\ w' = w /\ w.pc # "idle" => status' = status
         /\ object' = "live" => object = "live"
         /\ w' # w /\ w'.pc \in {"ready", "provision"} => object \notin {"deleting", "gone"}
         /\ object' = "gone" \/ ~finalizer' => object = "gone" \/ ~finalizer \/ (w.pc = "finish" /\ ~w.pending)
<1> USE DEF SharedStep, SharedFault, AddFinalizer, StartPass, Terminate, DropFinalizer, PlatformBlocked,
            DeleteInstance, Crash, MarkFailed, LoseRoute, EditRoute, ChangeDomain, LosePublished
<1>1. UNCHANGED <<topology, env>> /\ published' \in {0, published} /\ (route = 0 => route' = 0)
  OBVIOUS
<1>2. w' = w \/ w'.pc \in {"idle", "terminate", "ready", "provision", "teardown"}
  <2>1. \/ w' = w \/ w' = IdleWorker \/ w' = [w EXCEPT !.pc = "teardown"]
        \/ StartPass
    BY DEF WriteStatus, FinishStatus, EndPass
  <2>2. w' = IdleWorker => w'.pc = "idle"
    BY DEF IdleWorker
  <2>3. w' = [w EXCEPT !.pc = "teardown"] => w'.pc = "teardown"
    BY DEF WorkerShape
  <2>4. StartPass => w'.pc \in {"terminate", "ready", "provision"}
    BY DEF IdleWorker
  <2>q. QED
    BY <2>1, <2>2, <2>3, <2>4
<1>3. /\ status'.endpoint = status.endpoint /\ status'.vmiUID = status.vmiUID /\ status'.binding = status.binding
      /\ status'.phase = "Ready" => status.phase = "Ready"
  <2>1. status' = status \/ \E phase \in {"Provisioning", "Failed", "Terminating"} :
                              status' = [status EXCEPT !.phase = phase]
    BY DEF WriteStatus, FinishStatus
  <2>q. QED
    BY <2>1 DEF StatusShape
<1>4. w' = w /\ w.pc # "idle" => status' = status
  <2>1. \/ status' = status
        \/ w.pc = "idle"
        \/ w' = IdleWorker
        \/ w.pc = "terminate" /\ w' = [w EXCEPT !.pc = "teardown"]
    BY DEF WriteStatus, FinishStatus, At
  <2>2. w' = IdleWorker => w'.pc = "idle"
    BY DEF IdleWorker
  <2>3. w' = [w EXCEPT !.pc = "teardown"] => w'.pc = "teardown"
    BY DEF WorkerShape
  <2>q. QED
    BY <2>1, <2>2, <2>3
<1>5. object' = "live" => object = "live"
  OBVIOUS
<1>6. object' = "gone" \/ ~finalizer' => object = "gone" \/ ~finalizer \/ (w.pc = "finish" /\ ~w.pending)
  BY DEF At
<1>7. w' # w /\ w'.pc \in {"ready", "provision"} => object \notin {"deleting", "gone"}
  <2>1. \/ w' = w \/ w' = IdleWorker \/ w' = [w EXCEPT !.pc = "teardown"]
        \/ StartPass
    BY DEF WriteStatus, FinishStatus, EndPass
  <2>2. w' = IdleWorker => w'.pc = "idle"
    BY DEF IdleWorker
  <2>3. w' = [w EXCEPT !.pc = "teardown"] => w'.pc = "teardown"
    BY DEF WorkerShape
  <2>4. StartPass /\ object = "deleting" => w'.pc = "terminate"
    BY DEF IdleWorker
  <2>5. StartPass => object # "gone"
    OBVIOUS
  <2>q. QED
    BY <2>1, <2>2, <2>3, <2>4, <2>5
<1>q. QED
  BY <1>1, <1>2, <1>3, <1>4, <1>5, <1>6, <1>7

-----------------------------------------------------------------------------
(* Types.                                                                  *)

\* The status, with the numbers that a topology may record in it.
StatusTyped == status \in [phase : Phases, endpoint : 0..2, vmiUID : 0..MaxUID, binding : 0..MaxGen]

\* What a step for a CRC instance may write to the status.
LEMMA CRCStatusTyped ==
  ASSUME TypeOK, topology = "crc", CRCController
  PROVE  StatusTyped'
<1>a. /\ StatusTyped
      /\ w.uid \in 0..MaxUID /\ golden \in 0..MaxGen /\ domain \in 0..2 /\ 0 \in 0..MaxUID
  BY MaxUIDAssumption DEF TypeOK, CRCTypeOK, StatusTyped
<1> USE <1>a DEF WriteStatus, FinishStatus, NotReady, BootKeyUnavailable, StatusTyped, Phases
<1>1. CASE ResolveSource
  BY <1>1 DEF ResolveSource
<1>2. CASE EnsureBootKey \/ EnsureDisk
  BY <1>2 DEF EnsureBootKey, EnsureDisk
<1>3. CASE ObserveVMI
  BY <1>3 DEF ObserveVMI
<1>4. CASE RecordEndpoint
  BY <1>4 DEF RecordEndpoint
<1>5. CASE AssessAgent
  BY <1>5 DEF AssessAgent
<1>6. CASE MarkReady
  BY <1>6 DEF MarkReady
<1>7. CASE CheckPublished
  BY <1>7 DEF CheckPublished
<1>8. CASE Invalidate
  BY <1>8 DEF Invalidate
<1>9. CASE \/ ProvisionVMI \/ EnsureVM \/ EnsureRBAC \/ CreateRoute \/ EnsureAgentJob \/ PublishKubeconfig
           \/ CheckReadyVMI \/ DropStaleJob \/ DropPublished \/ Teardown
  BY <1>9 DEF ProvisionVMI, EnsureVM, EnsureRBAC, CreateRoute, EnsureAgentJob, PublishKubeconfig, CheckReadyVMI,
              DropStaleJob, DropPublished, Teardown, DeleteJobs, DeleteKeys, DeleteVM, DeleteVMI, AwaitLauncher,
              DeleteDisk, DeleteLeftovers
<1>q. QED
  BY <1>1, <1>2, <1>3, <1>4, <1>5, <1>6, <1>7, <1>8, <1>9 DEF CRCController, Provision, Recover

\* Steps for a hosted cluster write phases and the host name,
LEMMA HCPStatusTyped ==
  ASSUME TypeOK, HCPController
  PROVE  StatusTyped'
<1>a. StatusTyped /\ domain \in 0..2
  BY DEF TypeOK, CRCTypeOK, StatusTyped
<1> USE <1>a DEF WriteStatus, FinishStatus, Wait, Conflict, StatusTyped, Phases
<1>1. CASE PlaceHosted
  BY <1>1 DEF PlaceHosted
<1>2. CASE EnsureServingCert \/ CreateHostedCluster \/ EnsureNodePool \/ AwaitBacking
  BY <1>2 DEF EnsureServingCert, CreateHostedCluster, EnsureNodePool, AwaitBacking
<1>3. CASE EnsureAPIRoute
  BY <1>3 DEF EnsureAPIRoute
<1>4. CASE CheckHostedAPI \/ PublishHosted \/ MarkHostedReady \/ CheckReadyHosted \/ CheckReadyAPI
  BY <1>4 DEF CheckHostedAPI, PublishHosted, MarkHostedReady, CheckReadyHosted, CheckReadyAPI
<1>5. CASE DeleteHostedCluster \/ DeleteNodePool \/ DeleteServingCert \/ AwaitWorkers
  BY <1>5 DEF DeleteHostedCluster, DeleteNodePool, DeleteServingCert, AwaitWorkers
<1>q. QED
  BY <1>1, <1>2, <1>3, <1>4, <1>5 DEF HCPController

\* the others only phases.
LEMMA SharedTyped ==
  ASSUME TypeOK, Shape, SharedStep \/ SharedFault
  PROVE  /\ StatusTyped'
         /\ object' \in {"live", "deleting", "gone"} /\ finalizer' \in BOOLEAN
         /\ route' \in 0..2 /\ domain' \in 1..2
         /\ published' \in {0, published} /\ w'.uid \in {0, w.uid}
<1>a. StatusTyped /\ WorkerShape
  BY DEF TypeOK, CRCTypeOK, StatusTyped, Shape
<1> USE DEF SharedStep, SharedFault, AddFinalizer, StartPass, Terminate, DropFinalizer, PlatformBlocked,
            DeleteInstance, Crash, MarkFailed, LoseRoute, EditRoute, ChangeDomain, LosePublished
<1>1. StatusTyped'
  <2>1. status' = status \/ \E phase \in {"Provisioning", "Failed", "Terminating"} :
                              status' = [status EXCEPT !.phase = phase]
    BY DEF WriteStatus, FinishStatus
  <2>q. QED
    BY <1>a, <2>1 DEF StatusTyped, Phases
<1>2. object' \in {"live", "deleting", "gone"} /\ published' \in {0, published}
  BY DEF TypeOK, CRCTypeOK
<1>2r. route' \in 0..2 /\ domain' \in 1..2
  <2>1. route' \in {route, 0, 2} /\ domain' \in {domain, 2}
    OBVIOUS
  <2> HIDE DEF SharedStep, SharedFault
  <2>q. QED
    BY <2>1 DEF TypeOK, CRCTypeOK
<1>3. finalizer' \in BOOLEAN
  BY DEF TypeOK, CRCTypeOK
<1>4. w'.uid \in {0, w.uid}
  <2>1. w' = w \/ w' = IdleWorker \/ w' = [w EXCEPT !.pc = "teardown"] \/ StartPass
    BY DEF WriteStatus, FinishStatus, EndPass
  <2>2. w' = IdleWorker => w'.uid = 0
    BY DEF IdleWorker
  <2>3. w' = [w EXCEPT !.pc = "teardown"] => w'.uid = w.uid
    BY <1>a DEF WorkerShape
  <2>4. StartPass => w'.uid = 0
    BY DEF IdleWorker
  <2>q. QED
    BY <2>1, <2>2, <2>3, <2>4
<1>q. QED
  BY <1>1, <1>2, <1>2r, <1>3, <1>4

\* The worker of a CRC instance deals in UIDs of VMIs,
LEMMA CRCUIDTyped ==
  ASSUME TypeOK, Shape, topology = "crc", CRCController
  PROVE  {published', w'.uid} \subseteq 0..MaxUID
<1>a. /\ WorkerShape
      /\ w.uid \in 0..MaxUID /\ published \in 0..MaxUID /\ 0 \in 0..MaxUID
      /\ seen.uid \in 0..MaxUID /\ status.vmiUID \in 0..MaxUID
  BY MaxUIDAssumption DEF TypeOK, CRCTypeOK, Shape
<1>1. published' \in {0, w.uid, published}
  BY DEF CRCController, Provision, Recover, Teardown, ProvisionVMI, ResolveSource, EnsureBootKey, EnsureDisk, EnsureVM,
         ObserveVMI, EnsureRBAC, RecordEndpoint, CreateRoute, EnsureAgentJob, AssessAgent, PublishKubeconfig, MarkReady,
         CheckReadyVMI, CheckPublished, DropStaleJob, DropPublished, Invalidate,
         DeleteJobs, DeleteKeys, DeleteVM, DeleteVMI, AwaitLauncher, DeleteDisk, DeleteLeftovers
<1>2. w'.uid \in {0, w.uid, seen.uid, status.vmiUID}
  <2> USE <1>a DEF WriteStatus, FinishStatus, Goto, EndPass, IdleWorker, NotReady, BootKeyUnavailable, Waiting, WorkerShape
  <2>1. CASE ProvisionVMI \/ CheckReadyVMI
    BY <2>1 DEF ProvisionVMI, CheckReadyVMI
  <2>2. CASE ResolveSource \/ EnsureBootKey \/ EnsureDisk \/ EnsureVM
    BY <2>2 DEF ResolveSource, EnsureBootKey, EnsureDisk, EnsureVM
  <2>3. CASE ObserveVMI
    <3>1. w' = IdleWorker \/ w' = [w EXCEPT !.pc = "rbac", !.uid = seen.uid]
      BY <2>3 DEF ObserveVMI
    <3>2. w' = IdleWorker => w'.uid = 0
      OBVIOUS
    <3>3. w' = [w EXCEPT !.pc = "rbac", !.uid = seen.uid] => w'.uid = seen.uid
      OBVIOUS
    <3>q. QED
      BY <3>1, <3>2, <3>3
  <2>4. CASE EnsureRBAC \/ RecordEndpoint \/ CreateRoute
    BY <2>4 DEF EnsureRBAC, RecordEndpoint, CreateRoute
  <2>5. CASE EnsureAgentJob \/ AssessAgent \/ PublishKubeconfig \/ MarkReady
    BY <2>5 DEF EnsureAgentJob, AssessAgent, PublishKubeconfig, MarkReady
  <2>6. CASE CheckPublished
    <3>1. w' = IdleWorker \/ w' = [w EXCEPT !.pc = "publish", !.uid = status.vmiUID]
      BY <2>6 DEF CheckPublished
    <3>2. w' = IdleWorker => w'.uid = 0
      OBVIOUS
    <3>3. w' = [w EXCEPT !.pc = "publish", !.uid = status.vmiUID] => w'.uid = status.vmiUID
      OBVIOUS
    <3>q. QED
      BY <3>1, <3>2, <3>3
  <2>7. CASE DropStaleJob \/ DropPublished \/ Invalidate
    BY <2>7 DEF DropStaleJob, DropPublished, Invalidate
  <2>8. CASE DeleteJobs \/ DeleteKeys \/ DeleteLeftovers
    BY <2>8 DEF DeleteJobs, DeleteKeys, DeleteLeftovers
  <2>9. CASE DeleteVM
    BY <2>9 DEF DeleteVM
  <2>10. CASE DeleteVMI \/ AwaitLauncher
    BY <2>10 DEF DeleteVMI, AwaitLauncher
  <2>11. CASE DeleteDisk
    BY <2>11 DEF DeleteDisk
  <2>q. QED
    BY <2>1, <2>2, <2>3, <2>4, <2>5, <2>6, <2>7, <2>8, <2>9, <2>10, <2>11
    DEF CRCController, Provision, Recover, Teardown
<1>q. QED
  BY <1>a, <1>1, <1>2

\* that of a hosted cluster in those of HostedClusters.
LEMMA HCPUIDTyped ==
  ASSUME TypeOK, Shape, topology = "hypershift", HCPController
  PROVE  {published', w'.uid} \subseteq 0..MaxHC
<1>a. /\ WorkerShape
      /\ w.uid \in 0..MaxHC /\ published \in 0..MaxHC /\ 0 \in 0..MaxHC /\ hc.id \in 0..MaxHC
  BY MaxHCAssumption DEF TypeOK, HCPTypeOK, Shape
<1>1. published' \in {w.uid, published}
  BY DEF HCPController, PlaceHosted, EnsureServingCert, CreateHostedCluster, EnsureNodePool, AwaitBacking,
         EnsureAPIRoute, CheckHostedAPI, PublishHosted, MarkHostedReady, CheckReadyHosted, CheckReadyAPI,
         DeleteHostedCluster, DeleteNodePool, DeleteServingCert, AwaitWorkers
<1>2. w'.uid \in {0, w.uid, hc.id}
  <2> USE <1>a DEF WriteStatus, FinishStatus, Goto, EndPass, IdleWorker, Wait, Conflict, WorkerShape
  <2>1. CASE PlaceHosted \/ EnsureServingCert \/ CreateHostedCluster
    BY <2>1 DEF PlaceHosted, EnsureServingCert, CreateHostedCluster
  <2>2. CASE EnsureNodePool
    <3>1. w' = IdleWorker \/ w' = [w EXCEPT !.pc = "backing", !.uid = hc.id]
      BY <2>2 DEF EnsureNodePool
    <3>2. w' = IdleWorker => w'.uid = 0
      OBVIOUS
    <3>3. w' = [w EXCEPT !.pc = "backing", !.uid = hc.id] => w'.uid = hc.id
      OBVIOUS
    <3>q. QED
      BY <3>1, <3>2, <3>3
  <2>3. CASE AwaitBacking \/ EnsureAPIRoute
    BY <2>3 DEF AwaitBacking, EnsureAPIRoute
  <2>4. CASE CheckHostedAPI \/ PublishHosted \/ MarkHostedReady
    BY <2>4 DEF CheckHostedAPI, PublishHosted, MarkHostedReady
  <2>5. CASE CheckReadyHosted \/ CheckReadyAPI
    BY <2>5 DEF CheckReadyHosted, CheckReadyAPI
  <2>6. CASE DeleteHostedCluster \/ DeleteServingCert \/ AwaitWorkers
    BY <2>6 DEF DeleteHostedCluster, DeleteServingCert, AwaitWorkers
  <2>7. CASE DeleteNodePool
    <3>1. \/ w' = IdleWorker \/ w' = [w EXCEPT !.pc = "deleteCert"]
          \/ w' = [w EXCEPT !.pc = "deleteCert", !.pending = TRUE]
      BY <2>7 DEF DeleteNodePool
    <3>2. w' = IdleWorker => w'.uid = 0
      OBVIOUS
    <3>3. w' = [w EXCEPT !.pc = "deleteCert"] => w'.uid = w.uid
      OBVIOUS
    <3>4. w' = [w EXCEPT !.pc = "deleteCert", !.pending = TRUE] => w'.uid = w.uid
      OBVIOUS
    <3>q. QED
      BY <3>1, <3>2, <3>3, <3>4
  <2>q. QED
    BY <2>1, <2>2, <2>3, <2>4, <2>5, <2>6, <2>7 DEF HCPController
<1>q. QED
  BY <1>a, <1>1, <1>2

\* What a CRC instance is built from.
CRCParts ==
  /\ ContractTypeOK
  /\ seen \in [uid : 0..MaxUID, phase : VMIPhases]
  /\ vm \in {"absent", "always", "halted", "deleting"} /\ ack \in {"always", "halted"}
  /\ launcher \in BOOLEAN
  /\ disk \in [state : {"absent", "cloning", "ready", "pvc"}, src : 0..MaxGen]
  /\ golden \in 0..MaxGen /\ copy \in 0..MaxGen
  /\ owned \subseteq {"rbac", "identity"} /\ route \in 0..2 /\ domain \in 1..2

\* The controller changes these within their types,
LEMMA CRCControllerParts ==
  ASSUME TypeOK, CRCController
  PROVE  CRCParts' /\ object' = object /\ finalizer' = finalizer
<1>a. CRCParts /\ status.binding \in 0..MaxGen /\ status.endpoint \in 0..2 /\ 0 \in 0..MaxGen /\ 0 \in 0..2
  BY MaxGenAssumption DEF TypeOK, CRCTypeOK, CRCParts
<1> USE <1>a DEF CRCParts, ContractTypeOK, contractVars, Backing, World, Rest
<1>1. CASE ProvisionVMI \/ ResolveSource \/ ObserveVMI \/ RecordEndpoint \/ AssessAgent \/ PublishKubeconfig \/ MarkReady
  BY <1>1 DEF ProvisionVMI, ResolveSource, ObserveVMI, RecordEndpoint, AssessAgent, PublishKubeconfig, MarkReady
<1>2. CASE EnsureBootKey
  BY <1>2 DEF EnsureBootKey
<1>3. CASE EnsureDisk
  BY <1>3 DEF EnsureDisk
<1>4. CASE EnsureVM \/ EnsureRBAC \/ CreateRoute
  BY <1>4 DEF EnsureVM, EnsureRBAC, CreateRoute
<1>5. CASE EnsureAgentJob
  <2>1. job' \in [UIDs -> JobStates]
    BY <1>5 DEF EnsureAgentJob, CreateJob, JobStates
  <2>q. QED
    BY <1>5, <2>1 DEF EnsureAgentJob, CreateJob
<1>6. CASE CheckReadyVMI \/ CheckPublished \/ DropPublished \/ Invalidate
  BY <1>6 DEF CheckReadyVMI, CheckPublished, DropPublished, Invalidate
<1>7. CASE DropStaleJob
  <2>1. job' \in [UIDs -> JobStates]
    BY <1>7 DEF DropStaleJob, DeleteJob, JobStates
  <2>q. QED
    BY <1>7, <2>1 DEF DropStaleJob, DeleteJob
<1>8. CASE DeleteJobs
  BY <1>8 DEF DeleteJobs, AllJobsDeleted, JobStates
<1>9. CASE DeleteKeys \/ DeleteVM \/ AwaitLauncher \/ DeleteLeftovers
  BY <1>9 DEF DeleteKeys, DeleteVM, AwaitLauncher, DeleteLeftovers
<1>10. CASE DeleteVMI
  BY <1>10 DEF DeleteVMI, Stop, VMIPhases
<1>11. CASE DeleteDisk
  BY <1>11 DEF DeleteDisk
<1>q. QED
  BY <1>1, <1>2, <1>3, <1>4, <1>5, <1>6, <1>7, <1>8, <1>9, <1>10, <1>11 DEF CRCController, Provision, Recover, Teardown

\* and so do KubeVirt, CDI, the agents and the administrators.
LEMMA CRCSurroundingsParts ==
  ASSUME TypeOK, CRCSurroundings
  PROVE  CRCParts'
<1>a. CRCParts
  BY DEF TypeOK, CRCTypeOK, CRCParts
<1> USE <1>a, MaxGenAssumption, MaxUIDAssumption DEF CRCParts, ContractTypeOK, contractVars, Backing, World, sharedVars
<1>1. CASE BootVM
  <2>1. vmi' \in [uid : 0..MaxUID, phase : VMIPhases]
    BY <1>1 DEF BootVM, Boot, VMIPhases
  <2>q. QED
    BY <1>1, <2>1 DEF BootVM, Boot
<1>2. CASE RunVM \/ RemoveVMI \/ StopVM
  <2>1. vmi' \in [uid : 0..MaxUID, phase : VMIPhases]
    BY <1>2 DEF RunVM, Run, RemoveVMI, Vanish, StopVM, Stop, VMIPhases
  <2>q. QED
    BY <1>2, <2>1 DEF RunVM, Run, RemoveVMI, Vanish, StopVM, Stop
<1>3. CASE SeeHalt \/ RemoveVM \/ SyncCache
  BY <1>3 DEF SeeHalt, RemoveVM, SyncCache
<1>4. CASE RemoveLauncher
  BY <1>4 DEF RemoveLauncher
<1>5. CASE CloneDisk \/ RemovePVC \/ LoseCopy
  <2>1. disk' \in [state : {"absent", "cloning", "ready", "pvc"}, src : 0..MaxGen] /\ copy' \in 0..MaxGen
    BY <1>5 DEF CloneDisk, RemovePVC, NoDisk, LoseCopy
  <2>q. QED
    BY <1>5, <2>1 DEF CloneDisk, RemovePVC, LoseCopy
<1>6. CASE PrepareBundle
  <2>1. golden' \in 0..MaxGen
    BY <1>6 DEF PrepareBundle
  <2>q. QED
    BY <1>6, <2>1 DEF PrepareBundle
<1>7. CASE \E u \in UIDs : AgentWorks(u) \/ AgentFails(u)
  <2>1. PICK u \in UIDs : AgentWorks(u) \/ AgentFails(u)
    BY <1>7
  <2>2. job' \in [UIDs -> JobStates]
    BY <2>1 DEF AgentWorks, AgentFails, Prepare, Publish, Complete, JobGone, Fail, JobStates
  <2>q. QED
    BY <2>1, <2>2 DEF AgentWorks, AgentFails, Prepare, Publish, Complete, JobGone, Fail
<1>q. QED
  BY <1>1, <1>2, <1>3, <1>4, <1>5, <1>6, <1>7 DEF CRCSurroundings, Platform, Agents, CRCEnvironment

\* The objects of a hosted cluster change within their types, and so do Route
\* and domain.
LEMMA HCPControllerParts ==
  ASSUME TypeOK, HCPController
  PROVE  HCPTypeOK' /\ object' = object /\ finalizer' = finalizer /\ route' \in 0..2 /\ domain' \in 1..2
<1>a. /\ HCPTypeOK /\ route \in 0..2 /\ domain \in 1..2 /\ status.endpoint \in 0..2
      /\ 0 \in 0..2 /\ domain \in 0..2
  BY DEF TypeOK, CRCTypeOK
<1> USE <1>a, MaxHCAssumption DEF HCPTypeOK, hcpVars, Object
<1>1. CASE PlaceHosted \/ AwaitBacking \/ CheckHostedAPI \/ PublishHosted \/ MarkHostedReady \/ CheckReadyHosted
           \/ CheckReadyAPI \/ AwaitWorkers
  BY <1>1 DEF PlaceHosted, AwaitBacking, CheckHostedAPI, PublishHosted, MarkHostedReady, CheckReadyHosted,
              CheckReadyAPI, AwaitWorkers
<1>2. CASE EnsureServingCert \/ DeleteServingCert
  BY <1>2 DEF EnsureServingCert, DeleteServingCert
<1>3. CASE CreateHostedCluster
  <2>1. hc' \in [id : 0..MaxHC, state : {"absent", "creating", "available", "deleting"}]
    BY <1>3 DEF CreateHostedCluster
  <2>q. QED
    BY <1>3, <2>1 DEF CreateHostedCluster
<1>4. CASE EnsureNodePool \/ DeleteNodePool
  <2>1. np' \in [owner : 0..MaxHC, state : {"absent", "present", "scaled", "deleting"}]
    BY <1>4 DEF EnsureNodePool, DeleteNodePool
  <2>q. QED
    BY <1>4, <2>1 DEF EnsureNodePool, DeleteNodePool
<1>5. CASE EnsureAPIRoute
  <2>1. route' \in {route, status.endpoint}
    BY <1>5 DEF EnsureAPIRoute
  <2>2. admitted' \in BOOLEAN
    BY <1>5 DEF EnsureAPIRoute
  <2>q. QED
    BY <1>5, <2>1, <2>2 DEF EnsureAPIRoute
<1>6. CASE DeleteHostedCluster
  BY <1>6 DEF DeleteHostedCluster
<1>q. QED
  BY <1>1, <1>2, <1>3, <1>4, <1>5, <1>6 DEF HCPController

\* HyperShift and other parties keep them too.
LEMMA HCPSurroundingsParts ==
  ASSUME TypeOK, HCPSurroundings
  PROVE  HCPTypeOK' /\ route' \in 0..2 /\ domain' = domain
<1>a. HCPTypeOK /\ route \in 0..2 /\ 0 \in 0..2
  BY DEF TypeOK, CRCTypeOK
<1> USE <1>a DEF HCPTypeOK, hcpVars, sharedVars
<1>1. CASE StartControlPlane \/ RemoveHostedCluster \/ LoseCluster
  BY <1>1 DEF StartControlPlane, RemoveHostedCluster, LoseCluster
<1>2. CASE StartWorkers \/ CascadeNodePool \/ RemoveNodePool
  BY <1>2 DEF StartWorkers, CascadeNodePool, RemoveNodePool
<1>3. CASE StopWorkers \/ TakeName
  BY <1>3 DEF StopWorkers, TakeName
<1>4. CASE RemoveControlPlane \/ AdmitRoute
  <2>1. admitted' \in BOOLEAN
    BY <1>4 DEF RemoveControlPlane, AdmitRoute
  <2>q. QED
    BY <1>4, <2>1 DEF RemoveControlPlane, AdmitRoute, Object
<1>q. QED
  BY <1>1, <1>2, <1>3, <1>4 DEF HCPSurroundings, HyperShift

\* Every step keeps the types.
LEMMA TypesKept ==
  ASSUME TypeOK, Shape, Next
  PROVE  TypeOK'
<1>a. /\ CRCTypeOK <=> /\ CRCParts /\ StatusTyped
                       /\ object \in {"live", "deleting", "gone"} /\ finalizer \in BOOLEAN
      /\ CRCTypeOK' <=> /\ CRCParts' /\ StatusTyped'
                        /\ object' \in {"live", "deleting", "gone"} /\ finalizer' \in BOOLEAN
  BY DEF CRCTypeOK, CRCParts, StatusTyped
<1>b. CRCTypeOK /\ HCPTypeOK /\ topology \in {"crc", "hypershift"}
  BY DEF TypeOK
<1>c. UNCHANGED crcVars /\ route' \in 0..2 /\ domain' \in 1..2 => CRCParts'
  BY <1>a, <1>b DEF crcVars, contractVars, CRCParts, ContractTypeOK
<1>d. UNCHANGED hcpVars => HCPTypeOK'
  BY <1>b DEF hcpVars, HCPTypeOK
<1>e. UNCHANGED status => StatusTyped'
  BY <1>a, <1>b DEF StatusTyped
<1>f. topology' = topology
  BY StepCases, SurroundingsApart DEF CRCController, HCPController, SharedStep, SharedFault, Provision, Recover, Teardown,
     Rest, Object, ProvisionVMI, ResolveSource, EnsureBootKey, EnsureDisk, EnsureVM, ObserveVMI, EnsureRBAC,
     RecordEndpoint, CreateRoute, EnsureAgentJob, AssessAgent, PublishKubeconfig, MarkReady, CheckReadyVMI,
     CheckPublished, DropStaleJob, DropPublished, Invalidate, DeleteJobs, DeleteKeys, DeleteVM, DeleteVMI,
     AwaitLauncher, DeleteDisk, DeleteLeftovers, PlaceHosted, EnsureServingCert, CreateHostedCluster, EnsureNodePool,
     AwaitBacking, EnsureAPIRoute, CheckHostedAPI, PublishHosted, MarkHostedReady, CheckReadyHosted, CheckReadyAPI,
     DeleteHostedCluster, DeleteNodePool, DeleteServingCert, AwaitWorkers, AddFinalizer, StartPass, Terminate,
     DropFinalizer, PlatformBlocked, DeleteInstance, Crash, MarkFailed, LoseRoute, EditRoute, ChangeDomain, LosePublished
<1>1. CASE topology = "crc" /\ CRCController /\ UNCHANGED hcpVars
  <2>1. CRCTypeOK'
    BY <1>1, <1>a, <1>b, CRCControllerParts, CRCStatusTyped
  <2>q. QED
    BY <1>1, <1>b, <1>d, <1>f, <2>1, CRCUIDTyped DEF TypeOK
<1>2. CASE topology = "hypershift" /\ HCPController /\ UNCHANGED crcVars
  <2>1. CRCTypeOK'
    BY <1>2, <1>a, <1>b, <1>c, HCPControllerParts, HCPStatusTyped
  <2>q. QED
    BY <1>2, <1>b, <1>f, <2>1, HCPControllerParts, HCPUIDTyped DEF TypeOK
<1>3. CASE topology = "crc" /\ CRCSurroundings /\ UNCHANGED hcpVars
  <2>1. CRCTypeOK'
    BY <1>3, <1>a, <1>b, <1>e, CRCSurroundingsParts, SurroundingsApart
  <2>q. QED
    BY <1>3, <1>b, <1>d, <1>f, <2>1, SurroundingsApart DEF TypeOK
<1>4. CASE topology = "hypershift" /\ HCPSurroundings /\ UNCHANGED crcVars
  <2>1. CRCTypeOK'
    BY <1>4, <1>a, <1>b, <1>c, <1>e, HCPSurroundingsParts, SurroundingsApart DEF CRCTypeOK
  <2>q. QED
    BY <1>4, <1>b, <1>f, <2>1, HCPSurroundingsParts, SurroundingsApart DEF TypeOK
<1>5. CASE (SharedStep \/ SharedFault) /\ UNCHANGED <<crcVars, hcpVars>>
  <2>1. CRCTypeOK'
    BY <1>5, <1>a, <1>c, SharedTyped
  <2>2. {published', w'.uid} \subseteq 0..(IF topology = "crc" THEN MaxUID ELSE MaxHC)
    BY <1>5, SharedTyped, MaxUIDAssumption, MaxHCAssumption DEF TypeOK
  <2>q. QED
    BY <1>5, <1>b, <1>d, <1>f, <2>1, <2>2 DEF TypeOK
<1>q. QED
  BY <1>1, <1>2, <1>3, <1>4, <1>5, StepCases

\* The initial states are well typed.
LEMMA InitTyped == Init => TypeOK
<1> SUFFICES ASSUME Init PROVE TypeOK
  OBVIOUS
<1>1. CRCTypeOK
  <2>1. finalizer \in BOOLEAN /\ launcher \in BOOLEAN
    BY DEF Init, SharedInit, CRCInit
  <2>q. QED
    BY <2>1, MaxUIDAssumption, MaxGenAssumption DEF Init, SharedInit, CRCInit, ContractInit, CRCTypeOK, ContractTypeOK,
       NewStatus, NoDisk, Phases, VMIPhases, JobStates
<1>2. HCPTypeOK
  <2>1. admitted \in BOOLEAN
    BY DEF Init, HCPInit
  <2>q. QED
    BY <2>1, MaxHCAssumption DEF Init, HCPInit, HCPTypeOK
<1>3. topology \in {"crc", "hypershift"} /\ published = 0 /\ w.uid = 0
  BY InstanceAssumption DEF InstanceAssumption, Init, SharedInit, IdleWorker
<1>q. QED
  BY <1>1, <1>2, <1>3, MaxUIDAssumption, MaxHCAssumption DEF TypeOK

\* Objects, status and worker of an instance of either topology are well typed
\* in every environment: a phase is one that the API knows, and a kubeconfig
\* is of a VMI or HostedCluster that there was.
THEOREM InstanceTypeCorrect == Spec => []TypeOK
<1>1. TypeOK /\ Shape /\ [Next]_vars => TypeOK'
  <2> SUFFICES ASSUME TypeOK, Shape, [Next]_vars PROVE TypeOK'
    OBVIOUS
  <2>1. CASE UNCHANGED vars
    <3>1. CRCTypeOK'
      BY <2>1 DEF vars, sharedVars, crcVars, contractVars, TypeOK, CRCTypeOK, ContractTypeOK
    <3>2. HCPTypeOK'
      BY <2>1 DEF vars, hcpVars, TypeOK, HCPTypeOK
    <3>q. QED
      BY <2>1, <3>1, <3>2 DEF vars, sharedVars, TypeOK
  <2>q. QED
    BY <2>1, TypesKept
<1>q. QED
  BY <1>1, InitTyped, ShapeInvariance, PTL DEF Spec

-----------------------------------------------------------------------------
(* The lifecycle.                                                          *)


\* A pass that does not tear down started from a live object, and without the
\* finalizer nothing is published.
LifeInv ==
  /\ w.pc \notin TeardownPCs => w.object = "live"
  /\ published # 0 /\ object # "gone" => finalizer

\* What a step of a pass may do to what the lifecycle shows: nothing to the
\* object; a report only if the object is as the pass read it, and not in a
\* teardown; and never a report and the Secret at once.
PassStep ==
  /\ w.pc # "idle" /\ UNCHANGED <<object, finalizer>>
  /\ status'.phase \in {status.phase, "Provisioning", "Ready", "Failed"}
  /\ status' # status => w.object = object /\ w.pc \notin TeardownPCs /\ published' = published
  /\ \/ w'.pc = "idle" /\ w'.object = "live"
     \/ w'.object = w.object /\ (w'.pc \in TeardownPCs <=> w.pc \in TeardownPCs)

\* It is if the pass ends with a report,
LEMMA EndsWithReport ==
  ASSUME NEW s, FinishStatus(s), s.phase \in {"Provisioning", "Ready", "Failed"},
         w.pc # "idle", w.pc \notin TeardownPCs, UNCHANGED <<object, finalizer, published>>
  PROVE  PassStep
<1>1. w' = IdleWorker /\ status' = (IF Fresh THEN s ELSE status)
  BY DEF FinishStatus, WriteStatus
<1>2. w'.pc = "idle" /\ w'.object = "live"
  BY <1>1 DEF IdleWorker
<1> QED BY <1>1, <1>2 DEF PassStep, Fresh

\* and if it goes on without one.
LEMMA GoesOnSilently ==
  ASSUME WorkerShape, NEW pc, NEW uid,
         w' = [w EXCEPT !.pc = pc] \/ w' = [w EXCEPT !.pc = pc, !.uid = uid],
         pc \in TeardownPCs <=> w.pc \in TeardownPCs, w.pc # "idle", UNCHANGED <<object, finalizer, status>>
  PROVE  PassStep
<1>1. w'.pc = pc /\ w'.object = w.object
  BY DEF WorkerShape
<1> QED BY <1>1 DEF PassStep

\* Every step for a CRC instance is such a step,
LEMMA CRCPassStep ==
  ASSUME WorkerShape, StatusShape, CRCController
  PROVE  PassStep
<1> USE DEF WriteStatus, FinishStatus, Goto, EndPass, IdleWorker, NotReady, BootKeyUnavailable, Waiting, At,
            Rest, Fresh, PassStep, TeardownPCs
<1>1. CASE ProvisionVMI
  BY <1>1 DEF ProvisionVMI, WorkerShape, StatusShape
<1>2. CASE ResolveSource
  <2> DEFINE s == [NotReady(0) EXCEPT !.binding = golden]
  <2>1. s.phase = "Provisioning"
    BY DEF StatusShape
  <2>2. FinishStatus(s) => PassStep
    BY <1>2, <2>1, EndsWithReport DEF ResolveSource
  <2>3. Goto("key") /\ UNCHANGED status => PassStep
    BY <1>2, GoesOnSilently DEF ResolveSource
  <2> QED BY <1>2, <2>2, <2>3 DEF ResolveSource
<1>3. CASE EnsureBootKey
  BY <1>3 DEF EnsureBootKey, WorkerShape, StatusShape
<1>4. CASE EnsureDisk
  BY <1>4 DEF EnsureDisk, WorkerShape, StatusShape
<1>5. CASE EnsureVM \/ EnsureRBAC \/ CreateRoute
  BY <1>5 DEF EnsureVM, EnsureRBAC, CreateRoute, WorkerShape, StatusShape
<1>6. CASE ObserveVMI
  <2>1. NotReady(0).phase = "Provisioning"
    BY DEF StatusShape
  <2>2. FinishStatus(NotReady(0)) => PassStep
    BY <1>6, <2>1, EndsWithReport DEF ObserveVMI
  <2>3. w' = [w EXCEPT !.pc = "rbac", !.uid = seen.uid] /\ UNCHANGED status => PassStep
    BY <1>6, GoesOnSilently DEF ObserveVMI
  <2> QED BY <1>6, <2>2, <2>3 DEF ObserveVMI
<1>7. CASE RecordEndpoint
  BY <1>7 DEF RecordEndpoint, WorkerShape, StatusShape
<1>8. CASE EnsureAgentJob
  BY <1>8 DEF EnsureAgentJob, WorkerShape, StatusShape
<1>9. CASE AssessAgent
  <2> DEFINE s == [status EXCEPT !.phase = "Failed"]
  <2>1. NotReady(w.uid).phase = "Provisioning" /\ s.phase = "Failed"
    BY DEF StatusShape
  <2>2. FinishStatus(NotReady(w.uid)) \/ FinishStatus(s) => PassStep
    BY <1>9, <2>1, EndsWithReport DEF AssessAgent
  <2>3. Goto("publish") /\ UNCHANGED status => PassStep
    BY <1>9, GoesOnSilently DEF AssessAgent
  <2> QED BY <1>9, <2>2, <2>3 DEF AssessAgent
<1>10. CASE PublishKubeconfig \/ MarkReady
  <2> DEFINE s == [status EXCEPT !.phase = "Ready", !.vmiUID = w.uid]
  <2>1. s.phase = "Ready"
    BY DEF StatusShape
  <2>2. MarkReady => PassStep
    BY <2>1, EndsWithReport DEF MarkReady
  <2>3. PublishKubeconfig => PassStep
    BY GoesOnSilently DEF PublishKubeconfig
  <2> QED BY <1>10, <2>2, <2>3
<1>11. CASE CheckReadyVMI
  BY <1>11 DEF CheckReadyVMI, WorkerShape, StatusShape
<1>12. CASE CheckPublished
  <2> DEFINE s == [status EXCEPT !.phase = "Provisioning"]
  <2>1. s.phase = "Provisioning"
    BY DEF StatusShape
  <2>2. FinishStatus(s) => PassStep
    BY <1>12, <2>1, EndsWithReport DEF CheckPublished
  <2>3. w' = [w EXCEPT !.pc = "publish", !.uid = status.vmiUID] /\ UNCHANGED status => PassStep
    BY <1>12, GoesOnSilently DEF CheckPublished
  <2>4. EndPass /\ UNCHANGED status => PassStep
    BY <1>12 DEF CheckPublished
  <2> QED BY <1>12, <2>2, <2>3, <2>4 DEF CheckPublished
<1>13. CASE DropStaleJob
  BY <1>13 DEF DropStaleJob, WorkerShape, StatusShape
<1>14. CASE DropPublished \/ Invalidate
  <2> DEFINE s == [status EXCEPT !.phase = "Provisioning", !.vmiUID = IF w.uid = 0 THEN @ ELSE w.uid]
  <2>1. s.phase = "Provisioning"
    BY DEF StatusShape
  <2>2. Invalidate => PassStep
    BY <2>1, EndsWithReport DEF Invalidate
  <2>3. DropPublished => PassStep
    BY GoesOnSilently DEF DropPublished
  <2> QED BY <1>14, <2>2, <2>3
<1>15. CASE DeleteJobs \/ DeleteKeys
  BY <1>15 DEF DeleteJobs, DeleteKeys, WorkerShape, StatusShape
<1>16. CASE DeleteVM
  BY <1>16 DEF DeleteVM, WorkerShape, StatusShape
<1>17. CASE DeleteVMI
  BY <1>17 DEF DeleteVMI, WorkerShape, StatusShape
<1>18. CASE AwaitLauncher \/ DeleteDisk \/ DeleteLeftovers
  BY <1>18 DEF AwaitLauncher, DeleteDisk, DeleteLeftovers, WorkerShape, StatusShape
<1>q. QED
  BY <1>1, <1>2, <1>3, <1>4, <1>5, <1>6, <1>7, <1>8, <1>9, <1>10, <1>11, <1>12, <1>13, <1>14, <1>15, <1>16,
    <1>17, <1>18 DEF CRCController, Provision, Recover, Teardown

\* and so is every step for a hosted cluster.
LEMMA HCPPassStep ==
  ASSUME WorkerShape, StatusShape, HCPController
  PROVE  PassStep
<1> USE DEF WriteStatus, FinishStatus, Goto, EndPass, IdleWorker, Wait, Conflict, At, Object, Fresh, PassStep,
            TeardownPCs
<1>1. CASE PlaceHosted
  <2> DEFINE s == [status EXCEPT !.phase = "Provisioning", !.endpoint = domain]
  <2> DEFINE f == [status EXCEPT !.phase = "Failed"]
  <2>1. s.phase = "Provisioning" /\ f.phase = "Failed"
    BY DEF StatusShape
  <2>2. FinishStatus(s) \/ FinishStatus(f) => PassStep
    BY <1>1, <2>1, EndsWithReport DEF PlaceHosted
  <2>3. Goto(IF Hosted THEN "nodePool" ELSE "cert") /\ UNCHANGED status => PassStep
    BY <1>1, GoesOnSilently DEF PlaceHosted
  <2> QED BY <1>1, <2>2, <2>3 DEF PlaceHosted
<1>2. CASE EnsureServingCert \/ CreateHostedCluster
  BY <1>2 DEF EnsureServingCert, CreateHostedCluster, WorkerShape, StatusShape
<1>3. CASE EnsureNodePool
  <2> DEFINE s == [status EXCEPT !.phase = "Provisioning"]
  <2> DEFINE f == [status EXCEPT !.phase = "Failed"]
  <2>1. s.phase = "Provisioning" /\ f.phase = "Failed"
    BY DEF StatusShape
  <2>2. FinishStatus(s) \/ FinishStatus(f) => PassStep
    BY <1>3, <2>1, EndsWithReport DEF EnsureNodePool
  <2>3. w' = [w EXCEPT !.pc = "backing", !.uid = hc.id] /\ UNCHANGED status => PassStep
    BY <1>3, GoesOnSilently DEF EnsureNodePool
  <2> QED BY <1>3, <2>2, <2>3 DEF EnsureNodePool
<1>4. CASE AwaitBacking
  BY <1>4 DEF AwaitBacking, WorkerShape, StatusShape
<1>5. CASE EnsureAPIRoute
  BY <1>5 DEF EnsureAPIRoute, WorkerShape, StatusShape
<1>6. CASE CheckHostedAPI
  BY <1>6 DEF CheckHostedAPI, WorkerShape, StatusShape
<1>7. CASE PublishHosted \/ MarkHostedReady
  BY <1>7 DEF PublishHosted, MarkHostedReady, WorkerShape, StatusShape
<1>8. CASE CheckReadyHosted
  BY <1>8 DEF CheckReadyHosted, WorkerShape, StatusShape
<1>9. CASE CheckReadyAPI
  BY <1>9 DEF CheckReadyAPI, WorkerShape, StatusShape
<1>10. CASE DeleteHostedCluster
  BY <1>10 DEF DeleteHostedCluster, WorkerShape, StatusShape
<1>11. CASE DeleteNodePool
  <2>1. w.pc = "deleteNodePool" /\ UNCHANGED <<object, finalizer, status>>
    BY <1>11 DEF DeleteNodePool
  <2>2. w' = IdleWorker \/ w' = [w EXCEPT !.pc = "deleteCert", !.pending = TRUE] \/ w' = [w EXCEPT !.pc = "deleteCert"]
    BY <1>11 DEF DeleteNodePool
  <2>3. w' = IdleWorker => w'.pc = "idle" /\ w'.object = "live"
    OBVIOUS
  <2>4. w' = [w EXCEPT !.pc = "deleteCert", !.pending = TRUE] => w'.pc = "deleteCert" /\ w'.object = w.object
    BY DEF WorkerShape
  <2>5. w' = [w EXCEPT !.pc = "deleteCert"] => w'.pc = "deleteCert" /\ w'.object = w.object
    BY DEF WorkerShape
  <2> QED BY <2>1, <2>2, <2>3, <2>4, <2>5
<1>12. CASE DeleteServingCert \/ AwaitWorkers
  BY <1>12 DEF DeleteServingCert, AwaitWorkers, WorkerShape, StatusShape
<1>q. QED
  BY <1>1, <1>2, <1>3, <1>4, <1>5, <1>6, <1>7, <1>8, <1>9, <1>10, <1>11, <1>12 DEF HCPController

\* Such a step reports, publishes, withdraws, or shows nothing.
LEMMA PassStepLives ==
  ASSUME PassFits, LifeInv, PassStep
  PROVE  LifeInv' /\ [Lifecycle!Next]_(Lifecycle!vars)
<1>1. finalizer /\ object \in {"live", "deleting"} /\ UNCHANGED <<object, finalizer>>
  BY DEF PassFits, PassStep
<1>2. LifeInv'
  <2>1. w'.pc \notin TeardownPCs => w'.object = "live"
    BY DEF PassStep, LifeInv
  <2> QED BY <1>1, <2>1 DEF LifeInv
<1> SUFFICES [Lifecycle!Next]_(Lifecycle!vars)
  BY <1>2
<1>3. CASE status' = status
  <2>1. CASE published = 0 /\ published' # 0
    BY <1>1, <1>3, <2>1 DEF Lifecycle!Publish, Lifecycle!Next
  <2>2. CASE published # 0 /\ published' = 0
    BY <1>1, <1>3, <2>2 DEF Lifecycle!Withdraw, Lifecycle!Next
  <2>3. CASE (published = 0) <=> (published' = 0)
    BY <1>1, <1>3, <2>3 DEF Lifecycle!vars
  <2> QED BY <2>1, <2>2, <2>3
<1>4. CASE status' # status
  <2>1. object = "live" /\ published' = published
    BY <1>4 DEF PassStep, LifeInv
  <2>2. CASE status'.phase = status.phase
    BY <1>1, <2>1, <2>2 DEF Lifecycle!vars
  <2>3. CASE status'.phase # status.phase
    <3>1. status'.phase \in {"Provisioning", "Ready", "Failed"}
      BY <2>3 DEF PassStep
    <3>2. CASE status.phase = "New" /\ status'.phase = "Provisioning"
      BY <1>1, <2>1, <3>2 DEF Lifecycle!vars
    <3>3. CASE ~(status.phase = "New" /\ status'.phase = "Provisioning")
      <4>1. Lifecycle!Report
        BY <1>1, <2>1, <2>3, <3>1, <3>3 DEF Lifecycle!Report, Lifecycle!Reports
      <4> QED BY <4>1 DEF Lifecycle!Next
    <3> QED BY <3>2, <3>3
  <2> QED BY <2>2, <2>3
<1> QED BY <1>3, <1>4

\* Reconcile itself protects the instance, ends it, or reports; and the faults
\* do to it what the lifecycle has users and administrators do.
LEMMA SharedLives ==
  ASSUME WorkerShape, StatusShape, PassFits, LifeInv, SharedStep \/ SharedFault
  PROVE  LifeInv' /\ [Lifecycle!Next]_(Lifecycle!vars)
<1> DEFINE Goal == LifeInv' /\ [Lifecycle!Next]_(Lifecycle!vars)
<1>1. CASE AddFinalizer
  <2>1. /\ object = "live" /\ ~finalizer /\ finalizer' = TRUE
        /\ UNCHANGED <<object, status, published, w>>
    BY <1>1 DEF AddFinalizer
  <2>2. LifeInv'
    BY <2>1 DEF LifeInv
  <2>3. Lifecycle!Protect
    BY <2>1 DEF Lifecycle!Protect
  <2> QED BY <2>2, <2>3 DEF Lifecycle!Next
<1>2. CASE StartPass
  <2>1. /\ object \in {"live", "deleting"} /\ UNCHANGED <<object, finalizer, status, published>>
        /\ w'.object = object
        /\ w'.pc = (IF object = "deleting" THEN "terminate" ELSE IF status.phase = "Ready" THEN "ready" ELSE "provision")
    BY <1>2 DEF StartPass, IdleWorker, PassFits
  <2>2. LifeInv'
    BY <2>1 DEF LifeInv, TeardownPCs
  <2> QED BY <2>1, <2>2 DEF Lifecycle!vars
<1>3. CASE Terminate
  <2>1. /\ w.pc = "terminate" /\ finalizer /\ object = "deleting" /\ UNCHANGED <<object, finalizer, published>>
        /\ status' = status \/ status' = [status EXCEPT !.phase = "Terminating"]
        /\ w' = IdleWorker \/ w' = [w EXCEPT !.pc = "teardown"]
    BY <1>3 DEF Terminate, WriteStatus, At, PassFits, TeardownPCs
  <2>2. w'.pc \in TeardownPCs \/ w'.object = "live"
    <3>1. w' = IdleWorker => w'.object = "live"
      BY DEF IdleWorker
    <3>2. w' = [w EXCEPT !.pc = "teardown"] => w'.pc = "teardown"
      BY DEF WorkerShape
    <3> QED BY <2>1, <3>1, <3>2 DEF TeardownPCs
  <2>3. LifeInv'
    BY <2>1, <2>2 DEF LifeInv
  <2>4. status'.phase \in {status.phase, "Terminating"}
    BY <2>1 DEF StatusShape
  <2>5. CASE status'.phase = status.phase
    BY <2>1, <2>3, <2>5 DEF Lifecycle!vars
  <2>6. CASE status'.phase = "Terminating"
    <3>1. Lifecycle!Terminate
      BY <2>1, <2>6 DEF Lifecycle!Terminate
    <3> QED BY <2>3, <3>1 DEF Lifecycle!Next
  <2> QED BY <2>4, <2>5, <2>6
<1>4. CASE DropFinalizer
  <2>1. finalizer /\ object = "deleting" /\ UNCHANGED <<status, published>> /\ w' = IdleWorker
    BY <1>4 DEF DropFinalizer, At, EndPass, PassFits, TeardownPCs
  <2>2. w'.object = "live"
    BY <2>1 DEF IdleWorker
  <2>3. CASE UNCHANGED <<object, finalizer>>
    <3>1. LifeInv'
      BY <2>1, <2>2, <2>3 DEF LifeInv
    <3> QED BY <2>1, <2>3, <3>1 DEF Lifecycle!vars
  <2>4. CASE finalizer' = FALSE /\ object' = "gone"
    <3>1. LifeInv'
      BY <2>2, <2>4 DEF LifeInv
    <3>2. Lifecycle!Finish
      BY <2>1, <2>4 DEF Lifecycle!Finish, Lifecycle!Absent
    <3> QED BY <3>1, <3>2 DEF Lifecycle!Next
  <2> QED BY <1>4, <2>3, <2>4 DEF DropFinalizer
<1>5. CASE PlatformBlocked
  <2>1. /\ object = "live" /\ finalizer /\ UNCHANGED <<object, finalizer, published, w>>
        /\ status' = [status EXCEPT !.phase = "Provisioning"]
    BY <1>5 DEF PlatformBlocked
  <2>2. LifeInv'
    BY <2>1 DEF LifeInv
  <2>3. status'.phase = "Provisioning"
    BY <2>1 DEF StatusShape
  <2>4. CASE status.phase \in {"New", "Provisioning"}
    BY <2>1, <2>2, <2>3, <2>4 DEF Lifecycle!vars
  <2>5. CASE status.phase \notin {"New", "Provisioning"}
    <3>1. Lifecycle!Report
      BY <2>1, <2>3, <2>5 DEF Lifecycle!Report, Lifecycle!Reports
    <3> QED BY <2>2, <3>1 DEF Lifecycle!Next
  <2> QED BY <2>4, <2>5
<1>6. CASE MarkFailed
  <2> DEFINE s == [status EXCEPT !.phase = "Failed"]
  <2>1. s.phase = "Failed"
    BY DEF StatusShape
  <2>2. w.pc # "idle" /\ w.pc \notin TeardownPCs
    BY <1>6 DEF MarkFailed, FailingCalls, TeardownPCs
  <2>3. PassStep
    BY <1>6, <2>1, <2>2, EndsWithReport DEF MarkFailed
  <2> QED BY <2>3, PassStepLives
<1>7. CASE Crash
  <2>1. UNCHANGED <<object, finalizer, status, published>> /\ w' = IdleWorker
    BY <1>7 DEF Crash, EndPass
  <2>2. LifeInv'
    BY <2>1 DEF LifeInv, IdleWorker
  <2> QED BY <2>1, <2>2 DEF Lifecycle!vars
<1>8. CASE DeleteInstance
  <2>1. /\ object = "live" /\ object' = (IF finalizer THEN "deleting" ELSE "gone")
        /\ UNCHANGED <<finalizer, status, published, w>>
    BY <1>8 DEF DeleteInstance
  <2>2. LifeInv'
    BY <2>1 DEF LifeInv
  <2>3. Lifecycle!Delete
    <3>1. CASE finalizer
      BY <2>1, <3>1 DEF Lifecycle!Delete
    <3>2. CASE ~finalizer
      <4>1. published = 0
        BY <2>1, <3>2 DEF LifeInv
      <4>2. Lifecycle!Absent'
        BY <2>1, <3>2 DEF Lifecycle!Absent
      <4> QED BY <2>1, <3>2, <4>1, <4>2 DEF Lifecycle!Delete
    <3> QED BY <3>1, <3>2
  <2> QED BY <2>2, <2>3 DEF Lifecycle!Next
<1>9. CASE LoseRoute \/ EditRoute \/ ChangeDomain
  <2>1. UNCHANGED <<object, finalizer, status, published, w>>
    BY <1>9 DEF LoseRoute, EditRoute, ChangeDomain
  <2> QED BY <2>1 DEF LifeInv, Lifecycle!vars
<1>10. CASE LosePublished
  <2>1. published # 0 /\ published' = 0 /\ UNCHANGED <<object, finalizer, status, w>>
    BY <1>10 DEF LosePublished
  <2>2. LifeInv'
    BY <2>1 DEF LifeInv
  <2>3. CASE object = "gone"
    BY <2>1, <2>2, <2>3 DEF Lifecycle!vars
  <2>4. CASE object # "gone"
    <3>1. Lifecycle!Withdraw
      BY <2>1, <2>4 DEF Lifecycle!Withdraw
    <3> QED BY <2>2, <3>1 DEF Lifecycle!Next
  <2> QED BY <2>3, <2>4
<1> QED
  BY <1>1, <1>2, <1>3, <1>4, <1>5, <1>6, <1>7, <1>8, <1>9, <1>10 DEF SharedStep, SharedFault

\* The instance controller implements the lifecycle that pools and leases rely
\* on (ClusterBroker does so too), for either topology and in every environment.
THEOREM ControllerImplementsLifecycle == Spec => ImplementsLifecycle
<1>1. Init => LifeInv /\ Lifecycle!Init
  <2>1. Init => LifeInv
    BY DEF Init, SharedInit, IdleWorker, LifeInv
  <2>2. Init => Lifecycle!Created
    BY DEF Init, SharedInit, NewStatus, Lifecycle!Created
  <2> QED BY <2>1, <2>2 DEF Lifecycle!Init
<1>2. PassInv /\ LifeInv /\ [Next]_vars => LifeInv' /\ [Lifecycle!Next]_(Lifecycle!vars)
  <2> SUFFICES ASSUME PassInv, LifeInv, [Next]_vars
               PROVE  LifeInv' /\ [Lifecycle!Next]_(Lifecycle!vars)
    OBVIOUS
  <2>a. WorkerShape /\ StatusShape /\ PassFits
    BY DEF PassInv, Shape
  <2>1. CASE CRCController \/ HCPController
    BY <2>a, <2>1, CRCPassStep, HCPPassStep, PassStepLives
  <2>2. CASE SharedStep \/ SharedFault
    BY <2>a, <2>2, SharedLives
  <2>3. CASE CRCSurroundings \/ HCPSurroundings \/ UNCHANGED vars
    <3>1. UNCHANGED <<object, finalizer, status, published, w>>
      BY <2>3, SurroundingsApart DEF vars, sharedVars
    <3> QED BY <3>1 DEF LifeInv, Lifecycle!vars
  <2> QED BY <2>1, <2>2, <2>3, StepCases
<1> QED
  BY <1>1, <1>2, PassInvariance, PTL DEF Spec, ImplementsLifecycle, Lifecycle!Spec
=============================================================================
