-------------------------- MODULE CRCInstanceProofs --------------------------
(***************************************************************************)
(* What holds of a CRC instance in every environment.  A reconcile makes   *)
(* one API call per step and may stop anywhere, so each property needs to  *)
(* say what is already done at each step of a pass; the four parts of      *)
(* CRCInv do that for the kubeconfig handoff, the keys, the disk and what  *)
(* is left.  For each part one lemma follows the steps of the passes and   *)
(* one the platform, the agents and the faults.                            *)
(***************************************************************************)
EXTENDS InstancesProofs

\* What is published, and is about to be, is of the VMI that the status names.
HandoffInv ==
  topology = "crc" =>
    /\ w.pc \in {"publish", "markReady"} => w.uid \in raw /\ (status.phase = "Ready" => w.uid = status.vmiUID)
    /\ w.pc = "markReady" => published \in {0, w.uid}
    /\ ReadyServesItsVMI

\* The boot key is there or can be copied again; an agent Job is there.
HasKey == copy # 0 \/ "rebuild" \in env
HasJob == \E u \in UIDs : job[u] # "absent"

\* Keys come before the Job and go after it.
KeyInv ==
  /\ KeyIsBound
  /\ topology = "crc" =>
       /\ w.pc = "key" => status.binding # 0
       /\ w.pc \in {"disk", "vm", "observe", "rbac", "endpoint", "route", "job"} => HasKey
       /\ w.pc \in {"endpoint", "route", "job"} => "rbac" \in owned
       /\ w.pc \in {"keys", "stopVM", "deleteVMI", "deleteLauncher", "deleteDisk", "leftovers", "finish"} => ~HasJob
       /\ w.pc \in {"stopVM", "deleteVMI", "deleteLauncher", "deleteDisk", "leftovers", "finish"} =>
            copy = 0 /\ "rbac" \notin owned
  /\ HasJob => "rbac" \in owned /\ HasKey

\* The machine goes before its disk; DeleteVM and its successors carry in
\* vmPending and pending what they still wait for.
MachineGone == vm = "absent" /\ vmi.phase = "absent" /\ ~launcher

DiskInv ==
  /\ DiskNotPulled
  /\ topology = "crc" =>
       /\ disk.state = "absent" => disk = NoDisk
       /\ disk.state = "pvc" => object # "live" /\ w.pc \in TeardownPCs \cup {"idle"}
       /\ w.pc = "deleteVMI" /\ ~w.vmPending => vm = "absent"
       /\ w.pc = "deleteLauncher" /\ ~w.vmPending => vm = "absent" /\ vmi.phase = "absent"
       /\ w.pc = "deleteDisk" => MachineGone
       /\ w.pc \in {"leftovers", "finish"} /\ ~w.pending => MachineGone /\ disk = NoDisk

\* The finalizer goes when nothing is left.
CleanCRC ==
  /\ \A u \in UIDs : job[u] = "absent"
  /\ vm = "absent" /\ vmi.phase = "absent" /\ ~launcher /\ disk = NoDisk
  /\ copy = 0 /\ raw = {} /\ route = 0 /\ "rbac" \notin owned

LeftoverInv ==
  topology = "crc" =>
    /\ w.pc = "finish" => raw = {} /\ route = 0
    /\ object = "gone" \/ ~finalizer => CleanCRC

CRCInv == PassInv /\ HandoffInv /\ KeyInv /\ DiskInv /\ LeftoverInv

-----------------------------------------------------------------------------
(* The steps of a pass, by where they lead.                                *)

\* Steps that end the pass or go on, some of them with another VMI's UID.
LEMMA ForkedSteps ==
  ASSUME WorkerShape
  PROVE  /\ ObserveVMI => w.pc = "observe" /\ w'.pc \in {"rbac", "idle"}
         /\ CheckPublished => w.pc = "readyPublished" /\ w'.pc \in {"publish", "idle"}
         /\ EnsureBootKey => \/ w.pc = "key" /\ w'.pc \in {"disk", "idle"}
                             \/ w.pc = "readyKey" /\ w'.pc \in {"readyVMI", "idle"}
         /\ EnsureRBAC => \/ w.pc = "rbac" /\ w'.pc = "endpoint"
                          \/ w.pc = "ready" /\ w'.pc = "readyKey"
<1>0. /\ w' = IdleWorker => w'.pc = "idle"
      /\ \A pc : w' = [w EXCEPT !.pc = pc] => w'.pc = pc
      /\ \A pc, uid : w' = [w EXCEPT !.pc = pc, !.uid = uid] => w'.pc = pc
  <2>1. w' = IdleWorker => w'.pc = "idle"
    BY DEF IdleWorker
  <2>2. \A pc : w' = [w EXCEPT !.pc = pc] => w'.pc = pc
    BY DEF WorkerShape
  <2>3. \A pc, uid : w' = [w EXCEPT !.pc = pc, !.uid = uid] => w'.pc = pc
    BY DEF WorkerShape
  <2>q. QED
    BY <2>1, <2>2, <2>3
<1>1. ObserveVMI => w.pc = "observe" /\ w'.pc \in {"rbac", "idle"}
  <2>1. ObserveVMI => /\ w.pc = "observe"
                      /\ w' = IdleWorker \/ w' = [w EXCEPT !.pc = "rbac", !.uid = seen.uid]
    BY DEF ObserveVMI, At, FinishStatus, WriteStatus
  <2>q. QED
    BY <1>0, <2>1
<1>2. CheckPublished => w.pc = "readyPublished" /\ w'.pc \in {"publish", "idle"}
  <2>1. CheckPublished => /\ w.pc = "readyPublished"
                          /\ w' = IdleWorker \/ w' = [w EXCEPT !.pc = "publish", !.uid = status.vmiUID]
    BY DEF CheckPublished, At, EndPass, FinishStatus, WriteStatus
  <2>q. QED
    BY <1>0, <2>1
<1>3. EnsureBootKey => \/ w.pc = "key" /\ w'.pc \in {"disk", "idle"}
                       \/ w.pc = "readyKey" /\ w'.pc \in {"readyVMI", "idle"}
  <2>1. EnsureBootKey => w.pc \in {"key", "readyKey"}
    BY DEF EnsureBootKey, At
  <2>2. EnsureBootKey /\ w.pc = "key" => w' = IdleWorker \/ w' = [w EXCEPT !.pc = "disk"]
    BY DEF EnsureBootKey, At, Goto, BootKeyUnavailable, FinishStatus, WriteStatus
  <2>3. EnsureBootKey /\ w.pc = "readyKey" => w' = IdleWorker \/ w' = [w EXCEPT !.pc = "readyVMI"]
    BY DEF EnsureBootKey, At, Goto, BootKeyUnavailable, FinishStatus, WriteStatus
  <2>q. QED
    BY <1>0, <2>1, <2>2, <2>3
<1>4. EnsureRBAC => \/ w.pc = "rbac" /\ w'.pc = "endpoint"
                    \/ w.pc = "ready" /\ w'.pc = "readyKey"
  BY <1>0 DEF EnsureRBAC, At, Goto
<1>q. QED
  BY <1>1, <1>2, <1>3, <1>4

\* Provisioning goes through its steps in order.
LEMMA ProvisionOrder ==
  ASSUME WorkerShape
  PROVE  /\ ProvisionVMI => w.pc = "provision" /\ w'.pc \in {"dropJob", "source"}
         /\ ResolveSource => w.pc = "source" /\ w'.pc \in {"key", "idle"}
         /\ EnsureDisk => w.pc = "disk" /\ w'.pc \in {"vm", "idle"}
         /\ EnsureVM => w.pc = "vm" /\ w'.pc = "observe"
         /\ RecordEndpoint => w.pc = "endpoint" /\ w'.pc \in {"job", "route", "idle"}
         /\ CreateRoute => w.pc = "route" /\ w'.pc = "job"
         /\ EnsureAgentJob => w.pc = "job" /\ w'.pc = "assess"
         /\ AssessAgent => w.pc = "assess" /\ w'.pc \in {"publish", "idle"}
         /\ PublishKubeconfig => w.pc = "publish" /\ w'.pc = "markReady"
         /\ MarkReady => w.pc = "markReady" /\ w'.pc = "idle"
<1> USE DEF At, WriteStatus, FinishStatus, Goto, EndPass, IdleWorker, NotReady, BootKeyUnavailable, Waiting, WorkerShape
<1>1. ProvisionVMI => w.pc = "provision" /\ w'.pc \in {"dropJob", "source"}
  BY DEF ProvisionVMI
<1>2. ResolveSource => w.pc = "source" /\ w'.pc \in {"key", "idle"}
  BY DEF ResolveSource
<1>3. EnsureDisk => w.pc = "disk" /\ w'.pc \in {"vm", "idle"}
  BY DEF EnsureDisk
<1>4. EnsureVM => w.pc = "vm" /\ w'.pc = "observe"
  BY DEF EnsureVM
<1>5. RecordEndpoint => w.pc = "endpoint" /\ w'.pc \in {"job", "route", "idle"}
  BY DEF RecordEndpoint
<1>6. CreateRoute => w.pc = "route" /\ w'.pc = "job"
  BY DEF CreateRoute
<1>7. EnsureAgentJob => w.pc = "job" /\ w'.pc = "assess"
  BY DEF EnsureAgentJob
<1>8. AssessAgent => w.pc = "assess" /\ w'.pc \in {"publish", "idle"}
  BY DEF AssessAgent
<1>9. PublishKubeconfig => w.pc = "publish" /\ w'.pc = "markReady"
  BY DEF PublishKubeconfig
<1>10. MarkReady => w.pc = "markReady" /\ w'.pc = "idle"
  BY DEF MarkReady
<1>q. QED
  BY <1>1, <1>2, <1>3, <1>4, <1>5, <1>6, <1>7, <1>8, <1>9, <1>10

\* So does the check of a Ready instance.
LEMMA RecoverOrder ==
  ASSUME WorkerShape
  PROVE  /\ CheckReadyVMI => w.pc = "readyVMI" /\ w'.pc \in {"readyPublished", "dropJob"}
         /\ DropStaleJob => w.pc = "dropJob" /\ w'.pc \in {"dropPublished", "idle"}
         /\ DropPublished => w.pc = "dropPublished" /\ w'.pc = "invalidate"
         /\ Invalidate => w.pc = "invalidate" /\ w'.pc = "idle"
<1> USE DEF At, WriteStatus, FinishStatus, Goto, EndPass, IdleWorker, NotReady, BootKeyUnavailable, Waiting, WorkerShape
<1>1. CheckReadyVMI => w.pc = "readyVMI" /\ w'.pc \in {"readyPublished", "dropJob"}
  BY DEF CheckReadyVMI
<1>2. DropStaleJob => w.pc = "dropJob" /\ w'.pc \in {"dropPublished", "idle"}
  BY DEF DropStaleJob
<1>3. DropPublished => w.pc = "dropPublished" /\ w'.pc = "invalidate"
  BY DEF DropPublished
<1>4. Invalidate => w.pc = "invalidate" /\ w'.pc = "idle"
  BY DEF Invalidate
<1>q. QED
  BY <1>1, <1>2, <1>3, <1>4

\* So does a teardown.
LEMMA TeardownOrder ==
  ASSUME WorkerShape
  PROVE  /\ DeleteJobs => w.pc = "teardown" /\ w'.pc \in {"keys", "idle"}
         /\ DeleteKeys => w.pc = "keys" /\ w'.pc = "stopVM"
         /\ DeleteVM => w.pc = "stopVM" /\ w'.pc \in {"deleteVMI", "leftovers"}
         /\ DeleteVMI => w.pc = "deleteVMI" /\ w'.pc \in {"deleteLauncher", "leftovers"}
         /\ AwaitLauncher => w.pc = "deleteLauncher" /\ w'.pc \in {"deleteDisk", "leftovers"}
         /\ DeleteDisk => w.pc = "deleteDisk" /\ w'.pc = "leftovers"
         /\ DeleteLeftovers => w.pc = "leftovers" /\ w'.pc = "finish"
<1> USE DEF At, WriteStatus, FinishStatus, Goto, EndPass, IdleWorker, NotReady, BootKeyUnavailable, Waiting, WorkerShape
<1>1. DeleteJobs => w.pc = "teardown" /\ w'.pc \in {"keys", "idle"}
  BY DEF DeleteJobs
<1>2. DeleteKeys => w.pc = "keys" /\ w'.pc = "stopVM"
  BY DEF DeleteKeys
<1>3. DeleteVM => w.pc = "stopVM" /\ w'.pc \in {"deleteVMI", "leftovers"}
  BY DEF DeleteVM
<1>4. DeleteVMI => w.pc = "deleteVMI" /\ w'.pc \in {"deleteLauncher", "leftovers"}
  BY DEF DeleteVMI
<1>5. AwaitLauncher => w.pc = "deleteLauncher" /\ w'.pc \in {"deleteDisk", "leftovers"}
  BY DEF AwaitLauncher
<1>6. DeleteDisk => w.pc = "deleteDisk" /\ w'.pc = "leftovers"
  BY DEF DeleteDisk
<1>7. DeleteLeftovers => w.pc = "leftovers" /\ w'.pc = "finish"
  BY DEF DeleteLeftovers
<1>q. QED
  BY <1>1, <1>2, <1>3, <1>4, <1>5, <1>6, <1>7

-----------------------------------------------------------------------------
(* Handoffs.                                                               *)

\* Only markReady makes an instance Ready or gives a Ready one another VMI.
LEMMA OnlyMarkReady ==
  ASSUME StatusShape, CRCController, ~MarkReady
  PROVE  status'.phase = "Ready" => status.phase = "Ready" /\ status'.vmiUID = status.vmiUID
<1> USE DEF WriteStatus, FinishStatus, Goto, EndPass, IdleWorker, NotReady, BootKeyUnavailable, Waiting
<1>1. CASE ProvisionVMI
  BY <1>1 DEF ProvisionVMI, StatusShape
<1>2. CASE ResolveSource
  BY <1>2 DEF ResolveSource, StatusShape
<1>3. CASE EnsureBootKey
  BY <1>3 DEF EnsureBootKey, StatusShape
<1>4. CASE EnsureDisk
  BY <1>4 DEF EnsureDisk, StatusShape
<1>5. CASE EnsureVM \/ EnsureRBAC \/ CreateRoute
  BY <1>5 DEF EnsureVM, EnsureRBAC, CreateRoute, StatusShape
<1>6. CASE ObserveVMI
  BY <1>6 DEF ObserveVMI, StatusShape
<1>7. CASE RecordEndpoint
  BY <1>7 DEF RecordEndpoint, StatusShape
<1>8. CASE EnsureAgentJob
  BY <1>8 DEF EnsureAgentJob, StatusShape
<1>9. CASE AssessAgent
  BY <1>9 DEF AssessAgent, StatusShape
<1>10. CASE PublishKubeconfig
  BY <1>10 DEF PublishKubeconfig, StatusShape
<1>11. CASE CheckReadyVMI
  BY <1>11 DEF CheckReadyVMI, StatusShape
<1>12. CASE CheckPublished
  BY <1>12 DEF CheckPublished, StatusShape
<1>13. CASE DropStaleJob
  BY <1>13 DEF DropStaleJob, StatusShape
<1>14. CASE DropPublished \/ Invalidate
  BY <1>14 DEF DropPublished, Invalidate, StatusShape
<1>15. CASE DeleteJobs \/ DeleteKeys
  BY <1>15 DEF DeleteJobs, DeleteKeys, StatusShape
<1>16. CASE DeleteVM
  BY <1>16 DEF DeleteVM, StatusShape
<1>17. CASE DeleteVMI
  BY <1>17 DEF DeleteVMI, StatusShape
<1>18. CASE AwaitLauncher \/ DeleteDisk \/ DeleteLeftovers
  BY <1>18 DEF AwaitLauncher, DeleteDisk, DeleteLeftovers, StatusShape
<1>q. QED
  BY <1>1, <1>2, <1>3, <1>4, <1>5, <1>6, <1>7, <1>8, <1>9, <1>10, <1>11, <1>12, <1>13, <1>14, <1>15, <1>16,
    <1>17, <1>18 DEF CRCController, Provision, Recover, Teardown

\* The steps that publish.
LEMMA Publication ==
  ASSUME WorkerShape, StatusShape
  PROVE  /\ AssessAgent /\ w'.pc = "publish" => w'.uid = w.uid /\ w.uid \in raw /\ status' = status
         /\ CheckPublished /\ w'.pc = "publish" =>
              w'.uid = status.vmiUID /\ status.vmiUID \in raw /\ status' = status
         /\ PublishKubeconfig => w'.uid = w.uid /\ published' = w.uid /\ status' = status
         /\ MarkReady => \/ status' = status
                         \/ status'.phase = "Ready" /\ status'.vmiUID = w.uid
<1>1. AssessAgent /\ w'.pc = "publish" => w'.uid = w.uid /\ w.uid \in raw /\ status' = status
  BY DEF AssessAgent, FinishStatus, WriteStatus, Goto, IdleWorker, Handoff, WorkerShape
<1>2. CheckPublished /\ w'.pc = "publish" => w'.uid = status.vmiUID /\ status.vmiUID \in raw /\ status' = status
  <2>1. CheckPublished => \/ w' = IdleWorker
                          \/ /\ w' = [w EXCEPT !.pc = "publish", !.uid = status.vmiUID]
                             /\ Handoff(status.vmiUID) /\ status' = status
    BY DEF CheckPublished, EndPass, FinishStatus, WriteStatus
  <2>2. w' = IdleWorker => w'.pc = "idle"
    BY DEF IdleWorker
  <2>3. w' = [w EXCEPT !.pc = "publish", !.uid = status.vmiUID] => w'.uid = status.vmiUID
    BY DEF WorkerShape
  <2>q. QED
    BY <2>1, <2>2, <2>3 DEF Handoff
<1>3. PublishKubeconfig => w'.uid = w.uid /\ published' = w.uid /\ status' = status
  BY DEF PublishKubeconfig, Goto, WorkerShape
<1>4. MarkReady => \/ status' = status
                   \/ status'.phase = "Ready" /\ status'.vmiUID = w.uid
  BY DEF MarkReady, FinishStatus, WriteStatus, StatusShape
<1>q. QED
  BY <1>1, <1>2, <1>3, <1>4

\* What else the steps of a pass do to the Secrets.
LEMMA SecretSteps ==
  ASSUME CRCController
  PROVE  /\ UNCHANGED <<topology, env, object, finalizer>>
         /\ raw' = raw \/ DeleteLeftovers
         /\ published' \in {0, published} \/ PublishKubeconfig
<1> USE DEF Rest, contractVars
<1>1. CASE Provision
  BY <1>1 DEF Provision, ProvisionVMI, ResolveSource, EnsureBootKey, EnsureDisk, EnsureVM, ObserveVMI, EnsureRBAC,
              RecordEndpoint, CreateRoute, EnsureAgentJob, CreateJob, AssessAgent, PublishKubeconfig, MarkReady
<1>2. CASE Recover
  BY <1>2 DEF Recover, CheckReadyVMI, CheckPublished, DropStaleJob, DeleteJob, DropPublished, Invalidate
<1>3. CASE Teardown
  BY <1>3 DEF Teardown, DeleteJobs, DeleteKeys, DeleteVM, DeleteVMI, Stop, AwaitLauncher, DeleteDisk, DeleteLeftovers
<1>q. QED
  BY <1>1, <1>2, <1>3 DEF CRCController

\* The handoffs of the steps of a pass.
LEMMA ControllerHandoff ==
  ASSUME PassInv, HandoffInv, topology = "crc", CRCController
  PROVE  HandoffInv'
<1>0. WorkerShape /\ StatusShape /\ PassFits /\ UNCHANGED <<topology, object>>
  BY SecretSteps DEF PassInv, Shape
<1>1. CASE AssessAgent
  <2>1. status.phase # "Ready" /\ w.pc = "assess" /\ w'.pc \in {"publish", "idle"} /\ ~MarkReady
    BY <1>0, <1>1, ProvisionOrder DEF PassFits, ProvisionPCs
  <2>2. status'.phase # "Ready" /\ raw' = raw
    BY <1>0, <1>1, <2>1, OnlyMarkReady, SecretSteps, TeardownOrder
  <2>q. QED
    BY <1>0, <1>1, <2>1, <2>2, Publication DEF HandoffInv, ReadyServesItsVMI
<1>2. CASE CheckPublished
  <2>1. w.pc = "readyPublished" /\ w'.pc \in {"publish", "idle"}
    BY <1>0, <1>2, ForkedSteps
  <2>2. published' \in {0, published} /\ raw' = raw /\ ~MarkReady
    BY <1>0, <2>1, SecretSteps, TeardownOrder, ProvisionOrder
  <2>3. status'.phase = "Ready" => status.phase = "Ready" /\ status'.vmiUID = status.vmiUID
    BY <1>0, <2>2, OnlyMarkReady
  <2>q. QED
    BY <1>0, <1>2, <2>1, <2>2, <2>3, Publication DEF HandoffInv, ReadyServesItsVMI
<1>3. CASE PublishKubeconfig
  <2>1. w.pc = "publish" /\ w'.pc = "markReady" /\ raw' = raw
    BY <1>0, <1>3, ProvisionOrder, SecretSteps, TeardownOrder
  <2>q. QED
    BY <1>0, <1>3, <2>1, Publication DEF HandoffInv, ReadyServesItsVMI
<1>4. CASE MarkReady
  <2>1. w.pc = "markReady" /\ w'.pc = "idle" /\ raw' = raw /\ published' \in {0, published}
    BY <1>0, <1>4, ProvisionOrder, SecretSteps, TeardownOrder
  <2>q. QED
    BY <1>0, <1>4, <2>1, Publication DEF HandoffInv, ReadyServesItsVMI
<1>5. CASE ~(AssessAgent \/ CheckPublished \/ PublishKubeconfig \/ MarkReady)
  <2>1. w'.pc \notin {"publish", "markReady"}
    BY <1>0, <1>5, ProvisionOrder, RecoverOrder, TeardownOrder, ForkedSteps
       DEF CRCController, Provision, Recover, Teardown
  <2>2. status'.phase = "Ready" => status.phase = "Ready" /\ status'.vmiUID = status.vmiUID
    BY <1>0, <1>5, OnlyMarkReady
  <2>3. published' \in {0, published}
    BY <1>5, SecretSteps
  <2>4. raw' = raw \/ object # "live"
    BY <1>0, SecretSteps, TeardownOrder DEF PassFits, TeardownPCs
  <2>q. QED
    BY <1>0, <2>1, <2>2, <2>3, <2>4 DEF HandoffInv, ReadyServesItsVMI
<1>q. QED
  BY <1>1, <1>2, <1>3, <1>4, <1>5

\* What KubeVirt, CDI, the agents and users do to Jobs and handoffs.
LEMMA SurroundingJobs ==
  ASSUME CRCWorld, CRCSurroundings
  PROVE  /\ raw \subseteq raw' /\ owned' = owned
         /\ \A u \in UIDs : job[u] = "absent" => job'[u] = "absent"
         /\ (\A u \in UIDs : job[u] = "absent") => raw' = raw
<1> USE DEF Backing, contractVars
<1>1. CASE Platform \/ SyncCache
  BY <1>1 DEF Platform, SyncCache, BootVM, Boot, RunVM, Run, RemoveVMI, Vanish, SeeHalt, RemoveVM, RemoveLauncher,
              CloneDisk, RemovePVC
<1>2. CASE Agents
  BY <1>2 DEF Agents, AgentWorks, Prepare, Publish, Complete, JobGone, CRCWorld
<1>3. CASE CRCEnvironment
  BY <1>3 DEF CRCEnvironment, StopVM, Stop, PrepareBundle, LoseCopy, AgentFails, Fail, CRCWorld
<1>q. QED
  BY <1>1, <1>2, <1>3 DEF CRCSurroundings

\* The steps for a hosted cluster stay with it.
LEMMA HCPFrame ==
  ASSUME HCPController \/ HCPSurroundings
  PROVE  UNCHANGED <<topology, env, object, finalizer>>
BY SurroundingsApart DEF HCPController, PlaceHosted, EnsureServingCert, CreateHostedCluster, EnsureNodePool,
   AwaitBacking, EnsureAPIRoute, CheckHostedAPI, PublishHosted, MarkHostedReady, CheckReadyHosted, CheckReadyAPI,
   DeleteHostedCluster, DeleteNodePool, DeleteServingCert, AwaitWorkers, Object

\* HandoffInv is inductive.
LEMMA HandoffKept ==
  ASSUME PassInv, HandoffInv, Next
  PROVE  HandoffInv'
<1>0. WorkerShape /\ StatusShape /\ CRCWorld
  BY DEF PassInv, Shape
<1>1. CASE topology = "crc" /\ CRCController
  BY <1>1, ControllerHandoff
<1>2. CASE topology = "crc" /\ CRCSurroundings
  BY <1>0, <1>2, SurroundingsApart, SurroundingJobs DEF HandoffInv, ReadyServesItsVMI
<1>3. CASE (SharedStep \/ SharedFault) /\ UNCHANGED <<crcVars, hcpVars>>
  <2>1. raw' = raw
    BY <1>3 DEF crcVars, contractVars
  <2>2. w'.pc \in {"publish", "markReady"} => w' = w /\ status' = status
    BY <1>0, <1>3, SharedSteps
  <2>q. QED
    BY <1>0, <1>3, <2>1, <2>2, SharedSteps DEF HandoffInv, ReadyServesItsVMI
<1>4. CASE topology = "hypershift" /\ (HCPController \/ HCPSurroundings)
  BY <1>4, HCPFrame DEF HandoffInv
<1>q. QED
  BY <1>1, <1>2, <1>3, <1>4, StepCases

-----------------------------------------------------------------------------
(* Keys.                                                                   *)

\* The recorded disk and key are recorded once.
LEMMA CRCBinding ==
  ASSUME StatusShape, CRCController
  PROVE  status'.binding = status.binding \/ status.binding = 0
<1> USE DEF WriteStatus, FinishStatus, Goto, EndPass, IdleWorker, NotReady, BootKeyUnavailable, Waiting
<1>1. CASE ProvisionVMI
  BY <1>1 DEF ProvisionVMI, StatusShape
<1>2. CASE ResolveSource
  BY <1>2 DEF ResolveSource, StatusShape
<1>3. CASE EnsureBootKey
  BY <1>3 DEF EnsureBootKey, StatusShape
<1>4. CASE EnsureDisk
  BY <1>4 DEF EnsureDisk, StatusShape
<1>5. CASE EnsureVM \/ EnsureRBAC \/ CreateRoute
  BY <1>5 DEF EnsureVM, EnsureRBAC, CreateRoute, StatusShape
<1>6. CASE ObserveVMI
  BY <1>6 DEF ObserveVMI, StatusShape
<1>7. CASE RecordEndpoint
  BY <1>7 DEF RecordEndpoint, StatusShape
<1>8. CASE EnsureAgentJob
  BY <1>8 DEF EnsureAgentJob, StatusShape
<1>9. CASE AssessAgent
  BY <1>9 DEF AssessAgent, StatusShape
<1>10. CASE PublishKubeconfig \/ MarkReady
  BY <1>10 DEF PublishKubeconfig, MarkReady, StatusShape
<1>11. CASE CheckReadyVMI
  BY <1>11 DEF CheckReadyVMI, StatusShape
<1>12. CASE CheckPublished
  BY <1>12 DEF CheckPublished, StatusShape
<1>13. CASE DropStaleJob
  BY <1>13 DEF DropStaleJob, StatusShape
<1>14. CASE DropPublished \/ Invalidate
  BY <1>14 DEF DropPublished, Invalidate, StatusShape
<1>15. CASE DeleteJobs \/ DeleteKeys
  BY <1>15 DEF DeleteJobs, DeleteKeys, StatusShape
<1>16. CASE DeleteVM
  BY <1>16 DEF DeleteVM, StatusShape
<1>17. CASE DeleteVMI
  BY <1>17 DEF DeleteVMI, StatusShape
<1>18. CASE AwaitLauncher \/ DeleteDisk \/ DeleteLeftovers
  BY <1>18 DEF AwaitLauncher, DeleteDisk, DeleteLeftovers, StatusShape
<1>q. QED
  BY <1>1, <1>2, <1>3, <1>4, <1>5, <1>6, <1>7, <1>8, <1>9, <1>10, <1>11, <1>12, <1>13, <1>14, <1>15, <1>16,
    <1>17, <1>18 DEF CRCController, Provision, Recover, Teardown

\* A hosted cluster has none.
LEMMA HCPBinding ==
  ASSUME StatusShape, HCPController
  PROVE  status'.binding = status.binding
<1> USE DEF WriteStatus, FinishStatus, Goto, EndPass, IdleWorker, Wait, Conflict
<1>1. CASE PlaceHosted
  BY <1>1 DEF PlaceHosted, StatusShape
<1>2. CASE EnsureServingCert \/ CreateHostedCluster
  BY <1>2 DEF EnsureServingCert, CreateHostedCluster, StatusShape
<1>3. CASE EnsureNodePool
  BY <1>3 DEF EnsureNodePool, StatusShape
<1>4. CASE AwaitBacking
  BY <1>4 DEF AwaitBacking, StatusShape
<1>5. CASE EnsureAPIRoute
  BY <1>5 DEF EnsureAPIRoute, StatusShape
<1>6. CASE CheckHostedAPI
  BY <1>6 DEF CheckHostedAPI, StatusShape
<1>7. CASE PublishHosted \/ MarkHostedReady
  BY <1>7 DEF PublishHosted, MarkHostedReady, StatusShape
<1>8. CASE CheckReadyHosted
  BY <1>8 DEF CheckReadyHosted, StatusShape
<1>9. CASE CheckReadyAPI
  BY <1>9 DEF CheckReadyAPI, StatusShape
<1>10. CASE DeleteHostedCluster
  BY <1>10 DEF DeleteHostedCluster, StatusShape
<1>11. CASE DeleteNodePool
  BY <1>11 DEF DeleteNodePool, StatusShape
<1>12. CASE DeleteServingCert \/ AwaitWorkers
  BY <1>12 DEF DeleteServingCert, AwaitWorkers, StatusShape
<1>q. QED
  BY <1>1, <1>2, <1>3, <1>4, <1>5, <1>6, <1>7, <1>8, <1>9, <1>10, <1>11, <1>12 DEF HCPController

\* Which steps of a pass change keys and Jobs.
LEMMA KeySteps ==
  ASSUME CRCWorld, CRCController
  PROVE  /\ copy' = copy \/ EnsureBootKey \/ DeleteKeys
         /\ owned \subseteq owned' \/ DeleteKeys
         /\ EnsureAgentJob \/ \A u \in UIDs : job[u] = "absent" => job'[u] = "absent"
<1> USE DEF Backing, contractVars
<1>1. CASE Provision
  BY <1>1 DEF Provision, ProvisionVMI, ResolveSource, EnsureDisk, EnsureVM, ObserveVMI, EnsureRBAC, EnsureBootKey,
              RecordEndpoint, CreateRoute, EnsureAgentJob, AssessAgent, PublishKubeconfig, MarkReady
<1>2. CASE Recover
  BY <1>2 DEF Recover, CheckReadyVMI, CheckPublished, DropStaleJob, DeleteJob, DropPublished, Invalidate, CRCWorld
<1>3. CASE Teardown
  BY <1>3 DEF Teardown, DeleteJobs, AllJobsDeleted, Live, DeleteKeys, DeleteVM, DeleteVMI, Stop, AwaitLauncher,
              DeleteDisk, DeleteLeftovers
<1>q. QED
  BY <1>1, <1>2, <1>3 DEF CRCController

\* The keys of the steps of a pass.
LEMMA ControllerKeys ==
  ASSUME PassInv, KeyInv, topology = "crc", CRCController
  PROVE  KeyInv'
<1> USE DEF HasKey, HasJob
<1>0. WorkerShape /\ StatusShape /\ CRCWorld /\ UNCHANGED <<topology, env>>
  BY SecretSteps DEF PassInv, Shape
<1>b. status'.binding = status.binding \/ status.binding = 0
  BY <1>0, CRCBinding
<1>1. CASE DeleteKeys
  <2>1. w.pc = "keys" /\ w'.pc = "stopVM"
    BY <1>0, <1>1, TeardownOrder
  <2>2. copy' = 0 /\ "rbac" \notin owned' /\ job' = job
    BY <1>1 DEF DeleteKeys, contractVars
  <2>q. QED
    BY <1>0, <2>1, <2>2 DEF KeyInv, KeyIsBound
<1>2. CASE EnsureBootKey
  <2>1. \/ w.pc = "key" /\ w'.pc \in {"disk", "idle"}
        \/ w.pc = "readyKey" /\ w'.pc \in {"readyVMI", "idle"}
    BY <1>0, <1>2, ForkedSteps
  <2>2. /\ copy' = copy \/ (copy' = status.binding /\ status' = status)
        /\ owned' = owned /\ job' = job
        /\ copy' = copy => w'.pc = "idle" \/ copy = status.binding
    <3>1. \/ copy' = status.binding /\ status' = status
          \/ copy' = copy /\ w' = IdleWorker
      BY <1>2 DEF EnsureBootKey, BootKeyUnavailable, FinishStatus, WriteStatus
    <3>2. w' = IdleWorker => w'.pc = "idle"
      BY DEF IdleWorker
    <3>3. owned' = owned /\ job' = job
      BY <1>2 DEF EnsureBootKey, contractVars
    <3>q. QED
      BY <3>1, <3>2, <3>3
  <2>q. QED
    BY <1>0, <1>b, <2>1, <2>2 DEF KeyInv, KeyIsBound
<1>3. CASE EnsureAgentJob
  <2>1. w.pc = "job" /\ w'.pc = "assess" /\ ~DeleteKeys /\ ~EnsureBootKey
    BY <1>0, <1>3, ProvisionOrder, TeardownOrder, ForkedSteps
  <2>2. copy' = copy /\ owned \subseteq owned'
    BY <1>0, <2>1, KeySteps
  <2>q. QED
    BY <1>0, <1>b, <2>1, <2>2 DEF KeyInv, KeyIsBound
<1>4. CASE ~(DeleteKeys \/ EnsureBootKey \/ EnsureAgentJob)
  <2>1. copy' = copy /\ owned \subseteq owned' /\ \A u \in UIDs : job[u] = "absent" => job'[u] = "absent"
    BY <1>0, <1>4, KeySteps
  <2>2. CASE ResolveSource \/ DeleteJobs \/ EnsureRBAC
    <3>1. \/ w'.pc = "idle"
          \/ w'.pc = "key" /\ status' = status /\ status.binding # 0
          \/ w'.pc = "keys" /\ ~HasJob
          \/ w.pc = "rbac" /\ w'.pc = "endpoint" /\ "rbac" \in owned'
          \/ w'.pc = "readyKey"
      <4>1. ResolveSource => w'.pc = "idle" \/ (w'.pc = "key" /\ status' = status /\ status.binding # 0)
        BY <1>0, ProvisionOrder DEF ResolveSource, FinishStatus, WriteStatus, IdleWorker
      <4>2. DeleteJobs => w'.pc = "idle" \/ (w'.pc = "keys" /\ ~HasJob)
        BY <1>0, TeardownOrder DEF DeleteJobs, EndPass, IdleWorker
      <4>3. EnsureRBAC => (w.pc = "rbac" /\ w'.pc = "endpoint" /\ "rbac" \in owned') \/ w'.pc = "readyKey"
        BY <1>0, ForkedSteps DEF EnsureRBAC
      <4>q. QED
        BY <2>2, <4>1, <4>2, <4>3
    <3>q. QED
      BY <1>0, <1>b, <2>1, <3>1 DEF KeyInv, KeyIsBound
  <2>3. CASE ~(ResolveSource \/ DeleteJobs \/ EnsureRBAC)
    <3>1. /\ w'.pc \notin {"key", "disk", "endpoint", "keys", "stopVM"}
          /\ w'.pc \in {"vm", "observe", "rbac", "route", "job"} => w.pc \in {"disk", "vm", "observe", "endpoint", "route"}
          /\ w'.pc \in {"route", "job"} => w.pc \in {"endpoint", "route"}
          /\ w'.pc \in {"deleteVMI", "deleteLauncher", "deleteDisk", "leftovers", "finish"} =>
               w.pc \in {"stopVM", "deleteVMI", "deleteLauncher", "deleteDisk", "leftovers"}
      BY <1>0, <1>4, <2>3, ProvisionOrder, RecoverOrder, TeardownOrder, ForkedSteps
         DEF CRCController, Provision, Recover, Teardown
    <3>2. "rbac" \notin owned => "rbac" \notin owned'
      BY <1>4, <2>3 DEF CRCController, Provision, Recover, Teardown, ProvisionVMI, ResolveSource, EnsureDisk, EnsureVM,
         ObserveVMI, RecordEndpoint, CreateRoute, AssessAgent, PublishKubeconfig, MarkReady, CheckReadyVMI,
         CheckPublished, DropStaleJob, DropPublished, Invalidate, DeleteVM, DeleteVMI, AwaitLauncher, DeleteDisk,
         DeleteLeftovers, Backing
    <3>q. QED
      BY <1>0, <1>b, <2>1, <3>1, <3>2 DEF KeyInv, KeyIsBound
  <2>q. QED
    BY <2>2, <2>3
<1>q. QED
  BY <1>1, <1>2, <1>3, <1>4

\* KeyInv is inductive.
LEMMA KeyKept ==
  ASSUME PassInv, KeyInv, Next
  PROVE  KeyInv'
<1> USE DEF HasKey, HasJob
<1>0. WorkerShape /\ StatusShape /\ CRCWorld
  BY DEF PassInv, Shape
<1>1. CASE topology = "crc" /\ CRCController
  BY <1>1, ControllerKeys
<1>2. CASE topology = "crc" /\ CRCSurroundings
  <2>1. copy' = copy \/ (copy' = 0 /\ "rebuild" \in env)
    BY <1>2 DEF CRCSurroundings, Platform, SyncCache, BootVM, RunVM, RemoveVMI, SeeHalt, RemoveVM, RemoveLauncher,
                CloneDisk, RemovePVC, Agents, AgentWorks, CRCEnvironment, StopVM, PrepareBundle, LoseCopy, AgentFails,
                Backing
  <2>q. QED
    BY <1>0, <1>2, <2>1, SurroundingsApart, SurroundingJobs DEF KeyInv, KeyIsBound
<1>3. CASE (SharedStep \/ SharedFault) /\ UNCHANGED <<crcVars, hcpVars>>
  <2>1. UNCHANGED <<copy, owned, job>>
    BY <1>3 DEF crcVars, contractVars
  <2>q. QED
    BY <1>0, <1>3, <2>1, SharedSteps DEF KeyInv, KeyIsBound
<1>4. CASE topology = "hypershift" /\ (HCPController \/ HCPSurroundings) /\ UNCHANGED crcVars
  <2>1. UNCHANGED <<copy, owned, job>>
    BY <1>4 DEF crcVars, contractVars
  <2>2. status'.binding = status.binding
    BY <1>0, <1>4, HCPBinding, SurroundingsApart
  <2>q. QED
    BY <1>4, <2>1, <2>2, HCPFrame DEF KeyInv, KeyIsBound
<1>q. QED
  BY <1>1, <1>2, <1>3, <1>4, StepCases

-----------------------------------------------------------------------------
(* The disk.                                                               *)

\* How a teardown waits.
LEMMA TeardownMoves ==
  ASSUME WorkerShape, CRCWorld
  PROVE  /\ DeleteVM => /\ \/ w'.pc = "leftovers" /\ w'.pending
                           \/ w'.pc = "deleteVMI" /\ (w'.vmPending \/ vm = "absent")
                        /\ vm = "absent" => vm' = "absent"
         /\ DeleteVMI => /\ \/ w'.pc = "leftovers" /\ w'.pending
                            \/ w'.pc = "deleteLauncher" /\ vmi.phase = "absent" /\ (w'.vmPending <=> w.vmPending)
                         /\ vmi.phase = "absent" => vmi' = vmi
         /\ AwaitLauncher => \/ w'.pc = "leftovers" /\ w'.pending
                             \/ w'.pc = "deleteDisk" /\ ~launcher /\ ~w.vmPending
         /\ DeleteDisk => /\ w'.pc = "leftovers" /\ (w'.pending <=> disk.state # "absent")
                          /\ IF disk.state = "absent" THEN disk' = disk ELSE disk'.state = "pvc"
         /\ DeleteLeftovers => w'.pc = "finish" /\ (w'.pending <=> w.pending) /\ raw' = {} /\ route' = 0
<1>1. DeleteVM => /\ \/ w'.pc = "leftovers" /\ w'.pending
                     \/ w'.pc = "deleteVMI" /\ (w'.vmPending \/ vm = "absent")
                  /\ vm = "absent" => vm' = "absent"
  BY DEF DeleteVM, Waiting, Goto, WorkerShape
<1>2. DeleteVMI => /\ \/ w'.pc = "leftovers" /\ w'.pending
                      \/ w'.pc = "deleteLauncher" /\ vmi.phase = "absent" /\ (w'.vmPending <=> w.vmPending)
                   /\ vmi.phase = "absent" => vmi' = vmi
  BY DEF DeleteVMI, Waiting, Goto, Stop, contractVars, WorkerShape
<1>3. AwaitLauncher => \/ w'.pc = "leftovers" /\ w'.pending
                       \/ w'.pc = "deleteDisk" /\ ~launcher /\ ~w.vmPending
  BY DEF AwaitLauncher, Waiting, Goto, WorkerShape
<1>4. DeleteDisk => /\ w'.pc = "leftovers" /\ (w'.pending <=> disk.state # "absent")
                    /\ IF disk.state = "absent" THEN disk' = disk ELSE disk'.state = "pvc"
  BY DEF DeleteDisk, WorkerShape, CRCWorld
<1>5. DeleteLeftovers => w'.pc = "finish" /\ (w'.pending <=> w.pending) /\ raw' = {} /\ route' = 0
  BY DEF DeleteLeftovers, Goto, WorkerShape
<1>q. QED
  BY <1>1, <1>2, <1>3, <1>4, <1>5

\* Which steps of a pass change the machine and its disk.
LEMMA MachineSteps ==
  ASSUME CRCController
  PROVE  /\ launcher' = launcher
         /\ vm' = vm \/ EnsureVM \/ DeleteVM
         /\ vmi' = vmi \/ DeleteVMI
         /\ disk' = disk \/ EnsureDisk \/ DeleteDisk
<1> USE DEF Backing, contractVars
<1>1. CASE Provision
  BY <1>1 DEF Provision, ProvisionVMI, ResolveSource, EnsureDisk, EnsureVM, ObserveVMI, EnsureRBAC, EnsureBootKey,
              RecordEndpoint, CreateRoute, EnsureAgentJob, CreateJob, AssessAgent, PublishKubeconfig, MarkReady
<1>2. CASE Recover
  BY <1>2 DEF Recover, CheckReadyVMI, CheckPublished, DropStaleJob, DeleteJob, DropPublished, Invalidate
<1>3. CASE Teardown
  BY <1>3 DEF Teardown, DeleteJobs, DeleteKeys, DeleteVM, DeleteVMI, AwaitLauncher, DeleteDisk, DeleteLeftovers
<1>q. QED
  BY <1>1, <1>2, <1>3 DEF CRCController

\* The disk in the steps of a pass.
LEMMA ControllerDisk ==
  ASSUME PassInv, DiskInv, topology = "crc", CRCController
  PROVE  DiskInv'
<1> USE DEF MachineGone
<1>0. WorkerShape /\ CRCWorld /\ PassFits /\ UNCHANGED <<topology, object>>
  BY SecretSteps DEF PassInv, Shape
<1>1. CASE EnsureVM
  <2>1. w.pc = "vm" /\ w'.pc = "observe" /\ disk' = disk
    BY <1>0, <1>1, ProvisionOrder DEF EnsureVM
  <2>2. disk.state # "pvc"
    BY <2>1 DEF DiskInv, TeardownPCs
  <2>q. QED
    BY <1>0, <2>1, <2>2 DEF DiskInv, DiskNotPulled
<1>2. CASE EnsureDisk
  <2>1. w.pc = "disk" /\ w'.pc \in {"vm", "idle"}
    BY <1>0, <1>2, ProvisionOrder
  <2>2. disk.state # "pvc"
    BY <2>1 DEF DiskInv, TeardownPCs
  <2>3. disk' = disk \/ disk'.state = "cloning"
    BY <1>2 DEF EnsureDisk
  <2>q. QED
    BY <1>0, <2>1, <2>2, <2>3 DEF DiskInv, DiskNotPulled
<1>3. CASE DeleteVM
  <2>1. w.pc = "stopVM" /\ UNCHANGED <<vmi, launcher, disk>>
    BY <1>0, <1>3, TeardownOrder DEF DeleteVM, contractVars
  <2>q. QED
    BY <1>0, <1>3, <2>1, TeardownMoves DEF DiskInv, DiskNotPulled, TeardownPCs
<1>4. CASE DeleteVMI
  <2>1. w.pc = "deleteVMI" /\ UNCHANGED <<vm, launcher, disk>>
    BY <1>0, <1>4, TeardownOrder DEF DeleteVMI, Backing
  <2>q. QED
    BY <1>0, <1>4, <2>1, TeardownMoves DEF DiskInv, DiskNotPulled, TeardownPCs
<1>5. CASE AwaitLauncher \/ DeleteLeftovers
  <2>1. w.pc \in {"deleteLauncher", "leftovers"} /\ UNCHANGED <<vm, launcher, disk, vmi>>
    BY <1>0, <1>5, TeardownOrder DEF AwaitLauncher, DeleteLeftovers, Backing, contractVars
  <2>2. CASE AwaitLauncher
    <3>1. w.pc = "deleteLauncher"
      BY <1>0, <2>2, TeardownOrder
    <3>q. QED
      BY <1>0, <2>1, <2>2, <3>1, TeardownMoves DEF DiskInv, DiskNotPulled, TeardownPCs
  <2>3. CASE DeleteLeftovers
    <3>1. w.pc = "leftovers"
      BY <1>0, <2>3, TeardownOrder
    <3>q. QED
      BY <1>0, <2>1, <2>3, <3>1, TeardownMoves DEF DiskInv, DiskNotPulled, TeardownPCs
  <2>q. QED
    BY <1>5, <2>2, <2>3
<1>6. CASE DeleteDisk
  <2>1. w.pc = "deleteDisk" /\ UNCHANGED <<vm, launcher, vmi>>
    BY <1>0, <1>6, TeardownOrder DEF DeleteDisk, contractVars
  <2>2. object # "live" /\ MachineGone
    BY <1>0, <2>1 DEF PassFits, TeardownPCs, DiskInv
  <2>q. QED
    BY <1>0, <1>6, <2>1, <2>2, TeardownMoves DEF DiskInv, DiskNotPulled, TeardownPCs
<1>7. CASE ~(EnsureVM \/ EnsureDisk \/ DeleteVM \/ DeleteVMI \/ AwaitLauncher \/ DeleteLeftovers \/ DeleteDisk)
  <2>1. UNCHANGED <<vm, launcher, disk, vmi>>
    BY <1>7, MachineSteps
  <2>2. /\ w'.pc \notin {"deleteVMI", "deleteLauncher", "deleteDisk", "leftovers", "finish"}
        /\ w.pc \in TeardownPCs \cup {"idle"} => w'.pc \in TeardownPCs \cup {"idle"}
    BY <1>0, <1>7, ProvisionOrder, RecoverOrder, TeardownOrder, ForkedSteps
       DEF CRCController, Provision, Recover, Teardown, TeardownPCs
  <2>q. QED
    BY <1>0, <2>1, <2>2 DEF DiskInv, DiskNotPulled
<1>q. QED
  BY <1>1, <1>2, <1>3, <1>4, <1>5, <1>6, <1>7

\* Without a VM nothing starts one, and nobody else makes or deletes a disk.
LEMMA SurroundingMachine ==
  ASSUME CRCWorld, CRCSurroundings
  PROVE  /\ vm = "absent" => vm' = "absent"
         /\ vm = "absent" /\ vmi.phase = "absent" => vmi'.phase = "absent"
         /\ vm = "absent" /\ ~launcher => ~launcher'
         /\ disk' = disk \/ disk' = NoDisk \/ (disk.state = "cloning" /\ disk'.state = "ready")
<1> USE DEF Backing, contractVars
<1>1. CASE Platform \/ SyncCache
  BY <1>1 DEF Platform, SyncCache, BootVM, Boot, RunVM, Run, RemoveVMI, Vanish, SeeHalt, RemoveVM, RemoveLauncher,
              CloneDisk, RemovePVC, CRCWorld
<1>2. CASE Agents
  BY <1>2 DEF Agents, AgentWorks, Prepare, Publish, Complete, JobGone
<1>3. CASE CRCEnvironment
  BY <1>3 DEF CRCEnvironment, StopVM, Stop, PrepareBundle, LoseCopy, AgentFails, Fail
<1>q. QED
  BY <1>1, <1>2, <1>3 DEF CRCSurroundings

\* DiskInv is inductive.
LEMMA DiskKept ==
  ASSUME PassInv, DiskInv, Next
  PROVE  DiskInv'
<1> USE DEF MachineGone
<1>0. WorkerShape /\ StatusShape /\ CRCWorld /\ PassFits
  BY DEF PassInv, Shape
<1>1. CASE topology = "crc" /\ CRCController
  BY <1>1, ControllerDisk
<1>2. CASE topology = "crc" /\ CRCSurroundings
  <2>1. NoDisk.state = "absent"
    BY DEF NoDisk
  <2>q. QED
    BY <1>0, <1>2, <2>1, SurroundingsApart, SurroundingMachine DEF DiskInv, DiskNotPulled
<1>3. CASE (SharedStep \/ SharedFault) /\ UNCHANGED <<crcVars, hcpVars>>
  <2>1. UNCHANGED <<vm, launcher, disk, vmi>>
    BY <1>3 DEF crcVars, contractVars
  <2>q. QED
    BY <1>0, <1>3, <2>1, SharedSteps DEF DiskInv, DiskNotPulled, PassFits, TeardownPCs
<1>4. CASE topology = "hypershift" /\ (HCPController \/ HCPSurroundings) /\ UNCHANGED crcVars
  <2>1. UNCHANGED <<vm, launcher, disk, vmi>>
    BY <1>4 DEF crcVars, contractVars
  <2>q. QED
    BY <1>4, <2>1, HCPFrame DEF DiskInv, DiskNotPulled
<1>q. QED
  BY <1>1, <1>2, <1>3, <1>4, StepCases

-----------------------------------------------------------------------------
(* Leftovers.                                                              *)

\* LeftoverInv is inductive.
LEMMA LeftoverKept ==
  ASSUME PassInv, KeyInv, DiskInv, LeftoverInv, Next
  PROVE  LeftoverInv'
<1>0. WorkerShape /\ StatusShape /\ CRCWorld /\ PassFits
  BY DEF PassInv, Shape
<1>1. CASE topology = "crc" /\ CRCController
  <2>1. w.pc # "idle" /\ (w'.pc = "finish" => DeleteLeftovers)
    BY <1>0, <1>1, ProvisionOrder, RecoverOrder, TeardownOrder, ForkedSteps
       DEF CRCController, Provision, Recover, Teardown
  <2>2. object' # "gone" /\ finalizer'
    BY <1>0, <1>1, <2>1, SecretSteps DEF PassFits
  <2>q. QED
    BY <1>0, <2>1, <2>2, TeardownMoves DEF LeftoverInv
<1>2. CASE topology = "crc" /\ CRCSurroundings
  <2>1. UNCHANGED <<topology, object, finalizer, w, route>>
    BY <1>2, SurroundingsApart
  <2>2. w.pc = "finish" => raw' = raw
    BY <1>0, <1>2, SurroundingJobs DEF KeyInv, HasJob
  <2>3. CleanCRC => CleanCRC'
    <3>1. CleanCRC => copy' = copy
      BY <1>2 DEF CRCSurroundings, Platform, SyncCache, BootVM, RunVM, RemoveVMI, SeeHalt, RemoveVM, RemoveLauncher,
                  CloneDisk, RemovePVC, Agents, AgentWorks, CRCEnvironment, StopVM, PrepareBundle, LoseCopy, AgentFails,
                  Backing, CleanCRC
    <3>2. NoDisk.state = "absent"
      BY DEF NoDisk
    <3>q. QED
      BY <1>0, <1>2, <2>1, <3>1, <3>2, SurroundingJobs, SurroundingMachine DEF CleanCRC
  <2>q. QED
    BY <1>2, <2>1, <2>2, <2>3 DEF LeftoverInv
<1>3. CASE (SharedStep \/ SharedFault) /\ UNCHANGED <<crcVars, hcpVars>>
  <2>1. UNCHANGED <<vm, launcher, disk, vmi, job, copy, raw, owned>>
    BY <1>3 DEF crcVars, contractVars
  <2>2. topology = "crc" /\ w.pc = "finish" /\ ~w.pending => CleanCRC
    BY DEF KeyInv, HasJob, DiskInv, MachineGone, LeftoverInv, CleanCRC
  <2>3. CleanCRC => CleanCRC'
    BY <1>0, <1>3, <2>1, SharedSteps DEF CleanCRC
  <2>4. w'.pc = "finish" => w' = w
    BY <1>0, <1>3, SharedSteps
  <2>q. QED
    BY <1>0, <1>3, <2>1, <2>2, <2>3, <2>4, SharedSteps DEF LeftoverInv
<1>4. CASE topology = "hypershift" /\ (HCPController \/ HCPSurroundings) /\ UNCHANGED crcVars
  BY <1>4, HCPFrame DEF LeftoverInv
<1>q. QED
  BY <1>1, <1>2, <1>3, <1>4, StepCases

-----------------------------------------------------------------------------
(* The theorems.                                                           *)

\* The invariant holds in every reachable state, for any number of boots,
\* bundles and crashes, and under every choice of environment.
THEOREM CRCInvariance == Spec => []CRCInv
<1>1. Init => HandoffInv /\ KeyInv /\ DiskInv /\ LeftoverInv
  <2> SUFFICES ASSUME Init PROVE HandoffInv /\ KeyInv /\ DiskInv /\ LeftoverInv
    OBVIOUS
  <2> USE DEF Init, SharedInit, CRCInit, ContractInit, NewStatus, IdleWorker, NoDisk
  <2>1. HandoffInv
    BY DEF HandoffInv, ReadyServesItsVMI
  <2>2. KeyInv
    BY DEF KeyInv, KeyIsBound, HasKey, HasJob
  <2>3. DiskInv
    BY DEF DiskInv, DiskNotPulled
  <2>4. LeftoverInv
    BY DEF LeftoverInv, MachineGone, CleanCRC, TeardownPCs
  <2> QED
    BY <2>1, <2>2, <2>3, <2>4
<1>2. CRCInv /\ [Next]_vars => (HandoffInv /\ KeyInv /\ DiskInv /\ LeftoverInv)'
  <2> SUFFICES ASSUME CRCInv, [Next]_vars PROVE (HandoffInv /\ KeyInv /\ DiskInv /\ LeftoverInv)'
    OBVIOUS
  <2>1. CASE UNCHANGED vars
    <3> USE <2>1 DEF vars, sharedVars, crcVars, contractVars
    <3>1. HandoffInv'
      BY DEF CRCInv, HandoffInv, ReadyServesItsVMI
    <3>2. KeyInv'
      BY DEF CRCInv, KeyInv, KeyIsBound, HasKey, HasJob
    <3>3. DiskInv'
      BY DEF CRCInv, DiskInv, DiskNotPulled, MachineGone
    <3>4. LeftoverInv'
      BY DEF CRCInv, LeftoverInv, MachineGone, CleanCRC
    <3> QED
      BY <3>1, <3>2, <3>3, <3>4
  <2>2. CASE Next
    BY <2>2, HandoffKept, KeyKept, DiskKept, LeftoverKept DEF CRCInv
  <2>q. QED
    BY <2>1, <2>2
<1>q. QED
  BY <1>1, <1>2, PassInvariance, PTL DEF Spec, CRCInv

\* A Ready CRC instance publishes no kubeconfig but its recorded VMI's.
THEOREM ReadyInstancesServeTheirVMI == Spec => []ReadyServesItsVMI
<1>1. CRCInv => ReadyServesItsVMI
  BY DEF CRCInv, HandoffInv, ReadyServesItsVMI
<1>q. QED
  BY <1>1, CRCInvariance, PTL

\* The copied boot key is the one recorded with the disk.
THEOREM KeysAreBound == Spec => []KeyIsBound
<1>1. CRCInv => KeyIsBound
  BY DEF CRCInv, KeyInv
<1>q. QED
  BY <1>1, CRCInvariance, PTL

\* teardownCRCBacking takes no key from a Job that is there.
THEOREM AgentsHaveTheirKeys == Spec => []AgentHasItsKeys
<1>1. CRCInv => AgentHasItsKeys
  BY DEF CRCInv, KeyInv, HasJob, HasKey, AgentHasItsKeys
<1>q. QED
  BY <1>1, CRCInvariance, PTL

\* teardownCRCVMAndStorage deletes a disk only when nothing can use it.
THEOREM DisksAreNotPulled == Spec => []DiskNotPulled
<1>1. CRCInv => DiskNotPulled
  BY DEF CRCInv, DiskInv
<1>q. QED
  BY <1>1, CRCInvariance, PTL

\* A CRC instance that is gone has left nothing behind.
THEOREM NothingIsLeftOfCRC == Spec => []NothingLeftCRC
<1>1. CRCInv => NothingLeftCRC
  BY DEF CRCInv, LeftoverInv, CleanCRC, NothingLeftCRC
<1>q. QED
  BY <1>1, CRCInvariance, PTL
=============================================================================
