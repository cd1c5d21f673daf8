-------------------------- MODULE HyperShiftProofs --------------------------
(***************************************************************************)
(* What holds of an instance on HyperShift in every environment: its host  *)
(* name comes first, its kubeconfig is its HostedCluster's, and it leaves  *)
(* nothing behind.  A HostedCluster may be lost and made again and a pass  *)
(* may stop anywhere, so HCPInv says what is done at each step of a pass.  *)
(***************************************************************************)
EXTENDS InstancesProofs

\* From the first step that depends on the host name it is recorded.
HostInv ==
  topology = "hypershift" =>
    /\ EndpointFirst
    /\ w.pc \in {"cert", "createHC", "nodePool", "backing", "route", "finalCert", "guestAPI", "publish",
                 "markReady", "readyRoute", "readyAPI"} => status.endpoint # 0

\* From the backing on a pass is about one HostedCluster: a pass that creates
\* another ends, and only a pass for an instance that is not Ready does so.
ClusterInv ==
  topology = "hypershift" =>
    /\ w.pc \in {"backing", "route", "finalCert", "guestAPI", "publish", "markReady"} => w.uid = hc.id
    /\ w.pc \in {"publish", "markReady"} => status.phase # "Ready"
    /\ w.pc = "markReady" => published \in {0, w.uid}
    /\ status.phase = "Ready" => published \in {0, hc.id}

\* No backing object is left.
CleanHCP == ~Hosted /\ np.state = "absent" /\ cert = 0 /\ workers = {} /\ cpns = "absent" /\ route = 0

\* Each step of a teardown leaves pending FALSE only if what it is about, and
\* what the steps before it are about, is gone and cannot come back.
RemovalInv ==
  topology = "hypershift" =>
    /\ cpns = "absent" => route = 0
    /\ w.pc \in {"deleteNodePool", "deleteCert", "awaitWorkers", "finish"} /\ ~w.pending => ~Hosted
    /\ w.pc \in {"deleteCert", "awaitWorkers", "finish"} /\ ~w.pending => np.state = "absent"
    /\ w.pc \in {"awaitWorkers", "finish"} => cert = 0
    /\ w.pc = "finish" /\ ~w.pending => workers = {} /\ cpns = "absent"
    /\ object = "gone" \/ ~finalizer => CleanHCP

HCPInv == PassInv /\ HostInv /\ ClusterInv /\ RemovalInv

-----------------------------------------------------------------------------
(* The steps of a pass, by where they lead.                                *)

\* The ways in which the worker goes on.
LEMMA Moves ==
  ASSUME WorkerShape
  PROVE  /\ w' = IdleWorker => w'.pc = "idle"
         /\ \A pc : w' = [w EXCEPT !.pc = pc] => w'.pc = pc /\ w'.uid = w.uid /\ (w'.pending <=> w.pending)
<1>1. w' = IdleWorker => w'.pc = "idle"
  BY DEF IdleWorker
<1>2. \A pc : w' = [w EXCEPT !.pc = pc] => w'.pc = pc /\ w'.uid = w.uid /\ (w'.pending <=> w.pending)
  BY DEF WorkerShape
<1>q. QED
  BY <1>1, <1>2

\* Provisioning, with what is known of the host name and of the HostedCluster.
LEMMA HostedOrder ==
  ASSUME WorkerShape
  PROVE  /\ PlaceHosted =>
              w.pc = "provision" /\ (w'.pc = "idle" \/ (w'.pc \in {"nodePool", "cert"} /\ status.endpoint # 0))
         /\ EnsureServingCert =>
              \/ w.pc = "cert" /\ w'.pc = "createHC"
              \/ w.pc = "finalCert" /\ w'.pc = "guestAPI" /\ w'.uid = w.uid
         /\ CreateHostedCluster => w.pc = "createHC" /\ w'.pc = "idle"
         /\ EnsureNodePool => w.pc = "nodePool" /\ (w'.pc = "idle" \/ (w'.pc = "backing" /\ w'.uid = hc.id))
         /\ AwaitBacking => w.pc = "backing" /\ (w'.pc = "idle" \/ (w'.pc = "route" /\ w'.uid = w.uid))
         /\ EnsureAPIRoute =>
              \/ w.pc = "route" /\ (w'.pc = "idle" \/ (w'.pc = "finalCert" /\ w'.uid = w.uid))
              \/ w.pc = "readyRoute" /\ w'.pc \in {"idle", "readyAPI"}
         /\ CheckHostedAPI => w.pc = "guestAPI" /\ (w'.pc = "idle" \/ (w'.pc = "publish" /\ w'.uid = w.uid))
         /\ PublishHosted => w.pc = "publish" /\ w'.pc = "markReady" /\ w'.uid = w.uid
         /\ MarkHostedReady => w.pc = "markReady" /\ w'.pc = "idle"
         /\ CheckReadyHosted => w.pc = "ready" /\ (w'.pc = "idle" \/ (w'.pc = "readyRoute" /\ status.endpoint # 0))
         /\ CheckReadyAPI => w.pc = "readyAPI" /\ w'.pc = "idle"
<1> USE DEF At, Goto, EndPass, FinishStatus, WriteStatus, Wait, Conflict
<1>1. PlaceHosted =>
       w.pc = "provision" /\ (w'.pc = "idle" \/ (w'.pc \in {"nodePool", "cert"} /\ status.endpoint # 0))
  <2>1. PlaceHosted => w.pc = "provision" /\ (w' = IdleWorker \/ (status.endpoint # 0 /\ w' = [w EXCEPT !.pc = "nodePool"]) \/ (status.endpoint # 0 /\ w' = [w EXCEPT !.pc = "cert"]))
    BY DEF PlaceHosted
  <2>q. QED
    BY <2>1, Moves
<1>2. EnsureServingCert =>
       \/ w.pc = "cert" /\ w'.pc = "createHC"
       \/ w.pc = "finalCert" /\ w'.pc = "guestAPI" /\ w'.uid = w.uid
  <2>1. EnsureServingCert => \/ w.pc = "cert" /\ w' = [w EXCEPT !.pc = "createHC"]
                             \/ w.pc = "finalCert" /\ w' = [w EXCEPT !.pc = "guestAPI"]
    BY DEF EnsureServingCert
  <2>q. QED
    BY <2>1, Moves
<1>3. CreateHostedCluster => w.pc = "createHC" /\ w'.pc = "idle"
  <2>1. CreateHostedCluster => w.pc = "createHC" /\ (w' = IdleWorker)
    BY DEF CreateHostedCluster
  <2>q. QED
    BY <2>1, Moves
<1>4. EnsureNodePool => w.pc = "nodePool" /\ (w'.pc = "idle" \/ (w'.pc = "backing" /\ w'.uid = hc.id))
  <2>1. EnsureNodePool => w.pc = "nodePool" /\ (w' = IdleWorker \/ w' = [w EXCEPT !.pc = "backing", !.uid = hc.id])
    BY DEF EnsureNodePool
  <2>2. w' = [w EXCEPT !.pc = "backing", !.uid = hc.id] => w'.pc = "backing" /\ w'.uid = hc.id
    BY DEF WorkerShape
  <2>q. QED
    BY <2>1, <2>2, Moves
<1>5. AwaitBacking => w.pc = "backing" /\ (w'.pc = "idle" \/ (w'.pc = "route" /\ w'.uid = w.uid))
  <2>1. AwaitBacking => w.pc = "backing" /\ (w' = IdleWorker \/ w' = [w EXCEPT !.pc = "route"])
    BY DEF AwaitBacking
  <2>q. QED
    BY <2>1, Moves
<1>6. EnsureAPIRoute =>
       \/ w.pc = "route" /\ (w'.pc = "idle" \/ (w'.pc = "finalCert" /\ w'.uid = w.uid))
       \/ w.pc = "readyRoute" /\ w'.pc \in {"idle", "readyAPI"}
  <2>1. EnsureAPIRoute => \/ w.pc = "route" /\ (w' = IdleWorker \/ w' = [w EXCEPT !.pc = "finalCert"])
                          \/ w.pc = "readyRoute" /\ (w' = IdleWorker \/ w' = [w EXCEPT !.pc = "readyAPI"])
    BY DEF EnsureAPIRoute
  <2>q. QED
    BY <2>1, Moves
<1>7. CheckHostedAPI => w.pc = "guestAPI" /\ (w'.pc = "idle" \/ (w'.pc = "publish" /\ w'.uid = w.uid))
  <2>1. CheckHostedAPI => w.pc = "guestAPI" /\ (w' = IdleWorker \/ w' = [w EXCEPT !.pc = "publish"])
    BY DEF CheckHostedAPI
  <2>q. QED
    BY <2>1, Moves
<1>8. PublishHosted => w.pc = "publish" /\ w'.pc = "markReady" /\ w'.uid = w.uid
  <2>1. PublishHosted => w.pc = "publish" /\ (w' = [w EXCEPT !.pc = "markReady"])
    BY DEF PublishHosted
  <2>q. QED
    BY <2>1, Moves
<1>9. MarkHostedReady => w.pc = "markReady" /\ w'.pc = "idle"
  <2>1. MarkHostedReady => w.pc = "markReady" /\ (w' = IdleWorker)
    BY DEF MarkHostedReady
  <2>q. QED
    BY <2>1, Moves
<1>10. CheckReadyHosted => w.pc = "ready" /\ (w'.pc = "idle" \/ (w'.pc = "readyRoute" /\ status.endpoint # 0))
  <2>1. CheckReadyHosted => w.pc = "ready" /\ (w' = IdleWorker \/ (status.endpoint # 0 /\ w' = [w EXCEPT !.pc = "readyRoute"]))
    BY DEF CheckReadyHosted, Blocked
  <2>q. QED
    BY <2>1, Moves
<1>11. CheckReadyAPI => w.pc = "readyAPI" /\ w'.pc = "idle"
  <2>1. CheckReadyAPI => w.pc = "readyAPI" /\ (w' = IdleWorker)
    BY DEF CheckReadyAPI
  <2>q. QED
    BY <2>1, Moves
<1>q. QED
  BY <1>1, <1>2, <1>3, <1>4, <1>5, <1>6, <1>7, <1>8, <1>9, <1>10, <1>11

\* A teardown, with what it waits for.
LEMMA RemovalOrder ==
  ASSUME WorkerShape
  PROVE  /\ DeleteHostedCluster => w.pc = "teardown" /\ w'.pc = "deleteNodePool" /\ (~w'.pending => ~Hosted)
         /\ DeleteNodePool =>
              /\ w.pc = "deleteNodePool"
              /\ \/ w'.pc = "idle"
                 \/ w'.pc = "deleteCert" /\ (~w'.pending => np.state = "absent" /\ np' = np /\ ~w.pending)
         /\ DeleteServingCert =>
              w.pc = "deleteCert" /\ w'.pc = "awaitWorkers" /\ (w'.pending <=> w.pending) /\ cert' = 0
         /\ AwaitWorkers =>
              /\ w.pc = "awaitWorkers" /\ w'.pc = "finish"
              /\ ~w'.pending => ~w.pending /\ workers = {} /\ cpns = "absent"
<1>1. DeleteHostedCluster => w.pc = "teardown" /\ w'.pc = "deleteNodePool" /\ (~w'.pending => ~Hosted)
  BY DEF DeleteHostedCluster, At, WorkerShape
<1>2. DeleteNodePool =>
        /\ w.pc = "deleteNodePool"
        /\ \/ w'.pc = "idle"
           \/ w'.pc = "deleteCert" /\ (~w'.pending => np.state = "absent" /\ np' = np /\ ~w.pending)
  <2>1. DeleteNodePool =>
          /\ w.pc = "deleteNodePool"
          /\ \/ w' = IdleWorker
             \/ w' = [w EXCEPT !.pc = "deleteCert", !.pending = TRUE]
             \/ w' = [w EXCEPT !.pc = "deleteCert"] /\ np.state = "absent" /\ np' = np
    BY DEF DeleteNodePool, At, EndPass, Goto
  <2>2. w' = [w EXCEPT !.pc = "deleteCert", !.pending = TRUE] => w'.pc = "deleteCert" /\ w'.pending
    BY DEF WorkerShape
  <2>q. QED
    BY <2>1, <2>2, Moves
<1>3. DeleteServingCert =>
        w.pc = "deleteCert" /\ w'.pc = "awaitWorkers" /\ (w'.pending <=> w.pending) /\ cert' = 0
  BY Moves DEF DeleteServingCert, At, Goto
<1>4. AwaitWorkers =>
        /\ w.pc = "awaitWorkers" /\ w'.pc = "finish"
        /\ ~w'.pending => ~w.pending /\ workers = {} /\ cpns = "absent"
  BY DEF AwaitWorkers, At, WorkerShape
<1>q. QED
  BY <1>1, <1>2, <1>3, <1>4

\* Which steps of a pass change what.
LEMMA HostedSteps ==
  ASSUME HCPWorld, HCPController
  PROVE  /\ UNCHANGED <<topology, env, object, finalizer, cpns, workers>>
         /\ hc' = hc \/ CreateHostedCluster \/ (DeleteHostedCluster /\ Hosted /\ hc'.id = hc.id)
         /\ np' = np \/ EnsureNodePool \/ DeleteNodePool
         /\ cert' = cert \/ EnsureServingCert \/ DeleteServingCert
         /\ route' = route \/ (EnsureAPIRoute /\ route' = status.endpoint /\ cpns = "active")
         /\ published' = published \/ PublishHosted
BY DEF HCPController, PlaceHosted, EnsureServingCert, CreateHostedCluster, EnsureNodePool, AwaitBacking, EnsureAPIRoute,
       CheckHostedAPI, PublishHosted, MarkHostedReady, CheckReadyHosted, CheckReadyAPI, DeleteHostedCluster,
       DeleteNodePool, DeleteServingCert, AwaitWorkers, Object, hcpVars, Hosted, HCPWorld

\* What HyperShift, the router and other parties may do.
LEMMA SurroundingHosted ==
  ASSUME HCPWorld, HCPSurroundings
  PROVE  /\ hc'.id = hc.id /\ (Hosted' => Hosted) /\ cert' = cert
         /\ np.state = "absent" => np'.state = "absent"
         /\ ~Hosted /\ cpns = "absent" => cpns' = "absent"
         /\ np.state = "absent" /\ workers = {} => workers' = {}
         /\ route = 0 => route' = 0
         /\ cpns' = "absent" => route' = 0 \/ (cpns = "absent" /\ route' = route)
BY DEF HCPSurroundings, HyperShift, LoseCluster, TakeName, StartControlPlane, StartWorkers, CascadeNodePool,
       StopWorkers, RemoveNodePool, RemoveControlPlane, RemoveHostedCluster, AdmitRoute, HCPWorld, Hosted, sharedVars

\* Only markReady makes an instance Ready.
LEMMA OnlyMarkHostedReady ==
  ASSUME StatusShape, HCPController, ~MarkHostedReady
  PROVE  status'.phase = "Ready" => status.phase = "Ready"
<1> USE DEF WriteStatus, FinishStatus, Goto, EndPass, IdleWorker, Wait, Conflict
<1>1. CASE PlaceHosted
  BY <1>1 DEF PlaceHosted, StatusShape
<1>2. CASE EnsureServingCert \/ CreateHostedCluster
  BY <1>2 DEF EnsureServingCert, CreateHostedCluster, StatusShape
<1>3. CASE EnsureNodePool
  BY <1>3 DEF EnsureNodePool, StatusShape
<1>4. CASE AwaitBacking
  BY <1>4 DEF AwaitBacking, StatusShape
<1>5. CASE EnsureAPIRoute
  BY <1>5 DEF EnsureAPIRoute, StatusShape
<1>6. CASE CheckHostedAPI
  BY <1>6 DEF CheckHostedAPI, StatusShape
<1>7. CASE PublishHosted
  BY <1>7 DEF PublishHosted, StatusShape
<1>8. CASE CheckReadyHosted
  BY <1>8 DEF CheckReadyHosted, StatusShape
<1>9. CASE CheckReadyAPI
  BY <1>9 DEF CheckReadyAPI, StatusShape
<1>10. CASE DeleteHostedCluster
  BY <1>10 DEF DeleteHostedCluster, StatusShape
<1>11. CASE DeleteNodePool
  BY <1>11 DEF DeleteNodePool, StatusShape
<1>12. CASE DeleteServingCert \/ AwaitWorkers
  BY <1>12 DEF DeleteServingCert, AwaitWorkers, StatusShape
<1>q. QED
  BY <1>1, <1>2, <1>3, <1>4, <1>5, <1>6, <1>7, <1>8, <1>9, <1>10, <1>11, <1>12 DEF HCPController

\* The steps for a CRC instance stay with it.
LEMMA CRCFrame ==
  ASSUME CRCController
  PROVE  topology' = topology
<1> USE DEF Rest
<1>1. CASE Provision
  BY <1>1 DEF Provision, ProvisionVMI, ResolveSource, EnsureBootKey, EnsureDisk, EnsureVM, ObserveVMI, EnsureRBAC,
              RecordEndpoint, CreateRoute, EnsureAgentJob, CreateJob, AssessAgent, PublishKubeconfig, MarkReady
<1>2. CASE Recover
  BY <1>2 DEF Recover, CheckReadyVMI, CheckPublished, DropStaleJob, DeleteJob, DropPublished, Invalidate
<1>3. CASE Teardown
  BY <1>3 DEF Teardown, DeleteJobs, DeleteKeys, DeleteVM, DeleteVMI, Stop, AwaitLauncher, DeleteDisk, DeleteLeftovers
<1>q. QED
  BY <1>1, <1>2, <1>3 DEF CRCController

-----------------------------------------------------------------------------
(* The host name.                                                          *)

\* HostInv is inductive.
LEMMA HostKept ==
  ASSUME PassInv, HostInv, Next
  PROVE  HostInv'
<1>0. WorkerShape /\ StatusShape /\ HCPWorld /\ PassFits
  BY DEF PassInv, Shape
<1>1. CASE topology = "hypershift" /\ HCPController
  <2>1. status.endpoint # 0 => status'.endpoint = status.endpoint
    BY <1>0, <1>1, HCPEndpoint DEF EndpointKept
  <2>2. w'.pc \in {"cert", "createHC", "nodePool", "backing", "route", "finalCert", "guestAPI", "publish",
                   "markReady", "readyRoute", "readyAPI"} => status.endpoint # 0
    BY <1>0, <1>1, HostedOrder, RemovalOrder DEF HCPController, HostInv
  <2>3. Hosted' => status.endpoint # 0
    BY <1>0, <1>1, HostedSteps, HostedOrder DEF HostInv, EndpointFirst, Hosted
  <2>4. route' # 0 => status.endpoint # 0
    BY <1>0, <1>1, HostedSteps DEF HostInv, EndpointFirst
  <2>5. cert' \in {0, status.endpoint} /\ (cert' # 0 => status.endpoint # 0)
    <3>1. EnsureServingCert => cert' = status.endpoint /\ status.endpoint # 0
      BY <1>0, <1>1, HostedOrder DEF HostInv, EnsureServingCert
    <3>2. DeleteServingCert => cert' = 0
      BY DEF DeleteServingCert
    <3>q. QED
      BY <1>0, <1>1, <3>1, <3>2, HostedSteps DEF HostInv, EndpointFirst
  <2>q. QED
    BY <2>1, <2>2, <2>3, <2>4, <2>5 DEF HostInv, EndpointFirst
<1>2. CASE topology = "hypershift" /\ HCPSurroundings
  <2>1. UNCHANGED <<status, w>>
    BY <1>2, SurroundingsApart
  <2>q. QED
    BY <1>0, <1>2, <2>1, SurroundingHosted DEF HostInv, EndpointFirst
<1>3. CASE (SharedStep \/ SharedFault) /\ UNCHANGED <<crcVars, hcpVars>>
  <2>1. UNCHANGED <<hc, cert>>
    BY <1>3 DEF hcpVars
  <2>q. QED
    BY <1>0, <1>3, <2>1, SharedSteps DEF HostInv, EndpointFirst, Hosted
<1>4. CASE topology = "crc" /\ (CRCController \/ CRCSurroundings)
  BY <1>4, CRCFrame, SurroundingsApart DEF HostInv
<1>q. QED
  BY <1>1, <1>2, <1>3, <1>4, StepCases

-----------------------------------------------------------------------------
(* The HostedCluster a kubeconfig belongs to.                              *)

\* ClusterInv is inductive.
LEMMA ClusterKept ==
  ASSUME PassInv, ClusterInv, Next
  PROVE  ClusterInv'
<1>0. WorkerShape /\ StatusShape /\ HCPWorld /\ PassFits
  BY DEF PassInv, Shape
<1>1. CASE topology = "hypershift" /\ HCPController
  <2>1. w'.pc \in {"backing", "route", "finalCert", "guestAPI", "publish", "markReady"} =>
          /\ w'.uid = hc.id /\ ~CreateHostedCluster
          /\ w.pc \in {"nodePool", "backing", "route", "finalCert", "guestAPI", "publish"}
    BY <1>0, <1>1, HostedOrder, RemovalOrder DEF HCPController, ClusterInv
  <2>2. hc'.id = hc.id \/ (CreateHostedCluster /\ w.pc = "createHC" /\ w'.pc = "idle")
    BY <1>0, <1>1, HostedSteps, HostedOrder
  <2>3. w.pc \in {"nodePool", "backing", "route", "finalCert", "guestAPI", "publish", "createHC"} => status'.phase # "Ready"
    <3>1. w.pc \in {"nodePool", "backing", "route", "finalCert", "guestAPI", "publish", "createHC"} =>
            status.phase # "Ready" /\ ~MarkHostedReady
      BY <1>0, <1>1, HostedOrder DEF PassFits, ProvisionPCs, ClusterInv
    <3>q. QED
      BY <1>0, <1>1, <3>1, OnlyMarkHostedReady
  <2>4. w'.pc = "markReady" => published' = w'.uid
    <3>1. w'.pc = "markReady" => PublishHosted
      BY <1>0, <1>1, HostedOrder, RemovalOrder DEF HCPController
    <3>2. PublishHosted => published' = w.uid
      BY DEF PublishHosted
    <3>q. QED
      BY <1>0, <3>1, <3>2, HostedOrder
  <2>5. status'.phase = "Ready" => published' \in {0, hc'.id}
    <3>1. CASE MarkHostedReady
      BY <1>0, <1>1, <2>2, <3>1, HostedSteps, HostedOrder DEF ClusterInv
    <3>2. CASE ~MarkHostedReady
      <4>1. status'.phase = "Ready" => status.phase = "Ready" /\ ~PublishHosted /\ ~CreateHostedCluster
        BY <1>0, <1>1, <2>3, <3>2, OnlyMarkHostedReady, HostedOrder
      <4>q. QED
        BY <1>0, <1>1, <2>2, <4>1, HostedSteps DEF ClusterInv
    <3>q. QED
      BY <3>1, <3>2
  <2>q. QED
    BY <2>1, <2>2, <2>3, <2>4, <2>5 DEF ClusterInv
<1>2. CASE topology = "hypershift" /\ HCPSurroundings
  BY <1>0, <1>2, SurroundingsApart, SurroundingHosted DEF ClusterInv
<1>3. CASE (SharedStep \/ SharedFault) /\ UNCHANGED <<crcVars, hcpVars>>
  <2>1. hc' = hc
    BY <1>3 DEF hcpVars
  <2>2. w'.pc \in {"backing", "route", "finalCert", "guestAPI", "publish", "markReady"} => w' = w /\ status' = status
    BY <1>0, <1>3, SharedSteps
  <2>q. QED
    BY <1>0, <1>3, <2>1, <2>2, SharedSteps DEF ClusterInv
<1>4. CASE topology = "crc" /\ (CRCController \/ CRCSurroundings)
  BY <1>4, CRCFrame, SurroundingsApart DEF ClusterInv
<1>q. QED
  BY <1>1, <1>2, <1>3, <1>4, StepCases

-----------------------------------------------------------------------------
(* Removal.                                                                *)

\* RemovalInv is inductive.
LEMMA RemovalKept ==
  ASSUME PassInv, RemovalInv, Next
  PROVE  RemovalInv'
<1>0. WorkerShape /\ StatusShape /\ HCPWorld /\ PassFits
  BY DEF PassInv, Shape
<1>1. CASE topology = "hypershift" /\ HCPController
  <2>0. UNCHANGED <<topology, object, finalizer, cpns, workers>> /\ w.pc # "idle"
    BY <1>0, <1>1, HostedSteps, HostedOrder, RemovalOrder DEF HCPController
  <2>1. cpns' = "absent" => route' = 0
    BY <1>0, <1>1, <2>0, HostedSteps DEF RemovalInv
  <2>2. w'.pc \in {"deleteNodePool", "deleteCert", "awaitWorkers", "finish"} /\ ~w'.pending => ~Hosted'
    <3>1. w'.pc \in {"deleteNodePool", "deleteCert", "awaitWorkers", "finish"} /\ ~w'.pending =>
            ~Hosted /\ ~CreateHostedCluster
      BY <1>0, <1>1, HostedOrder, RemovalOrder DEF HCPController, RemovalInv
    <3>q. QED
      BY <1>0, <1>1, <3>1, HostedSteps DEF Hosted
  <2>3. w'.pc \in {"deleteCert", "awaitWorkers", "finish"} /\ ~w'.pending => np'.state = "absent"
    BY <1>0, <1>1, HostedSteps, HostedOrder, RemovalOrder DEF HCPController, RemovalInv
  <2>4. w'.pc \in {"awaitWorkers", "finish"} => cert' = 0
    BY <1>0, <1>1, HostedSteps, HostedOrder, RemovalOrder DEF HCPController, RemovalInv
  <2>5. w'.pc = "finish" /\ ~w'.pending => workers' = {} /\ cpns' = "absent"
    BY <1>0, <1>1, <2>0, HostedOrder, RemovalOrder DEF HCPController
  <2>6. object' # "gone" /\ finalizer'
    BY <1>0, <2>0 DEF PassFits
  <2>q. QED
    BY <2>1, <2>2, <2>3, <2>4, <2>5, <2>6 DEF RemovalInv
<1>2. CASE topology = "hypershift" /\ HCPSurroundings
  <2>1. UNCHANGED <<topology, object, finalizer, w>>
    BY <1>2, SurroundingsApart
  <2>2. cpns' = "absent" => route' = 0
    BY <1>0, <1>2, SurroundingHosted DEF RemovalInv
  <2>3. CleanHCP => CleanHCP'
    BY <1>0, <1>2, SurroundingHosted DEF CleanHCP
  <2>q. QED
    BY <1>0, <1>2, <2>1, <2>2, <2>3, SurroundingHosted DEF RemovalInv
<1>3. CASE (SharedStep \/ SharedFault) /\ UNCHANGED <<crcVars, hcpVars>>
  <2>1. UNCHANGED <<hc, np, cert, cpns, workers>>
    BY <1>3 DEF hcpVars
  <2>2. topology = "hypershift" /\ w.pc = "finish" /\ ~w.pending => CleanHCP
    BY DEF RemovalInv, CleanHCP
  <2>3. CleanHCP => CleanHCP'
    BY <1>0, <1>3, <2>1, SharedSteps DEF CleanHCP, Hosted
  <2>4. w'.pc \in {"deleteNodePool", "deleteCert", "awaitWorkers", "finish"} => w' = w
    BY <1>0, <1>3, SharedSteps
  <2>q. QED
    BY <1>0, <1>3, <2>1, <2>2, <2>3, <2>4, SharedSteps DEF RemovalInv, Hosted
<1>4. CASE topology = "crc" /\ (CRCController \/ CRCSurroundings)
  BY <1>4, CRCFrame, SurroundingsApart DEF RemovalInv
<1>q. QED
  BY <1>1, <1>2, <1>3, <1>4, StepCases

-----------------------------------------------------------------------------
(* The theorems.                                                           *)

\* The invariant holds in every reachable state, for any number of
\* HostedClusters, host names and crashes and every choice of environment.
THEOREM HCPInvariance == Spec => []HCPInv
<1>1. Init => HostInv /\ ClusterInv /\ RemovalInv
  BY DEF Init, SharedInit, CRCInit, HCPInit, NewStatus, IdleWorker, HostInv, ClusterInv, RemovalInv, EndpointFirst,
         Hosted, CleanHCP
<1>2. HCPInv /\ [Next]_vars => (HostInv /\ ClusterInv /\ RemovalInv)'
  <2> SUFFICES ASSUME HCPInv, [Next]_vars PROVE (HostInv /\ ClusterInv /\ RemovalInv)'
    OBVIOUS
  <2>1. CASE UNCHANGED vars
    BY <2>1 DEF vars, sharedVars, hcpVars, HCPInv, HostInv, ClusterInv, RemovalInv, EndpointFirst, Hosted, CleanHCP
  <2>2. CASE Next
    BY <2>2, HostKept, ClusterKept, RemovalKept DEF HCPInv
  <2>q. QED
    BY <2>1, <2>2
<1>q. QED
  BY <1>1, <1>2, PassInvariance, PTL DEF Spec, HCPInv

\* Certificate, HostedCluster and Route come after the recorded host name.
THEOREM EndpointsComeFirst == Spec => []EndpointFirst
<1>1. HCPInv => EndpointFirst
  BY DEF HCPInv, HostInv, EndpointFirst
<1>q. QED
  BY <1>1, HCPInvariance, PTL

\* A Ready instance hands out no kubeconfig of another HostedCluster.
THEOREM ReadyInstancesServeTheirCluster == Spec => []ReadyServesItsCluster
<1>1. HCPInv => ReadyServesItsCluster
  BY DEF HCPInv, ClusterInv, ReadyServesItsCluster
<1>q. QED
  BY <1>1, HCPInvariance, PTL

\* A hosted instance that is gone has left nothing behind.
THEOREM NothingIsLeftOfHCP == Spec => []NothingLeftHCP
<1>1. HCPInv => NothingLeftHCP
  BY DEF HCPInv, RemovalInv, CleanHCP, NothingLeftHCP
<1>q. QED
  BY <1>1, HCPInvariance, PTL
=============================================================================
