------------------------- MODULE HyperShiftInstance -------------------------
(***************************************************************************)
(* A ClusterInstance of topology hcp: a HostedCluster and its NodePool,    *)
(* whose control plane and workers HyperShift runs in a namespace that it  *)
(* makes and removes itself.  The names are deterministic: a HostedCluster *)
(* made again after a loss has the same name and another UID.              *)
(***************************************************************************)
EXTENDS ClusterInstance

CONSTANT MaxHC   \* bound: how many HostedClusters a behaviour creates

ASSUME MaxHCAssumption == MaxHC \in Nat

VARIABLES
  hc,        \* the HostedCluster: number in place of the UID, and state
  np,        \* the NodePool: the HostedCluster that owns it, and state
  cert,      \* the host the serving certificate is for, 0 if absent
  cpns,      \* the control-plane namespace: "absent", "active" or "terminating"
  workers,   \* what is left of the workers: "vmi", "pod", "pvc"
  admitted,  \* has the router admitted the Route?
  clash      \* what another party took: "none", "placement" or "host"

hcpVars == <<hc, np, cert, cpns, workers, admitted, clash>>

WorkerParts == {"vmi", "pod", "pvc"}

HCPTypeOK ==
  /\ hc \in [id : 0..MaxHC, state : {"absent", "creating", "available", "deleting"}]
  /\ np \in [owner : 0..MaxHC, state : {"absent", "present", "scaled", "deleting"}]
  /\ cert \in 0..2 /\ cpns \in {"absent", "active", "terminating"}
  /\ workers \subseteq WorkerParts /\ admitted \in BOOLEAN /\ clash \in {"none", "placement", "host"}

HCPInit ==
  /\ hc = [id |-> 0, state |-> "absent"] /\ np = [owner |-> 0, state |-> "absent"]
  /\ cert = 0 /\ cpns = "absent" /\ workers = {} /\ admitted = FALSE /\ clash = "none"

Hosted == hc.state # "absent"
Object == <<topology, env, object, finalizer, domain, crashes>>

Wait == FinishStatus([status EXCEPT !.phase = "Provisioning"])
Conflict == FinishStatus([status EXCEPT !.phase = "Failed"])

-----------------------------------------------------------------------------
(* reconcileHyperShift and ensureHyperShiftBacking.                        *)

\* checkHCPPlacement: no other HostedCluster or instance maps to the namespace
\* and no namespace of that name exists yet.
PlacementTaken == clash = "placement" \/ cpns # "absent"

\* ensureAPIHostnameAvailable.
HostTaken == clash = "host"

\* Mutant of Blocked: the own HostedCluster's namespace counts as taken.
BlockedByItself == PlacementTaken \/ HostTaken

\* Only a HostedCluster that does not exist yet needs a place; the host name
\* must never be another Route's; a HostedCluster must have it recorded.
Blocked ==
  \/ ~Hosted /\ PlacementTaken
  \/ Hosted /\ status.endpoint = 0
  \/ HostTaken

\* Mutant of PlaceHosted: the host name is recorded with the next status.
PlaceHostedUnrecorded ==
  /\ At("provision")
  /\ \/ Blocked /\ Conflict
     \/ ~Blocked /\ Goto(IF Hosted THEN "nodePool" ELSE "cert") /\ UNCHANGED status
  /\ UNCHANGED <<Object, published, route, hcpVars>>

\* The host name is recorded before anything that depends on it is created.
PlaceHosted ==
  /\ At("provision")
  /\ \/ Blocked /\ Conflict
     \/ ~Blocked /\ status.endpoint = 0
        /\ FinishStatus([status EXCEPT !.phase = "Provisioning", !.endpoint = domain])
     \/ ~Blocked /\ status.endpoint # 0
        /\ Goto(IF Hosted THEN "nodePool" ELSE "cert") /\ UNCHANGED status
  /\ UNCHANGED <<Object, published, route, hcpVars>>

\* ensureKASServingCert, before the HostedCluster and before the kubeconfig.
EnsureServingCert ==
  /\ At("cert") \/ At("finalCert")
  /\ cert' = IF status.endpoint = 0 THEN domain ELSE status.endpoint
  /\ Goto(IF At("cert") THEN "createHC" ELSE "guestAPI")
  /\ UNCHANGED <<Object, status, published, route, hc, np, cpns, workers, admitted, clash>>

CreateHostedCluster ==
  /\ At("createHC") /\ hc.id < MaxHC
  /\ hc' = [id |-> hc.id + 1, state |-> "creating"]
  /\ Wait
  /\ UNCHANGED <<Object, published, route, np, cert, cpns, workers, admitted, clash>>

\* ensureHCPNodePool: create; or refuse the NodePool of an earlier
\* HostedCluster; or scale.
EnsureNodePool ==
  /\ At("nodePool")
  /\ \/ /\ np.state = "absent"
        /\ np' = [owner |-> hc.id, state |-> "present"] /\ Wait
     \/ np.state # "absent" /\ Hosted /\ np.owner # hc.id /\ Conflict /\ UNCHANGED np
     \/ /\ np.state # "absent" /\ (Hosted => np.owner = hc.id)
        /\ w' = [w EXCEPT !.pc = "backing", !.uid = hc.id] /\ UNCHANGED <<status, np>>
  /\ UNCHANGED <<Object, published, route, hc, cert, cpns, workers, admitted, clash>>

\* HostedCluster Available, NodePool at its size, admin kubeconfig there; a
\* failing read of that Secret fails the instance.
AwaitBacking ==
  /\ At("backing")
  /\ \/ hc.state = "available" /\ np.state = "scaled" /\ Goto("route") /\ UNCHANGED status
     \/ ~(hc.state = "available" /\ np.state = "scaled") /\ Wait
     \/ hc.state = "available" /\ "apiFails" \in env /\ Conflict
  /\ UNCHANGED <<Object, published, route, hcpVars>>

\* ensureHostedClusterAPIRoute: create the Route and wait, refuse one with
\* another host, wait for its admission.  Without its namespace it cannot be
\* created: a provisioning pass fails the instance, a Ready one just ends.
EnsureAPIRoute ==
  /\ At("route") \/ At("readyRoute")
  /\ \/ route = 0 /\ cpns = "active" /\ route' = status.endpoint /\ admitted' = FALSE /\ Wait
     \/ /\ route = 0 /\ cpns # "active"
        /\ IF At("route") THEN Conflict ELSE EndPass /\ UNCHANGED status
        /\ UNCHANGED <<route, admitted>>
     \/ route # 0 /\ route # status.endpoint /\ Conflict /\ UNCHANGED <<route, admitted>>
     \/ route # 0 /\ route = status.endpoint /\ ~admitted /\ Wait /\ UNCHANGED <<route, admitted>>
     \/ /\ route # 0 /\ route = status.endpoint /\ admitted
        /\ Goto(IF At("route") THEN "finalCert" ELSE "readyAPI") /\ UNCHANGED <<route, admitted, status>>
  /\ UNCHANGED <<Object, published, hc, np, cert, cpns, workers, clash>>

\* The guest API answers through the Route.
HostedAPIReady == hc.state = "available" /\ route = status.endpoint /\ admitted /\ cert = route
HostedAPIMayFail == ~HostedAPIReady \/ "apiFails" \in env

CheckHostedAPI ==
  /\ At("guestAPI")
  /\ \/ HostedAPIReady /\ Goto("publish") /\ UNCHANGED status
     \/ HostedAPIMayFail /\ Wait
  /\ UNCHANGED <<Object, published, route, hcpVars>>

\* Mutant of PublishHosted: a Secret that is there already is kept.
PublishHostedOnce ==
  /\ At("publish")
  /\ published' = (IF published = 0 THEN w.uid ELSE published) /\ Goto("markReady")
  /\ UNCHANGED <<Object, status, route, hcpVars>>

\* markReady: the Secret first, then the status.
PublishHosted ==
  /\ At("publish")
  /\ published' = w.uid /\ Goto("markReady")
  /\ UNCHANGED <<Object, status, route, hcpVars>>

MarkHostedReady ==
  /\ At("markReady")
  /\ FinishStatus([status EXCEPT !.phase = "Ready"])
  /\ UNCHANGED <<Object, published, route, hcpVars>>

-----------------------------------------------------------------------------
(* reconcileReadyHyperShift.                                               *)

\* A Ready instance whose HostedCluster is missing stays as it is.
CheckReadyHosted ==
  /\ At("ready")
  /\ \/ ~Hosted /\ EndPass /\ UNCHANGED status
     \/ Hosted /\ Blocked /\ Conflict
     \/ Hosted /\ ~Blocked /\ Goto("readyRoute") /\ UNCHANGED status
  /\ UNCHANGED <<Object, published, route, hcpVars>>

\* A missing kubeconfig Secret is an error: the pass ends and is retried.
CheckReadyAPI ==
  /\ At("readyAPI")
  /\ \/ (published = 0 \/ HostedAPIReady) /\ EndPass /\ UNCHANGED status
     \/ published # 0 /\ HostedAPIMayFail /\ Wait
  /\ UNCHANGED <<Object, published, route, hcpVars>>

-----------------------------------------------------------------------------
(* teardownHyperShiftBacking: every deletion is asked for, then the parts  *)
(* that HyperShift removes are waited for.                                 *)

DeleteHostedCluster ==
  /\ At("teardown")
  /\ hc' = IF Hosted THEN [hc EXCEPT !.state = "deleting"] ELSE hc
  /\ w' = [w EXCEPT !.pc = "deleteNodePool", !.pending = Hosted]
  /\ UNCHANGED <<Object, status, published, route, np, cert, cpns, workers, admitted, clash>>

\* A NodePool of another HostedCluster is an error; it ends the pass.
DeleteNodePool ==
  /\ At("deleteNodePool")
  /\ \/ np.state # "absent" /\ Hosted /\ np.owner # hc.id /\ EndPass /\ UNCHANGED np
     \/ /\ np.state # "absent" /\ (Hosted => np.owner = hc.id)
        /\ np' = [np EXCEPT !.state = "deleting"]
        /\ w' = [w EXCEPT !.pc = "deleteCert", !.pending = TRUE]
     \/ np.state = "absent" /\ Goto("deleteCert") /\ UNCHANGED np
  /\ UNCHANGED <<Object, status, published, route, hc, cert, cpns, workers, admitted, clash>>

DeleteServingCert ==
  /\ At("deleteCert")
  /\ cert' = 0 /\ Goto("awaitWorkers")
  /\ UNCHANGED <<Object, status, published, route, hc, np, cpns, workers, admitted, clash>>

\* Mutant of AwaitWorkers: the namespace is left to HyperShift.
AwaitWorkersOnly ==
  /\ At("awaitWorkers")
  /\ w' = [w EXCEPT !.pc = "finish", !.pending = workers # {} \/ (Hosted /\ hc.state # "deleting")]
  /\ UNCHANGED <<Object, status, published, route, hcpVars>>

\* Worker VMIs, launcher Pods, PVCs and the namespace; what was pending stays so.
AwaitWorkers ==
  /\ At("awaitWorkers")
  /\ w' = [w EXCEPT !.pc = "finish", !.pending = @ \/ workers # {} \/ cpns # "absent"]
  /\ UNCHANGED <<Object, status, published, route, hcpVars>>

HCPController ==
  \/ PlaceHosted \/ EnsureServingCert \/ CreateHostedCluster \/ EnsureNodePool \/ AwaitBacking
  \/ EnsureAPIRoute \/ CheckHostedAPI \/ PublishHosted \/ MarkHostedReady
  \/ CheckReadyHosted \/ CheckReadyAPI
  \/ DeleteHostedCluster \/ DeleteNodePool \/ DeleteServingCert \/ AwaitWorkers

-----------------------------------------------------------------------------
(* HyperShift, KubeVirt, the router and other parties.                     *)

\* The control plane comes up in its namespace, then the workers.
StartControlPlane ==
  /\ hc.state = "creating" /\ cpns # "terminating"
  /\ IF cpns = "absent" THEN cpns' = "active" /\ UNCHANGED hc
     ELSE hc' = [hc EXCEPT !.state = "available"] /\ UNCHANGED cpns
  /\ UNCHANGED <<np, cert, workers, admitted, clash, sharedVars>>

StartWorkers ==
  /\ np.state = "present" /\ hc.state = "available" /\ np.owner = hc.id
  /\ np' = [np EXCEPT !.state = "scaled"] /\ workers' = WorkerParts
  /\ UNCHANGED <<hc, cert, cpns, admitted, clash, sharedVars>>

\* A NodePool goes with its HostedCluster, its workers go with it.
CascadeNodePool ==
  /\ np.state \in {"present", "scaled"} /\ (hc.state \in {"absent", "deleting"} \/ np.owner # hc.id)
  /\ np' = [np EXCEPT !.state = "deleting"]
  /\ UNCHANGED <<hc, cert, cpns, workers, admitted, clash, sharedVars>>

StopWorkers ==
  /\ np.state = "deleting" /\ workers # {}
  /\ workers' = IF "vmi" \in workers THEN workers \ {"vmi"}
                ELSE IF "pod" \in workers THEN workers \ {"pod"} ELSE {}
  /\ UNCHANGED <<hc, np, cert, cpns, admitted, clash, sharedVars>>

\* A NodePool waits for its VMIs, not for Pods and storage.
RemoveNodePool ==
  /\ np.state = "deleting" /\ "vmi" \notin workers
  /\ np' = [np EXCEPT !.state = "absent"]
  /\ UNCHANGED <<hc, cert, cpns, workers, admitted, clash, sharedVars>>

\* The namespace is removed with all that is left in it, the Route included;
\* the HostedCluster may go before it.
RemoveControlPlane ==
  /\ hc.state \in {"absent", "deleting"} /\ np.state = "absent"
  /\ \/ cpns = "active" /\ cpns' = "terminating" /\ UNCHANGED <<workers, route, admitted>>
     \/ cpns = "terminating" /\ cpns' = "absent" /\ workers' = {} /\ route' = 0 /\ admitted' = FALSE
  /\ UNCHANGED <<hc, np, cert, clash, Object, status, published, w>>

RemoveHostedCluster ==
  /\ hc.state = "deleting" /\ cpns # "active" /\ np.state = "absent"
  /\ hc' = [hc EXCEPT !.state = "absent"]
  /\ UNCHANGED <<np, cert, cpns, workers, admitted, clash, sharedVars>>

AdmitRoute ==
  /\ route # 0 /\ ~admitted /\ admitted' = TRUE
  /\ UNCHANGED <<hc, np, cert, cpns, workers, clash, sharedVars>>

HyperShift ==
  \/ StartControlPlane \/ StartWorkers \/ CascadeNodePool \/ StopWorkers \/ RemoveNodePool
  \/ RemoveControlPlane \/ RemoveHostedCluster \/ AdmitRoute

\* Somebody else deletes the HostedCluster.
LoseCluster ==
  /\ "loseCluster" \in env /\ hc.state \in {"creating", "available"} /\ hc.id < MaxHC
  /\ hc' = [hc EXCEPT !.state = "deleting"]
  /\ UNCHANGED <<np, cert, cpns, workers, admitted, clash, sharedVars>>

\* Another HostedCluster or ClusterInstance takes the namespace, another Route
\* the host name.
TakeName ==
  /\ "foreign" \in env /\ clash = "none" /\ clash' \in {"placement", "host"}
  /\ UNCHANGED <<hc, np, cert, cpns, workers, admitted, sharedVars>>

\* HyperShift, KubeVirt and the router go on.  A controller that provisions
\* while the HostedCluster is being deleted makes the NodePool again and again;
\* each time it is gone HyperShift gets a chance to go on with the deletion.
HCPFairness ==
  /\ WF_<<hcpVars, route>>(topology = "hypershift" /\ HyperShift)
  /\ SF_<<hcpVars, route>>(topology = "hypershift" /\ (RemoveControlPlane \/ RemoveHostedCluster))

-----------------------------------------------------------------------------
(* Properties.                                                             *)

\* Nothing that depends on the API host name exists before the name is
\* recorded, and the serving certificate is for the recorded one.
EndpointFirst ==
  topology = "hypershift" =>
    /\ Hosted \/ cert # 0 \/ route # 0 => status.endpoint # 0
    /\ cert \in {0, status.endpoint}

\* While a Ready instance has a running HostedCluster the kubeconfig it hands
\* out is that one's, also after the cluster was lost and made again.
ReadyServesItsCluster ==
  topology = "hypershift" /\ status.phase = "Ready" /\ hc.state = "available" => published \in {0, hc.id}

\* When the finalizer goes, HostedCluster, NodePool, certificate, workers,
\* storage and the control-plane namespace are gone: the name may be reused.
NothingLeftHCP ==
  topology = "hypershift" /\ object = "gone" =>
    ~Hosted /\ np.state = "absent" /\ cert = 0 /\ workers = {} /\ cpns = "absent" /\ route = 0

\* An instance that nobody disturbs becomes Ready and does so again whenever
\* its Route, or its HostedCluster before it was Ready, was lost.
HostedServed ==
  <>[](topology = "hypershift" /\ route # 0 /\ env \subseteq {"crash", "reroute", "loseCluster"})
    => []<>(status.phase = "Ready" /\ HostedAPIReady)
=============================================================================
