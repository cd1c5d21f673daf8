----------------------------- MODULE CRCInstance -----------------------------
(***************************************************************************)
(* A ClusterInstance of topology crc: provisioning, recovery after its VMI *)
(* was replaced, and teardown, step by step, against KubeVirt, CDI and the *)
(* crc-agent Jobs, which are taken at their contract (CRCHandoff).  The    *)
(* controller reads the VMI from a cache that may lag behind.              *)
(***************************************************************************)
EXTENDS ClusterInstance, CRCHandoff

CONSTANT MaxGen   \* bound: how often the bundle is prepared

ASSUME MaxGenAssumption == MaxGen \in Nat \ {0}

VARIABLES
  seen,      \* the VMI in the controller's cache
  vm,        \* the VirtualMachine: "absent", "always", "halted" or "deleting"
  ack,       \* the run strategy that KubeVirt last acted on
  launcher,  \* does a virt-launcher Pod hold the disk?
  disk,      \* DataVolume and PVC: state, and the bundle generation cloned
  golden,    \* the Ready bundle: generation of its disk and key, 0 if not Ready
  copy,      \* the boot key copy: the generation of the key, 0 if absent
  owned      \* "rbac", "identity": further objects of the instance

crcVars == <<seen, vm, ack, launcher, disk, golden, copy, owned, contractVars>>

CRCTypeOK ==
  /\ ContractTypeOK
  /\ object \in {"live", "deleting", "gone"} /\ finalizer \in BOOLEAN
  /\ status \in [phase : Phases, endpoint : 0..2, vmiUID : 0..MaxUID, binding : 0..MaxGen]
  /\ seen \in [uid : 0..MaxUID, phase : VMIPhases]
  /\ vm \in {"absent", "always", "halted", "deleting"} /\ ack \in {"always", "halted"}
  /\ launcher \in BOOLEAN
  /\ disk \in [state : {"absent", "cloning", "ready", "pvc"}, src : 0..MaxGen]
  /\ golden \in 0..MaxGen /\ copy \in 0..MaxGen
  /\ owned \subseteq {"rbac", "identity"} /\ route \in 0..2 /\ domain \in 1..2

NoDisk == [state |-> "absent", src |-> 0]

CRCInit ==
  /\ ContractInit
  /\ seen = vmi /\ vm = "absent" /\ ack = "always" /\ launcher = FALSE
  /\ disk = NoDisk /\ golden = 0 /\ copy = 0 /\ owned = {}

\* What most steps of the worker leave alone.
Rest == <<topology, env, object, finalizer, crashes>>
Backing == <<vm, ack, launcher, disk, copy, owned, route>>
World == <<seen, golden, domain>>

-----------------------------------------------------------------------------
(* reconcileCRC: from the VMI the handoff is for to the agent Job.         *)

\* reconcileProvisioningCRCVMI: another VMI than the recorded one.
ProvisionVMI ==
  /\ At("provision")
  /\ w' = IF seen.phase # "absent" /\ status.vmiUID # 0 /\ seen.uid # status.vmiUID
          THEN [w EXCEPT !.pc = "dropJob", !.uid = seen.uid]
          ELSE [w EXCEPT !.pc = "source"]
  /\ UNCHANGED <<Rest, status, published, Backing, World, contractVars>>

NotReady(uid) == [status EXCEPT !.phase = "Provisioning", !.vmiUID = uid]

\* resolveCRCDataVolumeSource: wait for the bundle, record disk and key to use.
ResolveSource ==
  /\ At("source")
  /\ \/ status.binding # 0 /\ Goto("key") /\ UNCHANGED status
     \/ status.binding = 0 /\ FinishStatus([NotReady(0) EXCEPT !.binding = golden])
  /\ UNCHANGED <<Rest, published, Backing, World, contractVars>>

\* markCRCBootKeyUnavailable.
BootKeyUnavailable == FinishStatus([status EXCEPT !.phase = "Provisioning"])

\* Mutant of EnsureBootKey: a lost copy is taken from the bundle as it is now.
EnsureBootKeyAnew ==
  /\ At("key") \/ At("readyKey")
  /\ copy' = IF copy = 0 THEN golden ELSE copy
  /\ Goto(IF At("key") THEN "disk" ELSE "readyVMI")
  /\ UNCHANGED <<Rest, status, published, vm, ack, launcher, disk, owned, route, World, contractVars>>

\* ensureCRCBootKey: the instance's copy of the key, taken again from the
\* bundle only while that is still the one recorded.
EnsureBootKey ==
  /\ At("key") \/ At("readyKey")
  /\ \/ /\ copy # 0 \/ golden = status.binding
        /\ copy' = status.binding
        /\ Goto(IF At("key") THEN "disk" ELSE "readyVMI") /\ UNCHANGED status
     \/ copy = 0 /\ golden # status.binding /\ BootKeyUnavailable /\ UNCHANGED copy
  /\ UNCHANGED <<Rest, published, vm, ack, launcher, disk, owned, route, World, contractVars>>

\* The disk is cloned from the recorded golden PVC; until the clone is done
\* every pass makes sure that it is still there.
EnsureDisk ==
  /\ At("disk")
  /\ \/ /\ disk.state = "ready" \/ golden = status.binding
        /\ disk' = IF disk.state = "absent" THEN [state |-> "cloning", src |-> 0] ELSE disk
        /\ Goto("vm") /\ UNCHANGED status
     \/ disk.state # "ready" /\ golden # status.binding /\ BootKeyUnavailable /\ UNCHANGED disk
  /\ UNCHANGED <<Rest, published, vm, ack, launcher, copy, owned, route, World, contractVars>>

EnsureVM ==
  /\ At("vm")
  /\ IF vm = "absent" THEN vm' = "always" /\ ack' = "always" ELSE UNCHANGED <<vm, ack>>
  /\ Goto("observe")
  /\ UNCHANGED <<Rest, status, published, launcher, disk, copy, owned, route, World, contractVars>>

\* The VM is Ready and its VMI, as cached, Running; or no VMI is recorded.
ObserveVMI ==
  /\ At("observe")
  /\ \/ /\ vmi.phase = "running" /\ seen.phase = "running"
        /\ w' = [w EXCEPT !.pc = "rbac", !.uid = seen.uid] /\ UNCHANGED status
     \/ ~(vmi.phase = "running" /\ seen.phase = "running") /\ FinishStatus(NotReady(0))
  /\ UNCHANGED <<Rest, published, Backing, World, contractVars>>

EnsureRBAC ==
  /\ At("rbac") \/ At("ready")
  /\ owned' = owned \cup {"rbac"}
  /\ Goto(IF At("rbac") THEN "endpoint" ELSE "readyKey")
  /\ UNCHANGED <<Rest, status, published, vm, ack, launcher, disk, copy, route, World, contractVars>>

\* Mutant of RecordEndpoint: a lost Route is named after the present domain.
RecordEndpointAnew ==
  /\ At("endpoint")
  /\ IF route # 0 THEN Goto("job") /\ UNCHANGED status
     ELSE WriteStatus([status EXCEPT !.endpoint = domain], [w EXCEPT !.pc = "route"])
  /\ UNCHANGED <<Rest, published, Backing, World, contractVars>>

\* ensureCRCAPIRoute: the host name is recorded before the Route exists, and
\* from then on a Route has to carry it.
RecordEndpoint ==
  /\ At("endpoint")
  /\ \/ route # 0 /\ route = status.endpoint /\ Goto("job") /\ UNCHANGED status
     \/ route # 0 /\ route # status.endpoint /\ FinishStatus([status EXCEPT !.phase = "Failed"])
     \/ /\ route = 0
        /\ WriteStatus([status EXCEPT !.endpoint = IF @ = 0 THEN domain ELSE @], [w EXCEPT !.pc = "route"])
  /\ UNCHANGED <<Rest, published, Backing, World, contractVars>>

CreateRoute ==
  /\ At("route")
  /\ route' = status.endpoint /\ Goto("job")
  /\ UNCHANGED <<Rest, status, published, vm, ack, launcher, disk, copy, owned, World, contractVars>>

\* ensureCRCIdentity, then the Job for the VMI observed.
EnsureAgentJob ==
  /\ At("job")
  /\ IF job[w.uid] = "absent" THEN CreateJob(w.uid) ELSE UNCHANGED contractVars
  /\ owned' = owned \cup {"identity"} /\ Goto("assess")
  /\ UNCHANGED <<Rest, status, published, vm, ack, launcher, disk, copy, route, World>>

\* Mutant of Handoff: the Secret of any VMI will do.
AnyHandoff(u) == raw # {}

\* checkCRCKubeconfigHandoff: the Secret of this VMI.
Handoff(u) == u \in raw

\* The guest API answers through the Route once the running VMI is prepared.
APIReady == vmi.phase = "running" /\ vmi.uid \in prepared /\ route # 0 /\ route = status.endpoint
APIMayFail == ~APIReady \/ "apiFails" \in env

\* inspectCRCAgent and the first use of the handoff.
AssessAgent ==
  /\ At("assess")
  /\ \/ job[w.uid] = "failed" /\ FinishStatus([status EXCEPT !.phase = "Failed"])
     \/ job[w.uid] # "failed" /\ ~Handoff(w.uid) /\ FinishStatus(NotReady(w.uid))
     \/ job[w.uid] # "failed" /\ Handoff(w.uid) /\ APIMayFail /\ FinishStatus(NotReady(w.uid))
     \/ job[w.uid] # "failed" /\ Handoff(w.uid) /\ APIReady /\ Goto("publish") /\ UNCHANGED status
  /\ UNCHANGED <<Rest, published, Backing, World, contractVars>>

\* markReady: the Secret first, then the status.
PublishKubeconfig ==
  /\ At("publish")
  /\ published' = w.uid /\ Goto("markReady")
  /\ UNCHANGED <<Rest, status, Backing, World, contractVars>>

MarkReady ==
  /\ At("markReady")
  /\ FinishStatus([status EXCEPT !.phase = "Ready", !.vmiUID = w.uid])
  /\ UNCHANGED <<Rest, published, Backing, World, contractVars>>

Provision ==
  \/ ProvisionVMI \/ ResolveSource \/ EnsureBootKey \/ EnsureDisk \/ EnsureVM \/ ObserveVMI \/ EnsureRBAC
  \/ RecordEndpoint \/ CreateRoute \/ EnsureAgentJob \/ AssessAgent \/ PublishKubeconfig \/ MarkReady

-----------------------------------------------------------------------------
(* reconcileReadyCRC and invalidateCRCReadiness.                           *)

\* The VMI is gone, not Running or not the recorded one.
CheckReadyVMI ==
  /\ At("readyVMI")
  /\ w' = IF seen.phase = "running" /\ seen.uid = status.vmiUID
          THEN [w EXCEPT !.pc = "readyPublished"]
          ELSE [w EXCEPT !.pc = "dropJob", !.uid = IF seen.phase = "absent" THEN 0 ELSE seen.uid]
  /\ UNCHANGED <<Rest, status, published, Backing, World, contractVars>>

\* markCRCAPIUnavailable keeps Job, handoff and published Secret.
CheckPublished ==
  /\ At("readyPublished")
  /\ \/ /\ APIReady /\ published # 0 /\ EndPass /\ UNCHANGED status
     \/ /\ APIReady /\ published = 0 /\ Handoff(status.vmiUID)
        /\ w' = [w EXCEPT !.pc = "publish", !.uid = status.vmiUID] /\ UNCHANGED status
     \/ /\ APIMayFail \/ (published = 0 /\ ~Handoff(status.vmiUID))
        /\ FinishStatus([status EXCEPT !.phase = "Provisioning"])
  /\ UNCHANGED <<Rest, published, Backing, World, contractVars>>

\* Mutant of DropStaleJob: the old Job is left to end by itself.
DropStaleJobWaits ==
  /\ At("dropJob")
  /\ IF status.vmiUID = 0 \/ job[status.vmiUID] = "absent" THEN Goto("dropPublished") ELSE EndPass
  /\ UNCHANGED <<Rest, status, published, Backing, World, contractVars>>

\* The Job of the recorded VMI, and then the published Secret, are deleted; a
\* Job lingers until its Pod has stopped.
DropStaleJob ==
  /\ At("dropJob")
  /\ \/ /\ status.vmiUID = 0 \/ job[status.vmiUID] = "absent"
        /\ Goto("dropPublished") /\ UNCHANGED contractVars
     \/ /\ status.vmiUID # 0 /\ DeleteJob(status.vmiUID) /\ EndPass
     \/ /\ status.vmiUID # 0 /\ job[status.vmiUID] = "deleting" /\ EndPass /\ UNCHANGED contractVars
  /\ UNCHANGED <<Rest, status, published, Backing, World>>

DropPublished ==
  /\ At("dropPublished")
  /\ published' = 0 /\ Goto("invalidate")
  /\ UNCHANGED <<Rest, status, Backing, World, contractVars>>

\* Mutant of Invalidate: the new VMI is not recorded.
InvalidateUnrecorded ==
  /\ At("invalidate")
  /\ FinishStatus([status EXCEPT !.phase = "Provisioning"])
  /\ UNCHANGED <<Rest, published, Backing, World, contractVars>>

Invalidate ==
  /\ At("invalidate")
  /\ FinishStatus([status EXCEPT !.phase = "Provisioning", !.vmiUID = IF w.uid = 0 THEN @ ELSE w.uid])
  /\ UNCHANGED <<Rest, published, Backing, World, contractVars>>

Recover == CheckReadyVMI \/ CheckPublished \/ DropStaleJob \/ DropPublished \/ Invalidate

-----------------------------------------------------------------------------
(* teardownCRCBacking and teardownCRCVMAndStorage.                         *)

Live(u) == job[u] \in {"running", "complete", "failed"}
AllJobsDeleted == [u \in UIDs |-> IF Live(u) THEN "deleting" ELSE job[u]]

\* Mutant of DeleteJobs: the teardown goes on while the Jobs stop.
DeleteJobsUnwaited ==
  /\ At("teardown")
  /\ job' = AllJobsDeleted
  /\ w' = [w EXCEPT !.pc = "keys", !.pending = \E u \in UIDs : job[u] # "absent"]
  /\ UNCHANGED <<Rest, status, published, Backing, World, vmi, prepared, raw>>

\* All Jobs of the instance; as long as one is listed nothing else goes.
DeleteJobs ==
  /\ At("teardown")
  /\ job' = AllJobsDeleted
  /\ IF \E u \in UIDs : job[u] # "absent" THEN EndPass ELSE Goto("keys")
  /\ UNCHANGED <<Rest, status, published, Backing, World, vmi, prepared, raw>>

DeleteKeys ==
  /\ At("keys")
  /\ owned' = owned \ {"rbac"} /\ copy' = 0 /\ Goto("stopVM")
  /\ UNCHANGED <<Rest, status, published, vm, ack, launcher, disk, route, World, contractVars>>

\* Something is waited for: no more of the VM and its storage in this pass.
Waiting == w' = [w EXCEPT !.pc = "leftovers", !.pending = TRUE]

\* Mutant of DeleteVM: the VM is halted and then left alone.
DeleteVMNever ==
  /\ At("stopVM")
  /\ \/ vm = "always" /\ vm' = "halted" /\ Waiting
     \/ vm # "always" /\ w' = [w EXCEPT !.pc = "deleteVMI", !.vmPending = vm # "absent"] /\ UNCHANGED vm
  /\ UNCHANGED <<Rest, status, published, ack, launcher, disk, copy, owned, route, World, contractVars>>

\* Halt the VM; wait until KubeVirt has taken note, unless there is no VMI;
\* delete it.
DeleteVM ==
  /\ At("stopVM")
  /\ \/ vm = "always" /\ vm' = "halted" /\ Waiting
     \/ vm = "halted" /\ vmi.phase # "absent" /\ ack # "halted" /\ Waiting /\ UNCHANGED vm
     \/ /\ vm = "deleting" \/ (vm = "halted" /\ (vmi.phase = "absent" \/ ack = "halted"))
        /\ vm' = "deleting" /\ w' = [w EXCEPT !.pc = "deleteVMI", !.vmPending = TRUE]
     \/ vm = "absent" /\ Goto("deleteVMI") /\ UNCHANGED vm
  /\ UNCHANGED <<Rest, status, published, ack, launcher, disk, copy, owned, route, World, contractVars>>

DeleteVMI ==
  /\ At("deleteVMI")
  /\ \/ vmi.phase = "absent" /\ Goto("deleteLauncher") /\ UNCHANGED contractVars
     \/ Stop /\ Waiting
     \/ vmi.phase = "stopped" /\ Waiting /\ UNCHANGED contractVars
  /\ UNCHANGED <<Rest, status, published, Backing, World>>

\* Mutant of AwaitLauncher: a VM that is being deleted starts no Pod any more.
AwaitLauncherOnly ==
  /\ At("deleteLauncher")
  /\ IF launcher THEN Waiting ELSE Goto("deleteDisk")
  /\ UNCHANGED <<Rest, status, published, Backing, World, contractVars>>

\* The storage goes after the launcher Pods and the VM.
AwaitLauncher ==
  /\ At("deleteLauncher")
  /\ IF launcher \/ w.vmPending THEN Waiting ELSE Goto("deleteDisk")
  /\ UNCHANGED <<Rest, status, published, Backing, World, contractVars>>

\* DataVolume and PVC; CDI takes its time with the PVC.
DeleteDisk ==
  /\ At("deleteDisk")
  /\ disk' = IF disk.state = "absent" THEN disk ELSE [disk EXCEPT !.state = "pvc"]
  /\ w' = [w EXCEPT !.pc = "leftovers", !.pending = disk.state # "absent"]
  /\ UNCHANGED <<Rest, status, published, vm, ack, launcher, copy, owned, route, World, contractVars>>

\* Raw handoffs, Route and Service go whether or not the VM is waited for.
DeleteLeftovers ==
  /\ At("leftovers")
  /\ raw' = {} /\ route' = 0 /\ Goto("finish")
  /\ UNCHANGED <<Rest, status, published, vm, ack, launcher, disk, copy, owned, World, vmi, job, prepared>>

Teardown == DeleteJobs \/ DeleteKeys \/ DeleteVM \/ DeleteVMI \/ AwaitLauncher \/ DeleteDisk \/ DeleteLeftovers

-----------------------------------------------------------------------------
(* KubeVirt, CDI, the informer and the agents.                             *)

\* Run strategy Always: a VMI as long as KubeVirt has not seen the Halt.
BootVM ==
  /\ vm # "absent" /\ ack = "always" /\ disk.state = "ready"
  /\ vmi.phase = "absent" /\ Boot /\ launcher' = TRUE
  /\ UNCHANGED <<vm, ack, disk, copy, owned, World, sharedVars>>

RunVM == Run /\ UNCHANGED <<Backing, World, sharedVars>>

\* The guest dies, is evicted or restarted; the last VMI that MaxUID allows is
\* not, so that there is always a next boot.
StopVM == "replace" \in env /\ vmi.uid < MaxUID /\ Stop /\ UNCHANGED <<Backing, World, sharedVars>>

RemoveVMI == vmi.phase = "stopped" /\ Vanish /\ UNCHANGED <<Backing, World, sharedVars>>

SeeHalt ==
  /\ vm \in {"halted", "deleting"} /\ ack = "always" /\ ack' = "halted"
  /\ UNCHANGED <<vm, launcher, disk, copy, owned, World, contractVars, sharedVars>>

RemoveVM ==
  /\ vm = "deleting" /\ ack = "halted" /\ vmi.phase = "absent" /\ vm' = "absent"
  /\ UNCHANGED <<ack, launcher, disk, copy, owned, World, contractVars, sharedVars>>

RemoveLauncher ==
  /\ launcher /\ vmi.phase = "absent" /\ launcher' = FALSE
  /\ UNCHANGED <<vm, ack, disk, copy, owned, World, contractVars, sharedVars>>

\* CDI clones whatever golden PVC it finds under the name.
CloneDisk ==
  /\ disk.state = "cloning" /\ golden # 0
  /\ disk' = [state |-> "ready", src |-> golden]
  /\ UNCHANGED <<vm, ack, launcher, copy, owned, World, contractVars, sharedVars>>

RemovePVC ==
  /\ disk.state = "pvc" /\ disk' = NoDisk
  /\ UNCHANGED <<vm, ack, launcher, copy, owned, World, contractVars, sharedVars>>

Platform ==
  \/ BootVM \/ RunVM \/ RemoveVMI \/ SeeHalt \/ RemoveVM \/ RemoveLauncher \/ CloneDisk \/ RemovePVC

SyncCache ==
  /\ seen # vmi /\ seen' = vmi
  /\ UNCHANGED <<golden, domain, Backing, contractVars, sharedVars>>

\* The CRCBundle becomes Ready, and is prepared again with another key.
PrepareBundle ==
  /\ golden = 0 \/ ("rebuild" \in env /\ golden < MaxGen)
  /\ golden' = golden + 1
  /\ UNCHANGED <<seen, domain, Backing, contractVars, sharedVars>>

\* An agent gets into the guest with the key that its disk was built with.
AgentWorks(u) ==
  /\ \/ job[u] = "running" /\ disk.src = copy /\ Prepare(u)
     \/ u \notin raw /\ Publish(u)
     \/ Complete(u)
     \/ JobGone(u)
  /\ UNCHANGED <<Backing, World, sharedVars>>

AgentFails(u) ==
  /\ "jobFails" \in env \/ disk.src # copy
  /\ Fail(u)
  /\ UNCHANGED <<Backing, World, sharedVars>>

\* An administrator deletes the copied key.
LoseCopy ==
  /\ "rebuild" \in env /\ copy # 0 /\ copy' = 0
  /\ UNCHANGED <<vm, ack, launcher, disk, owned, World, contractVars, sharedVars>>

CRCEnvironment ==
  \/ StopVM \/ PrepareBundle \/ LoseCopy
  \/ \E u \in UIDs : AgentFails(u)

CRCController == Provision \/ Recover \/ Teardown

Agents == \E u \in UIDs : AgentWorks(u)

\* KubeVirt, CDI, the informers, the agents and the bundle controller go on;
\* between two boots they have only finitely much to do.
CRCFairness ==
  WF_crcVars(topology = "crc" /\ (Platform \/ SyncCache \/ Agents \/ (golden = 0 /\ PrepareBundle)))

-----------------------------------------------------------------------------
(* Properties.                                                             *)

\* A Ready instance hands out no kubeconfig but the one that the agent took
\* from the VMI recorded in the status, whatever was replaced meanwhile.
ReadyServesItsVMI ==
  topology = "crc" /\ status.phase = "Ready" /\ published # 0 =>
    published = status.vmiUID /\ (object = "live" => published \in raw)

\* No agent Job is left, running or stopping, without the service account and
\* the boot key that its Pod works with.
AgentHasItsKeys ==
  (\E u \in UIDs : job[u] \in {"running", "deleting"}) => "rbac" \in owned /\ (copy # 0 \/ "rebuild" \in env)

\* DataVolume and PVC are not deleted before VM, VMI and launcher Pod are gone.
DiskNotPulled == disk.state = "pvc" => vm = "absent" /\ vmi.phase = "absent" /\ ~launcher

\* When the finalizer goes nothing is left that it stands for.
NothingLeftCRC ==
  topology = "crc" /\ object = "gone" =>
    /\ \A u \in UIDs : job[u] = "absent"
    /\ vm = "absent" /\ vmi.phase = "absent" /\ ~launcher /\ disk = NoDisk
    /\ copy = 0 /\ raw = {} /\ route = 0 /\ "rbac" \notin owned

\* The copied boot key is always the one recorded with the disk.
KeyIsBound == copy \in {0, status.binding}

\* A VMI that keeps running behind its Route is served again and again, whatever
\* it replaced and wherever a pass was cut short.
Recovers ==
  <>[](topology = "crc" /\ vmi.phase = "running" /\ route # 0 /\ env \subseteq {"replace", "crash", "reroute", "loseCluster"})
    => []<>(status.phase = "Ready" /\ published = vmi.uid)

\* Readiness is withdrawn once the recorded VMI is not running any more.
ReadyWithdrawn ==
  (topology = "crc" /\ status.phase = "Ready" /\ ~Current(status.vmiUID)) ~> status.phase # "Ready"
=============================================================================
