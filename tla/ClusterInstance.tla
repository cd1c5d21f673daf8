--------------------------- MODULE ClusterInstance ---------------------------
(***************************************************************************)
(* What the two kinds of ClusterInstance share: the object, its status and *)
(* the single worker of the ClusterInstance controller that reconciles it. *)
(* A pass is a sequence of steps, one for each call that reads or writes   *)
(* something another party can change.  It works on the copy of the object *)
(* that it read first: once the object has been deleted meanwhile, every   *)
(* update of it is refused with a conflict, and the error ends the pass.   *)
(***************************************************************************)
EXTENDS Naturals, FiniteSets

CONSTANTS
  Environments,  \* the sets of environment behaviours to choose from
  Topologies,    \* the topologies to choose from: "crc", "hypershift"
  MaxCrashes     \* bound: passes cut short by a crash or an API error

EnvKinds == {"delete", "replace", "jobFails", "apiFails", "platformFails", "rebuild", "reroute",
             "withdraw", "foreign", "loseCluster", "crash"}

ASSUME InstanceAssumption ==
  /\ \A e \in Environments : e \subseteq EnvKinds
  /\ Topologies \subseteq {"crc", "hypershift"} /\ MaxCrashes \in Nat

VARIABLES
  topology,   \* spec.type
  env,        \* the environment behaviours switched on
  object,     \* the ClusterInstance: "live", "deleting" or "gone"
  finalizer,  \* does it carry the finalizer?
  status,     \* phase, recorded endpoint, recorded VMI, boot key binding
  published,  \* the kubeconfig Secret: 0, or the VMI or HostedCluster it is of
  route,      \* the host of the API Route, 0 if absent
  domain,     \* the ingress domain of the management cluster
  w,          \* the worker
  crashes     \* passes cut short so far

sharedVars == <<topology, env, object, finalizer, status, published, route, domain, w, crashes>>

Phases == {"New", "Provisioning", "Ready", "Failed", "Terminating"}

NewStatus == [phase |-> "New", endpoint |-> 0, vmiUID |-> 0, binding |-> 0]

\* The worker: what it does next, the object as it read it, the VMI it has
\* observed, and in a teardown whether something is still waited for.
IdleWorker == [pc |-> "idle", object |-> "live", uid |-> 0, pending |-> FALSE, vmPending |-> FALSE]

SharedInit ==
  /\ topology \in Topologies /\ env \in Environments
  /\ object = "live" /\ finalizer = FALSE /\ status = NewStatus /\ published = 0
  /\ route = 0 /\ domain = 1
  /\ w = IdleWorker /\ crashes = 0

Fresh == w.object = object
At(pc) == w.pc = pc
Goto(pc) == w' = [w EXCEPT !.pc = pc]
EndPass == w' = IdleWorker

\* Mutant of WriteStatus: an update of an object deleted meanwhile is forced.
WriteStatusForced(new, next) == status' = new /\ w' = next

\* A status update, after which the pass goes on as worker state next; or the
\* conflict that ends it.
WriteStatus(new, next) ==
  /\ status' = IF Fresh THEN new ELSE status
  /\ w' = IF Fresh THEN next ELSE IdleWorker

\* ... and the pass ends.
FinishStatus(new) == WriteStatus(new, IdleWorker)

-----------------------------------------------------------------------------
(* Reconcile.                                                              *)

AddFinalizer ==
  /\ At("idle") /\ object = "live" /\ ~finalizer
  /\ finalizer' = TRUE
  /\ UNCHANGED <<topology, env, object, status, published, route, domain, w, crashes>>

\* gatePlatformOperations: the virtualization platform, and for hypershift the
\* multicluster engine, must be there.  Failed instances and Ready hosted
\* clusters are not asked.
PlatformAsked == status.phase # "Failed" /\ (topology = "crc" \/ status.phase # "Ready")

\* checkHyperConverged and checkMultiClusterEngine: a verdict on other operators.
PlatformMayFail == "platformFails" \in env

PlatformBlocked ==
  /\ At("idle") /\ object = "live" /\ finalizer
  /\ PlatformAsked /\ PlatformMayFail
  /\ status' = [status EXCEPT !.phase = "Provisioning"]
  /\ UNCHANGED <<topology, env, object, finalizer, published, route, domain, w, crashes>>

StartPass ==
  /\ At("idle") /\ finalizer /\ object # "gone"
  /\ w' = [IdleWorker EXCEPT !.object = object,
             !.pc = IF object = "deleting" THEN "terminate"
                    ELSE IF status.phase = "Ready" THEN "ready" ELSE "provision"]
  /\ UNCHANGED <<topology, env, object, finalizer, status, published, route, domain, crashes>>

\* Mutant of Terminate: a phase that the API does not know.
TerminateMisspelt ==
  /\ At("terminate")
  /\ WriteStatus([status EXCEPT !.phase = "Deleting"], [w EXCEPT !.pc = "teardown"])
  /\ UNCHANGED <<topology, env, object, finalizer, published, route, domain, crashes>>

\* reconcileDelete marks the object before it touches anything.
Terminate ==
  /\ At("terminate")
  /\ WriteStatus([status EXCEPT !.phase = "Terminating"], [w EXCEPT !.pc = "teardown"])
  /\ UNCHANGED <<topology, env, object, finalizer, published, route, domain, crashes>>

\* Mutant of DropFinalizer: what is still pending is not waited for.
DropFinalizerEarly ==
  /\ At("finish")
  /\ finalizer' = FALSE /\ object' = "gone" /\ EndPass
  /\ UNCHANGED <<topology, env, status, published, route, domain, crashes>>

\* The finalizer goes with the last backing object, or another pass follows.
DropFinalizer ==
  /\ At("finish")
  /\ IF w.pending THEN UNCHANGED <<object, finalizer>> ELSE finalizer' = FALSE /\ object' = "gone"
  /\ EndPass
  /\ UNCHANGED <<topology, env, status, published, route, domain, crashes>>

\* A lease, the pool or an administrator deletes the instance.
DeleteInstance ==
  /\ "delete" \in env /\ object = "live"
  /\ object' = IF finalizer THEN "deleting" ELSE "gone"
  /\ UNCHANGED <<topology, env, finalizer, status, published, route, domain, w, crashes>>

\* The manager crashes or a call fails: the pass ends where it is.
Crash ==
  /\ "crash" \in env /\ w.pc # "idle" /\ crashes < MaxCrashes
  /\ crashes' = crashes + 1 /\ EndPass
  /\ UNCHANGED <<topology, env, object, finalizer, status, published, route, domain>>

\* A call of a provisioning pass fails: the instance is Failed until the work
\* queue retries.
FailingCalls == {"source", "disk", "vm", "observe", "rbac", "endpoint", "route", "job", "assess",
                 "cert", "createHC", "nodePool", "backing", "finalCert"}

MarkFailed ==
  /\ "crash" \in env /\ w.pc \in FailingCalls /\ crashes < MaxCrashes
  /\ crashes' = crashes + 1
  /\ FinishStatus([status EXCEPT !.phase = "Failed"])
  /\ UNCHANGED <<topology, env, object, finalizer, published, route, domain>>

\* Administrators delete or edit the Route, delete the published Secret and
\* change the ingress domain of the management cluster.
LoseRoute ==
  /\ "reroute" \in env /\ route # 0 /\ route' = 0
  /\ UNCHANGED <<topology, env, object, finalizer, status, published, domain, w, crashes>>

EditRoute ==
  /\ "foreign" \in env /\ route = 1 /\ route' = 2
  /\ UNCHANGED <<topology, env, object, finalizer, status, published, domain, w, crashes>>

ChangeDomain ==
  /\ "reroute" \in env /\ domain = 1 /\ domain' = 2
  /\ UNCHANGED <<topology, env, object, finalizer, status, published, route, w, crashes>>

LosePublished ==
  /\ "withdraw" \in env /\ published # 0 /\ published' = 0
  /\ UNCHANGED <<topology, env, object, finalizer, status, route, domain, w, crashes>>

SharedStep == AddFinalizer \/ StartPass \/ Terminate \/ DropFinalizer

SharedFault ==
  \/ PlatformBlocked \/ DeleteInstance \/ Crash \/ MarkFailed
  \/ LoseRoute \/ EditRoute \/ ChangeDomain \/ LosePublished
=============================================================================
