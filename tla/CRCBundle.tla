------------------------------ MODULE CRCBundle ------------------------------
(***************************************************************************)
(* One CRCBundle: the controller prepares a golden disk image once, with a *)
(* run-to-completion Job, and ClusterInstances clone it afterwards.  The   *)
(* controller has one worker and takes one API write per step; it may be   *)
(* interrupted between any two of them.  The Job, the PVCs' protection by  *)
(* the Pod that mounts them and out-of-band deletions are its environment. *)
(***************************************************************************)
CONSTANT Environments   \* the sets of environment behaviours to choose from

EnvKinds == {"interrupt", "deleteFails", "jobFails", "loseKey", "loseGolden", "adminDelete"}
ASSUME BundleEnvAssumption == \A E \in Environments : E \subseteq EnvKinds

VARIABLES
  env,      \* the environment behaviours switched on, for good
  phase,    \* status.phase of the CRCBundle
  golden,   \* the golden PVC: "absent", "empty" or "populated"
  scratch,  \* the scratch PVC: "absent", "present" or "terminating"
  job,      \* the bundle-prep Job: "absent", a stage of its script, or how it ended
  pods,     \* Pods that mount the PVCs: the Job's, and one a deleted Job left
  outputs,  \* what the script published: "key" (Secret), "metadata" (ConfigMap)
  pc        \* the worker: what the present pass writes next

bundle == <<phase, golden, scratch, job, pods, outputs, pc>>
vars == <<env, phase, golden, scratch, job, pods, outputs, pc>>

Running == {"started", "converted", "keyed"}

TypeOK ==
  /\ env \in Environments
  /\ phase \in {"Pending", "Preparing", "Ready", "Failed"}
  /\ golden \in {"absent", "empty", "populated"}
  /\ scratch \in {"absent", "present", "terminating"}
  /\ job \in {"absent", "succeeded", "failed"} \cup Running
  /\ pods \subseteq {"current", "left"}
  /\ outputs \subseteq {"key", "metadata"}
  /\ pc \in {"idle", "scratch", "job", "preparing", "deleteJob", "deleteScratch"}

Init ==
  /\ env \in Environments
  /\ phase = "Pending" /\ golden = "absent" /\ scratch = "absent" /\ job = "absent"
  /\ pods = {} /\ outputs = {} /\ pc = "idle"

-----------------------------------------------------------------------------
(* reconcilePending: golden PVC, scratch PVC, Job, then the new phase.     *)
(* Whatever exists already is taken as it is.                              *)

EnsureGoldenPVC ==
  /\ pc = "idle" /\ phase = "Pending"
  /\ golden' = IF golden = "absent" THEN "empty" ELSE golden
  /\ pc' = "scratch"
  /\ UNCHANGED <<phase, scratch, job, pods, outputs>>

EnsureScratchPVC ==
  /\ pc = "scratch"
  /\ scratch' = IF scratch = "absent" THEN "present" ELSE scratch
  /\ pc' = "job"
  /\ UNCHANGED <<phase, golden, job, pods, outputs>>

EnsureJob ==
  /\ pc = "job"
  /\ job' = IF job = "absent" THEN "started" ELSE job
  /\ pc' = "preparing"
  /\ UNCHANGED <<phase, golden, scratch, pods, outputs>>

EnterPreparing ==
  /\ pc = "preparing"
  /\ phase' = "Preparing" /\ pc' = "idle"
  /\ UNCHANGED <<golden, scratch, job, pods, outputs>>

-----------------------------------------------------------------------------
(* reconcilePreparing, reconcileFailed and reconcileReady.                 *)

\* The Job is gone: start over, from Preparing or, when an administrator
\* deleted a failed Job, from Failed.
JobMissing ==
  /\ pc = "idle" /\ phase = "Preparing" /\ job = "absent"
  /\ phase' = "Pending"
  /\ UNCHANGED <<golden, scratch, job, pods, outputs, pc>>

RetryFailed ==
  /\ pc = "idle" /\ phase = "Failed" /\ job = "absent"
  /\ phase' = "Pending"
  /\ UNCHANGED <<golden, scratch, job, pods, outputs, pc>>

\* Mutant of ObserveFailure: the phase is no CRCBundlePhase.
ObserveFailureMisspelt ==
  /\ pc = "idle" /\ phase = "Preparing" /\ job = "failed"
  /\ phase' = "JobFailed"
  /\ UNCHANGED <<golden, scratch, job, pods, outputs, pc>>

ObserveFailure ==
  /\ pc = "idle" /\ phase = "Preparing" /\ job = "failed"
  /\ phase' = "Failed"
  /\ UNCHANGED <<golden, scratch, job, pods, outputs, pc>>

\* Success counts once both outputs are there; the PVC is not looked at.
ObserveSuccess ==
  /\ pc = "idle" /\ phase = "Preparing" /\ job = "succeeded"
  /\ outputs = {"key", "metadata"}
  /\ phase' = "Ready" /\ pc' = "deleteJob"
  /\ UNCHANGED <<golden, scratch, job, pods, outputs>>

\* Mutant of DeleteJob: the finished Job is kept.
KeepJob ==
  /\ pc = "deleteJob"
  /\ pc' = "deleteScratch"
  /\ UNCHANGED <<phase, golden, scratch, job, pods, outputs>>

\* Both deletes are best effort; a scratch PVC that a Pod mounts lingers.
DeleteJob ==
  /\ pc = "deleteJob"
  /\ pc' = "deleteScratch"
  /\ \/ /\ job' = "absent"
        /\ pods' = IF "current" \in pods THEN (pods \ {"current"}) \cup {"left"} ELSE pods
     \/ "deleteFails" \in env /\ UNCHANGED <<job, pods>>
  /\ UNCHANGED <<phase, golden, scratch, outputs>>

DeleteScratchPVC ==
  /\ pc = "deleteScratch"
  /\ pc' = "idle"
  /\ \/ scratch' = IF scratch # "absent" /\ pods # {} THEN "terminating" ELSE "absent"
     \/ "deleteFails" \in env /\ UNCHANGED scratch
  /\ UNCHANGED <<phase, golden, job, pods, outputs>>

\* Mutant of ResetToPending: the key is not looked for.
ResetWithoutKeyCheck ==
  /\ pc = "idle" /\ phase = "Ready"
  /\ golden = "absent"
  /\ phase' = "Pending"
  /\ UNCHANGED <<golden, scratch, job, pods, outputs, pc>>

\* reconcileReady: the golden PVC or the key is missing.
ResetToPending ==
  /\ pc = "idle" /\ phase = "Ready"
  /\ golden = "absent" \/ "key" \notin outputs
  /\ phase' = "Pending"
  /\ UNCHANGED <<golden, scratch, job, pods, outputs, pc>>

\* A crash of the manager or an API error ends the pass.
Interrupt ==
  /\ "interrupt" \in env
  /\ pc # "idle"
  /\ pc' = "idle"
  /\ UNCHANGED <<phase, golden, scratch, job, pods, outputs>>

-----------------------------------------------------------------------------
(* The Job's script: download and convert, publish the key, publish the    *)
(* metadata.  Its Pod starts, and protects the PVCs, only when both can be *)
(* mounted; a terminating PVC cannot.                                      *)

Mountable == golden # "absent" /\ scratch = "present"

JobConvert ==
  /\ job = "started" /\ Mountable
  /\ golden' = "populated" /\ job' = "converted"
  /\ pods' = pods \cup {"current"}
  /\ UNCHANGED <<phase, scratch, outputs, pc>>

JobPublishKey ==
  /\ job = "converted"
  /\ outputs' = outputs \cup {"key"} /\ job' = "keyed"
  /\ UNCHANGED <<phase, golden, scratch, pods, pc>>

JobPublishMetadata ==
  /\ job = "keyed"
  /\ outputs' = outputs \cup {"metadata"} /\ job' = "succeeded"
  /\ UNCHANGED <<phase, golden, scratch, pods, pc>>

\* Out of retries, or past the deadline of two hours.
JobFails ==
  /\ job \in Running
  /\ "jobFails" \in env \/ (job = "started" /\ ~Mountable)
  /\ job' = "failed"
  /\ UNCHANGED <<phase, golden, scratch, pods, outputs, pc>>

\* A finished or orphaned Pod is collected; a terminating PVC goes with it.
PodGone ==
  \E pod \in pods :
    /\ pod = "current" => job \in {"succeeded", "failed"}
    /\ pods' = pods \ {pod}
    /\ scratch' = IF scratch = "terminating" /\ pods' = {} THEN "absent" ELSE scratch
    /\ UNCHANGED <<phase, golden, job, outputs, pc>>

\* Administrators: deleting the Job asks for another preparation.
AdminDeletesJob ==
  /\ "adminDelete" \in env
  /\ job # "absent"
  /\ job' = "absent"
  /\ pods' = IF "current" \in pods THEN (pods \ {"current"}) \cup {"left"} ELSE pods
  /\ UNCHANGED <<phase, golden, scratch, outputs, pc>>

\* Out-of-band deletion while the bundle is Ready, which is when the code
\* looks for it.  The PVC outlives its deletion while a Pod mounts it.
LoseGolden ==
  /\ "loseGolden" \in env
  /\ phase = "Ready" /\ golden # "absent" /\ pods = {}
  /\ golden' = "absent"
  /\ UNCHANGED <<phase, scratch, job, pods, outputs, pc>>

LoseKey ==
  /\ "loseKey" \in env
  /\ phase = "Ready" /\ "key" \in outputs
  /\ outputs' = outputs \ {"key"}
  /\ UNCHANGED <<phase, golden, scratch, job, pods, pc>>

ControllerStep ==
  \/ EnsureGoldenPVC \/ EnsureScratchPVC \/ EnsureJob \/ EnterPreparing \/ JobMissing \/ RetryFailed
  \/ ObserveFailure \/ ObserveSuccess \/ DeleteJob \/ DeleteScratchPVC \/ ResetToPending

JobStep == JobConvert \/ JobPublishKey \/ JobPublishMetadata

Disturbance == Interrupt \/ JobFails \/ PodGone \/ AdminDeletesJob \/ LoseGolden \/ LoseKey

Next == (ControllerStep \/ JobStep \/ Disturbance) /\ UNCHANGED env

Spec == Init /\ [][Next]_vars

\* The bundle, its Job and its PVCs wake the worker, it requeues itself while
\* the Job runs, and the periodic resync finds a lost Secret.  The Job's
\* script ends, or its deadline does, and Pods are collected.
FairSpec ==
  /\ Spec
  /\ SF_bundle(ControllerStep)
  /\ WF_bundle(JobStep \/ (job = "started" /\ ~Mountable /\ JobFails)) /\ WF_bundle(PodGone)

-----------------------------------------------------------------------------
\* reconcilePreparing never reports Ready over a golden PVC that no Job filled
\* or that one is still writing: ClusterInstances clone the PVC of a Ready
\* bundle without looking into it.
ReadyIsPopulated == phase = "Ready" /\ golden # "absent" => golden = "populated" /\ job \notin Running

Usable == phase = "Ready" /\ golden = "populated" /\ "key" \in outputs

\* Passes may end early and leave their finished Job behind.
Leftovers == {"interrupt", "deleteFails"} \cap env # {}

\* Once nobody deletes what it needs any more, the bundle becomes usable for
\* good, or Failed, which asks for an administrator: reconcileReady repairs
\* the loss of the golden PVC and of the SSH key, as long as every pass gets to
\* delete its finished Job.
SelfHeals ==
  <>[][~LoseGolden /\ ~LoseKey /\ ~AdminDeletesJob]_bundle =>
    <>[](Usable \/ phase = "Failed" \/ Leftovers)
=============================================================================
