------------------------------ MODULE CRCAgent ------------------------------
(***************************************************************************)
(* The crc-agent Jobs of one CRC instance.  A Pod of the Job for VMI u     *)
(* checks that u is the running VMI, watches it in the background, and     *)
(* works through the post-boot fix-ups over SSH; then it checks the VMI    *)
(* once more and publishes.  A Pod that exits non-zero or is killed is     *)
(* retried from the start until the Job's backoff limit.  The guest disk   *)
(* outlives a VMI and what earlier Pods did to it stays; the kubelet has   *)
(* to be started again on every boot.  Pods find the guest by its address, *)
(* which the next VMI may inherit.                                         *)
(***************************************************************************)
EXTENDS Sequences, FiniteSets, Integers

CONSTANTS
  MaxUID,    \* bound: how many VMIs a behaviour boots
  MaxTries,  \* Pods of one Job: its backoffLimit plus one
  MaxKills,  \* bound: Pods that are evicted or run into a timeout
  ReuseIP    \* may a VMI inherit the address of the one before?

ASSUME AgentAssumption ==
  /\ MaxUID \in Nat /\ MaxTries \in Nat \ {0} /\ MaxKills \in Nat /\ ReuseIP \in BOOLEAN

UIDs == 1..MaxUID

VARIABLES
  vmi, job, raw,  \* as in CRCHandoff
  prepared,       \* history: VMIs on which one Pod has run every fix-up
  pod,            \* the Pod of each Job
  tries,          \* Pods of each running Job that have ended without success
  disk,           \* what is on the guest disk: "bundleKey", "newCA", "newCert", "apiCert"
  kubelet,        \* does the kubelet run on the present VMI?
  rollout,        \* API server rollout: "none", "due", "on"
  kills           \* Pods killed so far

vars == <<vmi, job, raw, prepared, pod, tries, disk, kubelet, rollout, kills>>

\* The order of fetchClusterInfo, RunGuestFixups and RunClusterFixups.
Order == <<"connect", "prepareGuest", "kubelet", "patchCA", "writeKubeconfig", "reconnect",
           "waitAPI", "prepareCluster", "servingCert", "waitOperators", "finalKubeconfig">>

CheckStep == Len(Order) + 1    \* the last look at the VMI
PublishStep == Len(Order) + 2
ExitStep == Len(Order) + 3

\* A Pod: its next step, the VMI its connection leads to, whether a step of it
\* has run on another VMI than the Job's (history), and whether its watch has
\* cancelled the run.
Pods == [pc : 0..ExitStep, guest : 0..MaxUID, stray : BOOLEAN, cancelled : BOOLEAN]
NoPod == [pc |-> 0, guest |-> 0, stray |-> FALSE, cancelled |-> FALSE]

TypeOK ==
  /\ vmi \in [uid : 0..MaxUID, phase : {"absent", "starting", "running", "stopped"}]
  /\ job \in [UIDs -> {"absent", "running", "complete", "failed", "deleting"}]
  /\ raw \subseteq UIDs /\ prepared \subseteq UIDs
  /\ pod \in [UIDs -> Pods]
  /\ tries \in [UIDs -> 0..(MaxTries - 1)]
  /\ disk \subseteq {"bundleKey", "newCA", "newCert", "apiCert"}
  /\ kubelet \in BOOLEAN /\ rollout \in {"none", "due", "on"} /\ kills \in 0..MaxKills

Init ==
  /\ vmi = [uid |-> 0, phase |-> "absent"]
  /\ job = [u \in UIDs |-> "absent"] /\ raw = {} /\ prepared = {}
  /\ pod = [u \in UIDs |-> NoPod] /\ tries = [u \in UIDs |-> 0]
  /\ disk = {"bundleKey"} /\ kubelet = FALSE /\ rollout = "none" /\ kills = 0

guestVars == <<prepared, disk, kubelet, rollout>>
agentVars == <<pod, tries, raw>>

Current(u) == vmi.uid = u /\ vmi.phase = "running"
Active(u) == pod[u].pc # 0
At(u, step) == pod[u].pc \in 1..Len(Order) /\ Order[pod[u].pc] = step /\ ~pod[u].cancelled

-----------------------------------------------------------------------------
(* The virtual machine and the controller, as far as the agent sees them.  *)

Boot ==
  /\ vmi.phase \in {"absent", "stopped"} /\ vmi.uid < MaxUID
  /\ vmi' = [uid |-> vmi.uid + 1, phase |-> "starting"]
  /\ UNCHANGED <<job, agentVars, guestVars, kills>>

Run ==
  /\ vmi.phase = "starting"
  /\ vmi' = [vmi EXCEPT !.phase = "running"]
  /\ UNCHANGED <<job, agentVars, guestVars, kills>>

Stop ==
  /\ vmi.phase = "running"
  /\ vmi' = [vmi EXCEPT !.phase = "stopped"] /\ kubelet' = FALSE
  /\ UNCHANGED <<job, agentVars, prepared, disk, rollout, kills>>

\* The controller creates the Job for the VMI it sees Running; a VMI that has
\* stopped in the meantime is one that stops right afterwards.
CreateJob(u) ==
  /\ job[u] = "absent" /\ Current(u)
  /\ job' = [job EXCEPT ![u] = "running"]
  /\ UNCHANGED <<vmi, agentVars, guestVars, kills>>

\* invalidateCRCReadiness deletes the Job of a VMI that is gone.
DeleteJob(u) ==
  /\ job[u] \in {"running", "complete", "failed"} /\ ~Current(u)
  /\ job' = [job EXCEPT ![u] = "deleting"] /\ tries' = [tries EXCEPT ![u] = 0]
  /\ UNCHANGED <<vmi, raw, pod, guestVars, kills>>

JobGone(u) ==
  /\ job[u] = "deleting"
  /\ job' = [job EXCEPT ![u] = "absent"] /\ pod' = [pod EXCEPT ![u] = NoPod]
  /\ UNCHANGED <<vmi, raw, tries, guestVars, kills>>

-----------------------------------------------------------------------------
(* How a Pod starts and ends.                                              *)

\* main: the pre-flight look at the VMI in monitorCRCVMILifecycle.
StartPod(u) ==
  /\ job[u] = "running" /\ ~Active(u) /\ Current(u)
  /\ pod' = [pod EXCEPT ![u] = [NoPod EXCEPT !.pc = 1]]
  /\ UNCHANGED <<vmi, job, raw, tries, guestVars, kills>>

\* Mutant of PodFailed: no backoff limit.
PodFailedForever(u) ==
  /\ IF job[u] = "running" THEN tries' = [tries EXCEPT ![u] = @ + 1] ELSE UNCHANGED tries
  /\ pod' = [pod EXCEPT ![u] = NoPod]
  /\ UNCHANGED <<vmi, job, raw, guestVars>>

\* Exit 1: the Job starts another Pod until its backoff limit.
PodFailed(u) ==
  /\ \/ /\ job[u] = "running" /\ tries[u] + 1 < MaxTries
        /\ tries' = [tries EXCEPT ![u] = @ + 1] /\ UNCHANGED job
     \/ /\ job[u] = "running" /\ tries[u] + 1 >= MaxTries
        /\ tries' = [tries EXCEPT ![u] = 0] /\ job' = [job EXCEPT ![u] = "failed"]
     \/ job[u] # "running" /\ UNCHANGED <<tries, job>>
  /\ pod' = [pod EXCEPT ![u] = NoPod]
  /\ UNCHANGED <<vmi, raw, guestVars>>

ExitFailure(u) == PodFailed(u) /\ UNCHANGED kills

ExitSuccess(u) ==
  /\ job' = [job EXCEPT ![u] = IF @ = "running" THEN "complete" ELSE @]
  /\ tries' = [tries EXCEPT ![u] = 0] /\ pod' = [pod EXCEPT ![u] = NoPod]
  /\ UNCHANGED <<vmi, raw, guestVars, kills>>

PreflightFails(u) == job[u] = "running" /\ ~Active(u) /\ ~Current(u) /\ ExitFailure(u)

\* The watch notices, sooner or later, that the VMI is not the running one.
WatchCancels(u) ==
  /\ Active(u) /\ ~pod[u].cancelled /\ ~Current(u)
  /\ pod' = [pod EXCEPT ![u].cancelled = TRUE]
  /\ UNCHANGED <<vmi, job, raw, tries, guestVars, kills>>

Killed(u) == Active(u) /\ kills < MaxKills /\ kills' = kills + 1 /\ PodFailed(u)

-----------------------------------------------------------------------------
(* The fix-ups.  Each is a command on the guest at the other end of the    *)
(* SSH connection, or a request through its tunnel.                        *)

Reachable(u) == vmi.phase = "running" /\ (vmi.uid = u \/ ReuseIP)
Connected(u) == vmi.phase = "running" /\ pod[u].guest = vmi.uid
Serving == kubelet /\ rollout # "on"

\* The step has run on VMI g and the Pod goes on.
Done(u, g) ==
  /\ pod' = [pod EXCEPT ![u] = [pc |-> pod[u].pc + 1, guest |-> g, stray |-> pod[u].stray \/ g # u,
                                cancelled |-> pod[u].cancelled]]
  /\ prepared' = IF pod'[u].pc = CheckStep /\ ~pod'[u].stray THEN prepared \cup {u} ELSE prepared
  /\ UNCHANGED <<vmi, job, raw, tries, kills>>

Dial(u, step) == At(u, step) /\ Reachable(u) /\ Done(u, vmi.uid) /\ UNCHANGED <<disk, kubelet, rollout>>

Connect(u) == "bundleKey" \in disk /\ Dial(u, "connect")
Reconnect(u) == Dial(u, "reconnect")

Command(u, step) == At(u, step) /\ Connected(u) /\ Done(u, pod[u].guest)

\* Mutant of PrepareGuest: authorized_keys is overwritten.
PrepareGuestNewKey(u) ==
  /\ Command(u, "prepareGuest")
  /\ disk' = disk \ {"bundleKey"}
  /\ UNCHANGED <<kubelet, rollout>>

\* The root file system, dnsmasq, the guest's DNS, and a key for this Pod, which
\* is appended: the bundle's key stays.  Repeating them is harmless.
PrepareGuest(u) == Command(u, "prepareGuest") /\ UNCHANGED <<disk, kubelet, rollout>>

StartKubelet(u) == Command(u, "kubelet") /\ kubelet' = TRUE /\ UNCHANGED <<disk, rollout>>

\* bootstrapCA: a kubeconfig with clusters, the CA that the API server is to
\* trust in place of the bundle's, and then the certificate on the disk.
Trusted == "newCA" \in disk <=> "newCert" \in disk

PatchCA(u) ==
  /\ Serving /\ Trusted
  /\ Command(u, "patchCA")
  /\ disk' = disk \cup {"newCA"}
  /\ UNCHANGED <<kubelet, rollout>>

WriteKubeconfig(u) ==
  /\ Command(u, "writeKubeconfig")
  /\ disk' = disk \cup {"newCert"}
  /\ UNCHANGED <<kubelet, rollout>>

\* RunClusterFixups.
ClusterFixup(u, step) == Serving /\ Command(u, step) /\ UNCHANGED <<disk, kubelet, rollout>>

WaitForAPIServer(u) == ClusterFixup(u, "waitAPI")

\* CSRs, pull secret and passwords.
PrepareCluster(u) == ClusterFixup(u, "prepareCluster")

\* A new serving certificate makes the API server roll out a revision.
ApplyExternalAPIPatches(u) ==
  /\ Serving
  /\ Command(u, "servingCert")
  /\ disk' = disk \cup {"apiCert"}
  /\ rollout' = IF "apiCert" \in disk THEN rollout ELSE "due"
  /\ UNCHANGED kubelet

\* The operators, then the version.
WaitForClusterOperators(u) == ClusterFixup(u, "waitOperators")

\* The rollout renders the kubeconfig on the disk anew: read until it has clusters.
ReadGuestKubeconfig(u) == ClusterFixup(u, "finalKubeconfig")

RolloutMoves ==
  /\ rollout # "none" /\ kubelet
  /\ rollout' = IF rollout = "due" THEN "on" ELSE "none"
  /\ UNCHANGED <<vmi, job, agentVars, prepared, disk, kubelet, kills>>

\* Requests that are made once; the others poll until they succeed.
Once == {"prepareCluster", "servingCert"}

\* The certificate of the kubeconfig on the disk is not trusted any more and
\* nobody is about to replace it: a Pod or its VMI ended inside bootstrapCA.
LockedOut == ~Trusted /\ \A u \in UIDs : At(u, "writeKubeconfig") => ~Connected(u)

Dialling(u) == At(u, "connect") \/ At(u, "reconnect")

\* An error ends the Pod: the connection is lost, a request met the rollout, or
\* polling ran out.  With the watch cancelled it is a success.
Broken(u) ==
  \/ pod[u].cancelled
  \/ ~Connected(u) /\ ~(Dialling(u) /\ Reachable(u))
  \/ \E step \in Once : At(u, step) /\ ~Serving
  \/ At(u, "connect") /\ "bundleKey" \notin disk
  \/ At(u, "patchCA") /\ LockedOut

\* Mutant of StepFails: every error is put down to the end of the VMI.
StepEnds(u) ==
  /\ pod[u].pc \in 1..Len(Order) /\ Broken(u)
  /\ ExitSuccess(u)

StepFails(u) ==
  /\ pod[u].pc \in 1..Len(Order) /\ Broken(u)
  /\ IF pod[u].cancelled THEN ExitSuccess(u) ELSE ExitFailure(u)

-----------------------------------------------------------------------------
(* The end of main.                                                        *)

\* Mutant of FinalCheck: the watch is trusted to have noticed.
FinalCheckSkipped(u) ==
  /\ pod[u].pc = CheckStep
  /\ pod' = [pod EXCEPT ![u].pc = PublishStep] /\ UNCHANGED <<vmi, job, raw, tries, guestVars, kills>>

FinalCheck(u) ==
  /\ pod[u].pc = CheckStep
  /\ \/ /\ Current(u)
        /\ pod' = [pod EXCEPT ![u].pc = PublishStep] /\ UNCHANGED <<vmi, job, raw, tries, guestVars, kills>>
     \/ ~Current(u) /\ ExitSuccess(u)

\* Mutant of PublishHandoff: the Secret is named after the VMI found running.
PublishHandoffLatest(u) ==
  /\ pod[u].pc = PublishStep
  /\ raw' = raw \cup {vmi.uid} /\ pod' = [pod EXCEPT ![u].pc = ExitStep]
  /\ UNCHANGED <<vmi, job, tries, guestVars, kills>>

\* publishRawKubeconfig creates or updates the Secret of VMI u, unless the
\* watch has been cancelled, which is then an error.
PublishHandoff(u) ==
  /\ pod[u].pc = PublishStep
  /\ \/ /\ ~pod[u].cancelled
        /\ raw' = raw \cup {u} /\ pod' = [pod EXCEPT ![u].pc = ExitStep]
        /\ UNCHANGED <<vmi, job, tries, guestVars, kills>>
     \/ pod[u].cancelled /\ ExitFailure(u)

Finish(u) == pod[u].pc = ExitStep /\ ExitSuccess(u)

GuestFixup(u) ==
  \/ Connect(u) \/ PrepareGuest(u) \/ StartKubelet(u) \/ PatchCA(u) \/ WriteKubeconfig(u)

ClusterFixups(u) ==
  \/ Reconnect(u) \/ WaitForAPIServer(u) \/ PrepareCluster(u) \/ ApplyExternalAPIPatches(u)
  \/ WaitForClusterOperators(u) \/ ReadGuestKubeconfig(u)

Agent(u) ==
  \/ StartPod(u) \/ PreflightFails(u) \/ GuestFixup(u) \/ ClusterFixups(u) \/ StepFails(u)
  \/ FinalCheck(u) \/ PublishHandoff(u) \/ Finish(u)

Machine == Boot \/ Run \/ Stop

Next ==
  \/ Machine \/ RolloutMoves
  \/ \E u \in UIDs : Agent(u) \/ WatchCancels(u) \/ Killed(u) \/ CreateJob(u) \/ DeleteJob(u) \/ JobGone(u)

Spec == Init /\ [][Next]_vars

\* A Job's Pods run, a rollout ends and the watch delivers its events.
FairSpec ==
  /\ Spec
  /\ WF_vars(RolloutMoves)
  /\ \A u \in UIDs : WF_vars(Agent(u)) /\ WF_vars(WatchCancels(u))

-----------------------------------------------------------------------------
\* publishRawKubeconfig hands a VMI over only if every fix-up has run on that
\* very VMI: on a VMI that inherited address and disk the kubelet may never
\* have been started, and its certificates may be another boot's.
HandoffIsComplete == raw \subseteq prepared

\* The exit code tells the Job: it completes without a handoff only if its VMI
\* is no longer the running one, so the controller may wait for the Secret.
CompletionMeansHandoff == \A u \in UIDs : job[u] = "complete" => u \in raw \/ ~Current(u)

\* A Job whose VMI keeps running hands it over, although a Pod is killed and
\* retried and the API server rolls out: no earlier attempt leaves a guest that
\* a later one cannot log in to or cannot finish, except inside bootstrapCA.
HandoffArrives ==
  <>[](vmi.phase = "running" /\ job[vmi.uid] # "absent") => []<>(vmi.uid \in raw \/ LockedOut)

Contract == INSTANCE CRCHandoff

\* The agent keeps the contract that the controller relies on.
KeepsContract == Contract!ContractSpec
=============================================================================
