--------------------------- MODULE CRCAgentProofs ---------------------------
(***************************************************************************)
(* The crc-agent keeps its contract with the controller for any number of  *)
(* boots, retries and kills, whether or not a VMI inherits the address of  *)
(* the one before.  The argument: a Pod whose VMI is still the running one *)
(* has never talked to another guest, since VMIs do not come back; so the  *)
(* last look at the VMI vouches for every step before it.                  *)
(***************************************************************************)
EXTENDS CRCAgent, TLAPS

\* A Job exists only for a VMI that has run, and a Pod only while its Job is
\* running or being deleted.
Born(u) == vmi.uid > u \/ (vmi.uid = u /\ vmi.phase \in {"running", "stopped"})

JobsBorn == \A u \in UIDs : (job[u] # "absent" => Born(u)) /\ (Active(u) => job[u] \in {"running", "deleting"})

\* A Pod of the running VMI has done nothing elsewhere, and only the end of the
\* VMI cancels it.
StaysHome ==
  \A u \in UIDs : Active(u) /\ Current(u) =>
    pod[u].guest \in {0, u} /\ ~pod[u].stray /\ ~pod[u].cancelled

\* What a Pod's progress says about its VMI.
Progress ==
  \A u \in UIDs :
    /\ pod[u].pc >= CheckStep /\ ~pod[u].stray => u \in prepared
    /\ pod[u].pc >= PublishStep => u \in prepared
    /\ pod[u].pc = ExitStep => u \in raw

AgentInv == TypeOK /\ JobsBorn /\ StaysHome /\ Progress /\ HandoffIsComplete /\ CompletionMeansHandoff

-----------------------------------------------------------------------------
(* The fix-ups and exits, by what they do to Jobs, Pods and handoffs.      *)

\* A fix-up reaches the running VMI, whichever that is.
Advance(u) == pod[u].pc \in 1..11 /\ vmi.phase = "running" /\ Done(u, vmi.uid)

\* A Pod ends well: its VMI is gone, or the kubeconfig is published.
EndsWell(u) ==
  /\ Active(u) /\ ExitSuccess(u)
  /\ pod[u].cancelled \/ ~Current(u) \/ pod[u].pc = ExitStep

EndsBadly(u) == (Active(u) \/ job[u] = "running") /\ PodFailed(u)

PassesCheck(u) ==
  /\ pod[u].pc = CheckStep /\ Current(u)
  /\ pod' = [pod EXCEPT ![u].pc = PublishStep]
  /\ UNCHANGED <<vmi, job, raw, tries, guestVars, kills>>

Publishes(u) ==
  /\ pod[u].pc = PublishStep
  /\ raw' = raw \cup {u} /\ pod' = [pod EXCEPT ![u].pc = ExitStep]
  /\ UNCHANGED <<vmi, job, tries, guestVars, kills>>

AgentKind(u) == Advance(u) \/ EndsWell(u) \/ EndsBadly(u) \/ PassesCheck(u) \/ Publishes(u)

JobKind(u) == CreateJob(u) \/ DeleteJob(u) \/ JobGone(u) \/ StartPod(u) \/ WatchCancels(u)

\* Every fix-up is an Advance.
LEMMA FixupsAdvance ==
  ASSUME NEW u \in UIDs, GuestFixup(u) \/ ClusterFixups(u)
  PROVE  Advance(u)
<1>0. Len(Order) = 11
  BY DEF Order
<1>1. ASSUME NEW step, Dial(u, step)
      PROVE  Advance(u)
  BY <1>0, <1>1 DEF Dial, At, Reachable, Advance
<1>2. ASSUME NEW step, Command(u, step)
      PROVE  Advance(u)
  <2>1. Done(u, pod[u].guest) /\ pod[u].guest = vmi.uid
    BY <1>2 DEF Command, Connected
  <2>2. Done(u, vmi.uid)
    BY <2>1
  <2>q. QED
    BY <1>0, <1>2, <2>2 DEF Command, At, Connected, Advance
<1>3. (\E step : Dial(u, step)) \/ (\E step : Command(u, step))
  BY DEF GuestFixup, ClusterFixups, Connect, Reconnect, PrepareGuest, StartKubelet, PatchCA, WriteKubeconfig,
         WaitForAPIServer, PrepareCluster, ApplyExternalAPIPatches, WaitForClusterOperators, ReadGuestKubeconfig,
         ClusterFixup
<1>q. QED
  BY <1>1, <1>2, <1>3

\* Every step is of one of the kinds.
LEMMA StepKinds ==
  ASSUME Next
  PROVE  Machine \/ RolloutMoves \/ \E u \in UIDs : JobKind(u) \/ AgentKind(u)
<1> USE DEF JobKind, AgentKind
<1>0. Len(Order) = 11
  BY DEF Order
<1>1. ASSUME NEW u \in UIDs, Agent(u) \/ Killed(u)
      PROVE  JobKind(u) \/ AgentKind(u)
  <2>1. CASE StartPod(u)
    BY <2>1
  <2>2. CASE PreflightFails(u) \/ Killed(u)
    BY <2>2 DEF PreflightFails, Killed, ExitFailure, EndsBadly
  <2>3. CASE GuestFixup(u) \/ ClusterFixups(u)
    BY <2>3, FixupsAdvance
  <2>4. CASE StepFails(u)
    BY <1>0, <2>4 DEF StepFails, ExitFailure, EndsBadly, EndsWell, Active
  <2>5. CASE FinalCheck(u)
    BY <1>0, <2>5 DEF FinalCheck, PassesCheck, EndsWell, Active, CheckStep
  <2>6. CASE PublishHandoff(u)
    BY <1>0, <2>6 DEF PublishHandoff, Publishes, ExitFailure, EndsBadly, Active, PublishStep
  <2>7. CASE Finish(u)
    BY <1>0, <2>7 DEF Finish, EndsWell, Active, ExitStep
  <2>q. QED
    BY <1>1, <2>1, <2>2, <2>3, <2>4, <2>5, <2>6, <2>7 DEF Agent
<1>q. QED
  BY <1>1 DEF Next
-----------------------------------------------------------------------------
\* The numbers of the steps.
LEMMA Steps == Len(Order) = 11 /\ CheckStep = 12 /\ PublishStep = 13 /\ ExitStep = 14
BY DEF Order, CheckStep, PublishStep, ExitStep

\* The updates of a Pod give a Pod.
LEMMA PodUpdates ==
  ASSUME TypeOK, NEW u \in UIDs
  PROVE  /\ NoPod \in Pods
         /\ [NoPod EXCEPT !.pc = 1] \in Pods
         /\ \A n \in 0..ExitStep : [pod[u] EXCEPT !.pc = n] \in Pods
         /\ [pod[u] EXCEPT !.cancelled = TRUE] \in Pods
         /\ pod[u].pc \in 1..11 => [pc |-> pod[u].pc + 1, guest |-> vmi.uid, stray |-> pod[u].stray \/ vmi.uid # u,
             cancelled |-> pod[u].cancelled] \in Pods
         /\ \A r : r \in Pods => [pod EXCEPT ![u] = r] \in [UIDs -> Pods]
         /\ [pod EXCEPT ![u].cancelled = TRUE] \in [UIDs -> Pods]
         /\ \A n \in 0..ExitStep : [pod EXCEPT ![u].pc = n] \in [UIDs -> Pods]
<1> USE AgentAssumption, Steps
<1>1. pod[u] \in Pods
  BY DEF TypeOK
<1>2. 0 \in 0..ExitStep /\ 1 \in 0..ExitStep /\ 0 \in 0..MaxUID
  OBVIOUS
<1>8. NoPod \in Pods
  BY <1>2 DEF NoPod, Pods
<1>3. [NoPod EXCEPT !.pc = 1] \in Pods
  BY <1>2, <1>8 DEF Pods
<1>4. \A n \in 0..ExitStep : [pod[u] EXCEPT !.pc = n] \in Pods
  BY <1>1 DEF Pods
<1>5. [pod[u] EXCEPT !.cancelled = TRUE] \in Pods
  BY <1>1 DEF Pods
<1>6. \A r : r \in Pods => [pod EXCEPT ![u] = r] \in [UIDs -> Pods]
  BY DEF TypeOK
<1>7. ASSUME pod[u].pc \in 1..11
      PROVE  [pc |-> pod[u].pc + 1, guest |-> vmi.uid, stray |-> pod[u].stray \/ vmi.uid # u,
             cancelled |-> pod[u].cancelled] \in Pods
  <2>1. vmi.uid \in 0..MaxUID /\ pod[u].pc + 1 \in 0..ExitStep
    BY <1>7 DEF TypeOK
  <2>q. QED
    BY <1>1, <2>1 DEF Pods
<1>9. [pod EXCEPT ![u].cancelled = TRUE] \in [UIDs -> Pods]
  BY <1>5, <1>6
<1>10. \A n \in 0..ExitStep : [pod EXCEPT ![u].pc = n] \in [UIDs -> Pods]
  BY <1>4, <1>6
<1>q. QED
  BY <1>3, <1>4, <1>5, <1>6, <1>7, <1>8, <1>9, <1>10
-----------------------------------------------------------------------------
(* Types.  The variables of the guest, whose values no other property      *)
(* depends on, are kept apart.                                             *)

GuestTypeOK ==
  /\ disk \subseteq {"bundleKey", "newCA", "newCert", "apiCert"}
  /\ kubelet \in BOOLEAN /\ rollout \in {"none", "due", "on"} /\ kills \in 0..MaxKills

JobTypeOK ==
  /\ vmi \in [uid : 0..MaxUID, phase : {"absent", "starting", "running", "stopped"}]
  /\ job \in [UIDs -> {"absent", "running", "complete", "failed", "deleting"}]
  /\ raw \subseteq UIDs /\ prepared \subseteq UIDs
  /\ tries \in [UIDs -> 0..(MaxTries - 1)]

\* The two parts and the Pods make up the type.
LEMMA TypeParts == TypeOK <=> JobTypeOK /\ GuestTypeOK /\ pod \in [UIDs -> Pods]
BY DEF TypeOK, JobTypeOK, GuestTypeOK

\* No step takes the guest out of its type.
LEMMA GuestTypes ==
  ASSUME GuestTypeOK, Next
  PROVE  GuestTypeOK'
<1> USE AgentAssumption
<1>2. CASE Machine \/ RolloutMoves
  BY <1>2 DEF Machine, Boot, Run, Stop, RolloutMoves, agentVars, guestVars, GuestTypeOK
<1>3. ASSUME NEW u \in UIDs, CreateJob(u) \/ DeleteJob(u) \/ JobGone(u) \/ WatchCancels(u) \/ StartPod(u)
      PROVE  GuestTypeOK'
  BY <1>3 DEF CreateJob, DeleteJob, JobGone, StartPod, WatchCancels, agentVars, guestVars, GuestTypeOK
<1>4. ASSUME NEW u \in UIDs, Killed(u)
      PROVE  GuestTypeOK'
  BY <1>4 DEF Killed, PodFailed, guestVars, GuestTypeOK
<1>5. ASSUME NEW u \in UIDs, PreflightFails(u) \/ StepFails(u) \/ FinalCheck(u) \/ PublishHandoff(u) \/ Finish(u)
      PROVE  GuestTypeOK'
  BY <1>5 DEF PreflightFails, StepFails, FinalCheck, PublishHandoff, Finish, ExitFailure, ExitSuccess, PodFailed,
              guestVars, GuestTypeOK
<1>6. ASSUME NEW u \in UIDs, GuestFixup(u) \/ ClusterFixups(u)
      PROVE  GuestTypeOK'
  BY <1>6 DEF GuestFixup, ClusterFixups, Connect, Reconnect, PrepareGuest, StartKubelet, PatchCA, WriteKubeconfig,
              WaitForAPIServer, PrepareCluster, ApplyExternalAPIPatches, WaitForClusterOperators, ReadGuestKubeconfig,
              ClusterFixup, Dial, Command, Done, GuestTypeOK
<1>q. QED
  BY <1>2, <1>3, <1>4, <1>5, <1>6 DEF Next, Agent

\* Nor the Pods and Jobs.
LEMMA JobTypes ==
  ASSUME TypeOK, Next
  PROVE  JobTypeOK' /\ pod' \in [UIDs -> Pods]
<1> USE AgentAssumption, Steps
<1>0. JobTypeOK /\ pod \in [UIDs -> Pods]
  BY TypeParts
<1>1. CASE Machine \/ RolloutMoves
  BY <1>0, <1>1 DEF Machine, Boot, Run, Stop, RolloutMoves, agentVars, guestVars, JobTypeOK
<1>2. ASSUME NEW u \in UIDs, JobKind(u)
      PROVE  JobTypeOK' /\ pod' \in [UIDs -> Pods]
  <2>1. pod' \in [UIDs -> Pods]
    <3>1. CASE CreateJob(u) \/ DeleteJob(u)
      BY <1>0, <3>1 DEF CreateJob, DeleteJob, agentVars
    <3>2. CASE JobGone(u) \/ StartPod(u)
      <4>1. [pod EXCEPT ![u] = NoPod] \in [UIDs -> Pods] /\ [pod EXCEPT ![u] = [NoPod EXCEPT !.pc = 1]] \in [UIDs -> Pods]
        BY PodUpdates, ZenonT(60)
      <4>q. QED
        BY <3>2, <4>1 DEF JobGone, StartPod
    <3>3. CASE WatchCancels(u)
      BY <3>3, PodUpdates, Zenon DEF WatchCancels
    <3>q. QED
      BY <1>2, <3>1, <3>2, <3>3 DEF JobKind
  <2>2. JobTypeOK'
    BY <1>0, <1>2 DEF JobKind, CreateJob, DeleteJob, JobGone, StartPod, WatchCancels, agentVars, guestVars, JobTypeOK
  <2>q. QED
    BY <2>1, <2>2
<1>3. ASSUME NEW u \in UIDs, AgentKind(u)
      PROVE  JobTypeOK' /\ pod' \in [UIDs -> Pods]
  <2>1. CASE Advance(u)
    <3>1. pod' \in [UIDs -> Pods]
      BY <2>1, PodUpdates DEF Advance, Done
    <3>2. JobTypeOK'
      BY <1>0, <2>1 DEF Advance, Done, JobTypeOK, UIDs
    <3>q. QED
      BY <3>1, <3>2
  <2>2. CASE EndsWell(u)
    <3>1. pod' \in [UIDs -> Pods]
      BY <2>2, PodUpdates DEF EndsWell, ExitSuccess
    <3>2. JobTypeOK'
      BY <1>0, <2>2 DEF EndsWell, ExitSuccess, guestVars, JobTypeOK
    <3>q. QED
      BY <3>1, <3>2
  <2>3. CASE EndsBadly(u)
    <3>1. pod' \in [UIDs -> Pods]
      BY <2>3, PodUpdates DEF EndsBadly, PodFailed
    <3>2. JobTypeOK'
      BY <1>0, <2>3 DEF EndsBadly, PodFailed, guestVars, JobTypeOK
    <3>q. QED
      BY <3>1, <3>2
  <2>4. CASE PassesCheck(u) \/ Publishes(u)
    <3>1. pod' \in [UIDs -> Pods]
      <4>1. PublishStep \in 0..ExitStep /\ ExitStep \in 0..ExitStep
        OBVIOUS
      <4>0. [pod EXCEPT ![u].pc = PublishStep] \in [UIDs -> Pods]
        BY <4>1, PodUpdates
      <4>2. CASE PassesCheck(u)
        BY <4>0, <4>2 DEF PassesCheck
      <4>3. CASE Publishes(u)
        BY <4>1, <4>3, PodUpdates, Zenon DEF Publishes
      <4>q. QED
        BY <2>4, <4>2, <4>3
    <3>2. JobTypeOK'
      BY <1>0, <2>4 DEF PassesCheck, Publishes, guestVars, JobTypeOK
    <3>q. QED
      BY <3>1, <3>2
  <2>q. QED
    BY <1>3, <2>1, <2>2, <2>3, <2>4 DEF AgentKind
<1>q. QED
  BY <1>1, <1>2, <1>3, StepKinds

\* Every reachable state of the agents has its type.
THEOREM AgentTypeCorrect == Spec => []TypeOK
<1> USE AgentAssumption, Steps
<1>1. Init => TypeOK
  <2> SUFFICES ASSUME Init PROVE TypeOK
    OBVIOUS
  <2>1. NoPod \in Pods
    <3>1. 0 \in 0..ExitStep /\ 0 \in 0..MaxUID
      OBVIOUS
    <3>q. QED
      BY <3>1 DEF NoPod, Pods
  <2>2. pod \in [UIDs -> Pods]
    BY <2>1 DEF Init
  <2>3. JobTypeOK
    BY DEF Init, JobTypeOK
  <2>4. GuestTypeOK
    <3>1. kubelet \in BOOLEAN
      BY Zenon DEF Init
    <3>q. QED
      BY <3>1 DEF Init, GuestTypeOK
  <2>q. QED
    BY <2>2, <2>3, <2>4, TypeParts
<1>2. TypeOK /\ [Next]_vars => TypeOK'
  <2> SUFFICES ASSUME TypeOK, [Next]_vars PROVE TypeOK'
    OBVIOUS
  <2>1. CASE UNCHANGED vars
    BY <2>1 DEF vars, TypeOK, Pods, UIDs
  <2>2. CASE Next
    BY <2>2, TypeParts, GuestTypes, JobTypes DEF TypeOK, JobTypeOK, GuestTypeOK
  <2>q. QED
    BY <2>1, <2>2
<1>q. QED
  BY <1>1, <1>2, PTL DEF Spec

-----------------------------------------------------------------------------
(* The inductive invariant.                                                *)

\* What each kind of step does to the Pods, field by field.
LEMMA PodValues ==
  ASSUME TypeOK, NEW u \in UIDs, NEW v \in UIDs
  PROVE  /\ Advance(u) => /\ pod'[u].pc = pod[u].pc + 1 /\ pod'[u].guest = vmi.uid
                          /\ pod'[u].stray <=> (pod[u].stray \/ vmi.uid # u)
                          /\ pod'[u].cancelled <=> pod[u].cancelled
                          /\ v # u => pod'[v] = pod[v]
         /\ EndsWell(u) \/ EndsBadly(u) \/ JobGone(u) =>
              pod'[u].pc = 0 /\ (v # u => pod'[v] = pod[v])
         /\ StartPod(u) => /\ pod'[u].pc = 1 /\ pod'[u].guest = 0 /\ ~pod'[u].stray /\ ~pod'[u].cancelled
                           /\ v # u => pod'[v] = pod[v]
         /\ PassesCheck(u) => /\ pod'[u].pc = PublishStep /\ pod'[u].guest = pod[u].guest
                              /\ pod'[u].stray <=> pod[u].stray
                              /\ pod'[u].cancelled <=> pod[u].cancelled
                              /\ v # u => pod'[v] = pod[v]
         /\ Publishes(u) => /\ pod'[u].pc = ExitStep /\ pod'[u].guest = pod[u].guest
                            /\ pod'[u].stray <=> pod[u].stray
                            /\ pod'[u].cancelled <=> pod[u].cancelled
                            /\ v # u => pod'[v] = pod[v]
         /\ WatchCancels(u) => /\ pod'[u].pc = pod[u].pc /\ pod'[u].guest = pod[u].guest
                               /\ pod'[u].stray <=> pod[u].stray
                               /\ v # u => pod'[v] = pod[v]
<1> USE Steps
<1>0. pod \in [UIDs -> Pods] /\ pod[u] \in Pods
  BY DEF TypeOK
<1>1. ASSUME Advance(u)
      PROVE  /\ pod'[u].pc = pod[u].pc + 1 /\ pod'[u].guest = vmi.uid
             /\ pod'[u].stray <=> (pod[u].stray \/ vmi.uid # u)
             /\ pod'[u].cancelled <=> pod[u].cancelled
             /\ v # u => pod'[v] = pod[v]
  BY <1>0, <1>1 DEF Advance, Done, Pods
<1>2. ASSUME EndsWell(u) \/ EndsBadly(u) \/ JobGone(u)
      PROVE  pod'[u].pc = 0 /\ (v # u => pod'[v] = pod[v])
  BY <1>0, <1>2 DEF EndsWell, EndsBadly, JobGone, ExitSuccess, PodFailed, NoPod
<1>3. ASSUME StartPod(u)
      PROVE  /\ pod'[u].pc = 1 /\ pod'[u].guest = 0 /\ ~pod'[u].stray /\ ~pod'[u].cancelled
             /\ v # u => pod'[v] = pod[v]
  BY <1>0, <1>3 DEF StartPod, NoPod
<1>4. ASSUME PassesCheck(u)
      PROVE  /\ pod'[u].pc = PublishStep /\ pod'[u].guest = pod[u].guest
             /\ pod'[u].stray <=> pod[u].stray
             /\ pod'[u].cancelled <=> pod[u].cancelled
             /\ v # u => pod'[v] = pod[v]
  BY <1>0, <1>4 DEF PassesCheck, Pods
<1>5. ASSUME Publishes(u)
      PROVE  /\ pod'[u].pc = ExitStep /\ pod'[u].guest = pod[u].guest
             /\ pod'[u].stray <=> pod[u].stray
             /\ pod'[u].cancelled <=> pod[u].cancelled
             /\ v # u => pod'[v] = pod[v]
  BY <1>0, <1>5 DEF Publishes, Pods
<1>6. ASSUME WatchCancels(u)
      PROVE  /\ pod'[u].pc = pod[u].pc /\ pod'[u].guest = pod[u].guest
             /\ pod'[u].stray <=> pod[u].stray
             /\ v # u => pod'[v] = pod[v]
  BY <1>0, <1>6 DEF WatchCancels, Pods
<1>q. QED
  BY <1>1, <1>2, <1>3, <1>4, <1>5, <1>6

\* A VMI that was born stays so, and one that is not the running one any more
\* does not become it again.
LEMMA VMIsDoNotComeBack ==
  ASSUME TypeOK, Next, NEW u \in UIDs, Born(u)
  PROVE  Born(u)' /\ (Current(u)' => Current(u))
<1>0. vmi \in [uid : 0..MaxUID, phase : {"absent", "starting", "running", "stopped"}] /\ MaxUID \in Nat /\ u \in Nat
  BY AgentAssumption DEF TypeOK, UIDs
<1>1. CASE Machine
  BY <1>0, <1>1 DEF Machine, Boot, Run, Stop, Born, Current
<1>2. CASE vmi' = vmi
  BY <1>2 DEF Born, Current
<1>3. RolloutMoves => vmi' = vmi
  BY DEF RolloutMoves
<1>4. ASSUME NEW v \in UIDs, JobKind(v) \/ AgentKind(v)
      PROVE  vmi' = vmi
  BY <1>4 DEF JobKind, CreateJob, DeleteJob, JobGone, StartPod, WatchCancels, AgentKind, Advance, Done, EndsWell,
              ExitSuccess, EndsBadly, PodFailed, PassesCheck, Publishes
<1>q. QED
  BY <1>1, <1>2, <1>3, <1>4, StepKinds

\* JobsBorn is inductive.
LEMMA JobsBornKept ==
  ASSUME TypeOK, JobsBorn, Next
  PROVE  JobsBorn'
<1>0. job \in [UIDs -> {"absent", "running", "complete", "failed", "deleting"}]
  BY DEF TypeOK
<1> SUFFICES ASSUME NEW v \in UIDs
             PROVE  (job'[v] # "absent" => Born(v)') /\ (pod'[v].pc # 0 => job'[v] \in {"running", "deleting"})
  BY DEF JobsBorn, Active
<1>1. CASE Machine \/ RolloutMoves
  <2>1. UNCHANGED <<job, pod>>
    BY <1>1 DEF Machine, Boot, Run, Stop, RolloutMoves, agentVars
  <2>q. QED
    BY <2>1, VMIsDoNotComeBack DEF JobsBorn, Active
<1>2. ASSUME NEW u \in UIDs, JobKind(u)
      PROVE  (job'[v] # "absent" => Born(v)') /\ (pod'[v].pc # 0 => job'[v] \in {"running", "deleting"})
  <2>1. CASE CreateJob(u)
    BY <1>0, <2>1, VMIsDoNotComeBack DEF CreateJob, agentVars, Current, Born, JobsBorn, Active
  <2>2. CASE DeleteJob(u)
    BY <1>0, <2>2, VMIsDoNotComeBack DEF DeleteJob, JobsBorn, Active
  <2>3. CASE JobGone(u)
    <3>1. pod'[u].pc = 0 /\ (v # u => pod'[v] = pod[v])
      BY <2>3, PodValues
    <3>q. QED
      BY <1>0, <2>3, <3>1, VMIsDoNotComeBack DEF JobGone, JobsBorn, Active
  <2>4. CASE StartPod(u)
    BY <1>0, <2>4, VMIsDoNotComeBack, PodValues DEF StartPod, JobsBorn, Active
  <2>5. CASE WatchCancels(u)
    BY <1>0, <2>5, VMIsDoNotComeBack, PodValues DEF WatchCancels, JobsBorn, Active
  <2>q. QED
    BY <1>2, <2>1, <2>2, <2>3, <2>4, <2>5 DEF JobKind
<1>3. ASSUME NEW u \in UIDs, AgentKind(u)
      PROVE  (job'[v] # "absent" => Born(v)') /\ (pod'[v].pc # 0 => job'[v] \in {"running", "deleting"})
  <2>1. CASE Advance(u)
    BY <1>0, <2>1, VMIsDoNotComeBack, PodValues DEF Advance, Done, JobsBorn, Active
  <2>2. CASE EndsWell(u)
    <3>1. pod'[u].pc = 0 /\ (v # u => pod'[v] = pod[v])
      BY <2>2, PodValues
    <3>q. QED
      BY <1>0, <2>2, <3>1, VMIsDoNotComeBack DEF EndsWell, ExitSuccess, JobsBorn, Active
  <2>3. CASE EndsBadly(u)
    <3>1. pod'[u].pc = 0 /\ (v # u => pod'[v] = pod[v])
      BY <2>3, PodValues
    <3>q. QED
      BY <1>0, <2>3, <3>1, VMIsDoNotComeBack DEF EndsBadly, PodFailed, JobsBorn, Active
  <2>4. CASE PassesCheck(u) \/ Publishes(u)
    BY <1>0, <2>4, VMIsDoNotComeBack, PodValues, Steps DEF PassesCheck, Publishes, JobsBorn, Active
  <2>q. QED
    BY <1>3, <2>1, <2>2, <2>3, <2>4 DEF AgentKind
<1>q. QED
  BY <1>1, <1>2, <1>3, StepKinds

\* StaysHome is inductive.
LEMMA StaysHomeKept ==
  ASSUME TypeOK, JobsBorn, StaysHome, Next
  PROVE  StaysHome'
<1> SUFFICES ASSUME NEW v \in UIDs, pod'[v].pc # 0, Current(v)'
             PROVE  pod'[v].guest \in {0, v} /\ ~pod'[v].stray /\ ~pod'[v].cancelled
  BY DEF StaysHome, Active
<1>1. CASE pod'[v] = pod[v]
  <2>1. Active(v) /\ Born(v)
    BY <1>1 DEF Active, JobsBorn
  <2>2. Current(v)
    BY <2>1, VMIsDoNotComeBack
  <2>q. QED
    BY <1>1, <2>1, <2>2 DEF StaysHome
<1>2. CASE Machine \/ RolloutMoves
  BY <1>1, <1>2 DEF Machine, Boot, Run, Stop, RolloutMoves, agentVars
<1>3. ASSUME NEW u \in UIDs, JobKind(u)
      PROVE  pod'[v].guest \in {0, v} /\ ~pod'[v].stray /\ ~pod'[v].cancelled
  <2>1. CASE CreateJob(u) \/ DeleteJob(u)
    BY <1>1, <2>1 DEF CreateJob, DeleteJob, agentVars
  <2>2. CASE JobGone(u) \/ StartPod(u)
    BY <1>1, <2>2, PodValues
  <2>3. CASE WatchCancels(u)
    <3>1. u = v => ~Current(v) /\ Current(v)' = Current(v)
      BY <2>3 DEF WatchCancels, Current
    <3>q. QED
      BY <1>1, <2>3, <3>1, PodValues
  <2>q. QED
    BY <1>3, <2>1, <2>2, <2>3 DEF JobKind
<1>4. ASSUME NEW u \in UIDs, AgentKind(u)
      PROVE  pod'[v].guest \in {0, v} /\ ~pod'[v].stray /\ ~pod'[v].cancelled
  <2>1. CASE EndsWell(u) \/ EndsBadly(u)
    BY <1>1, <2>1, PodValues
  <2>2. CASE (Advance(u) \/ PassesCheck(u) \/ Publishes(u)) /\ u # v
    BY <1>1, <2>2, PodValues
  <2>3. CASE (Advance(u) \/ PassesCheck(u) \/ Publishes(u)) /\ u = v
    <3>1. Current(v) /\ vmi.uid = v
      BY <2>3 DEF Advance, Done, PassesCheck, Publishes, Current
    <3>2. Active(v)
      BY <2>3, Steps DEF Advance, PassesCheck, Publishes, Active
    <3>3. pod[v].guest \in {0, v} /\ ~pod[v].stray /\ ~pod[v].cancelled
      BY <3>1, <3>2 DEF StaysHome
    <3>q. QED
      BY <2>3, <3>1, <3>3, PodValues
  <2>q. QED
    BY <1>4, <2>1, <2>2, <2>3 DEF AgentKind
<1>q. QED
  BY <1>2, <1>3, <1>4, StepKinds

\* Nothing is taken back, and what is added is named by the step.
LEMMA Additions ==
  ASSUME TypeOK, Next
  PROVE  prepared \subseteq prepared' /\ raw \subseteq raw'
<1>1. RolloutMoves \/ Machine => prepared' = prepared /\ raw' = raw
  BY DEF RolloutMoves, Machine, Boot, Run, Stop, agentVars, guestVars
<1>2. ASSUME NEW u \in UIDs, JobKind(u)
      PROVE  prepared' = prepared /\ raw' = raw
  BY <1>2 DEF JobKind, CreateJob, DeleteJob, JobGone, StartPod, WatchCancels, agentVars, guestVars
<1>3. ASSUME NEW u \in UIDs, AgentKind(u)
      PROVE  prepared \subseteq prepared' /\ raw \subseteq raw'
  BY <1>3 DEF AgentKind, Advance, Done, EndsWell, ExitSuccess, EndsBadly, PodFailed, PassesCheck, Publishes, guestVars
<1>q. QED
  BY <1>1, <1>2, <1>3, StepKinds

\* Progress is inductive.
LEMMA ProgressKept ==
  ASSUME TypeOK, StaysHome, Progress, Next
  PROVE  Progress'
<1> USE Steps
<1> DEFINE Says(v) == /\ pod'[v].pc >= 12 /\ ~pod'[v].stray => v \in prepared'
                      /\ pod'[v].pc >= 13 => v \in prepared'
                      /\ pod'[v].pc = 14 => v \in raw'
<1> SUFFICES ASSUME NEW v \in UIDs PROVE Says(v)
  BY DEF Progress
<1>1. CASE pod'[v] = pod[v]
  BY <1>1, Additions DEF Progress
<1>2. CASE Machine \/ RolloutMoves
  BY <1>1, <1>2 DEF Machine, Boot, Run, Stop, RolloutMoves, agentVars
<1>3. ASSUME NEW u \in UIDs, JobKind(u)
      PROVE  Says(v)
  <2>1. CASE CreateJob(u) \/ DeleteJob(u)
    BY <1>1, <2>1 DEF CreateJob, DeleteJob, agentVars
  <2>2. CASE JobGone(u) \/ StartPod(u)
    BY <1>1, <2>2, PodValues
  <2>3. CASE WatchCancels(u)
    BY <1>1, <2>3, PodValues, Additions DEF Progress
  <2>q. QED
    BY <1>3, <2>1, <2>2, <2>3 DEF JobKind
<1>4. ASSUME NEW u \in UIDs, AgentKind(u)
      PROVE  Says(v)
  <2>1. CASE EndsWell(u) \/ EndsBadly(u)
    <3>1. pod'[u].pc = 0 /\ (v # u => pod'[v] = pod[v])
      BY <2>1, PodValues
    <3>q. QED
      BY <1>1, <3>1
  <2>2. CASE (Advance(u) \/ PassesCheck(u) \/ Publishes(u)) /\ u # v
    BY <1>1, <2>2, PodValues, SMTT(30)
  <2>3. CASE Advance(v) /\ u = v
    <3>1. pod'[v].pc = pod[v].pc + 1 /\ pod[v].pc \in 1..11
      BY <2>3, PodValues DEF Advance
    <3>2. pod'[v].pc = 12 /\ ~pod'[v].stray => v \in prepared'
      BY <2>3 DEF Advance, Done
    <3>q. QED
      BY <3>1, <3>2
  <2>4. CASE PassesCheck(v) /\ u = v
    <3>0. pod'[v].pc = 13
      BY <2>4, PodValues
    <3>1. pod[v].pc = 12 /\ Current(v) /\ Active(v)
      BY <2>4 DEF PassesCheck, Active
    <3>2. v \in prepared
      BY <3>1 DEF StaysHome, Progress
    <3>q. QED
      BY <3>0, <3>2, Additions
  <2>5. CASE Publishes(v) /\ u = v
    <3>1. pod'[v].pc = 14 /\ pod[v].pc = 13 /\ v \in raw'
      BY <2>5, PodValues DEF Publishes
    <3>q. QED
      BY <3>1, Additions DEF Progress
  <2>q. QED
    BY <1>4, <2>1, <2>2, <2>3, <2>4, <2>5 DEF AgentKind
<1>q. QED
  BY <1>2, <1>3, <1>4, StepKinds

\* What a step adds to the handoffs was prepared before it.
LEMMA HandoffKept ==
  ASSUME TypeOK, Progress, HandoffIsComplete, Next
  PROVE  HandoffIsComplete'
<1> USE Steps
<1>0. raw' = raw \/ \E u \in UIDs : Publishes(u)
  <2>1. RolloutMoves \/ Machine => raw' = raw
    BY DEF RolloutMoves, Machine, Boot, Run, Stop, agentVars
  <2>2. ASSUME NEW u \in UIDs, JobKind(u)
        PROVE  raw' = raw
    BY <2>2 DEF JobKind, CreateJob, DeleteJob, JobGone, StartPod, WatchCancels, agentVars
  <2>3. ASSUME NEW u \in UIDs, AgentKind(u), ~Publishes(u)
        PROVE  raw' = raw
    BY <2>3 DEF AgentKind, Advance, Done, EndsWell, ExitSuccess, EndsBadly, PodFailed, PassesCheck
  <2>q. QED
    BY <2>1, <2>2, <2>3, StepKinds
<1>1. ASSUME NEW u \in UIDs, Publishes(u)
      PROVE  raw' = raw \cup {u} /\ u \in prepared
  BY <1>1 DEF Publishes, Progress
<1>q. QED
  BY <1>0, <1>1, Additions DEF HandoffIsComplete

\* A Job completes by the exit of a Pod whose VMI is gone or handed over, and
\* neither is undone.
LEMMA CompletionKept ==
  ASSUME TypeOK, JobsBorn, StaysHome, Progress, CompletionMeansHandoff, Next
  PROVE  CompletionMeansHandoff'
<1>0. job \in [UIDs -> {"absent", "running", "complete", "failed", "deleting"}]
  BY DEF TypeOK
<1> SUFFICES ASSUME NEW v \in UIDs, job'[v] = "complete", Current(v)'
             PROVE  v \in raw'
  BY DEF CompletionMeansHandoff
<1>1. CASE job'[v] = job[v]
  <2>1. Born(v)
    BY <1>1 DEF JobsBorn
  <2>q. QED
    BY <1>1, <2>1, VMIsDoNotComeBack, Additions DEF CompletionMeansHandoff
<1>2. CASE Machine \/ RolloutMoves
  BY <1>1, <1>2 DEF Machine, Boot, Run, Stop, RolloutMoves
<1>3. ASSUME NEW u \in UIDs, JobKind(u)
      PROVE  v \in raw'
  BY <1>0, <1>1, <1>3 DEF JobKind, CreateJob, DeleteJob, JobGone, StartPod, WatchCancels
<1>4. ASSUME NEW u \in UIDs, AgentKind(u)
      PROVE  v \in raw'
  <2>1. CASE Advance(u) \/ PassesCheck(u) \/ Publishes(u)
    BY <1>1, <2>1 DEF Advance, Done, PassesCheck, Publishes
  <2>2. CASE EndsBadly(u)
    BY <1>0, <1>1, <2>2 DEF EndsBadly, PodFailed
  <2>3. CASE EndsWell(u)
    <3>1. CASE u # v
      BY <1>0, <1>1, <2>3, <3>1 DEF EndsWell, ExitSuccess
    <3>2. CASE u = v
      <4>1. Active(v) /\ Current(v)
        BY <2>3, <3>2 DEF EndsWell, ExitSuccess, Current
      <4>2. ~pod[v].cancelled
        BY <4>1 DEF StaysHome
      <4>3. pod[v].pc = ExitStep
        BY <2>3, <3>2, <4>1, <4>2 DEF EndsWell
      <4>q. QED
        BY <4>3, Additions DEF Progress
    <3>q. QED
      BY <3>1, <3>2
  <2>q. QED
    BY <1>4, <2>1, <2>2, <2>3 DEF AgentKind
<1>q. QED
  BY <1>2, <1>3, <1>4, StepKinds

\* The invariant holds in every reachable state, for any number of boots, tries
\* and kills, with and without inherited addresses.
THEOREM AgentInvariance == Spec => []AgentInv
<1>1. Init /\ TypeOK => AgentInv
  <2> SUFFICES ASSUME Init, TypeOK PROVE AgentInv
    OBVIOUS
  <2>1. \A u \in UIDs : job[u] = "absent" /\ pod[u].pc = 0
    BY DEF Init, NoPod
  <2>q. QED
    BY <2>1, Steps DEF AgentInv, JobsBorn, StaysHome, Progress, HandoffIsComplete, CompletionMeansHandoff, Active, Init
<1>2. AgentInv /\ TypeOK' /\ [Next]_vars => AgentInv'
  <2> SUFFICES ASSUME AgentInv, TypeOK', [Next]_vars PROVE AgentInv'
    OBVIOUS
  <2>1. CASE UNCHANGED vars
    BY <2>1 DEF vars, AgentInv, JobsBorn, StaysHome, Progress, HandoffIsComplete, CompletionMeansHandoff, Active,
                Current, Born
  <2>2. CASE Next
    BY <2>2, JobsBornKept, StaysHomeKept, ProgressKept, HandoffKept, CompletionKept DEF AgentInv
  <2>q. QED
    BY <2>1, <2>2
<1>q. QED
  BY <1>1, <1>2, AgentTypeCorrect, PTL DEF Spec

\* publishRawKubeconfig hands over only a VMI on which every fix-up has run.
THEOREM HandoffsAreComplete == Spec => []HandoffIsComplete
<1>1. AgentInv => HandoffIsComplete
  BY DEF AgentInv
<1>q. QED
  BY <1>1, AgentInvariance, PTL

\* A Job that completes has handed its VMI over, or the VMI is gone.
THEOREM CompletionsMeanHandoff == Spec => []CompletionMeansHandoff
<1>1. AgentInv => CompletionMeansHandoff
  BY DEF AgentInv
<1>q. QED
  BY <1>1, AgentInvariance, PTL

-----------------------------------------------------------------------------
(* Refinement: each step is one step of the contract or none.  The agent's *)
(* fix-ups are invisible but for the last one.                             *)

\* A step of the agent is a step of the contract or changes nothing in it.
LEMMA StepRefines ==
  ASSUME AgentInv, Next
  PROVE  Contract!ContractNext \/ UNCHANGED Contract!contractVars
<1> DEFINE Goal == Contract!ContractNext \/ UNCHANGED <<vmi, job, prepared, raw>>
<1> SUFFICES Goal
  BY DEF Contract!contractVars
<1> USE Steps
<1>0. TypeOK /\ job \in [UIDs -> {"absent", "running", "complete", "failed", "deleting"}]
  BY DEF AgentInv, TypeOK
<1>1. CASE RolloutMoves
  BY <1>1 DEF RolloutMoves, agentVars
<1>2. CASE Machine
  <2>1. Contract!Machine
    BY <1>2 DEF Machine, Boot, Run, Stop, agentVars, guestVars, Contract!Machine, Contract!Boot, Contract!Run,
                Contract!Stop
  <2>q. QED
    BY <2>1 DEF Contract!ContractNext
<1>3. ASSUME NEW u \in UIDs, JobKind(u)
      PROVE  Goal
  <2>0. u \in Contract!UIDs
    BY DEF UIDs, Contract!UIDs
  <2>1. CASE StartPod(u) \/ WatchCancels(u)
    BY <2>1 DEF StartPod, WatchCancels, guestVars
  <2>2. CASE CreateJob(u) \/ DeleteJob(u) \/ JobGone(u)
    <3>1. Contract!JobStep(u)
      BY <2>2 DEF CreateJob, DeleteJob, JobGone, Current, agentVars, guestVars, Contract!JobStep,
                  Contract!CreateJob, Contract!DeleteJob, Contract!JobGone, Contract!Started
    <3>q. QED
      BY <2>0, <3>1 DEF Contract!ContractNext
  <2>q. QED
    BY <1>3, <2>1, <2>2 DEF JobKind
<1>4. ASSUME NEW u \in UIDs, AgentKind(u)
      PROVE  Goal
  <2>0. u \in Contract!UIDs
    BY DEF UIDs, Contract!UIDs
  <2>a. Contract!AgentStep(u) => Goal
    BY <2>0 DEF Contract!ContractNext
  <2>1. CASE PassesCheck(u)
    BY <2>1 DEF PassesCheck, guestVars
  <2>2. CASE Advance(u)
    <3>1. UNCHANGED <<vmi, job, raw>> /\ vmi.phase = "running"
      BY <2>2 DEF Advance, Done
    <3>2. prepared' = prepared \/ (prepared' = prepared \cup {u} /\ ~pod'[u].stray)
      BY <2>2 DEF Advance, Done
    <3>3. ~pod'[u].stray => vmi.uid = u
      BY <1>0, <2>2, PodValues
    <3>4. CASE prepared' = prepared
      BY <3>1, <3>4
    <3>5. CASE prepared' # prepared
      <4>1. Contract!Prepare(u)
        BY <3>1, <3>2, <3>3, <3>5 DEF Contract!Prepare, Contract!Current
      <4>q. QED
        BY <2>a, <4>1 DEF Contract!AgentStep
    <3>q. QED
      BY <3>4, <3>5
  <2>3. CASE Publishes(u)
    <3>1. job[u] \in {"running", "deleting"} /\ u \in prepared
      BY <2>3 DEF Publishes, AgentInv, JobsBorn, Active, Progress
    <3>2. Contract!Publish(u)
      BY <2>3, <3>1 DEF Publishes, guestVars, Contract!Publish
    <3>q. QED
      BY <2>a, <3>2 DEF Contract!AgentStep
  <2>4. CASE EndsBadly(u)
    <3>1. UNCHANGED <<vmi, raw, prepared>>
      BY <2>4 DEF EndsBadly, PodFailed, guestVars
    <3>2. job' = job \/ (job[u] = "running" /\ job' = [job EXCEPT ![u] = "failed"])
      BY <2>4 DEF EndsBadly, PodFailed
    <3>q. QED
      BY <2>a, <3>1, <3>2 DEF Contract!AgentStep, Contract!Fail
  <2>5. CASE EndsWell(u)
    <3>1. UNCHANGED <<vmi, raw, prepared>>
      BY <2>5 DEF EndsWell, ExitSuccess, guestVars
    <3>2. CASE job[u] # "running"
      <4>1. job' = job
        BY <1>0, <2>5, <3>2 DEF EndsWell, ExitSuccess
      <4>q. QED
        BY <3>1, <4>1
    <3>3. CASE job[u] = "running"
      <4>1. job' = [job EXCEPT ![u] = "complete"]
        BY <2>5, <3>3 DEF EndsWell, ExitSuccess
      <4>2. u \in raw \/ ~Current(u)
        BY <2>5 DEF EndsWell, AgentInv, StaysHome, Progress
      <4>3. Contract!Complete(u)
        BY <3>1, <3>3, <4>1, <4>2 DEF Current, Contract!Complete, Contract!Current
      <4>q. QED
        BY <2>a, <4>3 DEF Contract!AgentStep
    <3>q. QED
      BY <3>2, <3>3
  <2>q. QED
    BY <1>4, <2>1, <2>2, <2>3, <2>4, <2>5 DEF AgentKind
<1>q. QED
  BY <1>1, <1>2, <1>3, <1>4, StepKinds

\* The Jobs of the crc-agent keep the contract the controller relies on.
THEOREM AgentKeepsContract == Spec => KeepsContract
<1>1. Init => Contract!ContractInit
  BY DEF Init, Contract!ContractInit, UIDs, Contract!UIDs
<1>2. AgentInv /\ [Next]_vars => [Contract!ContractNext]_(Contract!contractVars)
  <2> SUFFICES ASSUME AgentInv, [Next]_vars
               PROVE  Contract!ContractNext \/ UNCHANGED Contract!contractVars
    OBVIOUS
  <2>1. CASE UNCHANGED vars
    BY <2>1 DEF vars, Contract!contractVars
  <2>q. QED
    BY <2>1, StepRefines
<1>q. QED
  BY <1>1, <1>2, AgentInvariance, PTL DEF Spec, KeepsContract, Contract!ContractSpec
=============================================================================
