----------------------------- MODULE CRCHandoff -----------------------------
(***************************************************************************)
(* The contract between the crc-agent Jobs and the ClusterInstance         *)
(* controller.  Each boot of the CRC virtual machine is a VMI with a UID   *)
(* of its own; one Job per VMI prepares the guest and hands its kubeconfig *)
(* over in a Secret that carries the VMI's UID.  UIDs are never reused, so *)
(* they are numbered in the order of the boots.                            *)
(***************************************************************************)
EXTENDS Naturals

CONSTANT MaxUID   \* bound: how many VMIs a behaviour boots

ASSUME MaxUIDAssumption == MaxUID \in Nat

UIDs == 1..MaxUID

VARIABLES
  vmi,       \* the VMI of the latest boot: its UID and its phase
  job,       \* the agent Job of each VMI
  prepared,  \* VMIs on which every post-boot fix-up has run
  raw        \* VMIs whose raw kubeconfig Secret exists

contractVars == <<vmi, job, prepared, raw>>

VMIPhases == {"absent", "starting", "running", "stopped"}
JobStates == {"absent", "running", "complete", "failed", "deleting"}

ContractTypeOK ==
  /\ vmi \in [uid : 0..MaxUID, phase : VMIPhases]
  /\ job \in [UIDs -> JobStates]
  /\ prepared \subseteq UIDs /\ raw \subseteq UIDs

\* getExpectedCRCVMI: the VMI exists, has the expected UID and is Running.
Current(u) == vmi.uid = u /\ vmi.phase = "running"

ContractInit ==
  /\ vmi = [uid |-> 0, phase |-> "absent"]
  /\ job = [u \in UIDs |-> "absent"]
  /\ prepared = {} /\ raw = {}

-----------------------------------------------------------------------------
(* KubeVirt: a boot is a new VMI on the same disk.                         *)

Boot ==
  /\ vmi.phase \in {"absent", "stopped"} /\ vmi.uid < MaxUID
  /\ vmi' = [uid |-> vmi.uid + 1, phase |-> "starting"]
  /\ UNCHANGED <<job, prepared, raw>>

Run ==
  /\ vmi.phase = "starting"
  /\ vmi' = [vmi EXCEPT !.phase = "running"]
  /\ UNCHANGED <<job, prepared, raw>>

Stop ==
  /\ vmi.phase \in {"starting", "running"}
  /\ vmi' = [vmi EXCEPT !.phase = "stopped"]
  /\ UNCHANGED <<job, prepared, raw>>

Vanish ==
  /\ vmi.phase # "absent"
  /\ vmi' = [vmi EXCEPT !.phase = "absent"]
  /\ UNCHANGED <<job, prepared, raw>>

-----------------------------------------------------------------------------
(* The controller's side: a Job for a VMI it saw Running, which may have   *)
(* been replaced since; deletion in the foreground.                        *)

Started(u) == vmi.uid > u \/ (vmi.uid = u /\ vmi.phase # "starting")

CreateJob(u) ==
  /\ job[u] = "absent" /\ Started(u)
  /\ job' = [job EXCEPT ![u] = "running"]
  /\ UNCHANGED <<vmi, prepared, raw>>

DeleteJob(u) ==
  /\ job[u] \in {"running", "complete", "failed"}
  /\ job' = [job EXCEPT ![u] = "deleting"]
  /\ UNCHANGED <<vmi, prepared, raw>>

JobGone(u) ==
  /\ job[u] = "deleting"
  /\ job' = [job EXCEPT ![u] = "absent"]
  /\ UNCHANGED <<vmi, prepared, raw>>

-----------------------------------------------------------------------------
(* The agent's side.  Only a prepared VMI is handed over; a Job completes  *)
(* without a handoff only when its VMI is no longer the current one.       *)

Prepare(u) ==
  /\ u \notin prepared /\ Current(u)
  /\ prepared' = prepared \cup {u}
  /\ UNCHANGED <<vmi, job, raw>>

Publish(u) ==
  /\ job[u] \in {"running", "deleting"} /\ u \in prepared
  /\ raw' = raw \cup {u}
  /\ UNCHANGED <<vmi, job, prepared>>

Complete(u) ==
  /\ job[u] = "running" /\ (u \in raw \/ ~Current(u))
  /\ job' = [job EXCEPT ![u] = "complete"]
  /\ UNCHANGED <<vmi, prepared, raw>>

Fail(u) ==
  /\ job[u] = "running"
  /\ job' = [job EXCEPT ![u] = "failed"]
  /\ UNCHANGED <<vmi, prepared, raw>>

Machine == Boot \/ Run \/ Stop \/ Vanish

JobStep(u) == CreateJob(u) \/ DeleteJob(u) \/ JobGone(u)

AgentStep(u) == Prepare(u) \/ Publish(u) \/ Complete(u) \/ Fail(u)

ContractNext == Machine \/ \E u \in UIDs : JobStep(u) \/ AgentStep(u)

ContractSpec == ContractInit /\ [][ContractNext]_contractVars
=============================================================================
