--------------------------- MODULE CRCBundleProofs ---------------------------
(***************************************************************************)
(* When a Ready CRCBundle can be trusted: as long as the finished Job does *)
(* not outlive the pass that saw it succeed, or the golden PVC is never    *)
(* deleted behind the controller's back.                                   *)
(***************************************************************************)
EXTENDS CRCBundle, TLAPS

\* A Job past its conversion has filled the golden PVC.
Filled ==
  /\ job \in {"converted", "keyed", "succeeded"} => golden # "empty"
  /\ phase = "Ready" => golden # "empty" /\ job \notin Running
  /\ pc \in {"deleteJob", "deleteScratch"} => phase = "Ready"
  /\ pc \in {"scratch", "job", "preparing"} => phase = "Pending"

\* No Job is left when a preparation starts over.
NoLeftover ==
  /\ phase = "Pending" /\ pc # "preparing" => job = "absent"
  /\ phase = "Ready" /\ pc # "deleteJob" => job = "absent"

\* TypeOK holds in every reachable state.
THEOREM BundleTypeCorrect == Spec => []TypeOK
<1>1. Init => TypeOK
  BY DEF Init, TypeOK
<1>2. TypeOK /\ [Next]_vars => TypeOK'
  <2> SUFFICES ASSUME TypeOK, [Next]_vars PROVE TypeOK'
    OBVIOUS
  <2> USE DEF TypeOK, Running
  <2>0. env' = env
    BY DEF Next, vars
  <2>1. CASE ControllerStep
    <3>1. CASE EnsureGoldenPVC \/ EnsureScratchPVC \/ EnsureJob
      BY <2>0, <3>1 DEF EnsureGoldenPVC, EnsureScratchPVC, EnsureJob
    <3>2. CASE EnterPreparing \/ JobMissing \/ RetryFailed
      BY <2>0, <3>2 DEF EnterPreparing, JobMissing, RetryFailed
    <3>3. CASE ObserveFailure \/ ObserveSuccess \/ ResetToPending
      BY <2>0, <3>3 DEF ObserveFailure, ObserveSuccess, ResetToPending
    <3>4. CASE DeleteJob
      BY <2>0, <3>4 DEF DeleteJob
    <3>5. CASE DeleteScratchPVC
      BY <2>0, <3>5 DEF DeleteScratchPVC
    <3> QED
      BY <2>1, <3>1, <3>2, <3>3, <3>4, <3>5 DEF ControllerStep
  <2>2. CASE JobStep
    BY <2>0, <2>2 DEF JobStep, JobConvert, JobPublishKey, JobPublishMetadata
  <2>3. CASE JobFails \/ PodGone
    <3>1. CASE JobFails
      BY <2>0, <3>1 DEF JobFails
    <3>2. CASE PodGone
      BY <2>0, <3>2 DEF PodGone
    <3> QED
      BY <2>3, <3>1, <3>2
  <2>4. CASE Interrupt
    BY <2>0, <2>4 DEF Interrupt
  <2>5. CASE AdminDeletesJob
    BY <2>0, <2>5 DEF AdminDeletesJob
  <2>6. CASE LoseGolden \/ LoseKey
    BY <2>0, <2>6 DEF LoseGolden, LoseKey
  <2>7. CASE UNCHANGED vars
    BY <2>0, <2>7 DEF vars
  <2> QED
    BY <2>1, <2>2, <2>3, <2>4, <2>5, <2>6, <2>7 DEF Next, Disturbance
<1> QED
  BY <1>1, <1>2, PTL DEF Spec

\* Ready is reported only over a golden PVC that a Job has filled and none is
\* writing: if every pass gets to delete its finished Job, or if nobody deletes
\* the golden PVC.
THEOREM ReadyIsTrue ==
  ASSUME \A E \in Environments : {"interrupt", "deleteFails"} \cap E = {} \/ "loseGolden" \notin E
  PROVE  Spec => []ReadyIsPopulated
<1> DEFINE Lossless == "loseGolden" \notin env
           Inv == /\ TypeOK /\ Filled
                  /\ Lossless => (job \in {"converted", "keyed", "succeeded"} \/ phase = "Ready" => golden # "absent")
                  /\ ~Lossless => NoLeftover
<1>1. Init => Inv
  BY DEF Init, TypeOK, Filled, NoLeftover, Running
<1>2. Inv /\ [Next]_vars => (Filled /\ (~Lossless => NoLeftover))'
  <2> SUFFICES ASSUME Inv, [Next]_vars PROVE (Filled /\ (~Lossless => NoLeftover))'
    OBVIOUS
  <2>0. env' = env
    BY DEF Next, vars
  <2> USE DEF TypeOK, Filled, NoLeftover, Running
  <2>1. CASE EnsureGoldenPVC
    BY <2>0, <2>1 DEF EnsureGoldenPVC
  <2>2. CASE EnsureScratchPVC
    BY <2>0, <2>2 DEF EnsureScratchPVC
  <2>3. CASE EnsureJob
    BY <2>0, <2>3 DEF EnsureJob
  <2>4. CASE EnterPreparing
    BY <2>0, <2>4 DEF EnterPreparing
  <2>5. CASE JobMissing \/ RetryFailed \/ ObserveFailure
    BY <2>0, <2>5 DEF JobMissing, RetryFailed, ObserveFailure
  <2>6. CASE ObserveSuccess
    BY <2>0, <2>6 DEF ObserveSuccess
  <2>7. CASE DeleteJob
    BY <2>0, <2>7 DEF DeleteJob
  <2>8. CASE DeleteScratchPVC
    BY <2>0, <2>8 DEF DeleteScratchPVC
  <2>9. CASE ResetToPending
    BY <2>0, <2>9 DEF ResetToPending
  <2>10. CASE JobStep
    BY <2>0, <2>10 DEF JobStep, JobConvert, JobPublishKey, JobPublishMetadata
  <2>11. CASE JobFails \/ PodGone \/ AdminDeletesJob
    BY <2>0, <2>11 DEF JobFails, PodGone, AdminDeletesJob
  <2>12. CASE Interrupt
    BY <2>0, <2>12 DEF Interrupt
  <2>13. CASE LoseGolden \/ LoseKey \/ UNCHANGED vars
    BY <2>0, <2>13 DEF LoseGolden, LoseKey, vars
  <2> QED
    BY <2>1, <2>2, <2>3, <2>4, <2>5, <2>6, <2>7, <2>8, <2>9, <2>10, <2>11, <2>12, <2>13
    DEF Next, Disturbance, ControllerStep
<1>3. Inv /\ [Next]_vars /\ Lossless =>
        (job \in {"converted", "keyed", "succeeded"} \/ phase = "Ready" => golden # "absent")'
  BY DEF Next, Disturbance, ControllerStep, JobStep, EnsureGoldenPVC, EnsureScratchPVC, EnsureJob, EnterPreparing, JobMissing, RetryFailed,
         ObserveFailure, ObserveSuccess, DeleteJob, DeleteScratchPVC, ResetToPending, JobConvert, JobPublishKey,
         JobPublishMetadata, JobFails, PodGone, Interrupt, AdminDeletesJob, LoseGolden, LoseKey, vars
<1>4. Inv => ReadyIsPopulated
  BY DEF TypeOK, Filled, ReadyIsPopulated
<1>5. Spec => [](TypeOK)
  BY BundleTypeCorrect
<1>6. Inv /\ [Next]_vars /\ TypeOK' => Inv'
  <2>1. [Next]_vars => Lossless' = Lossless
    BY DEF Next, vars
  <2> QED
    BY <1>2, <1>3, <2>1
<1> QED
  BY <1>1, <1>4, <1>5, <1>6, PTL DEF Spec
=============================================================================
