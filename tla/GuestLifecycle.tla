--------------------------- MODULE GuestLifecycle ---------------------------
(***************************************************************************)
(* What anybody may rely on about one ClusterInstance, whatever its        *)
(* topology: when it can be reported on, when its kubeconfig can appear,   *)
(* and how it goes.  The pool and lease controllers know no more of an     *)
(* instance than this, and the instance controller does nothing else.      *)
(***************************************************************************)
VARIABLES
  object,     \* "absent", "live", or "deleting": it has a deletion timestamp
  finalizer,  \* does it carry the finalizer?
  phase,      \* status.phase, "Absent" if there is no object
  published   \* does its kubeconfig Secret exist?

vars == <<object, finalizer, phase, published>>

Reports == {"Provisioning", "Ready", "Failed"}

Absent == object = "absent" /\ ~finalizer /\ phase = "Absent" /\ ~published
Created == object = "live" /\ ~finalizer /\ phase = "Provisioning" /\ ~published

Init == Absent \/ Created

Create == Absent /\ Created'

Protect ==
  /\ object = "live" /\ ~finalizer
  /\ finalizer' = TRUE
  /\ UNCHANGED <<object, phase, published>>

\* Only a live, protected instance is reported on.  Its kubeconfig may appear
\* with the report that it is Ready.
Report ==
  /\ object = "live" /\ finalizer
  /\ phase' \in Reports \ {phase}
  /\ published' \in {published, published \/ phase' = "Ready"}
  /\ UNCHANGED <<object, finalizer>>

\* A pass that began before the deletion may still publish.
Publish ==
  /\ finalizer /\ ~published
  /\ published' = TRUE
  /\ UNCHANGED <<object, finalizer, phase>>

Withdraw ==
  /\ published
  /\ published' = FALSE
  /\ UNCHANGED <<object, finalizer, phase>>

\* Without the finalizer nothing was made yet, and the object goes at once.
Delete ==
  /\ object = "live"
  /\ IF finalizer THEN object' = "deleting" /\ UNCHANGED <<finalizer, phase, published>>
                  ELSE ~published /\ Absent'

Terminate ==
  /\ object = "deleting"
  /\ phase' = "Terminating"
  /\ UNCHANGED <<object, finalizer, published>>

Finish == object = "deleting" /\ finalizer /\ Absent'

Next == Create \/ Protect \/ Report \/ Publish \/ Withdraw \/ Delete \/ Terminate \/ Finish

Spec == Init /\ [][Next]_vars
=============================================================================
