--------------------------- MODULE MCRequestAudit ---------------------------
(***************************************************************************)
(* What handlers promise to finish, checked in one run: the scene is the   *)
(* life of a request with the events it owes to its subscribers, or the    *)
(* outbox through which every handler records what it did.  Neither reads  *)
(* the other's state.  The scene that is not played stays as it begins, in *)
(* a state in which none of its fair steps is enabled.                     *)
(*                                                                         *)
(* A sign-in goes to both surfaces of the audit, a change of settings to   *)
(* the audit trail only, a page view to the activity log only.             *)
(***************************************************************************)
EXTENDS MCRequestLifecycle, AuditPipeline

CONSTANTS signin, change, view

VARIABLE scene

Surfaces ==
  [e \in Events |-> CASE e = signin -> {"audit", "activity"}
                      [] e = change -> {"audit"}
                      [] e = view -> {"activity"}]

SceneInit ==
  /\ scene \in {"request", "audit"}
  /\ Init /\ AuditInit
  /\ scene = "request" => todo = {}

SceneNext ==
  \/ scene = "request" /\ Next /\ UNCHANGED <<scene, auditVars>>
  \/ scene = "audit" /\ AuditNext /\ UNCHANGED <<scene, vars>>

SceneSpec ==
  /\ SceneInit /\ [][SceneNext]_<<scene, vars, auditVars>>
  /\ Fairness /\ AuditFairness
=============================================================================
