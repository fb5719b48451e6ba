---------------------------- MODULE RequestSpec ----------------------------
(***************************************************************************)
(* What the shared request lifecycle promises (backend/src/domain/         *)
(* request.js): one status path for leave, overtime, trip, permission and  *)
(* sickness requests,                                                      *)
(*                                                                         *)
(*   DRAFT -submit-> PENDING -approve-> APPROVED                           *)
(*                           -reject--> REJECTED                           *)
(*                           -cancel--> CANCELLED                          *)
(*                                                                         *)
(* each step atomic, the three ends final, and no request decided by its   *)
(* own requester unless the configuration allows it.  Nothing is said of   *)
(* handlers, versions, claims or history: RequestLifecycle implements this *)
(* module with interleaved handlers over a version-guarded document.       *)
(***************************************************************************)
CONSTANTS Requests, Users, Null, Requester, SelfApprovalAllowed

VARIABLES status,   \* status[r]: the lifecycle state of request r
          decider   \* decider[r]: who approved or rejected r, or Null

vars == <<status, decider>>

Decisions == {"APPROVED", "REJECTED"}

Init ==
  /\ status = [r \in Requests |-> "ABSENT"]
  /\ decider = [r \in Requests |-> Null]

(* The submission is stored as a draft before an approver is resolved.     *)
Create(r) ==
  /\ status[r] = "ABSENT"
  /\ status' = [status EXCEPT ![r] = "DRAFT"]
  /\ UNCHANGED decider

Submit(r) ==
  /\ status[r] = "DRAFT"
  /\ status' = [status EXCEPT ![r] = "PENDING"]
  /\ UNCHANGED decider

Cancel(r) ==
  /\ status[r] = "PENDING"
  /\ status' = [status EXCEPT ![r] = "CANCELLED"]
  /\ UNCHANGED decider

Decide(r, u, verdict) ==
  /\ status[r] = "PENDING"
  /\ u = Requester[r] => SelfApprovalAllowed
  /\ status' = [status EXCEPT ![r] = verdict]
  /\ decider' = [decider EXCEPT ![r] = u]

Next ==
  \E r \in Requests :
    \/ Create(r)
    \/ Submit(r)
    \/ Cancel(r)
    \/ \E u \in Users, verdict \in Decisions : Decide(r, u, verdict)

Spec == Init /\ [][Next]_vars
=============================================================================
