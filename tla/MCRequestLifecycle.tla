------------------------- MODULE MCRequestLifecycle -------------------------
(***************************************************************************)
(* Instances of RequestLifecycle for TLC: one request of the employee emp, *)
(* the approver app and the override authority sup.  The requester is      *)
(* eligible to claim and may be app's delegate, so that the guards against *)
(* self approval are put to work.                                          *)
(***************************************************************************)
EXTENDS RequestLifecycle, TLC

CONSTANTS r1, emp, app, sup

OneRequester == [r \in Requests |-> emp]
AllEligible == [r \in Requests |-> {emp, app}]
AllInLine == [r \in Requests |-> Users]
NoPairs == {}
ToRequester == {<<app, emp>>}

HandlerSymmetry == Permutations(Handlers)
=============================================================================
