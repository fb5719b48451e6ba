--------------------------- MODULE MCAccessControl ---------------------------
(***************************************************************************)
(* Two accounts, two roles and two permissions for AccessControl.  Either  *)
(* both accounts are super admins, or one is a clerk, or one is yet to be  *)
(* created.                                                                *)
(***************************************************************************)
EXTENDS AccessControl, TLC

CONSTANTS ann, bob, admin, clerk, manage, view

Assignments ==
  { {<<ann, admin>>, <<bob, admin>>},
    {<<ann, admin>>, <<bob, clerk>>},
    {<<ann, admin>>} }

Grants == [r \in Roles |-> IF r = admin THEN {manage, view} ELSE {view}]

AllOps == {"assign", "create", "perms", "disable", "enable", "level", "rename",
           "deactivate", "activate", "password", "sign"}

CallSymmetry == Permutations(Calls)
=============================================================================
