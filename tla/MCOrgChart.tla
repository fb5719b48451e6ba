----------------------------- MODULE MCOrgChart -----------------------------
(***************************************************************************)
(* Three users, one scope, and four charts to begin with: none, an active  *)
(* pair with one more to add, an active chain of three, and a draft of one *)
(* superior with two under her.                                            *)
(***************************************************************************)
EXTENDS OrgChart, TLC

CONSTANTS boss, lead, staff, site

Node(id, parent, order) == [id |-> id, parent |-> parent, order |-> order]

Pair == [u \in {boss, lead} |-> IF u = boss THEN Node(1, Null, 0) ELSE Node(2, boss, 0)]

Chain == [u \in {boss, lead, staff} |->
            CASE u = boss -> Node(1, Null, 0) [] u = lead -> Node(2, boss, 0)
              [] OTHER -> Node(3, lead, 0)]

Star == [u \in {boss, lead, staff} |->
           CASE u = boss -> Node(1, Null, 0) [] u = lead -> Node(2, boss, 1)
             [] OTHER -> Node(3, boss, 0)]

Seed(c, out) == [chart |-> [s \in Scopes |-> c],
                 scope |-> [u \in Users |-> IF u \in out THEN Null ELSE site]]

SomeSeeds ==
  {Seed(NoChart, {}),
   Seed([status |-> "ACTIVE", version |-> 1, nodes |-> Pair], {}),
   Seed([status |-> "ACTIVE", version |-> 1, nodes |-> Chain], {}),
   Seed([status |-> "DRAFT", version |-> 1, nodes |-> Star], {})}

OneContract == [s \in Scopes |-> "contract"]

AllJobOps == {"create", "add", "remove", "activate", "archive", "move", "status", "submit"}

OrgSymmetry == Permutations(Pages) \cup Permutations(Jobs)
=============================================================================
