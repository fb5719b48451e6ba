---------------------------- MODULE AccessControl ----------------------------
(***************************************************************************)
(* Who may do what: user accounts, roles, the permission matrix and the    *)
(* access tokens that carry a snapshot of it (user-admin.service.js,       *)
(* role-admin.service.js, rbac.service.js, auth.service.js).  A change     *)
(* takes effect by raising the tokenVersion of the users it concerns: a    *)
(* token signed with another version is refused.                           *)
(*                                                                         *)
(* Every database call is a step of its own, so calls interleave between   *)
(* a read and the write computed from it.  save() of a loaded user or role *)
(* writes the fields the call has changed, whatever became of the document *)
(* since (the schemas set versionKey to false: nothing is compared).       *)
(* Names, levels and audit records are left out.                           *)
(***************************************************************************)
EXTENDS Naturals, FiniteSets

CONSTANTS
  Users, Roles, Perms,
  SuperAdmin,        \* the role of that key
  SystemRoles,       \* roles with isSystem
  PlatformPerms,     \* PLATFORM_ADMIN_PERMISSIONS
  Seeds,             \* the role assignments a run may start from
  Matrix,            \* role_permissions at the start
  Calls,             \* handler slots
  Ops,               \* the calls that are made
  MaxCalls,          \* bound: calls in one behaviour
  MaxStaged,         \* bound: boxes toggled before an edit is sent
  MaxRoles,          \* bound: roles given at a time
  MayFail,           \* may a database call fail, or the process stop?
  Null

ASSUME AccessAssumption ==
  /\ SuperAdmin \in Roles /\ SystemRoles \subseteq Roles
  /\ PlatformPerms \subseteq Perms
  /\ Seeds \subseteq SUBSET (Users \X Roles)
  /\ Matrix \in [Roles -> SUBSET Perms]
  /\ MaxCalls \in Nat /\ MaxStaged \in Nat /\ MaxRoles \in Nat
  /\ MayFail \in BOOLEAN
  /\ Null \notin Users \cup Roles

VARIABLES
  status,       \* users.status; NONE before the account exists
  tokenVersion, \* users.tokenVersion
  mirror,       \* users.roleIds
  member,       \* user_roles rows
  roleStatus, roleVersion,
  granted,      \* role_permissions rows, by role
  tokens,       \* access tokens issued
  call,         \* call[c]: what a handler, or an administrator's page, is at
  made,         \* calls made so far
  raced,        \* observer: calls others wrote beside since their last check
  muddled       \* observer: users and roles a change of which was cut short,
                \*   or lost: a version written over, a role given to an
                \*   account that is still being created

userVars == <<status, tokenVersion, mirror>>
roleVars == <<roleStatus, roleVersion, granted>>
vars == <<userVars, member, roleVars, tokens, call, made, raced, muddled>>

Token == [user : Users, ver : Nat, perms : SUBSET Perms]

Idle == [op |-> "none", pc |-> "idle", user |-> Null, role |-> Null, ver |-> 0,
         want |-> {}, seen |-> {}, shown |-> {}, todo |-> {}]

RolesOf(u) == {r \in Roles : <<u, r>> \in member}
HoldersOf(r) == {u \in Users : <<u, r>> \in member}
Usable(t) == status[t.user] = "ACTIVE" /\ t.ver = tokenVersion[t.user]

PermsOf(roles) == UNION {granted[r] : r \in roles}
ActiveOf(roles) == {r \in roles : roleStatus[r] = "ACTIVE"}
Effective(u) == PermsOf(ActiveOf(RolesOf(u)))

Init ==
  /\ member \in Seeds
  /\ status = [u \in Users |-> IF RolesOf(u) = {} THEN "NONE" ELSE "ACTIVE"]
  /\ mirror = [u \in Users |-> RolesOf(u)]
  /\ tokenVersion = [u \in Users |-> 0]
  /\ roleStatus = [r \in Roles |-> "ACTIVE"]
  /\ roleVersion = [r \in Roles |-> 1]
  /\ granted = Matrix
  /\ tokens = {[user |-> u, ver |-> 0, perms |-> Effective(u)] :
                 u \in {w \in Users : status[w] = "ACTIVE"}}
  /\ call = [c \in Calls |-> Idle]
  /\ made = 0
  /\ raced = {} /\ muddled = {}

----------------------------------------------------------------------------
(* Bookkeeping of a call                                                   *)

At(c, pc) == call[c].pc = pc
Goto(c, pc) == call' = [call EXCEPT ![c].pc = pc]
Return(c) == call' = [call EXCEPT ![c] = Idle]

(* A call arrives; ver is the version in the document it loads first.      *)
Begin(c, op, pc, u, r, want, ver) ==
  /\ call[c] = Idle /\ op \in Ops /\ made < MaxCalls
  /\ made' = made + 1
  /\ call' = [call EXCEPT ![c] = [Idle EXCEPT !.op = op, !.pc = pc, !.user = u,
                                    !.role = r, !.want = want, !.ver = ver]]
  /\ raced' = raced \ {c}
  /\ UNCHANGED <<userVars, member, roleVars, tokens, muddled>>

(* Between its first write and its last.                                   *)
Writing(c) ==
  call[c].pc \in {"insert", "sync", "grant", "saveRole", "bump",
                  "holders", "load", "bumpHolder"}

(* c has just checked what it goes by.                                     *)
Checks(c) ==
  raced' = IF \E o \in Calls \ {c} : Writing(o) THEN raced \cup {c} ELSE raced \ {c}

(* c writes: whoever else is at work may have read the old state.          *)
Writes(c) == raced' = raced \cup {o \in Calls \ {c} : call[o] # Idle}

Reads == UNCHANGED <<userVars, member, roleVars, tokens, made, raced, muddled>>

----------------------------------------------------------------------------
(* assignRoles, createUser                                                 *)

AssignRoles(c, u, roles) ==
  /\ status[u] # "NONE"
  /\ Begin(c, "assign", "check", u, Null, roles, tokenVersion[u])

CreateUser(c, u, roles) ==
  /\ status[u] = "NONE"
  /\ Begin(c, "create", "check", u, Null, roles, 0)

(* roleKeysById is a Map with strings for keys; get() of the ObjectId in a *)
(* membership finds nothing.                                               *)
MapGet(id) == IF id.type = "string" THEN id.role ELSE Null
HadSuperAdmin(held) ==
  \E r \in held : MapGet([type |-> "ObjectId", role |-> r]) = SuperAdmin
AssertSuperAdminSafe(held, requested) ==
  HadSuperAdmin(held) => SuperAdmin \in requested

CheckRoles(c) ==
  /\ At(c, "check")
  /\ LET j == call[c] IN
     IF /\ \A r \in j.want : roleStatus[r] = "ACTIVE"
        /\ j.op = "assign" => AssertSuperAdminSafe(RolesOf(j.user), j.want)
     THEN Goto(c, IF j.op = "create" THEN "create" ELSE "delete")
     ELSE Return(c)
  /\ Reads

(* The account is ACTIVE before it has a role.                             *)
InsertUser(c) ==
  /\ At(c, "create")
  /\ LET u == call[c].user IN
     /\ status[u] = "NONE"        \* the unique username
     /\ status' = [status EXCEPT ![u] = "ACTIVE"]
  /\ Goto(c, "delete") /\ Writes(c)
  /\ UNCHANGED <<tokenVersion, mirror, member, roleVars, tokens, made, muddled>>

UserExists(c) ==
  /\ At(c, "create") /\ status[call[c].user] # "NONE"
  /\ Return(c) /\ Reads

DeleteRows(c) ==
  /\ At(c, "delete")
  /\ member' = {m \in member : m[1] # call[c].user}
  /\ muddled' = IF call[c].op = "create" THEN muddled \cup {m[1] : m \in member \ member'}
                ELSE muddled
  /\ Goto(c, "insert") /\ Writes(c)
  /\ UNCHANGED <<userVars, roleVars, tokens, made>>

(* insertMany stops at the first row the unique index refuses: the rows    *)
(* before it stay, and the call ends there.                                *)
InsertRows(c) ==
  /\ At(c, "insert")
  /\ LET u == call[c].user
         old == call[c].want \cap RolesOf(u)
     IN  \E done \in SUBSET (call[c].want \ old) :
           /\ old = {} => done = call[c].want
           /\ member' = member \cup {<<u, r>> : r \in done}
           /\ IF old = {} THEN Goto(c, "sync") /\ UNCHANGED muddled
              ELSE Return(c) /\ muddled' = muddled \cup {u}
  /\ Writes(c)
  /\ UNCHANGED <<userVars, roleVars, tokens, made>>

(* The rows are read back and copied; only the mirror shows what comes     *)
(* between the two.                                                        *)
SyncRoleIds(c) ==
  /\ At(c, "sync")
  /\ mirror' = [mirror EXCEPT ![call[c].user] = RolesOf(call[c].user)]
  /\ IF call[c].op = "create" THEN Return(c) ELSE Goto(c, "bump")
  /\ Writes(c)
  /\ UNCHANGED <<status, tokenVersion, member, roleVars, tokens, made, muddled>>

(* bumpTokenVersion saves the loaded version plus one.                     *)
Bumps(c, u) ==
  /\ tokenVersion' = [tokenVersion EXCEPT ![u] = call[c].ver + 1]
  /\ muddled' = IF call[c].ver = tokenVersion[u] THEN muddled ELSE muddled \cup {u}
  /\ Writes(c)
  /\ UNCHANGED <<status, mirror, member, roleVars, tokens, made>>

Bump(c) == At(c, "bump") /\ Bumps(c, call[c].user) /\ Return(c)

----------------------------------------------------------------------------
(* The role console and setRolePermissions, setStatus, update              *)

(* RbacConsolePage loads the roles: each with its version, and then its    *)
(* permissions.                                                            *)
OpenRole(c, r, op) == Begin(c, op, "matrix", Null, r, {}, roleVersion[r])

(* What the checkboxes show, and what is sent, when staged holds the       *)
(* boxes that were toggled.                                                *)
Shown(grants, staged) ==
  {p \in Perms : IF p \in DOMAIN staged THEN staged[p] ELSE p \in grants}
Desired(staged) == {p \in DOMAIN staged : staged[p]}

Boxes(r) == IF r = SuperAdmin THEN Perms \ PlatformPerms ELSE Perms
Staged(r) ==
  UNION {[D -> BOOLEAN] :
           D \in {B \in SUBSET Boxes(r) : Cardinality(B) \in 1 .. MaxStaged}}

LoadMatrix(c) ==
  /\ At(c, "matrix")
  /\ LET r == call[c].role IN
     IF call[c].op = "perms"
     THEN \E staged \in Staged(r) :
            call' = [call EXCEPT ![c].pc = "submit", ![c].seen = granted[r],
                       ![c].shown = Shown(granted[r], staged),
                       ![c].want = Desired(staged)]
     ELSE Goto(c, "submit")
  /\ Reads

AssertSystemRoleAllowed(op, r) ==
  r \in SystemRoles => op \in {"enable", "perms"}
AssertSuperAdminPermissionsSafe(op, r, next) ==
  (op = "perms" /\ r = SuperAdmin) => PlatformPerms \subseteq next

(* The status a call gives its role; one that is there already is not      *)
(* saved.                                                                  *)
NewStatus(op) == CASE op = "disable" -> "DISABLED" [] op = "enable" -> "ACTIVE"
                   [] OTHER -> Null

(* Mutant of Submit: the page's version is not compared.                   *)
SubmitUnlocked(c) ==
  /\ At(c, "submit")
  /\ LET j == call[c] IN
     IF /\ AssertSystemRoleAllowed(j.op, j.role)
        /\ AssertSuperAdminPermissionsSafe(j.op, j.role, j.want)
     THEN /\ call' = [call EXCEPT
                 ![c].pc = IF j.op = "perms" THEN "current" ELSE "saveStatus",
                 ![c].ver = roleVersion[j.role]]
          /\ Checks(c)
     ELSE Return(c) /\ UNCHANGED raced
  /\ UNCHANGED <<userVars, member, roleVars, tokens, made, muddled>>

(* The role is loaded and its version compared with the page's.            *)
Submit(c) ==
  /\ At(c, "submit")
  /\ LET j == call[c] IN
     IF /\ roleVersion[j.role] = j.ver
        /\ AssertSystemRoleAllowed(j.op, j.role)
        /\ AssertSuperAdminPermissionsSafe(j.op, j.role, j.want)
     THEN /\ call' = [call EXCEPT
                 ![c].pc = IF j.op = "perms" THEN "current" ELSE "saveStatus",
                 ![c].op = IF roleStatus[j.role] = NewStatus(j.op) THEN "level" ELSE @]
          /\ Checks(c)
     ELSE Return(c) /\ UNCHANGED raced
  /\ UNCHANGED <<userVars, member, roleVars, tokens, made, muddled>>

(* The diff against the matrix of this moment: todo is what is removed.    *)
ReadCurrent(c) ==
  /\ At(c, "current")
  /\ call' = [call EXCEPT ![c].pc = "revoke",
                ![c].todo = granted[call[c].role] \ call[c].want,
                ![c].want = @ \ granted[call[c].role]]
  /\ Reads

Revoke(c) ==
  /\ At(c, "revoke")
  /\ granted' = [granted EXCEPT ![call[c].role] = @ \ call[c].todo]
  /\ Goto(c, "grant") /\ Writes(c)
  /\ UNCHANGED <<userVars, member, roleStatus, roleVersion, tokens, made, muddled>>

Grant(c) ==
  /\ At(c, "grant")
  /\ granted' = [granted EXCEPT ![call[c].role] = @ \cup call[c].want]
  /\ Goto(c, "saveRole") /\ Writes(c)
  /\ UNCHANGED <<userVars, member, roleStatus, roleVersion, tokens, made, muddled>>

(* save() of the loaded role: a version another call has raised since is   *)
(* written over.                                                           *)
RaisesVersion(c) ==
  LET j == call[c] IN
  /\ roleVersion' = [roleVersion EXCEPT ![j.role] = j.ver + 1]
  /\ muddled' = IF j.ver = roleVersion[j.role] THEN muddled ELSE muddled \cup {j.role}

SaveRole(c) ==
  /\ At(c, "saveRole")
  /\ RaisesVersion(c)
  /\ Goto(c, "holders") /\ Writes(c)
  /\ UNCHANGED <<userVars, member, roleStatus, granted, tokens, made>>

(* disableRole, enableRole, updateRole; a new name concerns no token.      *)
SaveStatus(c) ==
  /\ At(c, "saveStatus")
  /\ LET j == call[c] IN
     /\ roleStatus' = [roleStatus EXCEPT ![j.role] =
                         IF NewStatus(j.op) = Null THEN @ ELSE NewStatus(j.op)]
     /\ IF j.op = "rename" THEN Return(c) ELSE Goto(c, "holders")
  /\ RaisesVersion(c)
  /\ Writes(c)
  /\ UNCHANGED <<userVars, member, granted, tokens, made>>

(* invalidateRoleHolders: one holder after the other.                      *)
FindHolders(c) ==
  /\ At(c, "holders")
  /\ LET holders == HoldersOf(call[c].role) IN
     IF holders = {} THEN Return(c)
     ELSE call' = [call EXCEPT ![c].pc = "load", ![c].todo = holders]
  /\ Reads

LoadHolder(c) ==
  /\ At(c, "load")
  /\ \E u \in call[c].todo :
       call' = [call EXCEPT ![c].pc = "bumpHolder", ![c].user = u,
                  ![c].ver = tokenVersion[u]]
  /\ Reads

BumpHolder(c) ==
  /\ At(c, "bumpHolder")
  /\ Bumps(c, call[c].user)
  /\ LET left == call[c].todo \ {call[c].user} IN
     IF left = {} THEN Return(c)
     ELSE call' = [call EXCEPT ![c].pc = "load", ![c].todo = left,
                     ![c].user = Null, ![c].ver = 0]

----------------------------------------------------------------------------
(* deactivateUser, activateUser, and a password that is changed or reset   *)

Deactivate(c, u) ==
  /\ status[u] # "NONE"
  /\ Begin(c, "deactivate", "guard", u, Null, {}, 0)

Activate(c, u) ==
  /\ status[u] # "NONE"
  /\ Begin(c, "activate", "loadUser", u, Null, {}, 0)

(* assertNotLastSuperAdmin finds the other holders ...                     *)
Guard(c) ==
  /\ At(c, "guard")
  /\ LET u == call[c].user
         others == HoldersOf(SuperAdmin) \ {u}
     IN  IF SuperAdmin \notin RolesOf(u) THEN Goto(c, "loadUser")
         ELSE IF others = {} THEN Return(c)
         ELSE call' = [call EXCEPT ![c].pc = "count", ![c].todo = others]
  /\ Checks(c)
  /\ UNCHANGED <<userVars, member, roleVars, tokens, made, muddled>>

(* Mutant of CountHolder: every holder counts, active or not.              *)
CountAnyHolder(c) ==
  /\ At(c, "count")
  /\ call' = [call EXCEPT ![c].pc = "loadUser", ![c].todo = {}]
  /\ Reads

(* ... counts the active ones, each read on its own, and refuses when      *)
(* there is none.                                                          *)
CountHolder(c) ==
  /\ At(c, "count")
  /\ \E u \in call[c].todo :
       LET active == IF status[u] = "ACTIVE" THEN call[c].seen \cup {u} ELSE call[c].seen
           left == call[c].todo \ {u}
       IN  IF left = {} /\ active = {} THEN Return(c)
           ELSE call' = [call EXCEPT ![c].pc = IF left = {} THEN "loadUser" ELSE "count",
                           ![c].todo = left, ![c].seen = IF left = {} THEN {} ELSE active]
  /\ Reads

(* setStatus loads the user again; a status that is there already is not   *)
(* saved.                                                                  *)
UserStatus(op) == IF op = "activate" THEN "ACTIVE" ELSE "INACTIVE"

LoadUser(c) ==
  /\ At(c, "loadUser")
  /\ LET j == call[c] IN
     IF status[j.user] # UserStatus(j.op)
     THEN call' = [call EXCEPT ![c].pc = "saveUser", ![c].ver = tokenVersion[j.user]]
     ELSE IF j.op = "activate" THEN Return(c)
     ELSE call' = [call EXCEPT ![c].pc = "bump", ![c].ver = tokenVersion[j.user]]
  /\ Reads

SaveUser(c) ==
  /\ At(c, "saveUser")
  /\ LET j == call[c] IN
     /\ status' = [status EXCEPT ![j.user] = UserStatus(j.op)]
     /\ IF j.op = "activate" THEN Return(c) ELSE Goto(c, "bump")
  /\ Writes(c)
  /\ UNCHANGED <<tokenVersion, mirror, member, roleVars, tokens, made, muddled>>

(* changePassword and resetPassword: the document is loaded, verified and  *)
(* hashed for, and its version raised at the end.                          *)
Password(c, u) ==
  /\ status[u] # "NONE"
  /\ Begin(c, "password", "bump", u, Null, {}, tokenVersion[u])

----------------------------------------------------------------------------
(* signIn, completeMfaSignIn and refresh sign a token for the user loaded  *)
(* at their beginning with the permissions read afterwards.                *)

SignIn(c, u) ==
  /\ status[u] = "ACTIVE"
  /\ Begin(c, "sign", "roles", u, Null, {}, tokenVersion[u])

ReadRoles(c) ==
  /\ At(c, "roles")
  /\ call' = [call EXCEPT ![c].pc = "active", ![c].seen = RolesOf(call[c].user)]
  /\ Reads

ReadActive(c) ==
  /\ At(c, "active")
  /\ call' = [call EXCEPT ![c].pc = "sign", ![c].seen = ActiveOf(@)]
  /\ Reads

(* Mutant of Sign: the user is loaded after the permissions.               *)
SignLate(c) ==
  /\ At(c, "sign")
  /\ tokens' = tokens \cup {[user |-> call[c].user, ver |-> tokenVersion[call[c].user],
                             perms |-> PermsOf(call[c].seen)]}
  /\ Return(c)
  /\ UNCHANGED <<userVars, member, roleVars, made, raced, muddled>>

Sign(c) ==
  /\ At(c, "sign")
  /\ tokens' = tokens \cup {[user |-> call[c].user, ver |-> call[c].ver,
                             perms |-> PermsOf(call[c].seen)]}
  /\ Return(c)
  /\ UNCHANGED <<userVars, member, roleVars, made, raced, muddled>>

----------------------------------------------------------------------------
(* Users whose tokens a call has put out of date and not yet had refused.  *)
Owes(c) ==
  LET j == call[c] IN
  CASE j.op = "assign" /\ j.pc \in {"insert", "sync", "bump"} -> {j.user}
    [] j.pc \in {"grant", "saveRole", "holders"} -> HoldersOf(j.role)
    [] j.pc \in {"load", "bumpHolder"} -> j.todo
    [] OTHER -> {}

(* A database call fails, or the process stops, after the first write: the *)
(* rest of the call is never made.                                         *)
Fail(c) ==
  /\ MayFail /\ Writing(c)
  /\ muddled' = muddled \cup Owes(c)
       \cup (IF call[c].pc \in {"grant", "saveRole"} THEN {call[c].role} ELSE {})
  /\ Return(c)
  /\ UNCHANGED <<userVars, member, roleVars, tokens, made, raced>>

Step(c) ==
  \/ CheckRoles(c) \/ InsertUser(c) \/ UserExists(c) \/ DeleteRows(c)
  \/ InsertRows(c) \/ SyncRoleIds(c) \/ Bump(c)
  \/ LoadMatrix(c) \/ Submit(c) \/ ReadCurrent(c) \/ Revoke(c)
  \/ Grant(c) \/ SaveRole(c) \/ SaveStatus(c) \/ FindHolders(c)
  \/ LoadHolder(c) \/ BumpHolder(c)
  \/ Guard(c) \/ CountHolder(c) \/ LoadUser(c) \/ SaveUser(c)
  \/ ReadRoles(c) \/ ReadActive(c) \/ Sign(c) \/ Fail(c)

Arrive(c) ==
  \/ \E u \in Users :
       \/ \E roles \in {R \in SUBSET Roles : Cardinality(R) \in 1 .. MaxRoles} :
            AssignRoles(c, u, roles) \/ CreateUser(c, u, roles)
       \/ Deactivate(c, u) \/ Activate(c, u) \/ Password(c, u) \/ SignIn(c, u)
  \/ \E r \in Roles, op \in {"perms", "disable", "enable", "level", "rename"} :
       OpenRole(c, r, op)

Next == \E c \in Calls : Step(c) \/ Arrive(c)

Spec == Init /\ [][Next]_vars

----------------------------------------------------------------------------
TypeOK ==
  /\ status \in [Users -> {"NONE", "ACTIVE", "INACTIVE"}]
  /\ tokenVersion \in [Users -> Nat]
  /\ mirror \in [Users -> SUBSET Roles]
  /\ member \subseteq Users \X Roles
  /\ roleStatus \in [Roles -> {"ACTIVE", "DISABLED"}]
  /\ roleVersion \in [Roles -> Nat]
  /\ granted \in [Roles -> SUBSET Perms]
  /\ tokens \subseteq Token
  /\ made \in Nat /\ raced \subseteq Calls /\ muddled \subseteq Users \cup Roles

(* No token outlives the rights it carries: what a usable token permits,   *)
(* the active roles of its user grant, unless a call that took it away is  *)
(* still at work, was cut short, or had its tokenVersion overwritten by an *)
(* overlapping one (bumpTokenVersion, invalidateRoleHolders, signToken).   *)
NoExcessRights ==
  \A t \in tokens :
    (/\ Usable(t) /\ t.user \notin muddled
     /\ \A c \in Calls : t.user \notin Owes(c))
      => t.perms \subseteq Effective(t.user)

(* The optimistic lock: an edit of the matrix falls on the grants the      *)
(* administrator was shown, unless another call was writing between its    *)
(* version check and its first write, or an earlier edit was cut short     *)
(* before it raised the version or had it written over (setRolePermissions,*)
(* assertVersion).                                                         *)
EditOnSeen ==
  \A c \in Calls :
    (At(c, "revoke") /\ c \notin raced /\ call[c].role \notin muddled)
      => granted[call[c].role] = call[c].seen

(* A deactivation leaves another active SUPER_ADMIN behind when it takes   *)
(* one away, unless another call wrote beside it since its guard looked    *)
(* (deactivateUser, assertNotLastSuperAdmin).                              *)
LastAdminStays ==
  [][\A c \in Calls :
       (/\ SaveUser(c) /\ call[c].op = "deactivate" /\ c \notin raced
        /\ SuperAdmin \in RolesOf(call[c].user))
       => \E w \in HoldersOf(SuperAdmin) \ {call[c].user} : status[w] = "ACTIVE"]_vars

(* What is sent to be granted is what the checkboxes show                  *)
(* (PermissionMatrix.tsx, RbacConsolePage.tsx applyChanges).               *)
SavedAsShown ==
  \A c \in Calls : (At(c, "submit") /\ call[c].op = "perms")
    => call[c].want = call[c].shown
=============================================================================
