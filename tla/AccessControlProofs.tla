-------------------------- MODULE AccessControlProofs --------------------------
(***************************************************************************)
(* Proofs about the permission matrix and the tokens that carry a copy of  *)
(* it, for any numbers of users, roles, permissions and calls: no token    *)
(* outlives the rights it carries, an edit of the matrix falls on what was *)
(* shown, and a deactivation leaves an active super admin behind.          *)
(***************************************************************************)
EXTENDS AccessControl, FiniteSetTheorems, TLAPS

Thing == Users \cup Roles \cup Perms
CallOp == {"none", "assign", "create", "perms", "disable", "enable", "level", "rename",
           "deactivate", "activate", "password", "sign"}
CallPc == {"idle", "check", "create", "delete", "insert", "sync", "bump", "matrix", "submit",
           "current", "revoke", "grant", "saveRole", "saveStatus", "holders", "load",
           "bumpHolder", "guard", "count", "loadUser", "saveUser", "roles", "active", "sign"}
Job == [op : CallOp, pc : CallPc, user : Users \cup {Null}, role : Roles \cup {Null},
        ver : Nat, want : SUBSET Thing, seen : SUBSET Thing, shown : SUBSET Thing,
        todo : SUBSET Thing]

AccessType == TypeOK /\ call \in [Calls -> Job]

(* What a call is about, by what it is at.                                 *)
JobFits(j) ==
  /\ j.pc \in {"check", "create", "delete", "insert", "sync"} =>
       j.op \in {"assign", "create"} /\ j.user \in Users /\ j.want \subseteq Roles
  /\ j.pc \in {"matrix", "submit", "current", "revoke", "grant", "saveRole", "saveStatus",
               "holders"} => j.role \in Roles
  /\ j.pc \in {"submit", "matrix"} =>
       j.op \in {"perms", "disable", "enable", "level", "rename"}
  /\ j.pc = "submit" /\ j.op = "perms" => j.want \subseteq Perms
  /\ j.pc \in {"current", "revoke", "grant"} => j.want \subseteq Perms
  /\ j.pc \in {"load", "bumpHolder"} => j.todo \subseteq Users
  /\ j.pc \in {"bumpHolder", "bump", "guard", "count", "loadUser", "saveUser",
               "roles", "active", "sign"} => j.user \in Users
  /\ j.pc \in {"guard", "count", "loadUser", "saveUser"} => j.op \in {"deactivate", "activate"}
  /\ j.pc = "bump" => j.op \in {"assign", "deactivate", "password"}
  /\ j.pc = "guard" => j.seen = {}
  /\ j.pc = "count" => j.todo \subseteq Users
  /\ j.pc \in {"active", "sign"} => j.seen \subseteq Roles

(* Nobody has still to refuse the tokens of this user.                     *)
Settled(u) == u \notin muddled /\ \A c \in Calls : u \notin Owes(c)

(* Tokens, and those that are being signed: none is of a later version     *)
(* than its user, and one of this version has no more than the user's      *)
(* roles give.                                                             *)
TokenSafe(t) ==
  /\ t.user \notin muddled => t.ver <= tokenVersion[t.user]
  /\ Settled(t.user) /\ t.ver = tokenVersion[t.user] => t.perms \subseteq Effective(t.user)
SignSafe(c) ==
  LET j == call[c] IN
  j.pc \in {"roles", "active", "sign"} =>
    /\ j.user \notin muddled => j.ver <= tokenVersion[j.user]
    /\ Settled(j.user) /\ j.ver = tokenVersion[j.user] =>
         /\ j.pc = "active" => j.seen \subseteq RolesOf(j.user)
         /\ j.pc = "sign" => j.seen \subseteq ActiveOf(RolesOf(j.user))
RightsInv ==
  (\A t \in tokens : TokenSafe(t)) /\ (\A c \in Calls : SignSafe(c))

(* An edit knows the grants of the version it was opened with, but for an  *)
(* edit that is between its writes.                                        *)
AtWork(r) == \E o \in Calls : call[o].pc \in {"grant", "saveRole"} /\ call[o].role = r
EditSafe(c) ==
  LET j == call[c] IN
  j.role \notin muddled =>
    /\ j.pc \in {"matrix", "submit"} => j.ver <= roleVersion[j.role]
    /\ j.pc = "submit" /\ j.op = "perms" /\ j.ver = roleVersion[j.role] /\ ~AtWork(j.role) =>
         granted[j.role] = j.seen
    /\ j.pc \in {"current", "revoke"} /\ c \notin raced => granted[j.role] = j.seen
EditInv == \A c \in Calls : EditSafe(c)

(* What the guard of a deactivation has found is still so.                 *)
OtherAdmin(u) == \E w \in HoldersOf(SuperAdmin) \ {u} : status[w] = "ACTIVE"
AdminSafe(c) ==
  LET j == call[c] IN
  j.op = "deactivate" /\ c \notin raced =>
    /\ j.pc = "count" =>
         /\ j.todo \cup j.seen \subseteq HoldersOf(SuperAdmin) \ {j.user}
         /\ \A w \in j.seen : status[w] = "ACTIVE"
    /\ j.pc \in {"loadUser", "saveUser"} /\ SuperAdmin \in RolesOf(j.user) => OtherAdmin(j.user)
AdminInv == \A c \in Calls : AdminSafe(c)

AccessInv ==
  /\ AccessType /\ (\A c \in Calls : JobFits(call[c]))
  /\ RightsInv /\ EditInv /\ AdminInv

----------------------------------------------------------------------------
LEMMA JobIs ==
  ASSUME AccessInv, NEW c \in Calls
  PROVE  call[c] \in Job /\ JobFits(call[c])
BY DEF AccessInv, AccessType

LEMMA IdleIs ==
  Idle \in Job /\ Idle.pc = "idle" /\ JobFits(Idle)
BY DEF Idle, Job, CallOp, CallPc, JobFits

(* Who is owed, with the cases told apart.                                 *)
Owing(c, u) ==
  \/ call[c].op = "assign" /\ call[c].pc \in {"insert", "sync", "bump"} /\ u = call[c].user
  \/ call[c].pc \in {"grant", "saveRole", "holders"} /\ <<u, call[c].role>> \in member
  \/ call[c].pc \in {"load", "bumpHolder"} /\ u \in call[c].todo

LEMMA OwesIs ==
  ASSUME NEW c \in Calls, NEW u \in Users
  PROVE  (u \in Owes(c) <=> Owing(c, u)) /\ (u \in Owes(c) <=> Owing(c, u))'
<1>1. u \in Owes(c) <=> Owing(c, u)
  BY DEF Owes, Owing, HoldersOf
<1>2. (u \in Owes(c) <=> Owing(c, u))'
  BY DEF Owes, Owing, HoldersOf
<1> QED
  BY <1>1, <1>2

LEMMA SettledIs ==
  ASSUME NEW u \in Users
  PROVE  /\ Settled(u) <=> u \notin muddled /\ \A c \in Calls : ~Owing(c, u)
         /\ Settled(u)' <=> u \notin muddled' /\ \A c \in Calls : ~Owing(c, u)'
<1>1. Settled(u) <=> u \notin muddled /\ \A c \in Calls : ~Owing(c, u)
  BY OwesIs DEF Settled
<1>2. Settled(u)' <=> u \notin muddled' /\ \A c \in Calls : ~Owing(c, u)'
  BY OwesIs DEF Settled
<1> QED
  BY <1>1, <1>2

(* A call that moves on leaves the others where they are.                  *)
LEMMA CallMoves ==
  ASSUME AccessInv, NEW c \in Calls, NEW j \in Job, JobFits(j), call' = [call EXCEPT ![c] = j]
  PROVE  /\ call' \in [Calls -> Job]
         /\ \A o \in Calls : call'[o] = IF o = c THEN j ELSE call[o]
         /\ \A o \in Calls : JobFits(call'[o])
<1>1. call \in [Calls -> Job]
  BY DEF AccessInv, AccessType
<1>2. \A o \in Calls : call'[o] = IF o = c THEN j ELSE call[o]
  BY <1>1
<1> QED
  BY <1>1, <1>2, JobIs

(* What a user has is not taken away.                                      *)
Kept(u) ==
  /\ RolesOf(u) \subseteq RolesOf(u)'
  /\ \A r \in RolesOf(u) :
       /\ roleStatus[r] = "ACTIVE" => roleStatus'[r] = "ACTIVE"
       /\ granted[r] \subseteq granted'[r]

(* A step after which a user is settled at the same version took nothing   *)
(* from a user who was settled before it.                                  *)
LEMMA RightsKept ==
  ASSUME AccessInv, NEW c \in Calls, NEW j \in Job, JobFits(j), call' = [call EXCEPT ![c] = j],
         \A t \in tokens' : t \notin tokens => TokenSafe(t)', TypeOK', muddled \subseteq muddled',
         \A u \in Users : u \notin muddled' =>
           tokenVersion'[u] = tokenVersion[u] \/ tokenVersion'[u] = tokenVersion[u] + 1,
         \A u \in Users : Settled(u)' /\ tokenVersion'[u] = tokenVersion[u] =>
           Settled(u) /\ Kept(u),
         j.pc \in {"roles", "active", "sign"} => SignSafe(c)'
  PROVE  RightsInv'
<1>1. \A u \in Users : tokenVersion[u] \in Nat /\ tokenVersion'[u] \in Nat
  BY DEF AccessInv, AccessType, TypeOK
<1>2. \A u \in Users : Settled(u)' => u \notin muddled'
  BY DEF Settled
<1>3. ASSUME NEW t \in tokens', t \in tokens
      PROVE  TokenSafe(t)'
  <2>1. t.user \in Users /\ t.ver \in Nat /\ TokenSafe(t)
    BY <1>3 DEF AccessInv, AccessType, TypeOK, Token, RightsInv
  <2>2. t.user \notin muddled' => t.ver <= tokenVersion'[t.user]
    BY <1>1, <2>1 DEF TokenSafe
  <2>3. ASSUME Settled(t.user)', t.ver = tokenVersion'[t.user]
        PROVE  t.perms \subseteq Effective(t.user)'
    <3>1. t.user \notin muddled' /\ t.user \notin muddled
      BY <1>2, <2>1, <2>3
    <3>2. tokenVersion'[t.user] = tokenVersion[t.user]
      BY <1>1, <2>1, <2>3, <3>1 DEF TokenSafe
    <3>3. t.perms \subseteq Effective(t.user) /\ Kept(t.user)
      BY <2>1, <2>3, <3>2 DEF TokenSafe
    <3>4. Effective(t.user) \subseteq Effective(t.user)'
      BY <3>3 DEF Effective, PermsOf, ActiveOf, Kept
    <3> QED
      BY <3>3, <3>4
  <2> QED
    BY <2>2, <2>3 DEF TokenSafe
<1>4. ASSUME NEW o \in Calls
      PROVE  SignSafe(o)'
  <2>1. CASE o = c
    BY <2>1, CallMoves DEF SignSafe
  <2>2. CASE o # c /\ call[o].pc \in {"roles", "active", "sign"}
    <3>1. PICK k \in Job : k = call[o]
      BY JobIs
    <3>2. call'[o] = k /\ k.user \in Users /\ k.ver \in Nat /\ SignSafe(o)
      BY <2>2, <3>1, CallMoves, JobIs DEF JobFits, Job, AccessInv, RightsInv
    <3>3. k.user \notin muddled' => k.ver <= tokenVersion'[k.user]
      BY <1>1, <2>2, <3>1, <3>2 DEF SignSafe
    <3>4. ASSUME Settled(k.user)', k.ver = tokenVersion'[k.user]
          PROVE  /\ k.pc = "active" => k.seen \subseteq RolesOf(k.user)'
                 /\ k.pc = "sign" => k.seen \subseteq ActiveOf(RolesOf(k.user))'
      <4>1. k.user \notin muddled' /\ k.user \notin muddled
        BY <1>2, <3>2, <3>4
      <4>2. tokenVersion'[k.user] = tokenVersion[k.user]
        BY <1>1, <2>2, <3>1, <3>2, <3>4, <4>1 DEF SignSafe
      <4>3. Settled(k.user) /\ Kept(k.user)
        BY <3>2, <3>4, <4>2
      <4>4. /\ k.pc = "active" => k.seen \subseteq RolesOf(k.user)
            /\ k.pc = "sign" => k.seen \subseteq ActiveOf(RolesOf(k.user))
        BY <2>2, <3>1, <3>2, <3>4, <4>2, <4>3 DEF SignSafe
      <4>5. /\ RolesOf(k.user) \subseteq RolesOf(k.user)'
            /\ ActiveOf(RolesOf(k.user)) \subseteq ActiveOf(RolesOf(k.user))'
        BY <4>3 DEF Kept, ActiveOf
      <4> QED
        BY <4>4, <4>5
    <3> QED
      BY <3>1, <3>2, <3>3, <3>4 DEF SignSafe
  <2>3. CASE o # c /\ call[o].pc \notin {"roles", "active", "sign"}
    BY <2>3, CallMoves DEF SignSafe
  <2> QED
    BY <2>1, <2>2, <2>3
<1> QED
  BY <1>3, <1>4 DEF RightsInv

(* A call that writes nothing, but may sign a token, and may be cut short. *)
Still(c) ==
  /\ UNCHANGED <<status, tokenVersion, mirror, member, roleStatus, roleVersion, granted>>
  /\ tokens' \subseteq Token /\ \A t \in tokens' : t \notin tokens => TokenSafe(t)'
  /\ muddled \subseteq muddled' /\ muddled' \subseteq Users \cup Roles
  /\ made' \in Nat /\ raced' \subseteq Calls
  /\ \A o \in Calls \ {c} : o \in raced' <=> o \in raced

LEMMA StillKeeps ==
  ASSUME AccessInv, NEW c \in Calls, NEW j \in Job, JobFits(j), call' = [call EXCEPT ![c] = j],
         Still(c), \A u \in Users : Settled(u)' => Settled(u),
         \A r \in Roles : r \notin muddled' /\ ~AtWork(r)' => ~AtWork(r),
         j.pc \in {"roles", "active", "sign"} => SignSafe(c)',
         j.pc \in {"matrix", "submit", "current", "revoke"} => EditSafe(c)',
         j.pc \in {"count", "loadUser", "saveUser"} => AdminSafe(c)'
  PROVE  AccessInv'
<1>1. /\ call' \in [Calls -> Job]
      /\ \A o \in Calls : call'[o] = IF o = c THEN j ELSE call[o]
      /\ \A o \in Calls : JobFits(call'[o])
  BY CallMoves
<1>2. TypeOK'
  BY DEF Still, AccessInv, AccessType, TypeOK
<1>3. RightsInv'
  <2>1. \A u \in Users : Kept(u)
    BY DEF Still, Kept, RolesOf
  <2> QED
    BY <1>2, <2>1, RightsKept DEF Still
<1>4. EditInv'
  <2> SUFFICES ASSUME NEW o \in Calls
               PROVE  EditSafe(o)'
    BY DEF EditInv
  <2>1. CASE o = c
    BY <1>1, <2>1 DEF EditSafe
  <2>2. CASE o # c
    <3>1. EditSafe(o) /\ call'[o] = call[o] /\ JobFits(call[o])
      BY <1>1, <2>2, JobIs DEF AccessInv, EditInv
    <3>2. call[o].pc \in {"matrix", "submit", "current", "revoke"} => call[o].role \in Roles
      BY <3>1 DEF JobFits
    <3>3. PICK k : k = call[o]
      OBVIOUS
    <3>4. k.pc = "submit" /\ k.role \notin muddled' => (~AtWork(k.role)' => ~AtWork(k.role))
      BY <3>2, <3>3
    <3>5. UNCHANGED <<roleVersion, granted>> /\ (o \in raced' <=> o \in raced)
          /\ muddled \subseteq muddled'
      BY <2>2 DEF Still
    <3> QED
      BY <3>1, <3>3, <3>4, <3>5 DEF EditSafe
  <2> QED
    BY <2>1, <2>2
<1>5. AdminInv'
  <2> SUFFICES ASSUME NEW o \in Calls
               PROVE  AdminSafe(o)'
    BY DEF AdminInv
  <2>1. CASE o = c
    BY <1>1, <2>1 DEF AdminSafe
  <2>2. CASE o # c
    <3>1. AdminSafe(o) /\ call'[o] = call[o] /\ UNCHANGED <<member, status>>
          /\ (o \in raced' <=> o \in raced)
      BY <1>1, <2>2 DEF AccessInv, AdminInv, Still
    <3>2. PICK k : k = call[o]
      OBVIOUS
    <3>3. HoldersOf(SuperAdmin)' = HoldersOf(SuperAdmin) /\ RolesOf(k.user)' = RolesOf(k.user)
      BY <3>1 DEF HoldersOf, RolesOf
    <3>4. OtherAdmin(k.user)' <=> OtherAdmin(k.user)
      BY <3>1, <3>3 DEF OtherAdmin
    <3> QED
      BY <3>1, <3>2, <3>3, <3>4 DEF AdminSafe
  <2> QED
    BY <2>1, <2>2
<1> QED
  BY <1>1, <1>2, <1>3, <1>4, <1>5 DEF AccessInv, AccessType

(* A call that reads, for its own part.                                    *)
Looks(c) ==
  /\ UNCHANGED <<status, tokenVersion, mirror, member, roleStatus, roleVersion, granted,
                 tokens, muddled>>
  /\ made' \in Nat /\ raced' \subseteq Calls
  /\ \A o \in Calls \ {c} : o \in raced' <=> o \in raced

LEMMA LooksKeep ==
  ASSUME AccessInv, NEW c \in Calls, NEW j \in Job, JobFits(j), call' = [call EXCEPT ![c] = j],
         Looks(c), call[c].pc \notin {"grant", "saveRole"},
         \A u \in Users : Owing(c, u) => Owing(c, u)',
         j.pc \in {"roles", "active", "sign"} => SignSafe(c)',
         j.pc \in {"matrix", "submit", "current", "revoke"} => EditSafe(c)',
         j.pc \in {"count", "loadUser", "saveUser"} => AdminSafe(c)'
  PROVE  AccessInv'
<1>1. \A o \in Calls : call'[o] = IF o = c THEN j ELSE call[o]
  BY CallMoves
<1>2. Still(c)
  BY DEF Looks, Still, AccessInv, AccessType, TypeOK
<1>3. \A u \in Users : Settled(u)' => Settled(u)
  <2>1. \A o \in Calls, u \in Users : Owing(o, u) => Owing(o, u)'
    BY <1>1 DEF Looks, Owing
  <2>2. muddled' = muddled
    BY DEF Looks
  <2> QED
    BY <2>1, <2>2, SettledIs
<1>4. \A r \in Roles : ~AtWork(r)' => ~AtWork(r)
  BY <1>1 DEF AtWork
<1> QED
  BY <1>2, <1>3, <1>4, StillKeeps

(* A call that writes: everybody else who is at work may have read the old *)
(* state.                                                                  *)
LEMMA WritesKeep ==
  ASSUME AccessInv, NEW c \in Calls, NEW j \in Job, JobFits(j), call' = [call EXCEPT ![c] = j],
         UNCHANGED tokens, TypeOK', muddled \subseteq muddled', Writes(c),
         j.pc \notin {"matrix", "submit", "current", "revoke", "count", "loadUser", "saveUser",
                     "roles", "active", "sign"},
         \A u \in Users : u \notin muddled' =>
           tokenVersion'[u] = tokenVersion[u] \/ tokenVersion'[u] = tokenVersion[u] + 1,
         \A u \in Users : Settled(u)' /\ tokenVersion'[u] = tokenVersion[u] =>
           Settled(u) /\ Kept(u),
         \A r \in Roles : r \notin muddled' =>
           \/ roleVersion'[r] = roleVersion[r] + 1
           \/ /\ roleVersion'[r] = roleVersion[r]
              /\ ~AtWork(r)' => ~AtWork(r) /\ granted'[r] = granted[r]
  PROVE  AccessInv'
<1>1. /\ call' \in [Calls -> Job]
      /\ \A o \in Calls : call'[o] = IF o = c THEN j ELSE call[o]
      /\ \A o \in Calls : JobFits(call'[o])
  BY CallMoves
<1>2. RightsInv'
  BY RightsKept
<1>3. \A o \in Calls \ {c} : call[o].pc # "idle" => o \in raced'
  BY IdleIs DEF Writes
<1>4. EditInv'
  <2> SUFFICES ASSUME NEW o \in Calls
               PROVE  EditSafe(o)'
    BY DEF EditInv
  <2>1. CASE o = c
    BY <1>1, <2>1 DEF EditSafe
  <2>2. CASE o # c /\ call[o].pc \in {"matrix", "submit"}
    <3>1. PICK k \in Job : k = call[o]
      BY JobIs
    <3>2. call'[o] = k /\ EditSafe(o) /\ k.role \in Roles /\ k.ver \in Nat
      BY <1>1, <2>2, <3>1, JobIs DEF AccessInv, EditInv, JobFits, Job
    <3>3. roleVersion[k.role] \in Nat /\ roleVersion'[k.role] \in Nat
      BY <3>2 DEF AccessInv, AccessType, TypeOK
    <3>4. ASSUME k.role \notin muddled'
          PROVE  /\ k.ver <= roleVersion'[k.role]
                 /\ k.pc = "submit" /\ k.op = "perms" /\ k.ver = roleVersion'[k.role]
                      /\ ~AtWork(k.role)' => granted'[k.role] = k.seen
      <4>1. k.ver <= roleVersion[k.role]
        BY <2>2, <3>1, <3>2, <3>4 DEF EditSafe
      <4>2. CASE roleVersion'[k.role] = roleVersion[k.role] + 1
        BY <3>2, <3>3, <4>1, <4>2
      <4>3. CASE /\ roleVersion'[k.role] = roleVersion[k.role]
                 /\ ~AtWork(k.role)' => ~AtWork(k.role) /\ granted'[k.role] = granted[k.role]
        BY <2>2, <3>1, <3>2, <3>4, <4>1, <4>3 DEF EditSafe
      <4> QED
        BY <3>2, <3>4, <4>2, <4>3
    <3> QED
      BY <2>2, <3>1, <3>2, <3>4 DEF EditSafe
  <2>3. CASE o # c /\ call[o].pc \notin {"matrix", "submit"}
    BY <1>1, <1>3, <2>3 DEF EditSafe
  <2> QED
    BY <2>1, <2>2, <2>3
<1>5. AdminInv'
  BY <1>1, <1>3 DEF AdminInv, AdminSafe
<1> QED
  BY <1>1, <1>2, <1>4, <1>5 DEF AccessInv, AccessType


----------------------------------------------------------------------------
(* The moves of a call.                                                    *)
LEMMA GotoIs ==
  ASSUME AccessInv, NEW c \in Calls, NEW pc \in CallPc, NEW j, j = [call[c] EXCEPT !.pc = pc]
  PROVE  /\ j \in Job /\ j.pc = pc /\ j.op = call[c].op /\ j.user = call[c].user
         /\ j.role = call[c].role /\ j.ver = call[c].ver /\ j.want = call[c].want
         /\ j.seen = call[c].seen /\ j.todo = call[c].todo
         /\ Goto(c, pc) => call' = [call EXCEPT ![c] = j]
BY JobIs DEF Job, Goto

LEMMA ReadsLook ==
  ASSUME AccessInv, NEW c \in Calls, Reads
  PROVE  Looks(c)
BY DEF Reads, Looks, userVars, roleVars, AccessInv, AccessType, TypeOK

LEMMA ChecksLook ==
  ASSUME AccessInv, NEW c \in Calls, Checks(c) \/ UNCHANGED raced,
         UNCHANGED <<userVars, member, roleVars, tokens, made, muddled>>
  PROVE  Looks(c)
BY DEF Checks, Looks, userVars, roleVars, AccessInv, AccessType, TypeOK

LEMMA ReturnKeeps ==
  ASSUME AccessInv, NEW c \in Calls, Return(c), Looks(c),
         call[c].pc \notin {"grant", "saveRole"}, \A u \in Users : ~Owing(c, u)
  PROVE  AccessInv'
<1>1. PICK j \in Job : j = Idle
  BY IdleIs
<1>2. call' = [call EXCEPT ![c] = j] /\ j.pc = "idle" /\ JobFits(j)
  BY <1>1, IdleIs DEF Return
<1> QED
  BY <1>2, LooksKeep

LEMMA BeginLooks ==
  ASSUME AccessInv, NEW c \in Calls, NEW op, NEW pc, NEW u, NEW r, NEW want, NEW ver,
         Begin(c, op, pc, u, r, want, ver)
  PROVE  Looks(c) /\ call[c].pc = "idle" /\ \A w \in Users : ~Owing(c, w)
<1>1. Looks(c)
  BY DEF Begin, Looks, userVars, roleVars, AccessInv, AccessType, TypeOK
<1>2. call[c].pc = "idle"
  BY IdleIs DEF Begin
<1>3. \A w \in Users : ~Owing(c, w)
  BY <1>2 DEF Owing
<1> QED
  BY <1>1, <1>2, <1>3

(* The record of a call that arrives.                                      *)
Arrived(op, pc, u, r, want, ver) ==
  [op |-> op, pc |-> pc, user |-> u, role |-> r, ver |-> ver, want |-> want,
   seen |-> {}, shown |-> {}, todo |-> {}]

LEMMA BeginIs ==
  ASSUME AccessInv, NEW c \in Calls, NEW op, NEW pc, NEW u, NEW r, NEW want, NEW ver,
         Begin(c, op, pc, u, r, want, ver)
  PROVE  call' = [call EXCEPT ![c] = Arrived(op, pc, u, r, want, ver)]
<1>1. PICK j : j = [Idle EXCEPT !.op = op, !.pc = pc, !.user = u, !.role = r, !.want = want,
                                !.ver = ver]
  OBVIOUS
<1>2. call' = [call EXCEPT ![c] = j]
  BY <1>1 DEF Begin
<1>3. j = Arrived(op, pc, u, r, want, ver)
  BY <1>1 DEF Idle, Arrived
<1> QED
  BY <1>2, <1>3

LEMMA ArriveKeeps ==
  ASSUME AccessInv, NEW c \in Calls, Arrive(c)
  PROVE  AccessInv'
<1>1. ASSUME NEW u \in Users, NEW roles \in SUBSET Roles,
             AssignRoles(c, u, roles) \/ CreateUser(c, u, roles)
      PROVE  AccessInv'
  <2>1. PICK op \in {"assign", "create"}, ver \in Nat : Begin(c, op, "check", u, Null, roles, ver)
    <3>1. tokenVersion[u] \in Nat /\ 0 \in Nat
      BY DEF AccessInv, AccessType, TypeOK
    <3> QED
      BY <1>1, <3>1 DEF AssignRoles, CreateUser
  <2>2. PICK j : j = Arrived(op, "check", u, Null, roles, ver)
    OBVIOUS
  <2>3. op \in CallOp /\ "check" \in CallPc /\ roles \in SUBSET Thing
    BY DEF CallOp, CallPc, Thing
  <2>4. /\ j \in Job /\ j.pc = "check" /\ j.op = op /\ j.user = u /\ j.want = roles
        /\ call' = [call EXCEPT ![c] = j] /\ Looks(c)
        /\ call[c].pc = "idle" /\ \A w \in Users : ~Owing(c, w)
    <3>1. /\ j \in Job /\ j.pc = "check" /\ j.op = op /\ j.user = u /\ j.want = roles
      BY <2>2, <2>3 DEF Arrived, Job
    <3>2. call' = [call EXCEPT ![c] = j]
      BY <2>1, <2>2, BeginIs
    <3>3. Looks(c) /\ call[c].pc = "idle" /\ \A w \in Users : ~Owing(c, w)
      BY <2>1, BeginLooks
    <3> QED
      BY <3>1, <3>2, <3>3
  <2>5. JobFits(j)
    BY <2>4 DEF JobFits
  <2> QED
    BY <2>4, <2>5, LooksKeep
<1>2. ASSUME NEW u \in Users, Deactivate(c, u) \/ Activate(c, u) \/ Password(c, u)
      PROVE  AccessInv'
  <2>1. PICK op \in {"deactivate", "activate", "password"},
             pc \in {"guard", "loadUser", "bump"}, ver \in Nat :
          /\ Begin(c, op, pc, u, Null, {}, ver)
          /\ op = "deactivate" => pc = "guard"
          /\ op = "activate" => pc = "loadUser"
          /\ op = "password" => pc = "bump"
    <3>1. tokenVersion[u] \in Nat /\ 0 \in Nat
      BY DEF AccessInv, AccessType, TypeOK
    <3> QED
      BY <1>2, <3>1 DEF Deactivate, Activate, Password
  <2>2. PICK j : j = Arrived(op, pc, u, Null, {}, ver)
    OBVIOUS
  <2>3. op \in CallOp /\ pc \in CallPc /\ {} \in SUBSET Thing
    BY DEF CallOp, CallPc
  <2>4. /\ j \in Job /\ j.pc = pc /\ j.op = op /\ j.user = u /\ j.seen = {}
        /\ call' = [call EXCEPT ![c] = j] /\ Looks(c)
        /\ call[c].pc = "idle" /\ \A w \in Users : ~Owing(c, w)
    <3>1. /\ j \in Job /\ j.pc = pc /\ j.op = op /\ j.user = u /\ j.seen = {}
      BY <2>2, <2>3 DEF Arrived, Job
    <3>2. call' = [call EXCEPT ![c] = j]
      BY <2>1, <2>2, BeginIs
    <3>3. Looks(c) /\ call[c].pc = "idle" /\ \A w \in Users : ~Owing(c, w)
      BY <2>1, BeginLooks
    <3> QED
      BY <3>1, <3>2, <3>3
  <2>5. JobFits(j)
    BY <2>1, <2>4 DEF JobFits
  <2>6. call'[c] = j
    BY <2>4, <2>5, CallMoves
  <2>7. pc = "loadUser" => AdminSafe(c)'
    BY <2>1, <2>4, <2>6 DEF AdminSafe
  <2> QED
    BY <2>4, <2>5, <2>7, LooksKeep
<1>3. ASSUME NEW u \in Users, SignIn(c, u)
      PROVE  AccessInv'
  <2>1. PICK ver \in Nat : ver = tokenVersion[u] /\ Begin(c, "sign", "roles", u, Null, {}, ver)
    BY <1>3 DEF SignIn, AccessInv, AccessType, TypeOK
  <2>2. PICK j : j = Arrived("sign", "roles", u, Null, {}, ver)
    OBVIOUS
  <2>3. "sign" \in CallOp /\ "roles" \in CallPc /\ {} \in SUBSET Thing
    BY DEF CallOp, CallPc
  <2>4. /\ j \in Job /\ j.pc = "roles" /\ j.op = "sign" /\ j.user = u /\ j.ver = ver
        /\ call' = [call EXCEPT ![c] = j] /\ Looks(c)
        /\ call[c].pc = "idle" /\ \A w \in Users : ~Owing(c, w)
    <3>1. /\ j \in Job /\ j.pc = "roles" /\ j.op = "sign" /\ j.user = u /\ j.ver = ver
      BY <2>2, <2>3 DEF Arrived, Job
    <3>2. call' = [call EXCEPT ![c] = j]
      BY <2>1, <2>2, BeginIs
    <3>3. Looks(c) /\ call[c].pc = "idle" /\ \A w \in Users : ~Owing(c, w)
      BY <2>1, BeginLooks
    <3> QED
      BY <3>1, <3>2, <3>3
  <2>5. JobFits(j)
    BY <2>4 DEF JobFits
  <2>6. call'[c] = j
    BY <2>4, <2>5, CallMoves
  <2>7. SignSafe(c)'
    BY <2>1, <2>4, <2>6 DEF SignSafe, Looks
  <2> QED
    BY <2>4, <2>5, <2>7, LooksKeep
<1>4. ASSUME NEW r \in Roles, NEW op \in {"perms", "disable", "enable", "level", "rename"},
             OpenRole(c, r, op)
      PROVE  AccessInv'
  <2>1. PICK ver \in Nat : ver = roleVersion[r] /\ Begin(c, op, "matrix", Null, r, {}, ver)
    BY <1>4 DEF OpenRole, AccessInv, AccessType, TypeOK
  <2>2. PICK j : j = Arrived(op, "matrix", Null, r, {}, ver)
    OBVIOUS
  <2>3. op \in CallOp /\ "matrix" \in CallPc /\ {} \in SUBSET Thing
    BY DEF CallOp, CallPc
  <2>4. /\ j \in Job /\ j.pc = "matrix" /\ j.op = op /\ j.role = r /\ j.ver = ver
        /\ call' = [call EXCEPT ![c] = j] /\ Looks(c)
        /\ call[c].pc = "idle" /\ \A w \in Users : ~Owing(c, w)
    <3>1. /\ j \in Job /\ j.pc = "matrix" /\ j.op = op /\ j.role = r /\ j.ver = ver
      BY <2>2, <2>3 DEF Arrived, Job
    <3>2. call' = [call EXCEPT ![c] = j]
      BY <2>1, <2>2, BeginIs
    <3>3. Looks(c) /\ call[c].pc = "idle" /\ \A w \in Users : ~Owing(c, w)
      BY <2>1, BeginLooks
    <3> QED
      BY <3>1, <3>2, <3>3
  <2>5. JobFits(j)
    BY <2>4 DEF JobFits
  <2>6. call'[c] = j
    BY <2>4, <2>5, CallMoves
  <2>7. EditSafe(c)'
    BY <2>1, <2>4, <2>6 DEF EditSafe, Looks
  <2> QED
    BY <2>4, <2>5, <2>7, LooksKeep
<1> QED
  BY <1>1, <1>2, <1>3, <1>4 DEF Arrive


----------------------------------------------------------------------------
(* The steps that read.                                                    *)
LEMMA CheckRolesKeeps ==
  ASSUME AccessInv, NEW c \in Calls, CheckRoles(c) \/ UserExists(c)
  PROVE  AccessInv'
<1>1. /\ call[c].pc \in {"check", "create"} /\ Looks(c)
      /\ Return(c) \/ \E pc \in {"create", "delete"} : Goto(c, pc)
  <2>1. Reads
    BY DEF CheckRoles, UserExists
  <2>2. Looks(c)
    BY <2>1, ReadsLook
  <2> QED
    BY <2>2 DEF CheckRoles, UserExists, At
<1>2. \A u \in Users : ~Owing(c, u)
  BY <1>1 DEF Owing
<1>3. ASSUME NEW pc \in {"create", "delete"}, Goto(c, pc)
      PROVE  AccessInv'
  <2>1. PICK j : j = [call[c] EXCEPT !.pc = pc]
    OBVIOUS
  <2>2. pc \in CallPc
    BY DEF CallPc
  <2>3. /\ j \in Job /\ j.pc = pc /\ j.op = call[c].op /\ j.user = call[c].user
        /\ j.want = call[c].want /\ call' = [call EXCEPT ![c] = j]
    BY <1>3, <2>1, <2>2, GotoIs
  <2>4. JobFits(j)
    BY <1>1, <2>3, JobIs DEF JobFits
  <2> QED
    BY <1>1, <1>2, <2>3, <2>4, LooksKeep
<1> QED
  BY <1>1, <1>2, <1>3, ReturnKeeps

(* The page shows the grants it loads.                                     *)
LEMMA LoadMatrixKeeps ==
  ASSUME AccessInv, NEW c \in Calls, LoadMatrix(c)
  PROVE  AccessInv'
<1>1. call[c].pc = "matrix" /\ Looks(c)
  BY ReadsLook DEF LoadMatrix, At
<1>2. /\ call[c] \in Job /\ call[c].role \in Roles
      /\ call[c].op \in {"perms", "disable", "enable", "level", "rename"}
      /\ \A u \in Users : ~Owing(c, u)
  BY <1>1, JobIs DEF JobFits, Owing
<1>3. call[c].role \notin muddled => call[c].ver <= roleVersion[call[c].role]
  BY <1>1 DEF AccessInv, EditInv, EditSafe
<1>4. CASE call[c].op = "perms"
  <2>1. PICK g : g = granted[call[c].role]
    OBVIOUS
  <2>2. PICK staged \in Staged(call[c].role) :
          call' = [call EXCEPT ![c].pc = "submit", ![c].seen = g,
                     ![c].shown = Shown(g, staged), ![c].want = Desired(staged)]
    BY <1>4, <2>1 DEF LoadMatrix
  <2>3. g \subseteq Perms
    BY <1>2, <2>1 DEF AccessInv, AccessType, TypeOK
  <2>4. PICK shown \in SUBSET Perms : shown = Shown(g, staged)
    BY DEF Shown
  <2>5. PICK want \in SUBSET Perms : want = Desired(staged)
    BY DEF Desired, Staged, Boxes
  <2>6. PICK j : j = [call[c] EXCEPT !.pc = "submit", !.seen = g, !.shown = shown, !.want = want]
    OBVIOUS
  <2>7. call' = [call EXCEPT ![c] = j]
    BY <2>2, <2>4, <2>5, <2>6 DEF AccessInv, AccessType
  <2>8. "submit" \in CallPc /\ g \in SUBSET Thing /\ shown \in SUBSET Thing
        /\ want \in SUBSET Thing
    BY <2>3 DEF CallPc, Thing
  <2>9. /\ j \in Job /\ j.pc = "submit" /\ j.op = call[c].op /\ j.role = call[c].role
        /\ j.ver = call[c].ver /\ j.seen = g /\ j.want = want
    BY <1>2, <2>6, <2>8 DEF Job
  <2>10. JobFits(j)
    BY <1>2, <2>9 DEF JobFits
  <2>11. EditSafe(c)'
    <3>1. call'[c] = j /\ UNCHANGED <<roleVersion, granted, muddled>>
      BY <1>1, <2>7, <2>9, <2>10, CallMoves DEF Looks
    <3> QED
      BY <1>3, <2>1, <2>9, <3>1 DEF EditSafe
  <2> QED
    BY <1>1, <1>2, <2>7, <2>9, <2>10, <2>11, LooksKeep
<1>5. CASE call[c].op # "perms"
  <2>1. PICK j : j = [call[c] EXCEPT !.pc = "submit"]
    OBVIOUS
  <2>2. Goto(c, "submit") /\ "submit" \in CallPc
    BY <1>5 DEF LoadMatrix, CallPc
  <2>3. /\ j \in Job /\ j.pc = "submit" /\ j.op = call[c].op /\ j.role = call[c].role
        /\ j.ver = call[c].ver /\ call' = [call EXCEPT ![c] = j]
    BY <2>1, <2>2, GotoIs
  <2>4. JobFits(j)
    BY <1>2, <1>5, <2>3 DEF JobFits
  <2>5. EditSafe(c)'
    <3>1. call'[c] = j /\ UNCHANGED <<roleVersion, muddled>>
      BY <1>1, <2>3, <2>4, CallMoves DEF Looks
    <3> QED
      BY <1>3, <1>5, <2>3, <3>1 DEF EditSafe
  <2> QED
    BY <1>1, <1>2, <2>3, <2>4, <2>5, LooksKeep
<1> QED
  BY <1>4, <1>5

(* The version is compared while nobody else is between writes, or raced.  *)
LEMMA SubmitKeeps ==
  ASSUME AccessInv, NEW c \in Calls, Submit(c)
  PROVE  AccessInv'
<1>1. /\ call[c].pc = "submit" /\ (Checks(c) \/ UNCHANGED raced)
      /\ UNCHANGED <<userVars, member, roleVars, tokens, made, muddled>>
  BY DEF Submit, At
<1>2. Looks(c) /\ \A u \in Users : ~Owing(c, u)
  BY <1>1, ChecksLook DEF Owing
<1>3. /\ call[c] \in Job /\ call[c].role \in Roles
      /\ call[c].op = "perms" => call[c].want \subseteq Perms
  BY <1>1, JobIs DEF JobFits
<1>4. CASE Return(c)
  BY <1>1, <1>2, <1>4, ReturnKeeps
<1>5. CASE ~Return(c)
  <2>1. PICK op \in CallOp : op = IF roleStatus[call[c].role] = NewStatus(call[c].op)
                                  THEN "level" ELSE call[c].op
    BY <1>3 DEF Job, CallOp
  <2>2. PICK pc \in {"current", "saveStatus"} :
          pc = IF call[c].op = "perms" THEN "current" ELSE "saveStatus"
    OBVIOUS
  <2>3. /\ call' = [call EXCEPT ![c].pc = pc, ![c].op = op] /\ Checks(c)
        /\ roleVersion[call[c].role] = call[c].ver
    BY <1>3, <1>5, <2>1, <2>2 DEF Submit, AccessInv, AccessType
  <2>4. PICK j : j = [call[c] EXCEPT !.pc = pc, !.op = op]
    OBVIOUS
  <2>5. call' = [call EXCEPT ![c] = j]
    BY <2>3, <2>4 DEF AccessInv, AccessType
  <2>6. /\ j \in Job /\ j.pc = pc /\ j.role = call[c].role /\ j.seen = call[c].seen
        /\ j.want = call[c].want
    <3>1. pc \in CallPc
      BY DEF CallPc
    <3> QED
      BY <1>3, <2>4, <3>1 DEF Job
  <2>7. JobFits(j)
    BY <1>3, <2>2, <2>6 DEF JobFits
  <2>8. pc = "current" => EditSafe(c)'
    <3> SUFFICES ASSUME pc = "current"
                 PROVE  EditSafe(c)'
      OBVIOUS
    <3>1. call[c].op = "perms"
      BY <2>2
    <3>2. call'[c] = j /\ UNCHANGED <<granted, muddled>>
      BY <1>2, <2>5, <2>6, <2>7, CallMoves DEF Looks
    <3>3. c \notin raced' => ~AtWork(call[c].role)
      <4>1. c \notin raced' => \A o \in Calls \ {c} : ~Writing(o)
        BY <2>3 DEF Checks
      <4> QED
        BY <1>1, <4>1 DEF AtWork, Writing
    <3>4. call[c].role \notin muddled /\ c \notin raced' => granted[call[c].role] = call[c].seen
      BY <1>1, <2>3, <3>1, <3>3 DEF AccessInv, EditInv, EditSafe
    <3> QED
      BY <2>6, <3>2, <3>4 DEF EditSafe
  <2> QED
    BY <1>1, <1>2, <2>5, <2>6, <2>7, <2>8, LooksKeep
<1> QED
  BY <1>4, <1>5

LEMMA ReadCurrentKeeps ==
  ASSUME AccessInv, NEW c \in Calls, ReadCurrent(c)
  PROVE  AccessInv'
<1>1. call[c].pc = "current" /\ Looks(c) /\ raced' = raced
  BY ReadsLook DEF ReadCurrent, At, Reads
<1>2. /\ call[c] \in Job /\ call[c].role \in Roles /\ call[c].want \subseteq Perms
      /\ \A u \in Users : ~Owing(c, u)
  BY <1>1, JobIs DEF JobFits, Owing
<1>3. PICK g \in SUBSET Perms : g = granted[call[c].role]
  BY <1>2 DEF AccessInv, AccessType, TypeOK
<1>4. PICK todo \in SUBSET Perms : todo = g \ call[c].want
  OBVIOUS
<1>5. PICK want \in SUBSET Perms : want = call[c].want \ g
  BY <1>2
<1>6. PICK j : j = [call[c] EXCEPT !.pc = "revoke", !.todo = todo, !.want = want]
  OBVIOUS
<1>7. call' = [call EXCEPT ![c] = j]
  BY <1>3, <1>4, <1>5, <1>6 DEF ReadCurrent, AccessInv, AccessType
<1>8. /\ j \in Job /\ j.pc = "revoke" /\ j.role = call[c].role /\ j.seen = call[c].seen
      /\ j.want = want
  <2>1. "revoke" \in CallPc /\ todo \in SUBSET Thing /\ want \in SUBSET Thing
    BY DEF CallPc, Thing
  <2> QED
    BY <1>2, <1>6, <2>1 DEF Job
<1>9. JobFits(j)
  BY <1>2, <1>8 DEF JobFits
<1>10. EditSafe(c)'
  <2>1. call'[c] = j /\ UNCHANGED <<granted, muddled>>
    BY <1>1, <1>7, <1>8, <1>9, CallMoves DEF Looks
  <2>2. EditSafe(c)
    BY DEF AccessInv, EditInv
  <2> QED
    BY <1>1, <1>8, <2>1, <2>2 DEF EditSafe
<1> QED
  BY <1>1, <1>2, <1>7, <1>8, <1>9, <1>10, LooksKeep

(* The holders that are found are those who are owed.                      *)
LEMMA FindHoldersKeeps ==
  ASSUME AccessInv, NEW c \in Calls, FindHolders(c)
  PROVE  AccessInv'
<1>1. call[c].pc = "holders" /\ Looks(c)
  BY ReadsLook DEF FindHolders, At
<1>2. call[c] \in Job
  BY JobIs
<1>3. PICK holders \in SUBSET Users : holders = HoldersOf(call[c].role)
  BY DEF HoldersOf
<1>4. \A u \in Users : Owing(c, u) <=> u \in holders
  BY <1>1, <1>3 DEF Owing, HoldersOf
<1>5. CASE holders = {}
  <2>1. Return(c)
    BY <1>3, <1>5 DEF FindHolders
  <2> QED
    BY <1>1, <1>4, <1>5, <2>1, ReturnKeeps
<1>6. CASE holders # {}
  <2>1. PICK j : j = [call[c] EXCEPT !.pc = "load", !.todo = holders]
    OBVIOUS
  <2>2. call' = [call EXCEPT ![c] = j]
    BY <1>3, <1>6, <2>1 DEF FindHolders, AccessInv, AccessType
  <2>3. j \in Job /\ j.pc = "load" /\ j.todo = holders
    <3>1. "load" \in CallPc /\ holders \in SUBSET Thing
      BY DEF CallPc, Thing
    <3> QED
      BY <1>2, <2>1, <3>1 DEF Job
  <2>4. JobFits(j)
    BY <2>3 DEF JobFits
  <2>5. \A u \in Users : Owing(c, u) => Owing(c, u)'
    <3>1. call'[c] = j
      BY <2>2, <2>3, <2>4, CallMoves
    <3> QED
      BY <1>4, <2>3, <3>1 DEF Owing
  <2> QED
    BY <1>1, <2>2, <2>3, <2>4, <2>5, LooksKeep
<1> QED
  BY <1>5, <1>6

LEMMA LoadHolderKeeps ==
  ASSUME AccessInv, NEW c \in Calls, LoadHolder(c)
  PROVE  AccessInv'
<1>1. call[c].pc = "load" /\ Looks(c)
  BY ReadsLook DEF LoadHolder, At
<1>2. call[c] \in Job /\ call[c].todo \subseteq Users
  BY <1>1, JobIs DEF JobFits
<1>3. PICK u \in Users :
        call' = [call EXCEPT ![c].pc = "bumpHolder", ![c].user = u, ![c].ver = tokenVersion[u]]
  BY <1>2 DEF LoadHolder
<1>4. PICK ver \in Nat : ver = tokenVersion[u]
  BY DEF AccessInv, AccessType, TypeOK
<1>5. PICK j : j = [call[c] EXCEPT !.pc = "bumpHolder", !.user = u, !.ver = ver]
  OBVIOUS
<1>6. call' = [call EXCEPT ![c] = j]
  BY <1>3, <1>4, <1>5 DEF AccessInv, AccessType
<1>7. j \in Job /\ j.pc = "bumpHolder" /\ j.todo = call[c].todo /\ j.user = u
  <2>1. "bumpHolder" \in CallPc
    BY DEF CallPc
  <2> QED
    BY <1>2, <1>5, <2>1 DEF Job
<1>8. JobFits(j)
  BY <1>2, <1>7 DEF JobFits
<1>9. \A w \in Users : Owing(c, w) => Owing(c, w)'
  <2>1. call'[c] = j
    BY <1>6, <1>7, <1>8, CallMoves
  <2> QED
    BY <1>1, <1>7, <2>1 DEF Owing
<1> QED
  BY <1>1, <1>6, <1>7, <1>8, <1>9, LooksKeep

(* The guard of a deactivation: who else is a super admin, and is active.  *)
LEMMA GuardKeeps ==
  ASSUME AccessInv, NEW c \in Calls, Guard(c)
  PROVE  AccessInv'
<1>1. call[c].pc = "guard" /\ Looks(c)
  BY ChecksLook DEF Guard, At
<1>2. /\ call[c] \in Job /\ call[c].user \in Users /\ call[c].seen = {}
      /\ call[c].op \in {"deactivate", "activate"} /\ \A u \in Users : ~Owing(c, u)
  BY <1>1, JobIs DEF JobFits, Owing
<1>3. UNCHANGED <<member, status>>
  BY <1>1 DEF Looks
<1>4. PICK others \in SUBSET Users : others = HoldersOf(SuperAdmin) \ {call[c].user}
  BY DEF HoldersOf
<1>5. CASE SuperAdmin \notin RolesOf(call[c].user)
  <2>1. PICK j : j = [call[c] EXCEPT !.pc = "loadUser"]
    OBVIOUS
  <2>2. Goto(c, "loadUser") /\ "loadUser" \in CallPc
    BY <1>5 DEF Guard, CallPc
  <2>3. /\ j \in Job /\ j.pc = "loadUser" /\ j.op = call[c].op /\ j.user = call[c].user
        /\ call' = [call EXCEPT ![c] = j]
    BY <2>1, <2>2, GotoIs
  <2>4. JobFits(j)
    BY <1>2, <2>3 DEF JobFits
  <2>5. AdminSafe(c)'
    <3>1. call'[c] = j
      BY <2>3, <2>4, CallMoves
    <3>2. PICK u : u = call[c].user
      OBVIOUS
    <3>3. SuperAdmin \notin RolesOf(u)'
      BY <1>3, <1>5, <3>2 DEF RolesOf
    <3> QED
      BY <2>3, <3>1, <3>2, <3>3 DEF AdminSafe
  <2> QED
    BY <1>1, <1>2, <2>3, <2>4, <2>5, LooksKeep
<1>6. CASE SuperAdmin \in RolesOf(call[c].user) /\ others = {}
  <2>1. Return(c)
    BY <1>4, <1>6 DEF Guard
  <2> QED
    BY <1>1, <1>2, <2>1, ReturnKeeps
<1>7. CASE SuperAdmin \in RolesOf(call[c].user) /\ others # {}
  <2>1. PICK j : j = [call[c] EXCEPT !.pc = "count", !.todo = others]
    OBVIOUS
  <2>2. call' = [call EXCEPT ![c] = j]
    BY <1>4, <1>7, <2>1 DEF Guard, AccessInv, AccessType
  <2>3. /\ j \in Job /\ j.pc = "count" /\ j.op = call[c].op /\ j.user = call[c].user
        /\ j.todo = others /\ j.seen = {}
    <3>1. "count" \in CallPc /\ others \in SUBSET Thing
      BY DEF CallPc, Thing
    <3> QED
      BY <1>2, <2>1, <3>1 DEF Job
  <2>4. JobFits(j)
    BY <1>2, <2>3 DEF JobFits
  <2>5. AdminSafe(c)'
    <3>1. call'[c] = j
      BY <2>2, <2>3, <2>4, CallMoves
    <3>2. HoldersOf(SuperAdmin)' = HoldersOf(SuperAdmin)
      BY <1>3 DEF HoldersOf
    <3> QED
      BY <1>4, <2>3, <3>1, <3>2 DEF AdminSafe
  <2> QED
    BY <1>1, <1>2, <2>2, <2>3, <2>4, <2>5, LooksKeep
<1> QED
  BY <1>5, <1>6, <1>7

LEMMA CountHolderKeeps ==
  ASSUME AccessInv, NEW c \in Calls, CountHolder(c)
  PROVE  AccessInv'
<1>1. call[c].pc = "count" /\ Looks(c) /\ raced' = raced
  BY ReadsLook DEF CountHolder, At, Reads
<1>2. /\ call[c] \in Job /\ call[c].user \in Users /\ call[c].todo \subseteq Users
      /\ call[c].op \in {"deactivate", "activate"} /\ \A u \in Users : ~Owing(c, u)
  BY <1>1, JobIs DEF JobFits, Owing
<1>3. PICK u \in call[c].todo :
        LET active == IF status[u] = "ACTIVE" THEN call[c].seen \cup {u} ELSE call[c].seen
            left == call[c].todo \ {u}
        IN  IF left = {} /\ active = {} THEN Return(c)
            ELSE call' = [call EXCEPT ![c].pc = IF left = {} THEN "loadUser" ELSE "count",
                            ![c].todo = left, ![c].seen = IF left = {} THEN {} ELSE active]
  BY DEF CountHolder
<1>4. PICK active : active = IF status[u] = "ACTIVE" THEN call[c].seen \cup {u} ELSE call[c].seen
  OBVIOUS
<1>5. PICK left \in SUBSET Users : left = call[c].todo \ {u}
  BY <1>2
<1>6. active \in SUBSET Thing
  BY <1>2, <1>4 DEF Job, Thing
<1>7. CASE left = {} /\ active = {}
  <2>1. Return(c)
    BY <1>3, <1>4, <1>5, <1>7
  <2> QED
    BY <1>1, <1>2, <2>1, ReturnKeeps
<1>8. CASE ~(left = {} /\ active = {})
  <2>1. PICK pc \in {"loadUser", "count"} : pc = IF left = {} THEN "loadUser" ELSE "count"
    OBVIOUS
  <2>2. PICK seen \in SUBSET Thing : seen = IF left = {} THEN {} ELSE active
    BY <1>6
  <2>3. PICK j : j = [call[c] EXCEPT !.pc = pc, !.todo = left, !.seen = seen]
    OBVIOUS
  <2>4. call' = [call EXCEPT ![c] = j]
    BY <1>3, <1>4, <1>5, <1>8, <2>1, <2>2, <2>3 DEF AccessInv, AccessType
  <2>5. /\ j \in Job /\ j.pc = pc /\ j.op = call[c].op /\ j.user = call[c].user
        /\ j.todo = left /\ j.seen = seen
    <3>1. pc \in CallPc /\ left \in SUBSET Thing
      BY DEF CallPc, Thing
    <3> QED
      BY <1>2, <2>3, <3>1 DEF Job
  <2>6. JobFits(j)
    BY <1>2, <2>1, <2>5 DEF JobFits
  <2>7. AdminSafe(c)'
    <3>1. call'[c] = j
      BY <2>4, <2>5, <2>6, CallMoves
    <3>2. HoldersOf(SuperAdmin)' = HoldersOf(SuperAdmin) /\ UNCHANGED status
      BY <1>1 DEF Looks, HoldersOf
    <3>3. ASSUME call[c].op = "deactivate", c \notin raced
          PROVE  /\ left \cup active \subseteq HoldersOf(SuperAdmin) \ {call[c].user}
                 /\ \A w \in active : status[w] = "ACTIVE"
      <4>1. /\ call[c].todo \cup call[c].seen \subseteq HoldersOf(SuperAdmin) \ {call[c].user}
            /\ \A w \in call[c].seen : status[w] = "ACTIVE"
        BY <1>1, <3>3 DEF AccessInv, AdminInv, AdminSafe
      <4> QED
        BY <1>4, <1>5, <4>1
    <3>4. ASSUME call[c].op = "deactivate", c \notin raced, left = {}
          PROVE  \E w \in HoldersOf(SuperAdmin) \ {call[c].user} : status[w] = "ACTIVE"
      BY <1>8, <3>3, <3>4
    <3>5. PICK k : k = call[c].user
      OBVIOUS
    <3>6. j.op = "deactivate" /\ c \notin raced /\ left = {} => OtherAdmin(k)'
      BY <2>5, <3>2, <3>4, <3>5 DEF OtherAdmin
    <3>7. j.op = "deactivate" /\ c \notin raced /\ pc = "count" =>
            /\ j.todo \cup j.seen \subseteq HoldersOf(SuperAdmin)' \ {j.user}
            /\ \A w \in j.seen : status'[w] = "ACTIVE"
      BY <2>1, <2>2, <2>5, <3>2, <3>3
    <3> QED
      BY <1>1, <2>1, <2>5, <3>1, <3>5, <3>6, <3>7 DEF AdminSafe
  <2> QED
    BY <1>1, <1>2, <2>1, <2>4, <2>5, <2>6, <2>7, LooksKeep
<1> QED
  BY <1>7, <1>8

LEMMA LoadUserKeeps ==
  ASSUME AccessInv, NEW c \in Calls, LoadUser(c)
  PROVE  AccessInv'
<1>1. call[c].pc = "loadUser" /\ Looks(c) /\ raced' = raced
  BY ReadsLook DEF LoadUser, At, Reads
<1>2. /\ call[c] \in Job /\ call[c].user \in Users
      /\ call[c].op \in {"deactivate", "activate"} /\ \A u \in Users : ~Owing(c, u)
  BY <1>1, JobIs DEF JobFits, Owing
<1>3. PICK ver \in Nat : ver = tokenVersion[call[c].user]
  BY <1>2 DEF AccessInv, AccessType, TypeOK
<1>4. CASE Return(c)
  BY <1>1, <1>2, <1>4, ReturnKeeps
<1>5. CASE ~Return(c)
  <2>1. PICK pc \in {"saveUser", "bump"} :
          /\ call' = [call EXCEPT ![c].pc = pc, ![c].ver = ver]
          /\ pc = "bump" => call[c].op = "deactivate"
    BY <1>2, <1>3, <1>5 DEF LoadUser
  <2>2. PICK j : j = [call[c] EXCEPT !.pc = pc, !.ver = ver]
    OBVIOUS
  <2>3. call' = [call EXCEPT ![c] = j]
    BY <2>1, <2>2 DEF AccessInv, AccessType
  <2>4. j \in Job /\ j.pc = pc /\ j.op = call[c].op /\ j.user = call[c].user
    <3>1. pc \in CallPc
      BY DEF CallPc
    <3> QED
      BY <1>2, <2>2, <3>1 DEF Job
  <2>5. JobFits(j)
    BY <1>2, <2>1, <2>4 DEF JobFits
  <2>6. AdminSafe(c)'
    <3>1. call'[c] = j /\ UNCHANGED <<member, status>>
      BY <1>1, <2>3, <2>4, <2>5, CallMoves DEF Looks
    <3>2. PICK u : u = call[c].user
      OBVIOUS
    <3>3. (OtherAdmin(u)' <=> OtherAdmin(u)) /\ RolesOf(u)' = RolesOf(u)
      BY <3>1 DEF OtherAdmin, HoldersOf, RolesOf
    <3>4. AdminSafe(c)
      BY DEF AccessInv, AdminInv
    <3> QED
      BY <1>1, <2>1, <2>4, <3>1, <3>2, <3>3, <3>4 DEF AdminSafe
  <2> QED
    BY <1>1, <1>2, <2>1, <2>3, <2>4, <2>5, <2>6, LooksKeep
<1> QED
  BY <1>4, <1>5


----------------------------------------------------------------------------
(* Signing a token.                                                        *)
LEMMA StillSettled ==
  ASSUME NEW c \in Calls, \A o \in Calls \ {c} : call'[o] = call[o],
         muddled \subseteq muddled', UNCHANGED member, \A u \in Users : ~Owing(c, u)
  PROVE  \A u \in Users : Settled(u)' => Settled(u)
<1>1. \A o \in Calls, u \in Users : Owing(o, u) => Owing(o, u)'
  BY DEF Owing
<1> QED
  BY <1>1, SettledIs

LEMMA ReadRolesKeeps ==
  ASSUME AccessInv, NEW c \in Calls, ReadRoles(c)
  PROVE  AccessInv'
<1>1. call[c].pc = "roles" /\ Looks(c)
  BY ReadsLook DEF ReadRoles, At
<1>2. call[c] \in Job /\ call[c].user \in Users /\ \A u \in Users : ~Owing(c, u)
  BY <1>1, JobIs DEF JobFits, Owing
<1>3. PICK seen \in SUBSET Roles : seen = RolesOf(call[c].user)
  BY DEF RolesOf
<1>4. PICK j : j = [call[c] EXCEPT !.pc = "active", !.seen = seen]
  OBVIOUS
<1>5. call' = [call EXCEPT ![c] = j]
  BY <1>3, <1>4 DEF ReadRoles, AccessInv, AccessType
<1>6. /\ j \in Job /\ j.pc = "active" /\ j.user = call[c].user /\ j.ver = call[c].ver
      /\ j.seen = seen
  <2>1. "active" \in CallPc /\ seen \in SUBSET Thing
    BY DEF CallPc, Thing
  <2> QED
    BY <1>2, <1>4, <2>1 DEF Job
<1>7. JobFits(j)
  BY <1>2, <1>6 DEF JobFits
<1>8. SignSafe(c)'
  <2>1. call'[c] = j /\ UNCHANGED <<tokenVersion, muddled, member>>
    BY <1>1, <1>5, <1>6, <1>7, CallMoves DEF Looks
  <2>2. SignSafe(c)
    BY DEF AccessInv, RightsInv
  <2>3. PICK u : u = call[c].user
    OBVIOUS
  <2>4. RolesOf(u)' = seen
    BY <1>3, <2>1, <2>3 DEF RolesOf
  <2> QED
    BY <1>1, <1>6, <2>1, <2>2, <2>3, <2>4 DEF SignSafe
<1> QED
  BY <1>1, <1>2, <1>5, <1>6, <1>7, <1>8, LooksKeep

LEMMA ReadActiveKeeps ==
  ASSUME AccessInv, NEW c \in Calls, ReadActive(c)
  PROVE  AccessInv'
<1>1. call[c].pc = "active" /\ Looks(c)
  BY ReadsLook DEF ReadActive, At
<1>2. /\ call[c] \in Job /\ call[c].user \in Users /\ call[c].seen \subseteq Roles
      /\ \A u \in Users : ~Owing(c, u)
  BY <1>1, JobIs DEF JobFits, Owing
<1>3. PICK seen \in SUBSET Roles : seen = ActiveOf(call[c].seen)
  BY <1>2 DEF ActiveOf
<1>4. PICK j : j = [call[c] EXCEPT !.pc = "sign", !.seen = seen]
  OBVIOUS
<1>5. call' = [call EXCEPT ![c] = j]
  BY <1>3, <1>4 DEF ReadActive, AccessInv, AccessType
<1>6. /\ j \in Job /\ j.pc = "sign" /\ j.user = call[c].user /\ j.ver = call[c].ver
      /\ j.seen = seen
  <2>1. "sign" \in CallPc /\ seen \in SUBSET Thing
    BY DEF CallPc, Thing
  <2> QED
    BY <1>2, <1>4, <2>1 DEF Job
<1>7. JobFits(j)
  BY <1>2, <1>6 DEF JobFits
<1>8. SignSafe(c)'
  <2>1. /\ call'[c] = j /\ \A o \in Calls \ {c} : call'[o] = call[o]
        /\ UNCHANGED <<tokenVersion, muddled, member, roleStatus>>
    BY <1>1, <1>5, <1>6, <1>7, CallMoves DEF Looks
  <2>2. SignSafe(c)
    BY DEF AccessInv, RightsInv
  <2>3. PICK u \in Users : u = call[c].user
    BY <1>2
  <2>4. Settled(u)' => Settled(u)
    BY <1>2, <2>1, StillSettled
  <2>5. ActiveOf(RolesOf(u))' = ActiveOf(RolesOf(u))
    BY <2>1 DEF ActiveOf, RolesOf
  <2>6. call[c].seen \subseteq RolesOf(u) => seen \subseteq ActiveOf(RolesOf(u))
    BY <1>3 DEF ActiveOf
  <2> QED
    BY <1>1, <1>6, <2>1, <2>2, <2>3, <2>4, <2>5, <2>6 DEF SignSafe
<1> QED
  BY <1>1, <1>2, <1>5, <1>6, <1>7, <1>8, LooksKeep

LEMMA SignKeeps ==
  ASSUME AccessInv, NEW c \in Calls, Sign(c)
  PROVE  AccessInv'
<1>1. /\ call[c].pc = "sign" /\ Return(c)
      /\ tokens' = tokens \cup {[user |-> call[c].user, ver |-> call[c].ver,
                                 perms |-> PermsOf(call[c].seen)]}
      /\ UNCHANGED <<status, tokenVersion, mirror, member, roleStatus, roleVersion, granted,
                     made, raced, muddled>>
  BY DEF Sign, At, userVars, roleVars
<1>2. /\ call[c] \in Job /\ call[c].user \in Users /\ call[c].seen \subseteq Roles
      /\ \A u \in Users : ~Owing(c, u)
  BY <1>1, JobIs DEF JobFits, Owing
<1>3. PICK j \in Job : j = Idle
  BY IdleIs
<1>4. call' = [call EXCEPT ![c] = j] /\ j.pc = "idle" /\ JobFits(j)
  BY <1>1, <1>3, IdleIs DEF Return
<1>5. \A o \in Calls \ {c} : call'[o] = call[o]
  BY <1>4, CallMoves
<1>6. \A u \in Users : Settled(u)' => Settled(u)
  BY <1>1, <1>2, <1>5, StillSettled
<1>7. PICK u \in Users : u = call[c].user
  BY <1>2
<1>8. PICK ver \in Nat : ver = call[c].ver
  BY <1>2 DEF Job
<1>9. PICK perms \in SUBSET Perms : perms = PermsOf(call[c].seen)
  <2>1. \A r \in call[c].seen : granted[r] \subseteq Perms
    BY <1>2 DEF AccessInv, AccessType, TypeOK
  <2>2. PermsOf(call[c].seen) \subseteq Perms
    BY <2>1 DEF PermsOf
  <2> QED
    BY <2>2
<1>10. PICK tok \in Token : tok = [user |-> u, ver |-> ver, perms |-> perms]
  BY DEF Token
<1>11. tok.user = u /\ tok.ver = ver /\ tok.perms = perms /\ tokens' = tokens \cup {tok}
  BY <1>1, <1>7, <1>8, <1>9, <1>10
<1>12. TokenSafe(tok)'
  <2>1. SignSafe(c)
    BY DEF AccessInv, RightsInv
  <2>2. u \notin muddled => ver <= tokenVersion[u]
    BY <1>1, <1>7, <1>8, <2>1 DEF SignSafe
  <2>3. Settled(u) /\ ver = tokenVersion[u] => call[c].seen \subseteq ActiveOf(RolesOf(u))
    BY <1>1, <1>7, <1>8, <2>1 DEF SignSafe
  <2>4. call[c].seen \subseteq ActiveOf(RolesOf(u)) => perms \subseteq Effective(u)
    BY <1>9 DEF PermsOf, Effective
  <2>5. Effective(u)' = Effective(u)
    BY <1>1 DEF Effective, PermsOf, ActiveOf, RolesOf
  <2>6. Settled(u)' /\ ver = tokenVersion[u] => perms \subseteq Effective(u)'
    BY <1>6, <2>3, <2>4, <2>5
  <2> QED
    BY <1>1, <1>11, <2>2, <2>6 DEF TokenSafe
<1>13. Still(c)
  BY <1>1, <1>11, <1>12 DEF Still, AccessInv, AccessType, TypeOK
<1>14. \A r \in Roles : ~AtWork(r)' => ~AtWork(r)
  BY <1>1, <1>5 DEF AtWork
<1> QED
  BY <1>4, <1>6, <1>13, <1>14, StillKeeps

(* What is cut short leaves those it owed, and the role it was at, muddled.*)
LEMMA FailKeeps ==
  ASSUME AccessInv, NEW c \in Calls, Fail(c)
  PROVE  AccessInv'
<1>1. PICK more : more = IF call[c].pc \in {"grant", "saveRole"} THEN {call[c].role} ELSE {}
  OBVIOUS
<1>2. /\ Return(c) /\ muddled' = muddled \cup Owes(c) \cup more
      /\ UNCHANGED <<status, tokenVersion, mirror, member, roleStatus, roleVersion, granted,
                     tokens, made, raced>>
  BY <1>1 DEF Fail, userVars, roleVars
<1>3. Owes(c) \subseteq Users /\ more \subseteq Roles
  BY <1>1, JobIs DEF Owes, HoldersOf, JobFits
<1>4. PICK j \in Job : j = Idle
  BY IdleIs
<1>5. call' = [call EXCEPT ![c] = j] /\ j.pc = "idle" /\ JobFits(j)
  BY <1>2, <1>4, IdleIs DEF Return
<1>6. \A o \in Calls \ {c} : call'[o] = call[o]
  BY <1>5, CallMoves
<1>7. Still(c)
  BY <1>2, <1>3 DEF Still, AccessInv, AccessType, TypeOK
<1>8. ASSUME NEW u \in Users, Settled(u)'
      PROVE  Settled(u)
  <2>1. u \notin muddled' /\ \A o \in Calls : ~Owing(o, u)'
    BY <1>8, SettledIs
  <2>2. \A o \in Calls \ {c} : ~Owing(o, u)
    BY <1>2, <1>6, <2>1 DEF Owing
  <2>3. ~Owing(c, u) /\ u \notin muddled
    BY <1>2, <2>1, OwesIs
  <2> QED
    BY <2>2, <2>3, SettledIs
<1>9. \A r \in Roles : r \notin muddled' /\ ~AtWork(r)' => ~AtWork(r)
  BY <1>1, <1>2, <1>6 DEF AtWork
<1> QED
  BY <1>5, <1>7, <1>8, <1>9, StillKeeps

----------------------------------------------------------------------------
(* The steps that write.  What is asked of one: types, who is muddled, the *)
(* versions, and that nobody loses a right unless somebody is owed for it. *)
LEMMA InsertUserKeeps ==
  ASSUME AccessInv, NEW c \in Calls, InsertUser(c)
  PROVE  AccessInv'
<1>1. PICK j : j = [call[c] EXCEPT !.pc = "delete"]
  OBVIOUS
<1>2. /\ call[c].pc = "create" /\ Goto(c, "delete") /\ "delete" \in CallPc
      /\ status' = [status EXCEPT ![call[c].user] = "ACTIVE"] /\ Writes(c)
      /\ UNCHANGED <<tokenVersion, mirror, member, roleStatus, roleVersion, granted, tokens,
                     made, muddled>>
  BY DEF InsertUser, At, CallPc, roleVars
<1>3. /\ j \in Job /\ j.pc = "delete" /\ j.op = call[c].op /\ j.user = call[c].user
      /\ j.want = call[c].want /\ call' = [call EXCEPT ![c] = j]
  BY <1>1, <1>2, GotoIs
<1>4. JobFits(j)
  BY <1>2, <1>3, JobIs DEF JobFits
<1>5. \A o \in Calls : call'[o] = IF o = c THEN j ELSE call[o]
  BY <1>3, <1>4, CallMoves
<1>6. TypeOK'
  BY <1>2 DEF Writes, AccessInv, AccessType, TypeOK
<1>7. \A u \in Users : Settled(u)' => Settled(u) /\ Kept(u)
  <2>1. \A u \in Users : ~Owing(c, u)
    BY <1>2 DEF Owing
  <2>2. \A u \in Users : Settled(u)' => Settled(u)
    BY <1>2, <1>5, <2>1, StillSettled
  <2> QED
    BY <1>2, <2>2 DEF Kept, RolesOf
<1>8. \A r \in Roles : ~AtWork(r)' => ~AtWork(r)
  BY <1>2, <1>5 DEF AtWork
<1> QED
  BY <1>2, <1>3, <1>4, <1>6, <1>7, <1>8, WritesKeep

(* Who loses a role is owed for it until the call raises the version.      *)
LEMMA DeleteRowsKeeps ==
  ASSUME AccessInv, NEW c \in Calls, DeleteRows(c)
  PROVE  AccessInv'
<1>1. PICK j : j = [call[c] EXCEPT !.pc = "insert"]
  OBVIOUS
<1>2. PICK w : w = call[c].user
  OBVIOUS
<1>3. /\ call[c].pc = "delete" /\ Goto(c, "insert") /\ "insert" \in CallPc
      /\ member' = {m \in member : m[1] # w} /\ Writes(c)
      /\ muddled' = IF call[c].op = "create" THEN muddled \cup {m[1] : m \in member \ member'}
                    ELSE muddled
      /\ UNCHANGED <<status, tokenVersion, mirror, roleStatus, roleVersion, granted, tokens, made>>
  BY <1>2 DEF DeleteRows, At, CallPc, userVars, roleVars
<1>4. /\ j \in Job /\ j.pc = "insert" /\ j.op = call[c].op /\ j.user = w
      /\ j.want = call[c].want /\ call' = [call EXCEPT ![c] = j]
  BY <1>1, <1>2, <1>3, GotoIs
<1>5. w \in Users /\ j.op \in {"assign", "create"} /\ JobFits(j)
  BY <1>2, <1>3, <1>4, JobIs DEF JobFits
<1>6. \A o \in Calls : call'[o] = IF o = c THEN j ELSE call[o]
  BY <1>4, <1>5, CallMoves
<1>7. member \subseteq Users \X Roles
  BY DEF AccessInv, AccessType, TypeOK
<1>8. TypeOK'
  BY <1>3, <1>7 DEF Writes, AccessInv, AccessType, TypeOK
<1>9. ASSUME NEW u \in Users, Settled(u)'
      PROVE  Settled(u) /\ Kept(u)
  <2>1. u \notin muddled' /\ \A o \in Calls : ~Owing(o, u)'
    BY <1>9, SettledIs
  <2>2. \A r \in Roles : <<u, r>> \in member => <<u, r>> \in member'
    <3>1. CASE j.op = "assign"
      <4>1. u # w
        BY <1>4, <1>6, <2>1, <3>1 DEF Owing
      <4> QED
        BY <1>3, <4>1
    <3>2. CASE j.op = "create"
      <4>1. \A m \in member \ member' : m[1] \in muddled'
        BY <1>3, <1>4, <3>2
      <4> QED
        BY <2>1, <4>1
    <3> QED
      BY <1>5, <3>1, <3>2
  <2>3. \A o \in Calls : call[o].pc \in {"grant", "saveRole", "holders"} => call[o].role \in Roles
    BY JobIs DEF JobFits
  <2>4. \A o \in Calls : ~Owing(o, u)
    BY <1>3, <1>6, <2>1, <2>2, <2>3 DEF Owing
  <2>5. u \notin muddled
    BY <1>3, <2>1
  <2>6. Kept(u)
    BY <1>3, <2>2 DEF Kept, RolesOf
  <2> QED
    BY <2>4, <2>5, <2>6, SettledIs
<1>10. \A r \in Roles : ~AtWork(r)' => ~AtWork(r)
  BY <1>3, <1>6 DEF AtWork
<1>11. muddled \subseteq muddled'
  BY <1>3
<1> QED
  BY <1>3, <1>4, <1>5, <1>8, <1>9, <1>10, <1>11, WritesKeep


LEMMA InsertRowsKeeps ==
  ASSUME AccessInv, NEW c \in Calls, InsertRows(c)
  PROVE  AccessInv'
<1>1. PICK w : w = call[c].user
  OBVIOUS
<1>2. PICK old : old = call[c].want \cap RolesOf(w)
  OBVIOUS
<1>3. PICK done \in SUBSET (call[c].want \ old) :
        /\ member' = member \cup {<<w, r>> : r \in done}
        /\ IF old = {} THEN Goto(c, "sync") /\ UNCHANGED muddled
           ELSE Return(c) /\ muddled' = muddled \cup {w}
  BY <1>1, <1>2, SMTT(40) DEF InsertRows
<1>4. /\ call[c].pc = "insert" /\ Writes(c)
      /\ UNCHANGED <<status, tokenVersion, mirror, roleStatus, roleVersion, granted, tokens, made>>
  BY DEF InsertRows, At, userVars, roleVars
<1>5. w \in Users /\ call[c].op \in {"assign", "create"} /\ call[c].want \subseteq Roles
  BY <1>1, <1>4, JobIs DEF JobFits
<1>6. PICK j \in Job :
        /\ JobFits(j) /\ call' = [call EXCEPT ![c] = j] /\ j.pc \in {"sync", "idle"}
        /\ j.pc = "sync" => j.op = call[c].op /\ j.user = w
        /\ j.pc = "idle" => w \in muddled'
  <2>1. CASE old = {}
    <3>1. PICK j : j = [call[c] EXCEPT !.pc = "sync"]
      OBVIOUS
    <3>2. Goto(c, "sync") /\ "sync" \in CallPc
      BY <1>3, <2>1 DEF CallPc
    <3>3. /\ j \in Job /\ j.pc = "sync" /\ j.op = call[c].op /\ j.user = w
          /\ j.want = call[c].want /\ call' = [call EXCEPT ![c] = j]
      BY <1>1, <3>1, <3>2, GotoIs
    <3>4. JobFits(j)
      BY <1>5, <3>3 DEF JobFits
    <3> QED
      BY <3>3, <3>4
  <2>2. CASE old # {}
    <3>1. call' = [call EXCEPT ![c] = Idle] /\ w \in muddled'
      BY <1>3, <2>2 DEF Return
    <3> QED
      BY <3>1, IdleIs
  <2> QED
    BY <2>1, <2>2
<1>7. \A o \in Calls : call'[o] = IF o = c THEN j ELSE call[o]
  BY <1>6, CallMoves
<1>8. muddled \subseteq muddled' /\ muddled' \subseteq Users \cup Roles
  BY <1>3, <1>5 DEF AccessInv, AccessType, TypeOK
<1>9. TypeOK'
  <2>1. {<<w, r>> : r \in done} \subseteq Users \X Roles
    BY <1>5
  <2>2. member' \subseteq Users \X Roles
    BY <1>3, <2>1 DEF AccessInv, AccessType, TypeOK
  <2> QED
    BY <1>4, <1>8, <2>2 DEF Writes, AccessInv, AccessType, TypeOK
<1>10. ASSUME NEW u \in Users, Settled(u)'
       PROVE  Settled(u) /\ Kept(u)
  <2>1. u \notin muddled' /\ \A o \in Calls : ~Owing(o, u)'
    BY <1>10, SettledIs
  <2>2. \A o \in Calls \ {c} : ~Owing(o, u)
    BY <1>3, <1>7, <2>1 DEF Owing
  <2>3. ~Owing(c, u)
    <3>1. Owing(c, u) => call[c].op = "assign" /\ u = w
      BY <1>1, <1>4 DEF Owing
    <3>2. CASE j.pc = "sync"
      BY <1>6, <1>7, <2>1, <3>1, <3>2 DEF Owing
    <3>3. CASE j.pc = "idle"
      BY <1>6, <2>1, <3>1, <3>3
    <3> QED
      BY <1>6, <3>2, <3>3
  <2>4. Kept(u)
    BY <1>3, <1>4 DEF Kept, RolesOf
  <2> QED
    BY <1>8, <2>1, <2>2, <2>3, <2>4, SettledIs
<1>11. \A r \in Roles : ~AtWork(r)' => ~AtWork(r)
  BY <1>4, <1>7 DEF AtWork
<1> QED
  BY <1>4, <1>6, <1>8, <1>9, <1>10, <1>11, WritesKeep

LEMMA SyncRoleIdsKeeps ==
  ASSUME AccessInv, NEW c \in Calls, SyncRoleIds(c)
  PROVE  AccessInv'
<1>1. /\ call[c].pc = "sync" /\ Writes(c)
      /\ mirror' = [mirror EXCEPT ![call[c].user] = RolesOf(call[c].user)]
      /\ IF call[c].op = "create" THEN Return(c) ELSE Goto(c, "bump")
      /\ UNCHANGED <<status, tokenVersion, member, roleStatus, roleVersion, granted, tokens, made,
                     muddled>>
  BY DEF SyncRoleIds, At, roleVars
<1>2. call[c].user \in Users /\ call[c].op \in {"assign", "create"}
  BY <1>1, JobIs DEF JobFits
<1>3. PICK j \in Job :
        /\ JobFits(j) /\ call' = [call EXCEPT ![c] = j] /\ j.pc \in {"bump", "idle"}
        /\ call[c].op = "assign" => j.pc = "bump" /\ j.op = "assign" /\ j.user = call[c].user
  <2>1. CASE call[c].op = "assign"
    <3>1. PICK j : j = [call[c] EXCEPT !.pc = "bump"]
      OBVIOUS
    <3>2. Goto(c, "bump") /\ "bump" \in CallPc
      BY <1>1, <2>1 DEF CallPc
    <3>3. /\ j \in Job /\ j.pc = "bump" /\ j.op = call[c].op /\ j.user = call[c].user
          /\ call' = [call EXCEPT ![c] = j]
      BY <3>1, <3>2, GotoIs
    <3>4. JobFits(j)
      BY <1>2, <2>1, <3>3 DEF JobFits
    <3> QED
      BY <2>1, <3>3, <3>4
  <2>2. CASE call[c].op = "create"
    <3>1. call' = [call EXCEPT ![c] = Idle]
      BY <1>1, <2>2 DEF Return
    <3> QED
      BY <2>2, <3>1, IdleIs
  <2> QED
    BY <1>2, <2>1, <2>2
<1>4. \A o \in Calls : call'[o] = IF o = c THEN j ELSE call[o]
  BY <1>3, CallMoves
<1>5. TypeOK'
  <2>1. mirror' \in [Users -> SUBSET Roles]
    BY <1>1 DEF RolesOf, AccessInv, AccessType, TypeOK
  <2> QED
    BY <1>1, <2>1 DEF Writes, AccessInv, AccessType, TypeOK
<1>6. \A u \in Users : Settled(u)' => Settled(u) /\ Kept(u)
  <2>1. \A o \in Calls, u \in Users : Owing(o, u) => Owing(o, u)'
    BY <1>1, <1>3, <1>4 DEF Owing
  <2>2. \A u \in Users : Settled(u)' => Settled(u)
    BY <1>1, <2>1, SettledIs
  <2> QED
    BY <1>1, <2>2 DEF Kept, RolesOf
<1>7. \A r \in Roles : ~AtWork(r)' => ~AtWork(r)
  BY <1>1, <1>4 DEF AtWork
<1> QED
  BY <1>1, <1>3, <1>5, <1>6, <1>7, WritesKeep

(* A version that is raised over the one that was loaded leaves the user   *)
(* without a usable token; one that was raised in between is lost.         *)
LEMMA BumpedIs ==
  ASSUME AccessInv, NEW c \in Calls, NEW j \in Job, JobFits(j), call' = [call EXCEPT ![c] = j],
         NEW w \in Users, Bumps(c, w),
         j.pc \in {"idle", "load"}, call[c].pc \notin {"grant", "saveRole"},
         \A u \in Users \ {w} : Owing(c, u) => Owing(c, u)'
  PROVE  AccessInv'
<1>1. /\ tokenVersion' = [tokenVersion EXCEPT ![w] = call[c].ver + 1] /\ Writes(c)
      /\ muddled' = IF call[c].ver = tokenVersion[w] THEN muddled ELSE muddled \cup {w}
      /\ UNCHANGED <<status, mirror, member, roleStatus, roleVersion, granted, tokens, made>>
  BY DEF Bumps, roleVars
<1>2. tokenVersion \in [Users -> Nat] /\ call[c].ver \in Nat
  BY JobIs DEF Job, AccessInv, AccessType, TypeOK
<1>3. \A u \in Users : tokenVersion'[u] = IF u = w THEN call[c].ver + 1 ELSE tokenVersion[u]
  BY <1>1, <1>2
<1>4. TypeOK'
  <2>1. tokenVersion' \in [Users -> Nat]
    BY <1>1, <1>2
  <2> QED
    BY <1>1, <2>1 DEF Writes, AccessInv, AccessType, TypeOK
<1>5. \A o \in Calls : call'[o] = IF o = c THEN j ELSE call[o]
  BY CallMoves
<1>6. \A u \in Users : u \notin muddled' =>
        tokenVersion'[u] = IF u = w THEN tokenVersion[u] + 1 ELSE tokenVersion[u]
  BY <1>1, <1>3
<1>7. ASSUME NEW u \in Users, Settled(u)', tokenVersion'[u] = tokenVersion[u]
      PROVE  Settled(u) /\ Kept(u)
  <2>1. u \notin muddled' /\ \A o \in Calls : ~Owing(o, u)'
    BY <1>7, SettledIs
  <2>2. u # w
    BY <1>2, <1>6, <1>7, <2>1
  <2>3. \A o \in Calls : ~Owing(o, u)
    <3>1. \A o \in Calls \ {c} : ~Owing(o, u)
      BY <1>1, <1>5, <2>1 DEF Owing
    <3>2. ~Owing(c, u)
      BY <2>1, <2>2
    <3> QED
      BY <3>1, <3>2
  <2>4. Kept(u)
    BY <1>1 DEF Kept, RolesOf
  <2> QED
    BY <1>1, <2>1, <2>3, <2>4, SettledIs
<1>8. \A r \in Roles : ~AtWork(r)' => ~AtWork(r)
  BY <1>5 DEF AtWork
<1>9. muddled \subseteq muddled'
  BY <1>1
<1> QED
  BY <1>1, <1>4, <1>6, <1>7, <1>8, <1>9, WritesKeep

LEMMA BumpKeeps ==
  ASSUME AccessInv, NEW c \in Calls, Bump(c)
  PROVE  AccessInv'
<1>1. /\ call[c].pc = "bump" /\ Bumps(c, call[c].user)
      /\ call' = [call EXCEPT ![c] = Idle]
  BY DEF Bump, At, Return
<1>2. call[c].user \in Users
  BY <1>1, JobIs DEF JobFits
<1>3. \A u \in Users \ {call[c].user} : ~Owing(c, u)
  BY <1>1 DEF Owing
<1> QED
  BY <1>1, <1>2, <1>3, BumpedIs, IdleIs

LEMMA BumpHolderKeeps ==
  ASSUME AccessInv, NEW c \in Calls, BumpHolder(c)
  PROVE  AccessInv'
<1>1. PICK w : w = call[c].user
  OBVIOUS
<1>2. PICK left : left = call[c].todo \ {w}
  OBVIOUS
<1>3. /\ call[c].pc = "bumpHolder" /\ Bumps(c, w)
      /\ IF left = {} THEN Return(c)
         ELSE call' = [call EXCEPT ![c].pc = "load", ![c].todo = left,
                         ![c].user = Null, ![c].ver = 0]
  BY <1>1, <1>2 DEF BumpHolder, At
<1>4. call[c] \in Job /\ w \in Users /\ left \subseteq Users
  BY <1>1, <1>2, <1>3, JobIs DEF JobFits
<1>5. \A u \in Users \ {w} : Owing(c, u) => u \in left
  BY <1>2, <1>3 DEF Owing
<1>6. CASE left = {}
  <2>1. call' = [call EXCEPT ![c] = Idle]
    BY <1>3, <1>6 DEF Return
  <2> QED
    BY <1>3, <1>4, <1>5, <1>6, <2>1, BumpedIs, IdleIs
<1>7. CASE left # {}
  <2>1. PICK j : j = [call[c] EXCEPT !.pc = "load", !.todo = left, !.user = Null, !.ver = 0]
    OBVIOUS
  <2>2. call' = [call EXCEPT ![c] = j]
    BY <1>3, <1>7, <2>1 DEF AccessInv, AccessType
  <2>3. j \in Job /\ j.pc = "load" /\ j.todo = left
    <3>1. "load" \in CallPc /\ left \in SUBSET Thing
      BY <1>4 DEF CallPc, Thing
    <3> QED
      BY <1>4, <2>1, <3>1 DEF Job
  <2>4. JobFits(j)
    BY <1>4, <2>3 DEF JobFits
  <2>5. \A u \in Users \ {w} : Owing(c, u) => Owing(c, u)'
    <3>1. call'[c] = j
      BY <2>2, <2>3, <2>4, CallMoves
    <3> QED
      BY <1>5, <2>3, <3>1 DEF Owing
  <2> QED
    BY <1>3, <1>4, <2>2, <2>3, <2>4, <2>5, BumpedIs
<1> QED
  BY <1>6, <1>7

(* The writes of an edit: until the version of the role is raised and its  *)
(* holders are found, all of them are owed.                                *)
LEMMA RevokeKeeps ==
  ASSUME AccessInv, NEW c \in Calls, Revoke(c)
  PROVE  AccessInv'
<1>1. PICK j : j = [call[c] EXCEPT !.pc = "grant"]
  OBVIOUS
<1>2. PICK r : r = call[c].role
  OBVIOUS
<1>3. /\ call[c].pc = "revoke" /\ Goto(c, "grant") /\ "grant" \in CallPc /\ Writes(c)
      /\ granted' = [granted EXCEPT ![r] = @ \ call[c].todo]
      /\ UNCHANGED <<status, tokenVersion, mirror, member, roleStatus, roleVersion, tokens, made,
                     muddled>>
  BY <1>2 DEF Revoke, At, CallPc, userVars
<1>4. /\ j \in Job /\ j.pc = "grant" /\ j.role = r /\ j.want = call[c].want
      /\ call' = [call EXCEPT ![c] = j]
  BY <1>1, <1>2, <1>3, GotoIs
<1>5. r \in Roles /\ JobFits(j)
  BY <1>2, <1>3, <1>4, JobIs DEF JobFits
<1>6. \A o \in Calls : call'[o] = IF o = c THEN j ELSE call[o]
  BY <1>4, <1>5, CallMoves
<1>7. /\ granted' \in [Roles -> SUBSET Perms]
      /\ \A q \in Roles \ {r} : granted'[q] = granted[q]
  BY <1>3, <1>5 DEF AccessInv, AccessType, TypeOK
<1>8. TypeOK'
  BY <1>3, <1>7 DEF Writes, AccessInv, AccessType, TypeOK
<1>9. ASSUME NEW u \in Users, Settled(u)'
      PROVE  Settled(u) /\ Kept(u)
  <2>1. u \notin muddled' /\ \A o \in Calls : ~Owing(o, u)'
    BY <1>9, SettledIs
  <2>2. \A o \in Calls \ {c} : ~Owing(o, u)
    BY <1>3, <1>6, <2>1 DEF Owing
  <2>3. ~Owing(c, u)
    BY <1>3 DEF Owing
  <2>4. r \notin RolesOf(u)
    BY <1>3, <1>4, <1>6, <2>1 DEF Owing, RolesOf
  <2>5. Kept(u)
    BY <1>3, <1>7, <2>4 DEF Kept, RolesOf
  <2> QED
    BY <1>3, <2>1, <2>2, <2>3, <2>5, SettledIs
<1>10. AtWork(r)' /\ \A q \in Roles : ~AtWork(q)' => ~AtWork(q)
  BY <1>3, <1>4, <1>6 DEF AtWork
<1>11. \A q \in Roles : ~AtWork(q)' => ~AtWork(q) /\ granted'[q] = granted[q]
  BY <1>7, <1>10
<1> QED
  BY <1>3, <1>4, <1>5, <1>8, <1>9, <1>11, WritesKeep

LEMMA GrantKeeps ==
  ASSUME AccessInv, NEW c \in Calls, Grant(c)
  PROVE  AccessInv'
<1>1. PICK j : j = [call[c] EXCEPT !.pc = "saveRole"]
  OBVIOUS
<1>2. PICK r : r = call[c].role
  OBVIOUS
<1>3. /\ call[c].pc = "grant" /\ Goto(c, "saveRole") /\ "saveRole" \in CallPc /\ Writes(c)
      /\ granted' = [granted EXCEPT ![r] = @ \cup call[c].want]
      /\ UNCHANGED <<status, tokenVersion, mirror, member, roleStatus, roleVersion, tokens, made,
                     muddled>>
  BY <1>2 DEF Grant, At, CallPc, userVars
<1>4. /\ j \in Job /\ j.pc = "saveRole" /\ j.role = r /\ call' = [call EXCEPT ![c] = j]
  BY <1>1, <1>2, <1>3, GotoIs
<1>5. r \in Roles /\ call[c].want \subseteq Perms /\ JobFits(j)
  BY <1>2, <1>3, <1>4, JobIs DEF JobFits
<1>6. \A o \in Calls : call'[o] = IF o = c THEN j ELSE call[o]
  BY <1>4, <1>5, CallMoves
<1>7. /\ granted' \in [Roles -> SUBSET Perms]
      /\ \A q \in Roles : granted[q] \subseteq granted'[q]
      /\ \A q \in Roles \ {r} : granted'[q] = granted[q]
  BY <1>3, <1>5 DEF AccessInv, AccessType, TypeOK
<1>8. TypeOK'
  BY <1>3, <1>7 DEF Writes, AccessInv, AccessType, TypeOK
<1>9. ASSUME NEW u \in Users, Settled(u)'
      PROVE  Settled(u) /\ Kept(u)
  <2>1. u \notin muddled' /\ \A o \in Calls : ~Owing(o, u)'
    BY <1>9, SettledIs
  <2>2. \A o \in Calls : ~Owing(o, u)
    BY <1>2, <1>3, <1>4, <1>6, <2>1 DEF Owing
  <2>3. Kept(u)
    BY <1>3, <1>7 DEF Kept, RolesOf
  <2> QED
    BY <1>3, <2>1, <2>2, <2>3, SettledIs
<1>10. AtWork(r)' /\ \A q \in Roles : ~AtWork(q)' => ~AtWork(q)
  BY <1>2, <1>3, <1>4, <1>6 DEF AtWork
<1>11. \A q \in Roles : ~AtWork(q)' => ~AtWork(q) /\ granted'[q] = granted[q]
  BY <1>7, <1>10
<1> QED
  BY <1>3, <1>4, <1>5, <1>8, <1>9, <1>11, WritesKeep

(* A version is raised over the one that was loaded, or its role is        *)
(* muddled.                                                                *)
LEMMA VersionRaised ==
  ASSUME AccessInv, NEW c \in Calls, NEW r \in Roles, r = call[c].role, RaisesVersion(c)
  PROVE  /\ roleVersion' \in [Roles -> Nat]
         /\ \A q \in Roles \ {r} : roleVersion'[q] = roleVersion[q]
         /\ r \notin muddled' => roleVersion'[r] = roleVersion[r] + 1
         /\ muddled \subseteq muddled' /\ muddled' \subseteq Users \cup Roles
<1>1. roleVersion \in [Roles -> Nat] /\ call[c].ver \in Nat /\ muddled \subseteq Users \cup Roles
  BY JobIs DEF Job, AccessInv, AccessType, TypeOK
<1>2. /\ roleVersion' = [roleVersion EXCEPT ![r] = call[c].ver + 1]
      /\ muddled' = IF call[c].ver = roleVersion[r] THEN muddled ELSE muddled \cup {r}
  BY DEF RaisesVersion
<1> QED
  BY <1>1, <1>2

LEMMA SaveRoleKeeps ==
  ASSUME AccessInv, NEW c \in Calls, SaveRole(c)
  PROVE  AccessInv'
<1>1. PICK j : j = [call[c] EXCEPT !.pc = "holders"]
  OBVIOUS
<1>2. PICK r : r = call[c].role
  OBVIOUS
<1>3. /\ call[c].pc = "saveRole" /\ Goto(c, "holders") /\ "holders" \in CallPc /\ Writes(c)
      /\ RaisesVersion(c)
      /\ UNCHANGED <<status, tokenVersion, mirror, member, roleStatus, granted, tokens, made>>
  BY DEF SaveRole, At, CallPc, userVars
<1>4. /\ j \in Job /\ j.pc = "holders" /\ j.role = r /\ call' = [call EXCEPT ![c] = j]
  BY <1>1, <1>2, <1>3, GotoIs
<1>5. r \in Roles /\ JobFits(j)
  BY <1>2, <1>3, <1>4, JobIs DEF JobFits
<1>6. \A o \in Calls : call'[o] = IF o = c THEN j ELSE call[o]
  BY <1>4, <1>5, CallMoves
<1>7. /\ roleVersion' \in [Roles -> Nat]
      /\ \A q \in Roles \ {r} : roleVersion'[q] = roleVersion[q]
      /\ r \notin muddled' => roleVersion'[r] = roleVersion[r] + 1
      /\ muddled \subseteq muddled' /\ muddled' \subseteq Users \cup Roles
  BY <1>2, <1>3, <1>5, VersionRaised
<1>8. TypeOK'
  BY <1>3, <1>7 DEF Writes, AccessInv, AccessType, TypeOK
<1>9. ASSUME NEW u \in Users, Settled(u)'
      PROVE  Settled(u) /\ Kept(u)
  <2>1. u \notin muddled' /\ \A o \in Calls : ~Owing(o, u)'
    BY <1>9, SettledIs
  <2>2. \A o \in Calls : ~Owing(o, u)
    BY <1>2, <1>3, <1>4, <1>6, <2>1 DEF Owing
  <2>3. Kept(u)
    BY <1>3 DEF Kept, RolesOf
  <2> QED
    BY <1>7, <2>1, <2>2, <2>3, SettledIs
<1>10. \A q \in Roles \ {r} : ~AtWork(q)' => ~AtWork(q)
  BY <1>2, <1>6 DEF AtWork
<1>11. \A q \in Roles : q \notin muddled' =>
         \/ roleVersion'[q] = roleVersion[q] + 1
         \/ /\ roleVersion'[q] = roleVersion[q]
            /\ ~AtWork(q)' => ~AtWork(q) /\ granted'[q] = granted[q]
  BY <1>3, <1>7, <1>10
<1> QED
  BY <1>3, <1>4, <1>5, <1>7, <1>8, <1>9, <1>11, WritesKeep

LEMMA SaveStatusKeeps ==
  ASSUME AccessInv, NEW c \in Calls, SaveStatus(c)
  PROVE  AccessInv'
<1>1. PICK r : r = call[c].role
  OBVIOUS
<1>2. /\ call[c].pc = "saveStatus" /\ Writes(c) /\ RaisesVersion(c)
      /\ roleStatus' = [roleStatus EXCEPT ![r] =
                          IF NewStatus(call[c].op) = Null THEN @ ELSE NewStatus(call[c].op)]
      /\ IF call[c].op = "rename" THEN Return(c) ELSE Goto(c, "holders")
      /\ UNCHANGED <<status, tokenVersion, mirror, member, granted, tokens, made>>
  BY <1>1 DEF SaveStatus, At, userVars
<1>3. r \in Roles
  BY <1>1, <1>2, JobIs DEF JobFits
<1>4. PICK j \in Job :
        /\ JobFits(j) /\ call' = [call EXCEPT ![c] = j] /\ j.pc \in {"holders", "idle"}
        /\ j.pc = "holders" => j.role = r
        /\ j.pc = "idle" => call[c].op = "rename"
  <2>1. CASE call[c].op # "rename"
    <3>1. PICK j : j = [call[c] EXCEPT !.pc = "holders"]
      OBVIOUS
    <3>2. Goto(c, "holders") /\ "holders" \in CallPc
      BY <1>2, <2>1 DEF CallPc
    <3>3. j \in Job /\ j.pc = "holders" /\ j.role = r /\ call' = [call EXCEPT ![c] = j]
      BY <1>1, <3>1, <3>2, GotoIs
    <3>4. JobFits(j)
      BY <1>3, <3>3 DEF JobFits
    <3> QED
      BY <3>3, <3>4
  <2>2. CASE call[c].op = "rename"
    <3>1. call' = [call EXCEPT ![c] = Idle]
      BY <1>2, <2>2 DEF Return
    <3> QED
      BY <2>2, <3>1, IdleIs
  <2> QED
    BY <2>1, <2>2
<1>5. \A o \in Calls : call'[o] = IF o = c THEN j ELSE call[o]
  BY <1>4, CallMoves
<1>6. /\ roleVersion' \in [Roles -> Nat]
      /\ \A q \in Roles \ {r} : roleVersion'[q] = roleVersion[q]
      /\ r \notin muddled' => roleVersion'[r] = roleVersion[r] + 1
      /\ muddled \subseteq muddled' /\ muddled' \subseteq Users \cup Roles
  BY <1>1, <1>2, <1>3, VersionRaised
<1>7. /\ roleStatus' \in [Roles -> {"ACTIVE", "DISABLED"}]
      /\ \A q \in Roles \ {r} : roleStatus'[q] = roleStatus[q]
      /\ call[c].op = "rename" => roleStatus' = roleStatus
  <2>1. NewStatus(call[c].op) \in {"ACTIVE", "DISABLED", Null}
        /\ (call[c].op = "rename" => NewStatus(call[c].op) = Null)
    BY DEF NewStatus
  <2>2. roleStatus \in [Roles -> {"ACTIVE", "DISABLED"}]
    BY DEF AccessInv, AccessType, TypeOK
  <2> QED
    BY <1>2, <1>3, <2>1, <2>2
<1>8. TypeOK'
  BY <1>2, <1>6, <1>7 DEF Writes, AccessInv, AccessType, TypeOK
<1>9. ASSUME NEW u \in Users, Settled(u)'
      PROVE  Settled(u) /\ Kept(u)
  <2>1. u \notin muddled' /\ \A o \in Calls : ~Owing(o, u)'
    BY <1>9, SettledIs
  <2>2. \A o \in Calls \ {c} : ~Owing(o, u)
    BY <1>2, <1>5, <2>1 DEF Owing
  <2>3. ~Owing(c, u)
    BY <1>2 DEF Owing
  <2>4. j.pc = "holders" => r \notin RolesOf(u)
    BY <1>2, <1>4, <1>5, <2>1 DEF Owing, RolesOf
  <2>5. Kept(u)
    BY <1>2, <1>4, <1>7, <2>4 DEF Kept, RolesOf
  <2> QED
    BY <1>6, <2>1, <2>2, <2>3, <2>5, SettledIs
<1>10. \A q \in Roles : ~AtWork(q)' => ~AtWork(q)
  BY <1>2, <1>5 DEF AtWork
<1>11. \A q \in Roles : q \notin muddled' =>
         \/ roleVersion'[q] = roleVersion[q] + 1
         \/ /\ roleVersion'[q] = roleVersion[q]
            /\ ~AtWork(q)' => ~AtWork(q) /\ granted'[q] = granted[q]
  BY <1>2, <1>6, <1>10
<1> QED
  BY <1>2, <1>4, <1>6, <1>8, <1>9, <1>11, WritesKeep

LEMMA SaveUserKeeps ==
  ASSUME AccessInv, NEW c \in Calls, SaveUser(c)
  PROVE  AccessInv'
<1>1. PICK w : w = call[c].user
  OBVIOUS
<1>2. /\ call[c].pc = "saveUser" /\ Writes(c)
      /\ status' = [status EXCEPT ![w] = UserStatus(call[c].op)]
      /\ IF call[c].op = "activate" THEN Return(c) ELSE Goto(c, "bump")
      /\ UNCHANGED <<tokenVersion, mirror, member, roleStatus, roleVersion, granted, tokens, made,
                     muddled>>
  BY <1>1 DEF SaveUser, At, roleVars
<1>3. w \in Users /\ call[c].op \in {"deactivate", "activate"}
  BY <1>1, <1>2, JobIs DEF JobFits
<1>4. PICK j \in Job :
        JobFits(j) /\ call' = [call EXCEPT ![c] = j] /\ j.pc \in {"bump", "idle"}
  <2>1. CASE call[c].op = "deactivate"
    <3>1. PICK j : j = [call[c] EXCEPT !.pc = "bump"]
      OBVIOUS
    <3>2. Goto(c, "bump") /\ "bump" \in CallPc
      BY <1>2, <2>1 DEF CallPc
    <3>3. /\ j \in Job /\ j.pc = "bump" /\ j.op = call[c].op /\ j.user = w
          /\ call' = [call EXCEPT ![c] = j]
      BY <1>1, <3>1, <3>2, GotoIs
    <3>4. JobFits(j)
      BY <1>3, <2>1, <3>3 DEF JobFits
    <3> QED
      BY <3>3, <3>4
  <2>2. CASE call[c].op = "activate"
    <3>1. call' = [call EXCEPT ![c] = Idle]
      BY <1>2, <2>2 DEF Return
    <3> QED
      BY <3>1, IdleIs
  <2> QED
    BY <1>3, <2>1, <2>2
<1>5. \A o \in Calls : call'[o] = IF o = c THEN j ELSE call[o]
  BY <1>4, CallMoves
<1>6. TypeOK'
  <2>1. status' \in [Users -> {"NONE", "ACTIVE", "INACTIVE"}]
    BY <1>2 DEF UserStatus, AccessInv, AccessType, TypeOK
  <2> QED
    BY <1>2, <2>1 DEF Writes, AccessInv, AccessType, TypeOK
<1>7. \A u \in Users : Settled(u)' => Settled(u) /\ Kept(u)
  <2>1. \A u \in Users : ~Owing(c, u)
    BY <1>2 DEF Owing
  <2>2. \A u \in Users : Settled(u)' => Settled(u)
    BY <1>2, <1>5, <2>1, StillSettled
  <2> QED
    BY <1>2, <2>2 DEF Kept, RolesOf
<1>8. \A r \in Roles : ~AtWork(r)' => ~AtWork(r)
  BY <1>2, <1>5 DEF AtWork
<1> QED
  BY <1>2, <1>4, <1>6, <1>7, <1>8, WritesKeep

----------------------------------------------------------------------------
LEMMA InitAccess == Init => AccessInv
<1> SUFFICES ASSUME Init
             PROVE  AccessInv
  OBVIOUS
<1>1. member \subseteq Users \X Roles
  BY AccessAssumption DEF Init
<1>2. \A c \in Calls : call[c] = Idle /\ call[c].pc = "idle"
  BY IdleIs DEF Init
<1>3. \A r \in Roles : granted[r] \subseteq Perms
  BY AccessAssumption DEF Init
<1>4. \A u \in Users : Effective(u) \subseteq Perms
  BY <1>3 DEF Effective, PermsOf, ActiveOf, RolesOf
<1>5. ASSUME NEW t \in tokens
      PROVE  t \in Token /\ t.user \in Users /\ t.ver = 0 /\ t.perms = Effective(t.user)
  <2>1. PICK u \in Users : t = [user |-> u, ver |-> 0, perms |-> Effective(u)]
    <3>1. tokens = {[user |-> u, ver |-> 0, perms |-> Effective(u)] :
                      u \in {w \in Users : status[w] = "ACTIVE"}}
      BY DEF Init
    <3> QED
      BY <3>1
  <2> QED
    BY <1>4, <2>1 DEF Token
<1>6. TypeOK
  <2>1. mirror \in [Users -> SUBSET Roles]
    BY DEF Init, RolesOf
  <2>2. status \in [Users -> {"NONE", "ACTIVE", "INACTIVE"}]
    BY DEF Init
  <2>3. tokens \subseteq Token
    BY <1>5
  <2>4. granted \in [Roles -> SUBSET Perms]
    BY AccessAssumption DEF Init
  <2> QED
    BY <1>1, <2>1, <2>2, <2>3, <2>4 DEF Init, TypeOK
<1>7. AccessType /\ \A c \in Calls : JobFits(call[c])
  BY <1>2, <1>6, IdleIs DEF AccessType, Init
<1>8. RightsInv
  <2>1. ASSUME NEW t \in tokens
        PROVE  TokenSafe(t)
    <3>1. tokenVersion[t.user] = 0
      BY <1>5 DEF Init
    <3> QED
      BY <1>5, <3>1 DEF TokenSafe
  <2>2. \A c \in Calls : SignSafe(c)
    BY <1>2 DEF SignSafe
  <2> QED
    BY <2>1, <2>2 DEF RightsInv
<1>9. EditInv
  BY <1>2 DEF EditInv, EditSafe
<1>10. AdminInv
  BY <1>2 DEF AdminInv, AdminSafe
<1> QED
  BY <1>7, <1>8, <1>9, <1>10 DEF AccessInv

LEMMA SameAccess ==
  ASSUME AccessInv, UNCHANGED vars
  PROVE  AccessInv'
<1>1. UNCHANGED <<status, tokenVersion, mirror, member, roleStatus, roleVersion, granted, tokens,
                  call, made, raced, muddled>>
  BY DEF vars, userVars, roleVars
<1>2. AccessType' /\ \A c \in Calls : JobFits(call'[c])
  BY <1>1 DEF AccessInv, AccessType, TypeOK
<1>3. \A u : Settled(u)' <=> Settled(u)
  BY <1>1 DEF Settled, Owes, HoldersOf
<1>4. \A u : Effective(u)' = Effective(u) /\ RolesOf(u)' = RolesOf(u)
  BY <1>1 DEF Effective, PermsOf, ActiveOf, RolesOf
<1>5. RightsInv'
  <2>1. \A t \in tokens : TokenSafe(t)'
    BY <1>1, <1>3, <1>4 DEF TokenSafe, AccessInv, RightsInv
  <2>2. ASSUME NEW c \in Calls
        PROVE  SignSafe(c)'
    <3>1. PICK k : k = call[c]
      OBVIOUS
    <3>2. ActiveOf(RolesOf(k.user))' = ActiveOf(RolesOf(k.user))
      BY <1>1 DEF ActiveOf, RolesOf
    <3> QED
      BY <1>1, <1>3, <1>4, <3>1, <3>2 DEF SignSafe, AccessInv, RightsInv
  <2> QED
    BY <1>1, <2>1, <2>2 DEF RightsInv
<1>6. EditInv'
  <2>1. \A r : AtWork(r)' <=> AtWork(r)
    BY <1>1 DEF AtWork
  <2> QED
    BY <1>1, <2>1 DEF EditInv, EditSafe, AccessInv
<1>7. AdminInv'
  BY <1>1 DEF AdminInv, AdminSafe, OtherAdmin, HoldersOf, RolesOf, AccessInv
<1> QED
  BY <1>2, <1>5, <1>6, <1>7 DEF AccessInv

LEMMA NextAccess == AccessInv /\ [Next]_vars => AccessInv'
<1> SUFFICES ASSUME AccessInv, [Next]_vars
             PROVE  AccessInv'
  OBVIOUS
<1>1. CASE UNCHANGED vars
  BY <1>1, SameAccess
<1>2. ASSUME NEW c \in Calls, Arrive(c)
      PROVE  AccessInv'
  BY <1>2, ArriveKeeps
<1>3. ASSUME NEW c \in Calls, Step(c)
      PROVE  AccessInv'
  <2>1. CASE CheckRoles(c) \/ InsertUser(c) \/ UserExists(c) \/ DeleteRows(c)
    BY <2>1, CheckRolesKeeps, InsertUserKeeps, DeleteRowsKeeps
  <2>2. CASE InsertRows(c) \/ SyncRoleIds(c) \/ Bump(c)
    BY <2>2, InsertRowsKeeps, SyncRoleIdsKeeps, BumpKeeps
  <2>3. CASE LoadMatrix(c) \/ Submit(c) \/ ReadCurrent(c) \/ Revoke(c)
    BY <2>3, LoadMatrixKeeps, SubmitKeeps, ReadCurrentKeeps, RevokeKeeps
  <2>4. CASE Grant(c) \/ SaveRole(c) \/ SaveStatus(c) \/ FindHolders(c)
    BY <2>4, GrantKeeps, SaveRoleKeeps, SaveStatusKeeps, FindHoldersKeeps
  <2>5. CASE LoadHolder(c) \/ BumpHolder(c)
    BY <2>5, LoadHolderKeeps, BumpHolderKeeps
  <2>6. CASE Guard(c) \/ CountHolder(c) \/ LoadUser(c) \/ SaveUser(c)
    BY <2>6, GuardKeeps, CountHolderKeeps, LoadUserKeeps, SaveUserKeeps
  <2>7. CASE ReadRoles(c) \/ ReadActive(c) \/ Sign(c) \/ Fail(c)
    BY <2>7, ReadRolesKeeps, ReadActiveKeeps, SignKeeps, FailKeeps
  <2> QED
    BY <1>3, <2>1, <2>2, <2>3, <2>4, <2>5, <2>6, <2>7 DEF Step
<1> QED
  BY <1>1, <1>2, <1>3 DEF Next

(* The inductive invariant: types, what each call is at, the tokens and    *)
(* those that are being signed, what an edit goes by, and what the guard   *)
(* of a deactivation has found (user-admin.service.js,                     *)
(* role-admin.service.js, auth.service.js).                                *)
THEOREM AccessInvariant == Spec => []AccessInv
<1> QED
  BY InitAccess, NextAccess, PTL DEF Spec

(* Every account, role, row, token and version is one.                     *)
THEOREM AccessTypeCorrect == Spec => []TypeOK
<1>1. AccessInv => TypeOK
  BY DEF AccessInv, AccessType
<1> QED
  BY <1>1, AccessInvariant, PTL

(* No usable token permits what the active roles of its user do not grant, *)
(* unless a call that took it away is still at work, was cut short or had  *)
(* its version written over (bumpTokenVersion, invalidateRoleHolders).     *)
THEOREM TokensKeepRights == Spec => []NoExcessRights
<1>1. AccessInv => NoExcessRights
  BY DEF AccessInv, RightsInv, TokenSafe, Settled, Usable, NoExcessRights
<1> QED
  BY <1>1, AccessInvariant, PTL

(* An edit of the matrix that nobody raced with falls on the grants its    *)
(* administrator was shown (setRolePermissions, assertVersion).            *)
THEOREM EditsFallOnSeen == Spec => []EditOnSeen
<1>1. AccessInv => EditOnSeen
  BY DEF AccessInv, EditInv, EditSafe, EditOnSeen, At
<1> QED
  BY <1>1, AccessInvariant, PTL

(* A deactivation that nobody wrote beside since its guard looked leaves   *)
(* another active SUPER_ADMIN behind (assertNotLastSuperAdmin).            *)
THEOREM AdminRemains == Spec => LastAdminStays
<1>1. ASSUME AccessInv, NEW c \in Calls, SaveUser(c), call[c].op = "deactivate", c \notin raced,
             SuperAdmin \in RolesOf(call[c].user)
      PROVE  \E w \in HoldersOf(SuperAdmin) \ {call[c].user} : status[w] = "ACTIVE"
  BY <1>1 DEF AccessInv, AdminInv, AdminSafe, OtherAdmin, SaveUser, At
<1>2. AccessInv /\ [Next]_vars =>
        [\A c \in Calls :
           (/\ SaveUser(c) /\ call[c].op = "deactivate" /\ c \notin raced
            /\ SuperAdmin \in RolesOf(call[c].user))
           => \E w \in HoldersOf(SuperAdmin) \ {call[c].user} : status[w] = "ACTIVE"]_vars
  BY <1>1
<1> QED
  BY <1>2, AccessInvariant, PTL DEF Spec, LastAdminStays
===============================================================================
