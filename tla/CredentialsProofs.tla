------------------------- MODULE CredentialsProofs -------------------------
(***************************************************************************)
(* Proofs about the credentials of an account, for any numbers of          *)
(* handlers, calls and wrong passwords allowed: wrong passwords lock it, a *)
(* password an administrator set must be changed, a recovery token is used *)
(* once and leaves no session of an earlier password.                      *)
(***************************************************************************)
EXTENDS Credentials, FiniteSetTheorems, SequenceTheorems, TLAPS

AccountDoc == [pw : Nat, mustChange : BOOLEAN, ver : Nat, failed : Nat,
               lock : {"none", "future", "past"}]
Session == [live : BOOLEAN, token : BOOLEAN, pw : Nat, late : BOOLEAN]
RecoveryDoc == [state : {"valid", "used", "expired"}, recent : BOOLEAN, uses : Nat,
                pw : Nat, done : BOOLEAN]
Operations == {"none", "signIn", "refresh", "change", "reset", "recover", "signOutAll",
               "request", "enroll", "confirm", "disable"}
LoginPlaces == {"idle", "right", "wrong", "mfa", "open", "issue", "rotate", "bump", "list",
                "tokens", "sessions", "mark", "create", "secret", "enable"}
LoginCall == [op : Operations, pc : LoginPlaces, doc : AccountDoc, token : Nat,
              listed : SUBSET Nat, late : BOOLEAN]
ChallengeDoc == [open : BOOLEAN, pw : Nat, late : BOOLEAN]

CredType ==
  /\ account \in AccountDoc /\ minted \in Nat /\ account.pw <= minted
  /\ temporary \subseteq 0 .. minted
  /\ sessions \in Seq(Session) /\ recovery \in Seq(RecoveryDoc)
  /\ challenge \in ChallengeDoc
  /\ wrong \in Nat /\ lost \in BOOLEAN /\ over \in BOOLEAN
  /\ login \in [Logins -> LoginCall]

(* Every call is at a step of its own operation, as far as it matters.     *)
(* What it has loaded: no later password than the last one, an account *)
(* that was not locked if it is to count a wrong password, and, while the  *)
(* password is still the one it loaded, the current mustChange.            *)
CallFits(j) ==
  /\ j.op = "signIn" => j.pc \in {"right", "wrong", "mfa", "open"}
  /\ j.op = "recover" => /\ j.pc \in {"rotate", "bump", "list", "tokens", "sessions", "mark"}
                         /\ j.token \in DOMAIN recovery
  /\ j.pc = "mark" => j.op = "recover"
  /\ j.pc = "rotate" => j.doc.pw <= minted
  /\ j.pc = "wrong" => j.doc.lock # "future"
  /\ j.pc = "rotate" /\ j.doc.pw = account.pw => j.doc.mustChange = account.mustChange

(* Wrong passwords are counted, unless one was lost.                       *)
CountedInv == (~lost => wrong <= account.failed) /\ LockHolds

Holding(c, t) == login[c].op = "recover" /\ login[c].token = t

(* A recovery token goes from unused, with a call about to rotate or none, *)
(* over used by one call, to done for good.                                *)
TokenPhase(t) ==
  /\ \A c, d \in Logins : Holding(c, t) /\ Holding(d, t) => c = d
  /\ recovery[t].done =>
       recovery[t].uses = 1 /\ recovery[t].state = "used" /\ \A c \in Logins : ~Holding(c, t)
  /\ ~recovery[t].done =>
       \/ recovery[t].uses = 0 /\ \A c \in Logins : Holding(c, t) => login[c].pc = "rotate"
       \/ recovery[t].uses = 1 /\ \E c \in Logins : Holding(c, t) /\ login[c].pc # "rotate"

Enough(t, pw, late) == pw >= recovery[t].pw \/ late

(* Sessions, sign-ins and a challenge have a password no earlier than the  *)
(* one a recovery set, or are late.                                        *)
Revoked(t) ==
  /\ \A s \in DOMAIN sessions :
       sessions[s].live => Enough(t, sessions[s].pw, sessions[s].late)
  /\ \A c \in Logins : login[c].op = "signIn" => Enough(t, login[c].doc.pw, login[c].late)
  /\ challenge.open => Enough(t, challenge.pw, challenge.late)

Past(t) == recovery[t].done \/ \E c \in Logins : Holding(c, t) /\ login[c].pc = "mark"

TokensInv ==
  /\ \A t \in DOMAIN recovery : recovery[t].pw <= account.pw
  /\ \A t \in DOMAIN recovery \ torn : TokenPhase(t) /\ (Past(t) => Revoked(t))

CredInv ==
  /\ CredType /\ CountedInv /\ TemporaryMustChange /\ TokensInv
  /\ \A c \in Logins : CallFits(login[c])

----------------------------------------------------------------------------
LEMMA CallIs ==
  ASSUME CredInv, NEW c \in Logins
  PROVE  login[c] \in LoginCall /\ login[c].doc \in AccountDoc /\ CallFits(login[c])
BY DEF CredInv, CredType, LoginCall

LEMMA AtRestIs ==
  /\ AtRest \in LoginCall /\ AtRest.op = "none" /\ AtRest.pc = "idle"
  /\ AtRest.doc = NoDoc /\ NoDoc.pw = 0 /\ AtRest.late = FALSE
<1>1. NoDoc \in AccountDoc /\ NoDoc.pw = 0
  BY DEF NoDoc, AccountDoc
<1>2. PICK doc \in AccountDoc : doc = NoDoc
  BY <1>1
<1>3. AtRest = [op |-> "none", pc |-> "idle", doc |-> doc, token |-> 0,
                listed |-> {}, late |-> FALSE]
  BY <1>2 DEF AtRest
<1>4. AtRest \in LoginCall
  BY <1>3 DEF LoginCall, LoginPlaces, Operations
<1> QED
  BY <1>1, <1>2, <1>3, <1>4

LEMMA AtRestFits == ASSUME CredInv PROVE CallFits(AtRest)
BY AtRestIs DEF CredInv, CredType, CallFits

(* save() field by field.                                                  *)
LEMMA SaveIs ==
  ASSUME account \in AccountDoc, NEW c, login[c].doc \in AccountDoc,
         NEW new \in AccountDoc, SaveAccount(c, new)
  PROVE  /\ account' \in AccountDoc
         /\ account'.pw = IF new.pw = login[c].doc.pw THEN account.pw ELSE new.pw
         /\ account'.mustChange = IF new.mustChange = login[c].doc.mustChange
                                  THEN account.mustChange ELSE new.mustChange
         /\ account'.failed = IF new.failed = login[c].doc.failed
                              THEN account.failed ELSE new.failed
         /\ account'.lock = IF new.lock = login[c].doc.lock THEN account.lock ELSE new.lock
         /\ account'.ver = IF new.ver = login[c].doc.ver THEN account.ver ELSE new.ver
<1>1. DOMAIN account = {"pw", "mustChange", "ver", "failed", "lock"}
  BY DEF AccountDoc
<1>2. account' = [f \in {"pw", "mustChange", "ver", "failed", "lock"} |->
                    IF new[f] = login[c].doc[f] THEN account[f] ELSE new[f]]
  BY <1>1 DEF SaveAccount
<1>3. /\ account'.pw = IF new.pw = login[c].doc.pw THEN account.pw ELSE new.pw
      /\ account'.mustChange = IF new.mustChange = login[c].doc.mustChange
                               THEN account.mustChange ELSE new.mustChange
      /\ account'.ver = IF new.ver = login[c].doc.ver THEN account.ver ELSE new.ver
      /\ account'.failed = IF new.failed = login[c].doc.failed
                           THEN account.failed ELSE new.failed
      /\ account'.lock = IF new.lock = login[c].doc.lock THEN account.lock ELSE new.lock
  BY <1>2
<1>4. account' = [pw |-> account'.pw, mustChange |-> account'.mustChange,
                  ver |-> account'.ver, failed |-> account'.failed, lock |-> account'.lock]
  BY <1>2
<1>5. /\ account'.pw \in Nat /\ account'.mustChange \in BOOLEAN /\ account'.ver \in Nat
      /\ account'.failed \in Nat /\ account'.lock \in {"none", "future", "past"}
  BY <1>3 DEF AccountDoc
<1>6. account' \in AccountDoc
  BY <1>4, <1>5 DEF AccountDoc
<1> QED
  BY <1>3, <1>6

(* A password and lateness a sign-in may go on with.                       *)
Known(pw, late) ==
  \/ pw = account.pw
  \/ \E o \in Logins : login[o].op = "signIn" /\ login[o].doc.pw = pw /\ login[o].late = late
  \/ challenge.open /\ challenge.pw = pw /\ challenge.late = late

LEMMA KnownEnough ==
  ASSUME CredInv, NEW t \in DOMAIN recovery, Revoked(t), NEW pw, NEW late, Known(pw, late)
  PROVE  Enough(t, pw, late)
BY DEF CredInv, TokensInv, Revoked, Known, Enough

(* A call moves on without touching a password or a recovery token, and    *)
(* what it opens goes back to a password that was known.                   *)
LEMMA LoginMovesKeep ==
  ASSUME CredInv, NEW c \in Logins, NEW j \in LoginCall, login' = [login EXCEPT ![c] = j],
         \/ login[c].op # "recover" /\ j.op # "recover"
         \/ /\ login[c].op = "recover" /\ j.op = "recover" /\ j.token = login[c].token
            /\ login[c].pc \notin {"rotate", "mark"} /\ j.pc \notin {"rotate", "mark"},
         account' \in AccountDoc, account'.pw = account.pw,
         account'.mustChange = account.mustChange,
         CallFits(j), CountedInv', wrong' \in Nat, lost' \in BOOLEAN,
         sessions' \in Seq(Session), challenge' \in ChallengeDoc,
         j.op = "signIn" => Known(j.doc.pw, j.late),
         challenge'.open => Known(challenge'.pw, challenge'.late),
         \A s \in DOMAIN sessions' : sessions'[s].live =>
           \/ Known(sessions'[s].pw, sessions'[s].late)
           \/ /\ s \in DOMAIN sessions /\ sessions[s].live
              /\ sessions'[s].pw = sessions[s].pw /\ sessions'[s].late = sessions[s].late,
         UNCHANGED <<minted, temporary, recovery, over, torn>>
  PROVE  CredInv'
<1>1. \A o \in Logins : login'[o] = IF o = c THEN j ELSE login[o]
  BY DEF CredInv, CredType
<1>2. CredType'
  BY DEF CredInv, CredType
<1>3. TemporaryMustChange'
  BY DEF CredInv, TemporaryMustChange
<1>4. \A o \in Logins : CallFits(login[o])'
  BY <1>1 DEF CredInv, CallFits
<1>5. \A t \in DOMAIN recovery' : recovery'[t].pw <= account'.pw
  BY DEF CredInv, TokensInv
<1>6. ASSUME NEW t \in DOMAIN recovery \ torn
      PROVE  TokenPhase(t)' /\ (Past(t)' => Revoked(t)')
  <2>1. TokenPhase(t) /\ (Past(t) => Revoked(t))
    BY <1>6 DEF CredInv, TokensInv
  <2>2. \A o \in Logins : Holding(o, t)' <=> Holding(o, t)
    BY <1>1 DEF Holding
  <2>3. \A o \in Logins : Holding(o, t) =>
          /\ login'[o].pc = "rotate" <=> login[o].pc = "rotate"
          /\ login'[o].pc = "mark" <=> login[o].pc = "mark"
    BY <1>1 DEF Holding
  <2>4. TokenPhase(t)'
    BY <2>1, <2>2, <2>3 DEF TokenPhase
  <2>5. Past(t)' => Past(t)
    BY <2>2, <2>3 DEF Past
  <2>6. ASSUME Revoked(t)
        PROVE  Revoked(t)'
    <3>1. \A pw, late : Known(pw, late) => Enough(t, pw, late)
      BY <1>6, <2>6, KnownEnough
    <3>2. \A s \in DOMAIN sessions' :
            sessions'[s].live => Enough(t, sessions'[s].pw, sessions'[s].late)
      BY <2>6, <3>1 DEF Revoked
    <3>3. \A o \in Logins : login'[o].op = "signIn" =>
            Enough(t, login'[o].doc.pw, login'[o].late)
      BY <1>1, <2>6, <3>1 DEF Revoked
    <3>4. challenge'.open => Enough(t, challenge'.pw, challenge'.late)
      BY <3>1
    <3> QED
      BY <3>2, <3>3, <3>4 DEF Revoked, Enough
  <2> QED
    BY <2>1, <2>4, <2>5, <2>6
<1>7. TokensInv'
  BY <1>5, <1>6 DEF TokensInv
<1> QED
  BY <1>2, <1>3, <1>4, <1>7 DEF CredInv

(* A step that moves one call and nothing else.                            *)
LEMMA QuietKeep ==
  ASSUME CredInv, NEW c \in Logins, NEW j \in LoginCall, login' = [login EXCEPT ![c] = j],
         \/ login[c].op # "recover" /\ j.op # "recover"
         \/ /\ login[c].op = "recover" /\ j.op = "recover" /\ j.token = login[c].token
            /\ login[c].pc \notin {"rotate", "mark"} /\ j.pc \notin {"rotate", "mark"},
         CallFits(j), j.op = "signIn" => Known(j.doc.pw, j.late),
         UNCHANGED <<account, minted, temporary, sessions, recovery, challenge, wrong, lost,
                     over, torn>>
  PROVE  CredInv'
<1>1. CountedInv'
  BY DEF CredInv, CountedInv, LockHolds
<1>2. challenge'.open => Known(challenge'.pw, challenge'.late)
  BY DEF Known
<1>3. /\ account' \in AccountDoc /\ wrong' \in Nat /\ lost' \in BOOLEAN
      /\ sessions' \in Seq(Session) /\ challenge' \in ChallengeDoc
  BY DEF CredInv, CredType
<1> QED
  BY <1>1, <1>2, <1>3, LoginMovesKeep

FreshCall(op, pc) == [AtRest EXCEPT !.op = op, !.pc = pc, !.doc = account]

LEMMA StartsIs ==
  ASSUME CredInv, NEW c \in Logins, NEW op \in Operations, NEW pc \in LoginPlaces,
         LoginStarts(c, op, pc)
  PROVE  /\ login[c].op = "none"
         /\ login' = [login EXCEPT ![c] = FreshCall(op, pc)]
         /\ FreshCall(op, pc) \in LoginCall
         /\ FreshCall(op, pc).op = op /\ FreshCall(op, pc).pc = pc
         /\ FreshCall(op, pc).doc = account
<1>1. PICK rest \in LoginCall : rest = AtRest
  BY AtRestIs
<1>2. rest.token = 0 /\ rest.late = FALSE /\ rest.op = "none"
  BY <1>1, AtRestIs DEF AtRest
<1>3. PICK doc \in AccountDoc : doc = account
  BY DEF CredInv, CredType
<1>4. PICK j : j = [rest EXCEPT !.op = op, !.pc = pc, !.doc = doc]
  OBVIOUS
<1>41. j = FreshCall(op, pc)
  BY <1>1, <1>3, <1>4 DEF FreshCall
<1>5. /\ j \in LoginCall /\ j.op = op /\ j.pc = pc /\ j.doc = doc
      /\ j.token = 0 /\ j.late = FALSE
  BY <1>2, <1>4 DEF LoginCall
<1>6. login' = [login EXCEPT ![c] = FreshCall(op, pc)] /\ login[c] = rest
  BY <1>1 DEF LoginStarts, FreshCall
<1> QED
  BY <1>2, <1>3, <1>41, <1>5, <1>6

(* A call that loads the account and changes nothing else.                 *)
LEMMA StartsKeep ==
  ASSUME CredInv, NEW c \in Logins, NEW op \in Operations, NEW pc \in LoginPlaces,
         LoginStarts(c, op, pc), op # "recover", pc # "mark",
         op = "signIn" => pc \in {"right", "wrong"},
         pc = "wrong" => account.lock # "future",
         UNCHANGED <<account, minted, temporary, sessions, recovery, challenge, wrong, lost,
                     over, torn>>
  PROVE  CredInv'
<1>1. PICK j : j = FreshCall(op, pc)
  OBVIOUS
<1>2. /\ login[c].op = "none" /\ login' = [login EXCEPT ![c] = j]
      /\ j \in LoginCall /\ j.op = op /\ j.pc = pc /\ j.doc = account
  BY <1>1, StartsIs
<1>3. CallFits(j)
  BY <1>2 DEF CallFits, CredInv, CredType
<1>4. Known(j.doc.pw, j.late)
  BY <1>2 DEF Known
<1> QED
  BY <1>2, <1>3, <1>4, QuietKeep

LEMMA StartActionsKeep ==
  ASSUME CredInv, NEW c \in Logins,
         \/ \E right \in BOOLEAN : SignInCall(c, right)
         \/ ChangePassword(c) \/ ResetPassword(c) \/ SignOutAll(c) \/ RequestRecovery(c)
         \/ Enroll(c) \/ ConfirmEnrollment(c) \/ DisableMfa(c)
  PROVE  CredInv'
<1>1. CASE \E right \in BOOLEAN : SignInCall(c, right)
  <2>1. PICK right \in BOOLEAN : SignInCall(c, right)
    BY <1>1
  <2>2. CASE right
    <3>1. LoginStarts(c, "signIn", "right") /\ account.lock # "future"
      BY <2>1, <2>2 DEF SignInCall
    <3> QED
      BY <2>1, <3>1, StartsKeep DEF SignInCall, LoginPlaces, Operations
  <2>3. CASE ~right
    <3>1. LoginStarts(c, "signIn", "wrong") /\ account.lock # "future"
      BY <2>1, <2>3 DEF SignInCall
    <3> QED
      BY <2>1, <3>1, StartsKeep DEF SignInCall, LoginPlaces, Operations
  <2> QED
    BY <2>2, <2>3
<1>2. CASE ChangePassword(c)
  BY <1>2, StartsKeep DEF ChangePassword, LoginPlaces, Operations
<1>3. CASE ResetPassword(c)
  BY <1>3, StartsKeep DEF ResetPassword, LoginPlaces, Operations
<1>4. CASE SignOutAll(c)
  BY <1>4, StartsKeep DEF SignOutAll, LoginPlaces, Operations
<1>5. CASE RequestRecovery(c)
  BY <1>5, StartsKeep DEF RequestRecovery, LoginPlaces, Operations
<1>6. CASE Enroll(c)
  BY <1>6, StartsKeep DEF Enroll, LoginPlaces, Operations
<1>7. CASE ConfirmEnrollment(c)
  BY <1>7, StartsKeep DEF ConfirmEnrollment, LoginPlaces, Operations
<1>8. CASE DisableMfa(c)
  BY <1>8, StartsKeep DEF DisableMfa, LoginPlaces, Operations
<1> QED
  BY <1>1, <1>2, <1>3, <1>4, <1>5, <1>6, <1>7, <1>8

(* A call that is over, its other writes none of the account's.            *)
LEMMA EndKeeps ==
  ASSUME CredInv, NEW c \in Logins, LoginEnds(c), login[c].op # "recover",
         account' \in AccountDoc, account'.pw = account.pw,
         account'.mustChange = account.mustChange,
         CountedInv', wrong' \in Nat, lost' \in BOOLEAN,
         sessions' \in Seq(Session), challenge' \in ChallengeDoc,
         challenge'.open => Known(challenge'.pw, challenge'.late),
         \A s \in DOMAIN sessions' : sessions'[s].live =>
           \/ Known(sessions'[s].pw, sessions'[s].late)
           \/ /\ s \in DOMAIN sessions /\ sessions[s].live
              /\ sessions'[s].pw = sessions[s].pw /\ sessions'[s].late = sessions[s].late,
         UNCHANGED <<minted, temporary, recovery, over, torn>>
  PROVE  CredInv'
<1>1. PICK j \in LoginCall : j = AtRest
  BY AtRestIs
<1>2. login' = [login EXCEPT ![c] = j] /\ j.op = "none"
  BY <1>1, AtRestIs DEF LoginEnds
<1>3. CallFits(j)
  BY <1>1, AtRestFits
<1> QED
  BY <1>2, <1>3, LoginMovesKeep

LEMMA QuietEndKeeps ==
  ASSUME CredInv, NEW c \in Logins, LoginEnds(c), login[c].op # "recover",
         UNCHANGED <<account, minted, temporary, sessions, recovery, challenge, wrong, lost,
                     over, torn>>
  PROVE  CredInv'
<1>1. PICK j \in LoginCall : j = AtRest
  BY AtRestIs
<1>2. login' = [login EXCEPT ![c] = j] /\ j.op = "none"
  BY <1>1, AtRestIs DEF LoginEnds
<1>3. CallFits(j)
  BY <1>1, AtRestFits
<1> QED
  BY <1>2, <1>3, QuietKeep

(* recordFailedLogin: either a count is lost, or the count goes up and     *)
(* the last one locks.                                                     *)
LEMMA WrongPasswordKeeps ==
  ASSUME CredInv, NEW c \in Logins, WrongPassword(c)
  PROVE  CredInv'
<1>1. PICK doc \in AccountDoc : doc = login[c].doc
  BY CallIs
<1>2. /\ account \in AccountDoc /\ doc.lock # "future" /\ login[c].op # "recover"
      /\ wrong \in Nat /\ lost \in BOOLEAN /\ MaxFailed \in Nat
  BY <1>1, CallIs, CredentialsAssumption DEF WrongPassword, LoginAt, CallFits, CredInv, CredType
<1>3. PICK new : new = [doc EXCEPT !.failed = doc.failed + 1,
                          !.lock = IF LockAt(doc.failed + 1) THEN "future" ELSE @]
  OBVIOUS
<1>31. PICK lock \in {"none", "future", "past"} :
         lock = IF LockAt(doc.failed + 1) THEN "future" ELSE doc.lock
  BY DEF AccountDoc
<1>32. PICK failed \in Nat : failed = doc.failed + 1
  BY DEF AccountDoc
<1>33. new = [doc EXCEPT !.failed = failed, !.lock = lock]
  BY <1>3, <1>31, <1>32
<1>34. /\ new \in AccountDoc /\ new.pw = doc.pw /\ new.mustChange = doc.mustChange
       /\ new.failed = failed /\ new.lock = lock
  BY <1>33 DEF AccountDoc
<1>4. /\ new \in AccountDoc /\ new.pw = doc.pw /\ new.mustChange = doc.mustChange
      /\ new.failed = doc.failed + 1
      /\ new.lock = IF LockAt(doc.failed + 1) THEN "future" ELSE doc.lock
  BY <1>31, <1>32, <1>34
<1>5. SaveAccount(c, new) /\ lost' = (lost \/ account.failed # doc.failed)
      /\ wrong' = wrong + 1
  BY <1>1, <1>3 DEF WrongPassword
<1>6. /\ account' \in AccountDoc /\ account'.pw = account.pw
      /\ account'.mustChange = account.mustChange
      /\ account'.failed = doc.failed + 1
      /\ account'.lock = IF LockAt(doc.failed + 1) THEN "future" ELSE account.lock
  <2>1. doc.failed \in Nat
    BY DEF AccountDoc
  <2>2. new.failed # doc.failed
    BY <1>4, <2>1
  <2> QED
    BY <1>1, <1>2, <1>4, <1>5, <2>2, SaveIs
<1>7. CountedInv'
  <2>1. doc.failed \in Nat /\ account.failed \in Nat
    BY <1>2 DEF AccountDoc
  <2>2. ~lost' => ~lost /\ account.failed = doc.failed /\ wrong <= account.failed
    BY <1>5 DEF CredInv, CountedInv
  <2>3. ~lost' => wrong' <= account'.failed
    BY <1>2, <1>5, <1>6, <2>1, <2>2
  <2>4. ~lost' /\ wrong' >= MaxFailed => account'.lock = "future"
    BY <1>2, <1>5, <1>6, <2>1, <2>2 DEF LockAt
  <2> QED
    BY <2>3, <2>4 DEF CountedInv, LockHolds
<1>8. wrong' \in Nat /\ lost' \in BOOLEAN
  BY <1>2, <1>5
<1>9. /\ UNCHANGED <<minted, temporary, sessions, recovery, challenge, over, torn>>
      /\ LoginEnds(c)
  BY DEF WrongPassword
<1>10. challenge'.open => Known(challenge'.pw, challenge'.late)
  BY <1>9 DEF Known
<1>11. sessions' \in Seq(Session) /\ challenge' \in ChallengeDoc
  BY <1>9 DEF CredInv, CredType
<1> QED
  BY <1>2, <1>6, <1>7, <1>8, <1>9, <1>10, <1>11, EndKeeps

(* resetFailedLogin                                                        *)
LEMMA RightPasswordKeeps ==
  ASSUME CredInv, NEW c \in Logins, RightPassword(c)
  PROVE  CredInv'
<1>1. PICK doc \in AccountDoc : doc = login[c].doc
  BY CallIs
<1>2. /\ account \in AccountDoc /\ login[c].op = "signIn" /\ login[c].pc = "right"
      /\ login[c] \in LoginCall /\ CallFits(login[c])
  BY CallIs DEF RightPassword, LoginAt, CredInv, CredType
<1>3. PICK new : new = [doc EXCEPT !.failed = 0, !.lock = "none"]
  OBVIOUS
<1>4. new \in AccountDoc /\ new.pw = doc.pw /\ new.mustChange = doc.mustChange
  BY <1>3 DEF AccountDoc
<1>5. SaveAccount(c, new) /\ wrong' = 0 /\ lost' = FALSE /\ LoginTo(c, "mfa")
  BY <1>1, <1>3 DEF RightPassword
<1>6. /\ account' \in AccountDoc /\ account'.pw = account.pw
      /\ account'.mustChange = account.mustChange
  BY <1>1, <1>2, <1>4, <1>5, SaveIs
<1>7. CountedInv'
  <2>1. account'.failed \in Nat /\ MaxFailed \in Nat \ {0}
    BY <1>6, CredentialsAssumption DEF AccountDoc
  <2> QED
    BY <1>5, <2>1 DEF CountedInv, LockHolds
<1>8. PICK j : j = [login[c] EXCEPT !.pc = "mfa"]
  OBVIOUS
<1>9. /\ j \in LoginCall /\ j.op = "signIn" /\ j.pc = "mfa" /\ j.doc = login[c].doc
      /\ j.late = login[c].late
  BY <1>2, <1>8 DEF LoginCall, LoginPlaces
<1>10. login' = [login EXCEPT ![c] = j]
  BY <1>5, <1>8 DEF LoginTo
<1>11. CallFits(j) /\ Known(j.doc.pw, j.late)
  BY <1>2, <1>9 DEF CallFits, Known
<1>12. UNCHANGED <<minted, temporary, sessions, recovery, challenge, over, torn>>
  BY DEF RightPassword
<1>13. challenge'.open => Known(challenge'.pw, challenge'.late)
  BY <1>12 DEF Known
<1>14. /\ sessions' \in Seq(Session) /\ challenge' \in ChallengeDoc
       /\ wrong' \in Nat /\ lost' \in BOOLEAN
  BY <1>5, <1>12 DEF CredInv, CredType
<1> QED
  BY <1>2, <1>6, <1>7, <1>9, <1>10, <1>11, <1>12, <1>13, <1>14, LoginMovesKeep

(* A sign-in goes on to its session, or ends with a challenge for it.      *)
LEMMA ShouldRequireMfaKeeps ==
  ASSUME CredInv, NEW c \in Logins, ShouldRequireMfa(c)
  PROVE  CredInv'
<1>1. /\ login[c].op = "signIn" /\ login[c].pc = "mfa" /\ login[c] \in LoginCall
      /\ login[c].doc \in AccountDoc /\ CallFits(login[c])
  BY CallIs DEF ShouldRequireMfa, LoginAt
<1>2. UNCHANGED <<account, minted, temporary, sessions, recovery, wrong, lost, over, torn>>
  BY DEF ShouldRequireMfa
<1>3. /\ account' \in AccountDoc /\ wrong' \in Nat /\ lost' \in BOOLEAN
      /\ sessions' \in Seq(Session) /\ CountedInv'
  BY <1>2 DEF CredInv, CredType, CountedInv, LockHolds
<1>4. CASE MfaRequired /\ mfa.enabled
  <2>1. /\ LoginEnds(c)
        /\ challenge' = [open |-> TRUE, pw |-> login[c].doc.pw, late |-> login[c].late]
    BY <1>4 DEF ShouldRequireMfa
  <2>2. challenge' \in ChallengeDoc /\ Known(challenge'.pw, challenge'.late)
    BY <1>1, <2>1 DEF ChallengeDoc, AccountDoc, LoginCall, Known
  <2> QED
    BY <1>1, <1>2, <1>3, <2>1, <2>2, EndKeeps
<1>5. CASE ~(MfaRequired /\ mfa.enabled)
  <2>1. LoginTo(c, "open") /\ UNCHANGED challenge
    BY <1>5 DEF ShouldRequireMfa
  <2>2. PICK j : j = [login[c] EXCEPT !.pc = "open"]
    OBVIOUS
  <2>3. /\ j \in LoginCall /\ j.op = "signIn" /\ j.pc = "open" /\ j.doc = login[c].doc
        /\ j.late = login[c].late
    BY <1>1, <2>2 DEF LoginCall, LoginPlaces
  <2>4. login' = [login EXCEPT ![c] = j]
    BY <2>1, <2>2 DEF LoginTo
  <2>5. CallFits(j) /\ Known(j.doc.pw, j.late)
    BY <1>1, <2>3 DEF CallFits, Known
  <2> QED
    BY <1>1, <1>2, <2>1, <2>3, <2>4, <2>5, QuietKeep
<1> QED
  BY <1>4, <1>5

LEMMA OpenSessionKeeps ==
  ASSUME CredInv, NEW c \in Logins, OpenSession(c)
  PROVE  CredInv'
<1>1. /\ login[c].op = "signIn" /\ login[c] \in LoginCall /\ login[c].doc \in AccountDoc
  BY CallIs DEF OpenSession, LoginAt
<1>2. PICK opened : opened = [live |-> TRUE, token |-> TRUE, pw |-> login[c].doc.pw,
                              late |-> login[c].late]
  OBVIOUS
<1>3. opened \in Session /\ Known(opened.pw, opened.late)
  BY <1>1, <1>2 DEF Session, AccountDoc, LoginCall, Known
<1>4. /\ sessions' = Append(sessions, opened) /\ LoginEnds(c)
      /\ UNCHANGED <<account, minted, temporary, recovery, challenge, wrong, lost, over, torn>>
  BY <1>2 DEF OpenSession
<1>5. sessions \in Seq(Session)
  BY DEF CredInv, CredType
<1>6. /\ sessions' \in Seq(Session) /\ Len(sessions') = Len(sessions) + 1
      /\ \A s \in 1 .. Len(sessions) : sessions'[s] = sessions[s]
      /\ sessions'[Len(sessions) + 1] = opened
  BY <1>3, <1>4, <1>5, AppendProperties
<1>7. /\ DOMAIN sessions' = 1 .. (Len(sessions) + 1)
      /\ DOMAIN sessions = 1 .. Len(sessions) /\ Len(sessions) \in Nat
  BY <1>5, <1>6, LenProperties
<1>8. \A s \in DOMAIN sessions' : s \in DOMAIN sessions \/ s = Len(sessions) + 1
  BY <1>7
<1>9. \A s \in DOMAIN sessions' : sessions'[s].live =>
        \/ Known(sessions'[s].pw, sessions'[s].late)
        \/ /\ s \in DOMAIN sessions /\ sessions[s].live
           /\ sessions'[s].pw = sessions[s].pw /\ sessions'[s].late = sessions[s].late
  BY <1>3, <1>6, <1>7, <1>8
<1>10. /\ account' \in AccountDoc /\ wrong' \in Nat /\ lost' \in BOOLEAN
       /\ challenge' \in ChallengeDoc /\ CountedInv'
  BY <1>4 DEF CredInv, CredType, CountedInv, LockHolds
<1>11. challenge'.open => Known(challenge'.pw, challenge'.late)
  BY <1>4 DEF Known
<1> QED
  BY <1>1, <1>4, <1>6, <1>9, <1>10, <1>11, EndKeeps

(* The session goes by the password the challenge was given for.           *)
LEMMA VerifyMfaKeeps ==
  ASSUME CredInv, NEW c \in Logins, VerifyMfa(c)
  PROVE  CredInv'
<1>1. PICK rest \in LoginCall : rest = AtRest
  BY AtRestIs
<1>2. PICK doc : doc = [account EXCEPT !.pw = challenge.pw]
  OBVIOUS
<1>3. /\ challenge \in ChallengeDoc /\ account \in AccountDoc /\ challenge.open
  BY DEF VerifyMfa, CredInv, CredType
<1>4. /\ doc \in AccountDoc /\ doc.pw = challenge.pw
  BY <1>2, <1>3 DEF ChallengeDoc, AccountDoc
<1>5. PICK late \in BOOLEAN : late = challenge.late
  BY <1>3 DEF ChallengeDoc
<1>6. PICK j : j = [rest EXCEPT !.op = "signIn", !.pc = "open", !.doc = doc, !.late = late]
  OBVIOUS
<1>7. /\ j \in LoginCall /\ j.op = "signIn" /\ j.pc = "open" /\ j.doc = doc /\ j.late = late
  BY <1>4, <1>6 DEF LoginCall, LoginPlaces, Operations
<1>8. /\ login' = [login EXCEPT ![c] = j] /\ login[c] = rest
      /\ UNCHANGED <<account, minted, temporary, sessions, recovery, challenge, wrong, lost,
                     over, torn>>
  BY <1>1, <1>2, <1>5, <1>6 DEF VerifyMfa
<1>9. Known(j.doc.pw, j.late)
  BY <1>3, <1>4, <1>5, <1>7 DEF Known
<1>10. login[c].op # "recover"
  BY <1>1, <1>8, AtRestIs
<1>12. CallFits(j)
  BY <1>7 DEF CallFits
<1> QED
  BY <1>7, <1>8, <1>9, <1>10, <1>12, QuietKeep

(* A step of a sign-out, a refresh or an answer of the second factor ends, *)
(* or sessions lose their token or their life.                             *)
SessionsLess ==
  /\ sessions' \in Seq(Session)
  /\ \A s \in DOMAIN sessions' : s \in DOMAIN sessions
  /\ \A s \in DOMAIN sessions' :
       /\ sessions'[s].live => sessions[s].live
       /\ sessions'[s].pw = sessions[s].pw /\ sessions'[s].late = sessions[s].late

(* What a bulk update of the sessions leaves of them.                      *)
LEMMA SessionsMapped ==
  ASSUME CredInv, NEW f, DOMAIN f = DOMAIN sessions,
         \A s \in DOMAIN sessions : f[s] \in Session,
         f = [s \in DOMAIN sessions |-> f[s]]
  PROVE  f \in Seq(Session)
<1>1. sessions \in Seq(Session)
  BY DEF CredInv, CredType
<1>2. DOMAIN sessions = 1 .. Len(sessions) /\ Len(sessions) \in Nat
  BY <1>1, LenProperties
<1>3. f \in [1 .. Len(sessions) -> Session]
  BY <1>2
<1> QED
  BY <1>2, <1>3, SeqDef

LEMMA SessionIs ==
  ASSUME CredInv, NEW s \in DOMAIN sessions
  PROVE  sessions[s] \in Session
<1>1. sessions \in Seq(Session)
  BY DEF CredInv, CredType
<1> QED
  BY <1>1, ElementOfSeq, LenProperties

(* One field of one session is set, or of all sessions in a set.           *)
LEMMA TokenSet ==
  ASSUME CredInv, NEW t, NEW b \in BOOLEAN, sessions' = [sessions EXCEPT ![t].token = b]
  PROVE  SessionsLess
<1>1. \A s \in DOMAIN sessions : sessions[s] \in Session
  BY SessionIs
<1>2. /\ DOMAIN sessions' = DOMAIN sessions
      /\ sessions' = [s \in DOMAIN sessions |-> sessions'[s]]
      /\ \A s \in DOMAIN sessions : sessions'[s] =
           IF s = t THEN [sessions[s] EXCEPT !.token = b] ELSE sessions[s]
  OBVIOUS
<1>3. \A s \in DOMAIN sessions :
        /\ sessions'[s] \in Session /\ sessions'[s].live = sessions[s].live
        /\ sessions'[s].pw = sessions[s].pw /\ sessions'[s].late = sessions[s].late
  BY <1>1, <1>2 DEF Session
<1>4. sessions' \in Seq(Session)
  BY <1>2, <1>3, SessionsMapped
<1> QED
  BY <1>2, <1>3, <1>4 DEF SessionsLess

LEMMA TokensSpent ==
  ASSUME CredInv, NEW S,
         sessions' = [s \in DOMAIN sessions |->
           IF s \in S THEN [sessions[s] EXCEPT !.token = FALSE] ELSE sessions[s]]
  PROVE  SessionsLess
<1>1. \A s \in DOMAIN sessions : sessions[s] \in Session
  BY SessionIs
<1>2. /\ DOMAIN sessions' = DOMAIN sessions
      /\ sessions' = [s \in DOMAIN sessions |-> sessions'[s]]
      /\ \A s \in DOMAIN sessions : sessions'[s] =
           IF s \in S THEN [sessions[s] EXCEPT !.token = FALSE] ELSE sessions[s]
  OBVIOUS
<1>3. \A s \in DOMAIN sessions :
        /\ sessions'[s] \in Session /\ sessions'[s].live = sessions[s].live
        /\ sessions'[s].pw = sessions[s].pw /\ sessions'[s].late = sessions[s].late
  BY <1>1, <1>2 DEF Session
<1>4. sessions' \in Seq(Session)
  BY <1>2, <1>3, SessionsMapped
<1> QED
  BY <1>2, <1>3, <1>4 DEF SessionsLess

LEMMA SessionsEnded ==
  ASSUME CredInv, NEW c,
         sessions' = [s \in DOMAIN sessions |->
           IF s \in OfUser(c) THEN [sessions[s] EXCEPT !.live = FALSE] ELSE sessions[s]]
  PROVE  SessionsLess /\ \A s \in DOMAIN sessions' : sessions'[s].live = FALSE
<1>1. \A s \in DOMAIN sessions : sessions[s] \in Session
  BY SessionIs
<1>2. /\ DOMAIN sessions' = DOMAIN sessions
      /\ sessions' = [s \in DOMAIN sessions |-> sessions'[s]]
      /\ \A s \in DOMAIN sessions : sessions'[s] = [sessions[s] EXCEPT !.live = FALSE]
  BY DEF OfUser
<1>3. \A s \in DOMAIN sessions :
        /\ sessions'[s] \in Session /\ sessions'[s].live = FALSE
        /\ sessions'[s].pw = sessions[s].pw /\ sessions'[s].late = sessions[s].late
  BY <1>1, <1>2, ZenonT(60) DEF Session
<1>4. sessions' \in Seq(Session)
  BY <1>2, <1>3, SessionsMapped
<1> QED
  BY <1>2, <1>3, <1>4 DEF SessionsLess

(* A call whose sessions only lose something.                              *)
LEMMA LessKeeps ==
  ASSUME CredInv, NEW c \in Logins, NEW j \in LoginCall, login' = [login EXCEPT ![c] = j],
         \/ login[c].op # "recover" /\ j.op # "recover"
         \/ /\ login[c].op = "recover" /\ j.op = "recover" /\ j.token = login[c].token
            /\ login[c].pc \notin {"rotate", "mark"} /\ j.pc \notin {"rotate", "mark"},
         CallFits(j), j.op # "signIn", SessionsLess,
         UNCHANGED <<account, minted, temporary, recovery, challenge, wrong, lost, over, torn>>
  PROVE  CredInv'
<1>1. CountedInv'
  BY DEF CredInv, CountedInv, LockHolds
<1>2. challenge'.open => Known(challenge'.pw, challenge'.late)
  BY DEF Known
<1>3. /\ account' \in AccountDoc /\ wrong' \in Nat /\ lost' \in BOOLEAN
      /\ sessions' \in Seq(Session) /\ challenge' \in ChallengeDoc
  BY DEF CredInv, CredType, SessionsLess
<1> QED
  BY <1>1, <1>2, <1>3, LoginMovesKeep DEF SessionsLess

LEMMA RefreshCallKeeps ==
  ASSUME CredInv, NEW c \in Logins, NEW s \in DOMAIN sessions, RefreshCall(c, s)
  PROVE  CredInv'
<1>1. PICK rest \in LoginCall : rest = AtRest
  BY AtRestIs
<1>2. s \in Nat
  BY LenProperties DEF CredInv, CredType
<1>3. PICK j : j = [rest EXCEPT !.op = "refresh", !.pc = "issue", !.token = s]
  OBVIOUS
<1>4. j \in LoginCall /\ j.op = "refresh" /\ j.pc = "issue"
  BY <1>2, <1>3 DEF LoginCall, LoginPlaces, Operations
<1>5. /\ login' = [login EXCEPT ![c] = j] /\ login[c] = rest
      /\ sessions' = [sessions EXCEPT ![s].token = FALSE]
      /\ UNCHANGED <<account, minted, temporary, recovery, challenge, wrong, lost, over, torn>>
  BY <1>1, <1>3 DEF RefreshCall
<1>6. SessionsLess
  BY <1>5, TokenSet
<1>7. CallFits(j) /\ login[c].op # "recover"
  BY <1>1, <1>4, <1>5, AtRestIs DEF CallFits
<1> QED
  BY <1>4, <1>5, <1>6, <1>7, LessKeeps

LEMMA IssueNextKeeps ==
  ASSUME CredInv, NEW c \in Logins, IssueNext(c)
  PROVE  CredInv'
<1>1. PICK j \in LoginCall : j = AtRest
  BY AtRestIs
<1>2. /\ login' = [login EXCEPT ![c] = j] /\ j.op = "none" /\ CallFits(j)
      /\ login[c].op # "recover"
  BY <1>1, AtRestIs, AtRestFits DEF IssueNext, LoginEnds, LoginAt
<1>3. SessionsLess
  BY TokenSet DEF IssueNext
<1> QED
  BY <1>2, <1>3, LessKeeps DEF IssueNext

LEMMA ListSessionsKeeps ==
  ASSUME CredInv, NEW c \in Logins, ListSessions(c), login[c].op # "signIn"
  PROVE  CredInv'
<1>1. login[c] \in LoginCall
  BY CallIs
<1>2. DOMAIN sessions \subseteq Nat
  BY LenProperties DEF CredInv, CredType
<1>3. PICK j : j = [login[c] EXCEPT !.pc = "tokens", !.listed = DOMAIN sessions]
  OBVIOUS
<1>4. /\ j \in LoginCall /\ j.op = login[c].op /\ j.token = login[c].token
      /\ j.pc = "tokens"
  BY <1>1, <1>2, <1>3 DEF LoginCall, LoginPlaces
<1>5. login' = [login EXCEPT ![c] = j] /\ login[c].pc = "list"
  BY <1>3 DEF ListSessions
<1>6. CallFits(j)
  BY <1>4, CallIs DEF CallFits
<1> QED
  BY <1>4, <1>5, <1>6, QuietKeep DEF ListSessions

LEMMA RevokeTokensKeeps ==
  ASSUME CredInv, NEW c \in Logins, RevokeTokens(c), login[c].op # "signIn"
  PROVE  CredInv'
<1>1. login[c] \in LoginCall
  BY CallIs
<1>2. PICK j : j = [login[c] EXCEPT !.pc = "sessions"]
  OBVIOUS
<1>3. /\ j \in LoginCall /\ j.op = login[c].op /\ j.token = login[c].token
      /\ j.pc = "sessions"
  BY <1>1, <1>2 DEF LoginCall, LoginPlaces
<1>4. login' = [login EXCEPT ![c] = j] /\ login[c].pc = "tokens"
  BY <1>2 DEF RevokeTokens, LoginTo
<1>5. CallFits(j)
  BY <1>3, CallIs DEF CallFits
<1>6. SessionsLess
  BY TokensSpent DEF RevokeTokens
<1> QED
  BY <1>3, <1>4, <1>5, <1>6, LessKeeps DEF RevokeTokens

(* A sign-out, a password change or a reset ends, or a call is cut short   *)
(* that is not a recovery.                                                 *)
LEMMA RevokeSessionsKeeps ==
  ASSUME CredInv, NEW c \in Logins, RevokeSessions(c)
  PROVE  CredInv'
<1>1. /\ login[c] \in LoginCall /\ login[c].pc = "sessions" /\ CallFits(login[c])
      /\ login \in [Logins -> LoginCall]
  BY CallIs DEF RevokeSessions, CredInv, CredType
<1>2. SessionsLess /\ \A s \in DOMAIN sessions' : sessions'[s].live = FALSE
  BY SessionsEnded DEF RevokeSessions
<1>3. UNCHANGED <<account, minted, temporary, recovery, wrong, lost, over, torn>>
  BY DEF RevokeSessions
<1>4. CASE login[c].op # "recover"
  <2>1. PICK j \in LoginCall : j = AtRest
    BY AtRestIs
  <2>2. /\ login' = [login EXCEPT ![c] = j] /\ j.op = "none" /\ CallFits(j)
        /\ UNCHANGED challenge
    BY <1>4, <2>1, AtRestIs, AtRestFits DEF RevokeSessions, LoginEnds
  <2> QED
    BY <1>2, <1>3, <1>4, <2>2, LessKeeps
<1>5. CASE login[c].op = "recover"
  <2>1. /\ login' = [o \in Logins |->
              IF o = c THEN [login[c] EXCEPT !.pc = "mark"]
              ELSE [login[o] EXCEPT !.late = (login[o].op = "signIn")]]
        /\ challenge' = [challenge EXCEPT !.late = challenge.open]
    BY <1>5 DEF RevokeSessions
  <2>2. \A o \in Logins : login'[o] =
          IF o = c THEN [login[c] EXCEPT !.pc = "mark"]
          ELSE [login[o] EXCEPT !.late = (login[o].op = "signIn")]
    BY <2>1
  <2>3. \A o \in Logins :
          /\ login'[o] \in LoginCall /\ login'[o].op = login[o].op
          /\ login'[o].token = login[o].token /\ login'[o].doc = login[o].doc
          /\ login'[o].pc = IF o = c THEN "mark" ELSE login[o].pc
          /\ login[o].op = "signIn" => login'[o].late = TRUE
    <3> SUFFICES ASSUME NEW o \in Logins
                 PROVE  /\ login'[o] \in LoginCall /\ login'[o].op = login[o].op
                        /\ login'[o].token = login[o].token /\ login'[o].doc = login[o].doc
                        /\ login'[o].pc = IF o = c THEN "mark" ELSE login[o].pc
                        /\ login[o].op = "signIn" => login'[o].late = TRUE
      OBVIOUS
    <3>1. PICK k \in LoginCall : k = login[o]
      BY <1>1
    <3>2. CASE o = c
      <4>1. login'[o] = [k EXCEPT !.pc = "mark"]
        BY <2>2, <3>1, <3>2
      <4> QED
        BY <1>5, <3>1, <3>2, <4>1 DEF LoginCall, LoginPlaces
    <3>3. CASE o # c
      <4>1. PICK late \in BOOLEAN : late = (login[o].op = "signIn")
        OBVIOUS
      <4>2. login'[o] = [k EXCEPT !.late = late]
        BY <2>2, <3>1, <3>3, <4>1
      <4>3. /\ login'[o] \in LoginCall /\ login'[o].op = k.op /\ login'[o].token = k.token
            /\ login'[o].doc = k.doc /\ login'[o].pc = k.pc /\ login'[o].late = late
        BY <4>2 DEF LoginCall
      <4> QED
        BY <3>1, <3>3, <4>1, <4>3
    <3> QED
      BY <3>2, <3>3
  <2>4. login' \in [Logins -> LoginCall]
    BY <2>1, <2>3
  <2>5. challenge' \in ChallengeDoc /\ (challenge'.open => challenge'.late = TRUE)
    <3>1. challenge \in ChallengeDoc
      BY DEF CredInv, CredType
    <3>2. PICK open \in BOOLEAN : open = challenge.open
      BY <3>1 DEF ChallengeDoc
    <3>3. challenge' = [challenge EXCEPT !.late = open]
      BY <2>1, <3>2
    <3> QED
      BY <3>1, <3>2, <3>3 DEF ChallengeDoc
  <2>6. CredType' /\ CountedInv' /\ TemporaryMustChange'
    BY <1>2, <1>3, <2>4, <2>5 DEF CredInv, CredType, CountedInv, LockHolds,
       TemporaryMustChange, SessionsLess
  <2>7. \A o \in Logins : CallFits(login[o])'
    BY <1>3, <1>5, <2>3 DEF CredInv, CallFits
  <2>8. \A t : Revoked(t)'
    BY <1>2, <2>3, <2>5 DEF Revoked, Enough
  <2>9. ASSUME NEW t \in DOMAIN recovery \ torn, TokenPhase(t)
        PROVE  TokenPhase(t)'
    <3>1. \A o \in Logins : Holding(o, t)' <=> Holding(o, t)
      BY <2>3 DEF Holding
    <3>2. \A o \in Logins : login'[o].pc = "rotate" <=> login[o].pc = "rotate"
      BY <1>1, <2>3
    <3> QED
      BY <1>3, <2>9, <3>1, <3>2 DEF TokenPhase
  <2>10. TokensInv'
    BY <1>3, <2>8, <2>9 DEF CredInv, TokensInv
  <2> QED
    BY <2>6, <2>7, <2>10 DEF CredInv
<1> QED
  BY <1>4, <1>5

LEMMA BumpKeeps ==
  ASSUME CredInv, NEW c \in Logins, BumpTokenVersion(c)
  PROVE  CredInv'
<1>1. PICK doc \in AccountDoc : doc = login[c].doc
  BY CallIs
<1>2. /\ account \in AccountDoc /\ login[c] \in LoginCall /\ login[c].pc = "bump"
      /\ CallFits(login[c])
  BY CallIs DEF BumpTokenVersion, CredInv, CredType
<1>3. PICK new : new = [doc EXCEPT !.ver = @ + 1]
  OBVIOUS
<1>4. /\ new \in AccountDoc /\ new.pw = doc.pw /\ new.mustChange = doc.mustChange
      /\ new.failed = doc.failed /\ new.lock = doc.lock
  BY <1>3 DEF AccountDoc
<1>5. SaveAccount(c, new)
  BY <1>1, <1>3 DEF BumpTokenVersion
<1>6. /\ account' \in AccountDoc /\ account'.pw = account.pw
      /\ account'.mustChange = account.mustChange
      /\ account'.failed = account.failed /\ account'.lock = account.lock
  BY <1>1, <1>2, <1>4, <1>5, SaveIs
<1>7. UNCHANGED <<minted, temporary, sessions, recovery, challenge, wrong, lost, over, torn>>
  BY DEF BumpTokenVersion
<1>8. CountedInv'
  BY <1>6, <1>7 DEF CredInv, CountedInv, LockHolds
<1>9. challenge'.open => Known(challenge'.pw, challenge'.late)
  BY <1>7 DEF Known
<1>10. /\ sessions' \in Seq(Session) /\ challenge' \in ChallengeDoc
       /\ wrong' \in Nat /\ lost' \in BOOLEAN
  BY <1>7 DEF CredInv, CredType
<1>11. CASE login[c].op # "recover"
  <2>1. LoginEnds(c)
    BY <1>11 DEF BumpTokenVersion
  <2> QED
    BY <1>6, <1>7, <1>8, <1>9, <1>10, <1>11, <2>1, EndKeeps
<1>12. CASE login[c].op = "recover"
  <2>1. PICK j : j = [login[c] EXCEPT !.pc = "list"]
    OBVIOUS
  <2>2. /\ j \in LoginCall /\ j.op = "recover" /\ j.token = login[c].token /\ j.pc = "list"
    BY <1>2, <1>12, <2>1 DEF LoginCall, LoginPlaces
  <2>3. login' = [login EXCEPT ![c] = j]
    BY <1>12, <2>1 DEF BumpTokenVersion, LoginTo
  <2>4. CallFits(j)
    BY <1>2, <1>12, <2>2 DEF CallFits
  <2> QED
    BY <1>2, <1>6, <1>7, <1>8, <1>9, <1>10, <1>12, <2>2, <2>3, <2>4, LoginMovesKeep
<1> QED
  BY <1>11, <1>12

LEMMA RecoveryIs ==
  ASSUME CredInv, NEW t \in DOMAIN recovery
  PROVE  recovery[t] \in RecoveryDoc /\ t \in Nat
<1>1. recovery \in Seq(RecoveryDoc)
  BY DEF CredInv, CredType
<1> QED
  BY <1>1, ElementOfSeq, LenProperties

LEMMA RecoverySet ==
  ASSUME CredInv, NEW t \in DOMAIN recovery, NEW r \in RecoveryDoc,
         recovery' = [recovery EXCEPT ![t] = r]
  PROVE  /\ recovery' \in Seq(RecoveryDoc) /\ DOMAIN recovery' = DOMAIN recovery
         /\ \A u \in DOMAIN recovery : recovery'[u] = IF u = t THEN r ELSE recovery[u]
<1>1. recovery \in Seq(RecoveryDoc)
  BY DEF CredInv, CredType
<1>2. DOMAIN recovery = 1 .. Len(recovery) /\ Len(recovery) \in Nat
  BY <1>1, LenProperties
<1>3. \A u \in DOMAIN recovery : recovery[u] \in RecoveryDoc
  BY RecoveryIs
<1>4. PICK f : f = recovery'
  OBVIOUS
<1>5. f \in [1 .. Len(recovery) -> RecoveryDoc]
  BY <1>2, <1>3, <1>4
<1>6. f \in Seq(RecoveryDoc)
  BY <1>2, <1>5, SeqDef
<1> QED
  BY <1>4, <1>6

(* A recovery takes hold of its token; a token two calls hold is torn.     *)
LEMMA RecoverKeeps ==
  ASSUME CredInv, NEW c \in Logins, NEW t \in DOMAIN recovery, Recover(c, t)
  PROVE  CredInv'
<1>1. PICK rest \in LoginCall : rest = AtRest
  BY AtRestIs
<1>2. PICK doc \in AccountDoc : doc = account
  BY DEF CredInv, CredType
<1>3. PICK j : j = [rest EXCEPT !.op = "recover", !.pc = "rotate", !.doc = doc, !.token = t]
  OBVIOUS
<1>4. j \in LoginCall /\ j.op = "recover" /\ j.pc = "rotate" /\ j.doc = doc /\ j.token = t
  BY <1>3, RecoveryIs DEF LoginCall, LoginPlaces, Operations
<1>5. /\ login' = [login EXCEPT ![c] = j] /\ login[c].op = "none"
      /\ recovery[t].state = "valid"
      /\ torn' = IF Holds(t) = {} THEN torn ELSE torn \cup {t}
  BY <1>1, <1>2, <1>3, AtRestIs DEF Recover
<1>6. UNCHANGED <<account, minted, temporary, sessions, recovery, challenge, wrong, lost, over>>
  BY DEF Recover
<1>7. \A o \in Logins : login'[o] = IF o = c THEN j ELSE login[o]
  BY <1>5 DEF CredInv, CredType
<1>8. CallFits(j)'
  BY <1>2, <1>4, <1>6 DEF CallFits, CredInv, CredType
<1>9. CredType' /\ CountedInv' /\ TemporaryMustChange'
  BY <1>4, <1>5, <1>6 DEF CredInv, CredType, CountedInv, LockHolds, TemporaryMustChange
<1>10. \A o \in Logins : CallFits(login[o])'
  BY <1>6, <1>7, <1>8 DEF CredInv, CallFits
<1>11. ASSUME NEW u \in DOMAIN recovery \ torn'
       PROVE  TokenPhase(u)' /\ (Past(u)' => Revoked(u)')
  <2>1. u \notin torn
    BY <1>5, <1>11
  <2>2. TokenPhase(u) /\ (Past(u) => Revoked(u))
    BY <1>11, <2>1 DEF CredInv, TokensInv
  <2>3. CASE u = t
    <3>1. \A o \in Logins : ~Holding(o, t)
      BY <1>5, <1>11, <2>3 DEF Holds, Holding
    <3>2. \A o \in Logins : Holding(o, t)' <=> o = c
      BY <1>4, <1>7, <3>1 DEF Holding
    <3>3. recovery[t].uses = 0 /\ ~recovery[t].done
      BY <1>5, <2>2, <2>3, <3>1 DEF TokenPhase
    <3>4. login'[c].pc = "rotate"
      BY <1>4, <1>7
    <3> QED
      BY <1>6, <2>3, <3>2, <3>3, <3>4 DEF TokenPhase, Past
  <2>4. CASE u # t
    <3>1. \A o \in Logins : Holding(o, u)' <=> Holding(o, u)
      BY <1>4, <1>5, <1>7, <2>4 DEF Holding
    <3>2. \A o \in Logins : Holding(o, u) => login'[o] = login[o]
      BY <1>5, <1>7 DEF Holding
    <3>3. TokenPhase(u)'
      BY <1>6, <2>2, <3>1, <3>2 DEF TokenPhase
    <3>4. Past(u)' => Past(u)
      BY <1>6, <3>1, <3>2 DEF Past
    <3>5. Revoked(u) => Revoked(u)'
      BY <1>4, <1>6, <1>7 DEF Revoked, Enough
    <3> QED
      BY <2>2, <3>3, <3>4, <3>5
  <2> QED
    BY <2>3, <2>4
<1>12. TokensInv'
  BY <1>6, <1>11 DEF CredInv, TokensInv
<1> QED
  BY <1>9, <1>10, <1>12 DEF CredInv

(* MarkRecovered: the token is done, and was used once.                    *)
LEMMA MarkKeeps ==
  ASSUME CredInv, NEW c \in Logins, MarkRecovered(c)
  PROVE  CredInv'
<1>1. PICK t : t = login[c].token
  OBVIOUS
<1>2. /\ login[c].pc = "mark" /\ login[c].op = "recover" /\ Holding(c, t)
  BY <1>1, CallIs DEF MarkRecovered, CallFits, Holding
<1>3. PICK rest \in LoginCall : rest = AtRest
  BY AtRestIs
<1>4. login' = [login EXCEPT ![c] = rest] /\ rest.op = "none" /\ CallFits(rest)
  BY <1>3, AtRestIs, AtRestFits DEF MarkRecovered, LoginEnds
<1>5. \A o \in Logins : login'[o] = IF o = c THEN rest ELSE login[o]
  BY <1>4 DEF CredInv, CredType
<1>6. UNCHANGED <<account, minted, temporary, sessions, challenge, wrong, lost, over, torn>>
  BY DEF MarkRecovered
<1>7. /\ DOMAIN recovery' = DOMAIN recovery /\ recovery' \in Seq(RecoveryDoc)
      /\ \A u \in DOMAIN recovery :
           /\ recovery'[u].uses = recovery[u].uses /\ recovery'[u].pw = recovery[u].pw
           /\ u = t => recovery'[u].done = TRUE /\ recovery'[u].state = "used"
           /\ u # t => recovery'[u] = recovery[u]
  <2>1. recovery' = [recovery EXCEPT ![t].state = "used", ![t].done = TRUE]
    BY <1>1 DEF MarkRecovered, UsedState
  <2>2. CASE t \in DOMAIN recovery
    <3>1. PICK r \in RecoveryDoc : r = recovery[t]
      BY <2>2, RecoveryIs
    <3>2. PICK m : m = [r EXCEPT !.state = "used", !.done = TRUE]
      OBVIOUS
    <3>3. /\ m \in RecoveryDoc /\ m.uses = r.uses /\ m.pw = r.pw /\ m.done = TRUE
          /\ m.state = "used"
      BY <3>2 DEF RecoveryDoc
    <3>4. recovery' = [recovery EXCEPT ![t] = m]
      BY <2>1, <2>2, <3>1, <3>2
    <3> QED
      BY <2>2, <3>1, <3>3, <3>4, RecoverySet
  <2>3. CASE t \notin DOMAIN recovery
    <3>1. recovery \in Seq(RecoveryDoc)
      BY DEF CredInv, CredType
    <3>2. recovery' = recovery
      BY <2>1, <2>3, <3>1
    <3> QED
      BY <2>3, <3>1, <3>2
  <2> QED
    BY <2>2, <2>3
<1>8. CredType' /\ CountedInv' /\ TemporaryMustChange'
  BY <1>4, <1>6, <1>7 DEF CredInv, CredType, CountedInv, LockHolds, TemporaryMustChange
<1>9. \A o \in Logins : CallFits(login[o])'
  BY <1>4, <1>5, <1>6, <1>7 DEF CredInv, CallFits
<1>10. ASSUME NEW u \in DOMAIN recovery \ torn
       PROVE  TokenPhase(u)' /\ (Past(u)' => Revoked(u)')
  <2>1. TokenPhase(u) /\ (Past(u) => Revoked(u))
    BY <1>10 DEF CredInv, TokensInv
  <2>2. \A o \in Logins : Holding(o, u)' <=> (o # c /\ Holding(o, u))
    BY <1>4, <1>5 DEF Holding
  <2>3. Revoked(u) => Revoked(u)'
    BY <1>4, <1>5, <1>6, <1>7 DEF Revoked, Enough
  <2>4. CASE u = t
    <3>1. recovery[t].uses = 1 /\ \A o \in Logins : Holding(o, t) => o = c
      BY <1>2, <2>1, <2>4 DEF TokenPhase
    <3>2. Past(u)
      BY <1>2, <2>4 DEF Past
    <3> QED
      BY <1>7, <2>1, <2>2, <2>3, <2>4, <3>1, <3>2 DEF TokenPhase
  <2>5. CASE u # t
    <3>1. \A o \in Logins : Holding(o, u) => o # c
      BY <1>1, <2>5 DEF Holding
    <3>2. \A o \in Logins : Holding(o, u)' <=> Holding(o, u)
      BY <2>2, <3>1
    <3>3. \A o \in Logins : Holding(o, u) => login'[o] = login[o]
      BY <1>5, <3>1
    <3>4. TokenPhase(u)'
      BY <1>7, <2>1, <2>5, <3>2, <3>3 DEF TokenPhase
    <3>5. Past(u)' => Past(u)
      BY <1>7, <2>5, <3>2, <3>3 DEF Past
    <3> QED
      BY <2>1, <2>3, <3>4, <3>5
  <2> QED
    BY <2>4, <2>5
<1>11. \A u \in DOMAIN recovery' : recovery'[u].pw <= account'.pw
  BY <1>6, <1>7 DEF CredInv, TokensInv
<1>12. TokensInv'
  BY <1>6, <1>7, <1>10, <1>11 DEF TokensInv
<1> QED
  BY <1>8, <1>9, <1>12 DEF CredInv

(* A call goes no further.  A recovery that does leaves its token torn.    *)
LEMMA CutKeeps ==
  ASSUME CredInv, NEW c \in Logins, LoginCut(c)
  PROVE  CredInv'
<1>1. /\ LoginEnds(c)
      /\ UNCHANGED <<account, minted, temporary, sessions, recovery, challenge, wrong, lost,
                     over>>
      /\ torn' = IF login[c].op = "recover" THEN torn \cup {login[c].token} ELSE torn
  BY DEF LoginCut
<1>2. CASE login[c].op # "recover"
  BY <1>1, <1>2, QuietEndKeeps
<1>3. CASE login[c].op = "recover"
  <2>1. PICK rest \in LoginCall : rest = AtRest
    BY AtRestIs
  <2>2. login' = [login EXCEPT ![c] = rest] /\ rest.op = "none" /\ CallFits(rest)
    BY <1>1, <2>1, AtRestIs, AtRestFits DEF LoginEnds
  <2>3. \A o \in Logins : login'[o] = IF o = c THEN rest ELSE login[o]
    BY <2>2 DEF CredInv, CredType
  <2>4. CredType' /\ CountedInv' /\ TemporaryMustChange'
    BY <1>1, <2>2 DEF CredInv, CredType, CountedInv, LockHolds, TemporaryMustChange
  <2>5. \A o \in Logins : CallFits(login[o])'
    BY <1>1, <2>2, <2>3 DEF CredInv, CallFits
  <2>6. ASSUME NEW u \in DOMAIN recovery \ torn'
        PROVE  TokenPhase(u)' /\ (Past(u)' => Revoked(u)')
    <3>1. u \notin torn /\ u # login[c].token
      BY <1>1, <1>3, <2>6
    <3>2. TokenPhase(u) /\ (Past(u) => Revoked(u))
      BY <2>6, <3>1 DEF CredInv, TokensInv
    <3>3. \A o \in Logins : Holding(o, u)' <=> Holding(o, u)
      BY <2>2, <2>3, <3>1 DEF Holding
    <3>4. \A o \in Logins : Holding(o, u) => login'[o] = login[o]
      BY <2>3, <3>1 DEF Holding
    <3>5. TokenPhase(u)'
      BY <1>1, <3>2, <3>3, <3>4 DEF TokenPhase
    <3>6. Past(u)' => Past(u)
      BY <1>1, <3>3, <3>4 DEF Past
    <3>7. Revoked(u) => Revoked(u)'
      BY <1>1, <2>2, <2>3 DEF Revoked, Enough
    <3> QED
      BY <3>2, <3>5, <3>6, <3>7
  <2>7. TokensInv'
    BY <1>1, <2>6 DEF CredInv, TokensInv
  <2> QED
    BY <2>4, <2>5, <2>7 DEF CredInv
<1> QED
  BY <1>2, <1>3

(* rotatePassword: a password nobody has yet; a call that loaded the one   *)
(* before it has lost its claim on mustChange.                             *)
LEMMA RotateKeeps ==
  ASSUME CredInv, NEW c \in Logins, RotatePassword(c)
  PROVE  CredInv'
<1>1. PICK call \in LoginCall : call = login[c]
  BY CallIs
<1>2. /\ call.pc = "rotate" /\ call.doc \in AccountDoc /\ CallFits(call)
      /\ account \in AccountDoc /\ minted \in Nat /\ account.pw <= minted
  BY <1>1, CallIs DEF RotatePassword, CredInv, CredType
<1>3. PICK must \in BOOLEAN : must = MustChange(call.op)
  BY DEF MustChange
<1>4. PICK fresh \in Nat : fresh = minted + 1
  BY <1>2
<1>5. PICK doc : doc = [call.doc EXCEPT !.pw = fresh, !.mustChange = must]
  OBVIOUS
<1>6. /\ doc \in AccountDoc /\ doc.pw = fresh /\ doc.mustChange = must
      /\ doc.failed = call.doc.failed /\ doc.lock = call.doc.lock
  BY <1>2, <1>5 DEF AccountDoc
<1>7. PICK j : j = [call EXCEPT !.pc = "bump", !.doc = doc]
  OBVIOUS
<1>8. /\ j \in LoginCall /\ j.op = call.op /\ j.token = call.token /\ j.pc = "bump"
  BY <1>1, <1>6, <1>7 DEF LoginCall, LoginPlaces
<1>9. /\ SaveAccount(c, doc) /\ over' = (account.pw # call.doc.pw)
      /\ temporary' = IF call.op = "reset" THEN temporary \cup {fresh} ELSE temporary
      /\ recovery' = IF call.op = "recover"
                     THEN [recovery EXCEPT ![call.token].uses = @ + 1,
                                           ![call.token].pw = fresh]
                     ELSE recovery
      /\ login' = [login EXCEPT ![c] = j]
      /\ minted' = fresh
  <2>1. login' = [login EXCEPT ![c].pc = "bump", ![c].doc = doc]
    BY <1>1, <1>3, <1>4, <1>5 DEF RotatePassword
  <2>2. login' = [login EXCEPT ![c] = j]
    BY <1>1, <1>7, <2>1 DEF CredInv, CredType
  <2> QED
    BY <1>1, <1>3, <1>4, <1>5, <2>2 DEF RotatePassword
<1>10. UNCHANGED <<sessions, challenge, wrong, lost, torn>>
  BY DEF RotatePassword
<1>11. call.doc.pw # fresh
  BY <1>2, <1>4 DEF CallFits, AccountDoc
<1>12. /\ account' \in AccountDoc /\ account'.pw = fresh
       /\ account'.mustChange = IF must = call.doc.mustChange THEN account.mustChange ELSE must
       /\ account'.failed = account.failed /\ account'.lock = account.lock
  BY <1>1, <1>2, <1>6, <1>9, <1>11, SaveIs
<1>13. \A o \in Logins : login'[o] = IF o = c THEN j ELSE login[o]
  BY <1>9 DEF CredInv, CredType
<1>14. /\ DOMAIN recovery' = DOMAIN recovery /\ recovery' \in Seq(RecoveryDoc)
       /\ \A u \in DOMAIN recovery :
            IF call.op = "recover" /\ u = call.token
            THEN /\ recovery'[u].uses = recovery[u].uses + 1 /\ recovery'[u].pw = fresh
                 /\ recovery'[u].done = recovery[u].done /\ recovery'[u].state = recovery[u].state
            ELSE recovery'[u] = recovery[u]
  <2>1. recovery \in Seq(RecoveryDoc)
    BY DEF CredInv, CredType
  <2>2. CASE call.op = "recover"
    <3>1. call.token \in DOMAIN recovery
      BY <1>2, <2>2 DEF CallFits
    <3>2. PICK r \in RecoveryDoc : r = recovery[call.token]
      BY <3>1, RecoveryIs
    <3>3. PICK uses \in Nat : uses = r.uses + 1
      BY <3>2 DEF RecoveryDoc
    <3>6. PICK m : m = [r EXCEPT !.uses = uses, !.pw = fresh]
      OBVIOUS
    <3>4. /\ m \in RecoveryDoc /\ m.uses = r.uses + 1 /\ m.pw = fresh /\ m.done = r.done
          /\ m.state = r.state
      BY <3>3, <3>6 DEF RecoveryDoc
    <3>5. recovery' = [recovery EXCEPT ![call.token] = m]
      BY <1>9, <2>2, <3>1, <3>2, <3>3, <3>6
    <3> QED
      BY <2>2, <3>1, <3>2, <3>4, <3>5, RecoverySet
  <2>3. CASE call.op # "recover"
    BY <1>9, <2>1, <2>3
  <2> QED
    BY <2>2, <2>3
<1>15. CredType'
  <2>1. temporary' \subseteq 0 .. fresh
    BY <1>2, <1>4, <1>9 DEF CredInv, CredType
  <2>2. account'.pw <= minted' /\ minted' \in Nat /\ over' \in BOOLEAN
    BY <1>4, <1>9, <1>12
  <2>3. login' \in [Logins -> LoginCall]
    BY <1>8, <1>9 DEF CredInv, CredType
  <2> QED
    BY <1>9, <1>10, <1>12, <1>14, <2>1, <2>2, <2>3 DEF CredInv, CredType
<1>16. CountedInv'
  BY <1>10, <1>12 DEF CredInv, CountedInv, LockHolds
<1>17. TemporaryMustChange'
  <2> SUFFICES ASSUME fresh \in temporary', ~over'
               PROVE  account'.mustChange = TRUE
    BY <1>9, <1>12 DEF TemporaryMustChange
  <2>1. fresh \notin temporary
    BY <1>2, <1>4 DEF CredInv, CredType
  <2>2. call.op = "reset" /\ must = TRUE
    BY <1>3, <1>9, <2>1 DEF MustChange
  <2>3. call.doc.mustChange = account.mustChange
    BY <1>2, <1>9 DEF CallFits
  <2> QED
    BY <1>2, <1>12, <2>2, <2>3 DEF AccountDoc
<1>18. \A o \in Logins : CallFits(login[o])'
  <2>1. CallFits(j)'
    BY <1>2, <1>8, <1>14 DEF CallFits
  <2>2. ASSUME NEW o \in Logins, o # c
        PROVE  CallFits(login[o])'
    <3>1. CallFits(login[o]) /\ login'[o] = login[o] /\ login[o].doc.pw \in Nat
      BY <1>13, <2>2, CallIs DEF AccountDoc
    <3>2. login[o].pc = "rotate" => login[o].doc.pw <= minted' /\ login[o].doc.pw # account'.pw
      BY <1>2, <1>4, <1>9, <1>12, <3>1 DEF CallFits
    <3> QED
      BY <1>14, <3>1, <3>2 DEF CallFits
  <2> QED
    BY <1>13, <2>1, <2>2
<1>19. ASSUME NEW u \in DOMAIN recovery \ torn
       PROVE  TokenPhase(u)' /\ (Past(u)' => Revoked(u)')
  <2>1. TokenPhase(u) /\ (Past(u) => Revoked(u)) /\ recovery[u] \in RecoveryDoc
    BY <1>19, RecoveryIs DEF CredInv, TokensInv
  <2>2. \A o \in Logins : Holding(o, u)' <=> Holding(o, u)
    BY <1>1, <1>8, <1>13 DEF Holding
  <2>3. CASE call.op = "recover" /\ u = call.token
    <3>1. Holding(c, u) /\ login[c].pc = "rotate"
      BY <1>1, <1>2, <2>3 DEF Holding
    <3>2. recovery[u].uses = 0 /\ ~recovery[u].done /\ \A o \in Logins : Holding(o, u) => o = c
      BY <2>1, <3>1 DEF TokenPhase
    <3>3. login'[c].pc = "bump"
      BY <1>8, <1>13
    <3>4. recovery'[u].uses = 1 /\ recovery'[u].done = recovery[u].done
      BY <1>14, <2>3, <3>2
    <3> QED
      BY <2>2, <3>1, <3>2, <3>3, <3>4 DEF TokenPhase, Past
  <2>4. CASE ~(call.op = "recover" /\ u = call.token)
    <3>1. ~Holding(c, u) /\ recovery'[u] = recovery[u]
      BY <1>1, <1>14, <2>4 DEF Holding
    <3>2. \A o \in Logins : Holding(o, u) => login'[o] = login[o]
      BY <1>13, <3>1
    <3>3. TokenPhase(u)'
      BY <2>1, <2>2, <3>1, <3>2 DEF TokenPhase
    <3>4. Past(u)' => Past(u)
      BY <2>2, <3>1, <3>2 DEF Past
    <3>5. j.op # "signIn"
      BY <1>2, <1>8 DEF CallFits
    <3>6. Revoked(u) => Revoked(u)'
      BY <1>10, <1>13, <3>1, <3>5 DEF Revoked, Enough
    <3> QED
      BY <2>1, <3>3, <3>4, <3>6
  <2> QED
    BY <2>3, <2>4
<1>20. ASSUME NEW u \in DOMAIN recovery
       PROVE  recovery'[u].pw <= account'.pw
  <2>1. recovery[u].pw <= account.pw /\ recovery[u].pw \in Nat /\ account.pw \in Nat
    BY <1>2, RecoveryIs DEF CredInv, TokensInv, RecoveryDoc, AccountDoc
  <2> QED
    BY <1>2, <1>4, <1>12, <1>14, <2>1
<1>21. TokensInv'
  BY <1>10, <1>14, <1>19, <1>20 DEF TokensInv
<1> QED
  BY <1>15, <1>16, <1>17, <1>18, <1>21 DEF CredInv

LEMMA CreateTokenKeeps ==
  ASSUME CredInv, NEW c \in Logins, CreateRecoveryToken(c)
  PROVE  CredInv'
<1>1. PICK rest \in LoginCall : rest = AtRest
  BY AtRestIs
<1>2. /\ login' = [login EXCEPT ![c] = rest] /\ rest.op = "none" /\ rest.pc = "idle"
      /\ login[c].op = "request"
  BY <1>1, AtRestIs DEF CreateRecoveryToken, LoginEnds, LoginAt
<1>3. UNCHANGED <<account, minted, temporary, sessions, challenge, wrong, lost, over, torn>>
  BY DEF CreateRecoveryToken
<1>4. PICK r : r = [state |-> "valid", recent |-> TRUE, uses |-> 0, pw |-> 0, done |-> FALSE]
  OBVIOUS
<1>5. r \in RecoveryDoc /\ r.uses = 0 /\ r.pw = 0 /\ r.done = FALSE
  BY <1>4 DEF RecoveryDoc
<1>6. recovery' = Append(recovery, r) /\ recovery \in Seq(RecoveryDoc)
  BY <1>4 DEF CreateRecoveryToken, CredInv, CredType
<1>7. /\ recovery' \in Seq(RecoveryDoc) /\ Len(recovery') = Len(recovery) + 1
      /\ \A u \in 1 .. Len(recovery) : recovery'[u] = recovery[u]
      /\ recovery'[Len(recovery) + 1] = r
  BY <1>5, <1>6, AppendProperties
<1>8. /\ DOMAIN recovery' = 1 .. (Len(recovery) + 1)
      /\ DOMAIN recovery = 1 .. Len(recovery) /\ Len(recovery) \in Nat
  BY <1>6, <1>7, LenProperties
<1>9. PICK n : n = Len(recovery) + 1
  OBVIOUS
<1>10. /\ DOMAIN recovery' = DOMAIN recovery \cup {n} /\ n \notin DOMAIN recovery
       /\ \A u \in DOMAIN recovery : recovery'[u] = recovery[u]
       /\ recovery'[n] = r
  BY <1>7, <1>8, <1>9
<1>11. \A o \in Logins : login'[o] = IF o = c THEN rest ELSE login[o]
  BY <1>2 DEF CredInv, CredType
<1>12. \A o \in Logins : CallFits(login[o])'
  BY <1>2, <1>3, <1>10, <1>11 DEF CredInv, CallFits
<1>13. CredType' /\ CountedInv' /\ TemporaryMustChange'
  BY <1>2, <1>3, <1>7 DEF CredInv, CredType, CountedInv, LockHolds, TemporaryMustChange
<1>14. \A o \in Logins : ~Holding(o, n) /\ ~Holding(o, n)'
  BY <1>2, <1>10, <1>11 DEF Holding, CredInv, CallFits
<1>15. TokenPhase(n)' /\ ~Past(n)'
  BY <1>5, <1>10, <1>14 DEF TokenPhase, Past
<1>16. ASSUME NEW u \in DOMAIN recovery \ torn
       PROVE  TokenPhase(u)' /\ (Past(u)' => Revoked(u)')
  <2>1. TokenPhase(u) /\ (Past(u) => Revoked(u)) /\ recovery'[u] = recovery[u]
    BY <1>10, <1>16 DEF CredInv, TokensInv
  <2>2. \A o \in Logins : Holding(o, u)' <=> Holding(o, u)
    BY <1>2, <1>11 DEF Holding
  <2>3. \A o \in Logins : Holding(o, u) => login'[o] = login[o]
    BY <1>2, <1>11 DEF Holding
  <2>4. TokenPhase(u)'
    BY <2>1, <2>2, <2>3 DEF TokenPhase
  <2>5. Past(u)' => Past(u)
    BY <2>1, <2>2, <2>3 DEF Past
  <2>6. Revoked(u) => Revoked(u)'
    BY <1>2, <1>3, <1>11, <2>1 DEF Revoked, Enough
  <2> QED
    BY <2>1, <2>4, <2>5, <2>6
<1>17. ASSUME NEW u \in DOMAIN recovery'
       PROVE  recovery'[u].pw <= account'.pw
  <2>1. account.pw \in Nat
    BY DEF CredInv, CredType, AccountDoc
  <2> QED
    BY <1>3, <1>5, <1>10, <1>17, <2>1 DEF CredInv, TokensInv
<1>18. TokensInv'
  BY <1>3, <1>10, <1>15, <1>16, <1>17 DEF TokensInv
<1> QED
  BY <1>12, <1>13, <1>18 DEF CredInv

LEMMA MfaWritesKeep ==
  ASSUME CredInv, NEW c \in Logins, StoreSecret(c) \/ StoreEnabled(c)
  PROVE  CredInv'
<1>1. login[c].op # "recover" /\ LoginEnds(c)
  BY CallIs DEF StoreSecret, StoreEnabled, LoginAt, CallFits
<1>2. UNCHANGED <<account, minted, temporary, sessions, recovery, challenge, wrong, lost,
                  over, torn>>
  BY DEF StoreSecret, StoreEnabled
<1> QED
  BY <1>1, <1>2, QuietEndKeeps

(* Time passes.                                                            *)
LEMMA LockEndsKeeps ==
  ASSUME CredInv, LockEnds
  PROVE  CredInv'
<1>1. /\ account' = [account EXCEPT !.lock = "past"] /\ wrong' = 0 /\ lost' = FALSE
      /\ UNCHANGED <<minted, temporary, sessions, recovery, challenge, over, torn, login>>
      /\ account \in AccountDoc
  BY DEF LockEnds, CredInv, CredType
<1>2. /\ account' \in AccountDoc /\ account'.pw = account.pw
      /\ account'.mustChange = account.mustChange /\ account'.failed \in Nat
  BY <1>1 DEF AccountDoc
<1>3. CredType'
  <2>1. wrong' \in Nat /\ lost' \in BOOLEAN /\ account'.pw <= minted'
    BY <1>1, <1>2 DEF CredInv, CredType
  <2> QED
    BY <1>1, <1>2, <2>1 DEF CredInv, CredType
<1>7. TemporaryMustChange'
  BY <1>1, <1>2 DEF CredInv, TemporaryMustChange
<1>4. CountedInv'
  BY <1>1, <1>2, CredentialsAssumption DEF CountedInv, LockHolds
<1>5. \A o \in Logins : CallFits(login[o])'
  BY <1>1, <1>2 DEF CredInv, CallFits
<1>6. TokensInv'
  BY <1>1, <1>2 DEF CredInv, TokensInv, TokenPhase, Past, Revoked, Enough, Holding
<1> QED
  BY <1>3, <1>4, <1>5, <1>6, <1>7 DEF CredInv

LEMMA RecoveryAgesKeeps ==
  ASSUME CredInv, NEW t \in DOMAIN recovery, RecoveryAges(t)
  PROVE  CredInv'
<1>1. PICK r \in RecoveryDoc : r = recovery[t]
  BY RecoveryIs
<1>2. PICK m : m = IF r.recent THEN [r EXCEPT !.recent = FALSE]
                   ELSE [r EXCEPT !.state = "expired"]
  OBVIOUS
<1>3. /\ r.recent = TRUE \/ r.state = "valid"
      /\ m \in RecoveryDoc /\ m.uses = r.uses /\ m.pw = r.pw /\ m.done = r.done
      /\ r.state # "valid" => m.state = r.state
  <2>1. r.recent = TRUE \/ r.state = "valid"
    BY <1>1 DEF RecoveryAges, RecoveryDoc
  <2>2. CASE r.recent = TRUE
    <3>1. m = [r EXCEPT !.recent = FALSE]
      BY <1>2, <2>2
    <3> QED
      BY <2>2, <3>1 DEF RecoveryDoc
  <2>3. CASE r.recent = FALSE
    <3>1. m = [r EXCEPT !.state = "expired"] /\ r.state = "valid"
      BY <1>2, <2>1, <2>3
    <3> QED
      BY <3>1 DEF RecoveryDoc
  <2> QED
    BY <2>2, <2>3 DEF RecoveryDoc
<1>4. /\ recovery' = [recovery EXCEPT ![t] = m]
      /\ UNCHANGED <<account, minted, temporary, sessions, challenge, wrong, lost, over, torn,
                     login>>
  BY <1>1, <1>2 DEF RecoveryAges
<1>5. /\ recovery' \in Seq(RecoveryDoc) /\ DOMAIN recovery' = DOMAIN recovery
      /\ \A u \in DOMAIN recovery : recovery'[u] = IF u = t THEN m ELSE recovery[u]
  BY <1>3, <1>4, RecoverySet
<1>6. \A u \in DOMAIN recovery :
        /\ recovery'[u].uses = recovery[u].uses /\ recovery'[u].pw = recovery[u].pw
        /\ recovery'[u].done = recovery[u].done
        /\ recovery[u].state = "used" => recovery'[u].state = "used"
  BY <1>1, <1>3, <1>5
<1>7. CredType' /\ CountedInv' /\ TemporaryMustChange'
  BY <1>4, <1>5 DEF CredInv, CredType, CountedInv, LockHolds, TemporaryMustChange
<1>8. \A o \in Logins : CallFits(login[o])'
  BY <1>4, <1>5 DEF CredInv, CallFits
<1>9. ASSUME NEW u \in DOMAIN recovery \ torn
      PROVE  TokenPhase(u)' /\ (Past(u)' => Revoked(u)')
  <2>1. TokenPhase(u) /\ (Past(u) => Revoked(u))
    BY <1>9 DEF CredInv, TokensInv
  <2>2. TokenPhase(u)'
    BY <1>4, <1>6, <2>1 DEF TokenPhase, Holding
  <2>3. Past(u)' => Past(u)
    BY <1>4, <1>6 DEF Past, Holding
  <2>4. Revoked(u) => Revoked(u)'
    BY <1>4, <1>6 DEF Revoked, Enough
  <2> QED
    BY <2>1, <2>2, <2>3, <2>4
<1>10. TokensInv'
  BY <1>4, <1>5, <1>6, <1>9 DEF CredInv, TokensInv
<1> QED
  BY <1>7, <1>8, <1>10 DEF CredInv

LEMMA ChallengeExpiresKeeps ==
  ASSUME CredInv, ChallengeExpires
  PROVE  CredInv'
<1>1. /\ challenge' = NoChallenge
      /\ UNCHANGED <<account, minted, temporary, sessions, recovery, wrong, lost, over, torn,
                     login>>
  BY DEF ChallengeExpires
<1>2. NoChallenge \in ChallengeDoc /\ NoChallenge.open = FALSE
  BY DEF NoChallenge, ChallengeDoc
<1>3. CredType' /\ CountedInv' /\ TemporaryMustChange'
  BY <1>1, <1>2 DEF CredInv, CredType, CountedInv, LockHolds, TemporaryMustChange
<1>4. \A o \in Logins : CallFits(login[o])'
  BY <1>1 DEF CredInv, CallFits
<1>5. \A u : Revoked(u) => Revoked(u)'
  BY <1>1, <1>2 DEF Revoked, Enough
<1>6. TokensInv'
  BY <1>1, <1>5 DEF CredInv, TokensInv, TokenPhase, Past, Holding
<1> QED
  BY <1>3, <1>4, <1>6 DEF CredInv

LEMMA CredUnchanged ==
  ASSUME CredInv, UNCHANGED credentialVars
  PROVE  CredInv'
<1>1. UNCHANGED <<account, minted, temporary, sessions, recovery, challenge, wrong, lost,
                  over, torn, login>>
  BY DEF credentialVars
<1>2. CredType' /\ CountedInv' /\ TemporaryMustChange'
  BY <1>1 DEF CredInv, CredType, CountedInv, LockHolds, TemporaryMustChange
<1>3. \A o \in Logins : CallFits(login[o])'
  BY <1>1 DEF CredInv, CallFits
<1>4. TokensInv'
  BY <1>1 DEF CredInv, TokensInv, TokenPhase, Past, Holding, Revoked, Enough
<1> QED
  BY <1>2, <1>3, <1>4 DEF CredInv

LEMMA CredNext ==
  ASSUME CredInv, [CredentialsNext]_credentialVars
  PROVE  CredInv'
<1>1. ASSUME NEW c \in Logins,
             \/ \E right \in BOOLEAN : SignInCall(c, right)
             \/ ChangePassword(c) \/ ResetPassword(c) \/ SignOutAll(c) \/ RequestRecovery(c)
             \/ Enroll(c) \/ ConfirmEnrollment(c) \/ DisableMfa(c)
      PROVE  CredInv'
  BY <1>1, StartActionsKeep
<1>2. ASSUME NEW c \in Logins, NEW t \in DOMAIN recovery, Recover(c, t)
      PROVE  CredInv'
  BY <1>2, RecoverKeeps
<1>3. ASSUME NEW c \in Logins, NEW s \in DOMAIN sessions, RefreshCall(c, s)
      PROVE  CredInv'
  BY <1>3, RefreshCallKeeps
<1>4. ASSUME NEW c \in Logins,
             WrongPassword(c) \/ RightPassword(c) \/ ShouldRequireMfa(c) \/ OpenSession(c)
               \/ VerifyMfa(c) \/ IssueNext(c)
      PROVE  CredInv'
  BY <1>4, WrongPasswordKeeps, RightPasswordKeeps, ShouldRequireMfaKeeps, OpenSessionKeeps,
     VerifyMfaKeeps, IssueNextKeeps
<1>5. ASSUME NEW c \in Logins, ListSessions(c) \/ RevokeTokens(c)
      PROVE  CredInv'
  <2>1. login[c].op # "signIn"
    BY <1>5, CallIs DEF ListSessions, RevokeTokens, CallFits
  <2> QED
    BY <1>5, <2>1, ListSessionsKeeps, RevokeTokensKeeps
<1>6. ASSUME NEW c \in Logins,
             RotatePassword(c) \/ BumpTokenVersion(c) \/ RevokeSessions(c)
               \/ MarkRecovered(c) \/ CreateRecoveryToken(c)
      PROVE  CredInv'
  BY <1>6, RotateKeeps, BumpKeeps, RevokeSessionsKeeps, MarkKeeps, CreateTokenKeeps
<1>7. ASSUME NEW c \in Logins, StoreSecret(c) \/ StoreEnabled(c) \/ LoginCut(c)
      PROVE  CredInv'
  BY <1>7, MfaWritesKeep, CutKeeps
<1>8. ASSUME NEW t \in DOMAIN recovery, RecoveryAges(t)
      PROVE  CredInv'
  BY <1>8, RecoveryAgesKeeps
<1> QED
  BY <1>1, <1>2, <1>3, <1>4, <1>5, <1>6, <1>7, <1>8, LockEndsKeeps, ChallengeExpiresKeeps,
     CredUnchanged DEF CredentialsNext

LEMMA CredInit == ASSUME CredentialsInit PROVE CredInv
<1>1. /\ account = [NoDoc EXCEPT !.mustChange = TRUE] /\ minted = 0 /\ temporary = {0}
      /\ sessions = <<>> /\ recovery = <<>> /\ challenge = NoChallenge
      /\ wrong = 0 /\ lost = FALSE /\ over = FALSE
      /\ login = [c \in Logins |-> AtRest]
  BY DEF CredentialsInit
<1>2. /\ account \in AccountDoc /\ account.pw = 0 /\ account.mustChange = TRUE
      /\ account.failed = 0
  <2>1. account = [pw |-> 0, mustChange |-> TRUE, ver |-> 0, failed |-> 0, lock |-> "none"]
    BY <1>1 DEF NoDoc
  <2> QED
    BY <2>1 DEF AccountDoc
<1>3. NoChallenge \in ChallengeDoc
  BY DEF NoChallenge, ChallengeDoc
<1>4. DOMAIN recovery = {}
  BY <1>1
<1>5. \A c \in Logins : login[c] \in LoginCall /\ CallFits(login[c])
  BY <1>1, AtRestIs DEF CallFits
<1>6. CredType
  <2>1. login \in [Logins -> LoginCall]
    BY <1>1, AtRestIs
  <2>2. temporary \subseteq 0 .. minted
    BY <1>1
  <2>3. sessions \in Seq(Session) /\ recovery \in Seq(RecoveryDoc)
    BY <1>1
  <2>4. /\ minted \in Nat /\ wrong \in Nat /\ lost \in BOOLEAN /\ over \in BOOLEAN
        /\ challenge \in ChallengeDoc
    BY <1>1, <1>3
  <2>5. account.pw <= minted
    BY <1>1, <1>2
  <2> QED
    BY <1>2, <2>1, <2>2, <2>3, <2>4, <2>5 DEF CredType
<1>7. CountedInv /\ TemporaryMustChange
  BY <1>1, <1>2, CredentialsAssumption DEF CountedInv, LockHolds, TemporaryMustChange
<1>8. TokensInv
  BY <1>4 DEF TokensInv
<1> QED
  BY <1>5, <1>6, <1>7, <1>8 DEF CredInv

(* The count of wrong passwords, the claim of a loaded document on         *)
(* mustChange and the phases of a recovery token hold in every state       *)
(* (user.repository.js, password.service.js, recovery.service.js).         *)
THEOREM CredentialsInvariant == CredentialsSpec => []CredInv
<1>1. CredentialsInit => CredInv
  BY CredInit
<1>2. CredInv /\ [CredentialsNext]_credentialVars => CredInv'
  BY CredNext
<1> QED
  BY <1>1, <1>2, PTL DEF CredentialsSpec

(* Enough wrong passwords lock the account, whatever else is saved in the  *)
(* meantime, unless a stale count was saved (recordFailedLogin).           *)
THEOREM WrongPasswordsLock == CredentialsSpec => []LockHolds
<1>1. CredInv => LockHolds
  BY DEF CredInv, CountedInv
<1> QED
  BY <1>1, CredentialsInvariant, PTL

(* A password an administrator set must be changed, unless it was saved    *)
(* over one set since the document was loaded (rotatePassword).            *)
THEOREM TemporaryIsTemporary == CredentialsSpec => []TemporaryMustChange
<1>1. CredInv => TemporaryMustChange
  BY DEF CredInv
<1> QED
  BY <1>1, CredentialsInvariant, PTL

(* A recovery token nobody else held changes the password once, and a      *)
(* finished recovery leaves no session of an earlier password but those it *)
(* found under way (RecoveryService.resetPassword, revokeAllForUser).      *)
THEOREM RecoveriesHold == CredentialsSpec => []RecoveryHolds
<1>1. CredInv => RecoveryHolds
  <2> SUFFICES ASSUME CredInv, NEW t \in DOMAIN recovery \ torn
               PROVE  /\ recovery[t].uses <= 1
                      /\ recovery[t].done => \A s \in DOMAIN sessions :
                           sessions[s].live =>
                             sessions[s].pw >= recovery[t].pw \/ sessions[s].late
    BY DEF RecoveryHolds
  <2>1. TokenPhase(t) /\ (Past(t) => Revoked(t)) /\ recovery[t] \in RecoveryDoc
    BY RecoveryIs DEF CredInv, TokensInv
  <2>2. recovery[t].uses \in {0, 1}
    BY <2>1 DEF TokenPhase, RecoveryDoc
  <2> QED
    BY <2>1, <2>2 DEF Past, Revoked, Enough
<1> QED
  BY <1>1, CredentialsInvariant, PTL

----------------------------------------------------------------------------
(* The types of the state.  A call that is yet to count a wrong password,  *)
(* to mint a password or to bump a version has been counted by logins, so  *)
(* none of these grows past it.                                            *)
Spending(L, P) == {c \in Logins : L[c].pc \in P}

Affordable(L, P, n, k) ==
  IsFiniteSet(Spending(L, P)) /\ n + Cardinality(Spending(L, P)) <= k

Versions(a, L, A, v) ==
  a.ver <= v /\ (\A c \in Logins : L[c].doc.ver <= v) /\ \A t \in A : t.ver <= v

CallTyped(j, S, m) ==
  /\ j.op \in {"recover", "refresh"} <=> j.token # 0
  /\ j.op = "refresh" => j.token \in S
  /\ j.doc.pw <= m /\ j.listed \subseteq S

OwnTyped ==
  /\ \A s \in DOMAIN sessions : sessions[s].pw <= minted
  /\ access \subseteq [session : DOMAIN sessions, ver : Nat]
  /\ mfa \in [secret : Nat, enabled : BOOLEAN] /\ device = mfa.secret
  /\ challenge.pw <= minted /\ torn \subseteq DOMAIN recovery

CredTyped ==
  /\ logins \in 0 .. MaxLogins /\ OwnTyped
  /\ \A c \in Logins : CallTyped(login[c], DOMAIN sessions, minted)
  /\ Affordable(login, {"wrong"}, wrong, logins)
  /\ Affordable(login, {"rotate"}, minted, logins)
  /\ \E v \in Nat : /\ Affordable(login, {"rotate", "bump"}, v, logins)
                    /\ Versions(account, login, access, v)

(* One call goes from i to j, while a count rises by n and the calls made  *)
(* go from k to l: the call has paid for it.                               *)
Due(i, P) == IF i.pc \in P THEN 1 ELSE 0
Pays(i, j, P, n, k, l) == n + Due(j, P) + k <= l + Due(i, P)

OnlyMoves(L, M, c) == c \in Logins /\ \A o \in Logins : o # c => M[o].pc = L[o].pc

LEMMA StaysAffordable ==
  ASSUME NEW L, NEW M, NEW c, OnlyMoves(L, M, c),
         NEW P, NEW n \in Nat, NEW k \in Nat, Affordable(L, P, n, k),
         NEW up \in {0, 1}, NEW m \in Nat, m <= n + up, NEW l \in Nat,
         Pays(L[c], M[c], P, up, k, l)
  PROVE  Affordable(M, P, m, l)
<1>1. PICK S, T : S = Spending(L, P) /\ T = Spending(M, P)
  OBVIOUS
<1>2. IsFiniteSet(S) /\ Cardinality(S) \in Nat /\ n + Cardinality(S) <= k
  BY <1>1, FS_CardinalityType DEF Affordable
<1>3. /\ c \in S <=> L[c].pc \in P
      /\ T = IF M[c].pc \in P THEN S \cup {c} ELSE S \ {c}
  BY <1>1 DEF Spending, OnlyMoves
<1>4. IsFiniteSet(T) /\ Cardinality(T) + Due(L[c], P) = Cardinality(S) + Due(M[c], P)
  <2>1. CASE L[c].pc \in P /\ M[c].pc \in P
    BY <1>2, <1>3, <2>1 DEF Due
  <2>2. CASE L[c].pc \notin P /\ M[c].pc \notin P
    <3>1. T = S
      BY <1>3, <2>2
    <3> QED
      BY <1>2, <2>2, <3>1 DEF Due
  <2>3. CASE L[c].pc \notin P /\ M[c].pc \in P
    <3>1. T = S \cup {c} /\ c \notin S
      BY <1>3, <2>3
    <3>2. IsFiniteSet(T) /\ Cardinality(T) = Cardinality(S) + 1
      BY <1>2, <3>1, FS_AddElement
    <3> QED
      BY <1>2, <2>3, <3>2 DEF Due
  <2>4. CASE L[c].pc \in P /\ M[c].pc \notin P
    <3>1. T = S \ {c} /\ c \in S
      BY <1>3, <2>4
    <3>2. IsFiniteSet(T) /\ Cardinality(T) = Cardinality(S) - 1
      BY <1>2, <3>1, FS_RemoveElement
    <3> QED
      BY <1>2, <2>4, <3>2 DEF Due
  <2> QED
    BY <2>1, <2>2, <2>3, <2>4
<1>5. Cardinality(T) \in Nat
  BY <1>4, FS_CardinalityType
<1>6. m + Cardinality(T) <= l
  BY <1>2, <1>4, <1>5 DEF Pays, Due
<1> QED
  BY <1>1, <1>4, <1>6 DEF Affordable

Same(i, j) ==
  j.pc = i.pc /\ j.op = i.op /\ j.token = i.token /\ j.doc = i.doc /\ j.listed = i.listed

LEMMA DocNumbers ==
  ASSUME CredInv, NEW c \in Logins
  PROVE  login[c].doc.pw \in Nat /\ login[c].doc.ver \in Nat
<1>1. login[c] \in LoginCall
  BY DEF CredInv, CredType
<1>2. login[c].doc \in AccountDoc
  BY <1>1 DEF LoginCall
<1> QED
  BY <1>2 DEF AccountDoc

(* One call moves; w, m and b say what it has counted, minted and bumped.  *)
LEMMA TypedKeep ==
  ASSUME CredInv, CredTyped, NEW c \in Logins, NEW j, login'[c] = j,
         NEW w \in {0, 1}, NEW m \in {0, 1}, NEW b \in {0, 1}, NEW k \in Nat, k = logins',
         logins <= k, k <= MaxLogins,
         \A o \in Logins : o # c => Same(login[o], login'[o]),
         wrong' \in Nat, wrong' <= wrong + w, Pays(login[c], j, {"wrong"}, w, logins, k),
         minted' = minted + m, Pays(login[c], j, {"rotate"}, m, logins, k),
         Pays(login[c], j, {"rotate", "bump"}, b, logins, k),
         \A v \in Nat : Versions(account, login, access, v) =>
           /\ account'.ver <= v + b /\ j.doc.ver <= v + b /\ \A t \in access' : t.ver <= v + b,
         DOMAIN sessions \subseteq DOMAIN sessions', OwnTyped',
         CallTyped(j, DOMAIN sessions', minted')
  PROVE  CredTyped'
<1>1. PICK l \in Nat : l = logins /\ wrong \in Nat /\ minted \in Nat
  BY CredentialsAssumption DEF CredTyped, CredInv, CredType
<1>2. \A o \in Logins : o # c => login'[o].pc = login[o].pc /\ login'[o].doc = login[o].doc
  BY DEF Same
<1>3. PICK L, M : L = login /\ M = login'
  OBVIOUS
<1>4. OnlyMoves(L, M, c)
  BY <1>2, <1>3 DEF OnlyMoves
<1>5. PICK n \in Nat, r \in Nat : n = wrong' /\ r = minted'
  BY <1>1
<1>6. Affordable(M, {"wrong"}, n, k)
  <2>1. Affordable(L, {"wrong"}, wrong, l)
    BY <1>1, <1>3 DEF CredTyped
  <2>2. Pays(L[c], M[c], {"wrong"}, w, l, k)
    BY <1>1, <1>3
  <2>3. n <= wrong + w
    BY <1>5
  <2> QED
    BY <1>1, <1>4, <2>1, <2>2, <2>3, StaysAffordable
<1>7. Affordable(M, {"rotate"}, r, k)
  <2>1. Affordable(L, {"rotate"}, minted, l)
    BY <1>1, <1>3 DEF CredTyped
  <2>2. Pays(L[c], M[c], {"rotate"}, m, l, k)
    BY <1>1, <1>3
  <2>3. r <= minted + m
    BY <1>1, <1>5
  <2> QED
    BY <1>1, <1>4, <2>1, <2>2, <2>3, StaysAffordable
<1>8. PICK v \in Nat : Affordable(L, {"rotate", "bump"}, v, l) /\ Versions(account, login, access, v)
  BY <1>1, <1>3 DEF CredTyped
<1>9. PICK u \in Nat : u = v + b
  OBVIOUS
<1>10. Affordable(M, {"rotate", "bump"}, u, k)
  <2>1. PICK P : P = {"rotate", "bump"}
    OBVIOUS
  <2>2. Pays(L[c], M[c], P, b, l, k)
    BY <1>1, <1>3, <2>1
  <2>3. u <= v + b
    BY <1>9
  <2>4. Affordable(L, P, v, l)
    BY <1>8, <2>1
  <2>5. Affordable(M, P, u, k)
    BY <1>4, <2>2, <2>3, <2>4, StaysAffordable
  <2> QED
    BY <2>1, <2>5
<1>11. Versions(account', login', access', u)
  <2>1. ASSUME NEW o \in Logins, o # c  PROVE  login'[o].doc.ver <= u
    BY <1>2, <1>8, <1>9, <2>1, DocNumbers DEF Versions
  <2>2. account'.ver <= u /\ login'[c].doc.ver <= u /\ \A t \in access' : t.ver <= u
    BY <1>8, <1>9
  <2> QED
    BY <2>1, <2>2 DEF Versions
<1>12. \A o \in Logins : CallTyped(login'[o], DOMAIN sessions', minted')
  <2> SUFFICES ASSUME NEW o \in Logins, o # c
               PROVE  CallTyped(login'[o], DOMAIN sessions', minted')
    OBVIOUS
  <2>1. PICK x, y : x = login[o] /\ y = login'[o]
    OBVIOUS
  <2>2. CallTyped(x, DOMAIN sessions, minted) /\ Same(x, y) /\ x.doc.pw \in Nat
    BY <2>1, DocNumbers DEF CredTyped
  <2>3. CallTyped(y, DOMAIN sessions', minted')
    BY <1>1, <2>2 DEF CallTyped, Same
  <2> QED
    BY <2>1, <2>3
<1>13. k \in 0 .. MaxLogins
  BY <1>1, CredentialsAssumption
<1> QED
  BY <1>3, <1>5, <1>6, <1>7, <1>9, <1>10, <1>11, <1>12, <1>13 DEF CredTyped

LEMMA MovesOnly ==
  ASSUME CredInv, NEW c \in Logins, NEW j, login' = [login EXCEPT ![c] = j]
  PROVE  login'[c] = j /\ \A o \in Logins : o # c => Same(login[o], login'[o])
BY DEF CredInv, CredType, Same

(* A call that counts, mints and bumps nothing.                            *)
Quiet(i, j) ==
  /\ \/ logins' = logins + 1 /\ logins < MaxLogins
     \/ logins' = logins /\ j.pc \notin {"wrong", "rotate", "bump"}
  /\ wrong' \in {0, wrong} /\ minted' = minted /\ account'.ver = account.ver
  /\ j.doc.ver \in {0, account.ver, i.doc.ver}
  /\ \A t \in access' : t \in access \/ t.ver \in {account.ver, i.doc.ver}
  /\ DOMAIN sessions \subseteq DOMAIN sessions'

LEMMA TypedQuiet ==
  ASSUME CredInv, CredTyped, NEW c \in Logins, NEW j, login'[c] = j,
         \A o \in Logins : o # c => Same(login[o], login'[o]),
         Quiet(login[c], j), OwnTyped', CallTyped(j, DOMAIN sessions', minted')
  PROVE  CredTyped'
<1>0. PICK i : i = login[c]
  OBVIOUS
<1>1. PICK l \in Nat : l = logins /\ l <= MaxLogins /\ wrong \in Nat /\ minted \in Nat
  BY CredentialsAssumption DEF CredTyped, CredInv, CredType
<1>2. Quiet(i, j)
  BY <1>0
<1>3. PICK k \in Nat : k = logins' /\ l <= k /\ k <= MaxLogins
  BY <1>1, <1>2, CredentialsAssumption DEF Quiet
<1>4. ASSUME NEW P \in {{"wrong"}, {"rotate"}, {"rotate", "bump"}}  PROVE  Pays(i, j, P, 0, l, k)
  <2>1. CASE k = l + 1
    BY <2>1 DEF Pays, Due
  <2>2. CASE k = l /\ j.pc \notin P
    BY <2>2 DEF Pays, Due
  <2> QED
    BY <1>1, <1>2, <1>3, <1>4, <2>1, <2>2 DEF Quiet
<1>5. Pays(i, j, {"wrong"}, 0, l, k) /\ Pays(i, j, {"rotate"}, 0, l, k) /\ Pays(i, j, {"rotate", "bump"}, 0, l, k)
  BY <1>4
<1>6. wrong' \in Nat /\ wrong' <= wrong + 0 /\ minted' = minted + 0
  BY <1>1, <1>2 DEF Quiet
<1>7. ASSUME NEW v \in Nat, Versions(account, login, access, v)
      PROVE  account'.ver <= v + 0 /\ j.doc.ver <= v + 0 /\ \A t \in access' : t.ver <= v + 0
  <2>1. v + 0 = v /\ account.ver <= v /\ i.doc.ver <= v /\ \A t \in access : t.ver <= v
    BY <1>0, <1>7 DEF Versions
  <2>2. j.doc.ver <= v
    BY <1>2, <2>1 DEF Quiet
  <2>3. \A t \in access' : t.ver <= v
    BY <1>2, <2>1 DEF Quiet
  <2> QED
    BY <1>2, <2>1, <2>2, <2>3 DEF Quiet
<1>8. DOMAIN sessions \subseteq DOMAIN sessions'
  BY <1>2 DEF Quiet
<1> QED
  BY <1>0, <1>1, <1>3, <1>5, <1>6, <1>7, <1>8, TypedKeep

LEMMA AtRestTyped ==
  ASSUME NEW S, NEW m \in Nat
  PROVE  /\ CallTyped(AtRest, S, m)
         /\ AtRest.doc.ver = 0 /\ AtRest.doc.pw = 0 /\ AtRest.pc = "idle"
         /\ AtRest.listed = {} /\ AtRest.token = 0
<1>1. /\ AtRest.doc.ver = 0 /\ AtRest.doc.pw = 0 /\ AtRest.pc = "idle"
      /\ AtRest.listed = {} /\ AtRest.token = 0 /\ AtRest.op = "none"
  BY DEF AtRest, NoDoc
<1> QED
  BY <1>1 DEF CallTyped

LEMMA EndTyped ==
  ASSUME CredInv, CredTyped, NEW c \in Logins, LoginEnds(c), Quiet(login[c], AtRest), OwnTyped'
  PROVE  CredTyped'
<1>1. PICK j : j = AtRest
  OBVIOUS
<1>2. login' = [login EXCEPT ![c] = j] /\ Quiet(login[c], j)
  BY <1>1 DEF LoginEnds
<1>3. minted' \in Nat
  BY <1>2 DEF Quiet, CredInv, CredType
<1>4. CallTyped(j, DOMAIN sessions', minted')
  BY <1>1, <1>3, AtRestTyped
<1>5. login'[c] = j /\ \A o \in Logins : o # c => Same(login[o], login'[o])
  BY <1>2, MovesOnly
<1> QED
  BY <1>2, <1>4, <1>5, TypedQuiet

LEMMA OwnStays ==
  ASSUME CredTyped, UNCHANGED <<sessions, access, mfa, device, recovery, minted>>,
         challenge'.pw <= minted, torn' \subseteq DOMAIN recovery'
  PROVE  OwnTyped'
BY DEF CredTyped, OwnTyped

LEMMA OwnSame ==
  ASSUME CredTyped, UNCHANGED <<sessions, access, mfa, device, recovery, minted, challenge, torn>>
  PROVE  OwnTyped'
BY DEF CredTyped, OwnTyped

LEMMA FreshIs ==
  ASSUME CredInv, NEW op, NEW pc, NEW S
  PROVE  /\ FreshCall(op, pc).op = op /\ FreshCall(op, pc).pc = pc
         /\ FreshCall(op, pc).doc = account /\ FreshCall(op, pc).token = 0
         /\ FreshCall(op, pc).listed = {}
BY DEF FreshCall, AtRest

LEMMA StartTyped ==
  ASSUME CredInv, CredTyped, NEW c \in Logins, NEW op, op \notin {"recover", "refresh"},
         NEW pc, LoginStarts(c, op, pc),
         UNCHANGED <<account, minted, sessions, access, recovery, mfa, device, challenge, wrong, torn>>
  PROVE  CredTyped'
<1>1. PICK j : j = FreshCall(op, pc)
  OBVIOUS
<1>2. /\ login' = [login EXCEPT ![c] = j] /\ j.op = op /\ j.pc = pc /\ j.doc = account
      /\ j.token = 0 /\ j.listed = {}
  BY <1>1, FreshIs DEF LoginStarts, FreshCall
<1>3. login'[c] = j /\ \A o \in Logins : o # c => Same(login[o], login'[o])
  BY <1>2, MovesOnly
<1>4. CallTyped(j, DOMAIN sessions', minted')
  BY <1>2 DEF CallTyped, CredInv, CredType
<1>5. Quiet(login[c], j)
  BY <1>2 DEF Quiet, LoginStarts
<1> QED
  BY <1>3, <1>4, <1>5, OwnSame, TypedQuiet

LEMMA StartsTyped ==
  ASSUME CredInv, CredTyped, NEW c \in Logins,
         \/ \E right \in BOOLEAN : SignInCall(c, right)
         \/ ChangePassword(c) \/ ResetPassword(c) \/ SignOutAll(c) \/ RequestRecovery(c)
         \/ Enroll(c) \/ ConfirmEnrollment(c) \/ DisableMfa(c)
  PROVE  CredTyped'
<1>1. \E op, pc : LoginStarts(c, op, pc) /\ op \notin {"recover", "refresh"}
  BY DEF SignInCall, ChangePassword, ResetPassword, SignOutAll, RequestRecovery, Enroll,
         ConfirmEnrollment, DisableMfa
<1>2. UNCHANGED <<account, minted, sessions, access, recovery, mfa, device, challenge, wrong, torn>>
  BY DEF SignInCall, ChangePassword, ResetPassword, SignOutAll, RequestRecovery, Enroll,
         ConfirmEnrollment, DisableMfa
<1> QED
  BY <1>1, <1>2, StartTyped

LEMMA OwnLess ==
  ASSUME CredTyped, SessionsLess, DOMAIN sessions' = DOMAIN sessions,
         \A t \in access' : t \in access \/ t \in [session : DOMAIN sessions, ver : Nat],
         UNCHANGED <<mfa, device, recovery, minted>>,
         challenge'.pw <= minted, torn' = torn
  PROVE  OwnTyped'
<1>1. \A s \in DOMAIN sessions' : sessions'[s].pw <= minted'
  BY DEF CredTyped, OwnTyped, SessionsLess
<1> QED
  BY <1>1 DEF CredTyped, OwnTyped

(* A call goes a step on, or ends.                                         *)
LEMMA StepTyped ==
  ASSUME CredInv, CredTyped, NEW c \in Logins, NEW j, login' = [login EXCEPT ![c] = j],
         j.op = login[c].op, j.token = login[c].token, j.doc = login[c].doc,
         j.listed \subseteq DOMAIN sessions, Quiet(login[c], j), OwnTyped'
  PROVE  CredTyped'
<1>1. PICK i : i = login[c]
  OBVIOUS
<1>2. CallTyped(i, DOMAIN sessions, minted) /\ Quiet(i, j)
  BY <1>1 DEF CredTyped
<1>3. CallTyped(j, DOMAIN sessions', minted')
  BY <1>1, <1>2 DEF CallTyped, Quiet
<1>4. login'[c] = j /\ \A o \in Logins : o # c => Same(login[o], login'[o])
  BY MovesOnly
<1> QED
  BY <1>3, <1>4, TypedQuiet

LEMMA WrongTyped ==
  ASSUME CredInv, CredTyped, NEW c \in Logins, WrongPassword(c)
  PROVE  CredTyped'
<1>1. PICK l \in Nat, m \in Nat : l = logins /\ m = minted /\ l <= MaxLogins /\ wrong \in Nat
  BY CredentialsAssumption DEF CredTyped, CredInv, CredType
<1>2. PICK j : j = AtRest
  OBVIOUS
<1>3. /\ login' = [login EXCEPT ![c] = j] /\ login[c].pc = "wrong" /\ wrong' = wrong + 1
      /\ logins' = logins
  BY <1>2 DEF WrongPassword, LoginEnds, LoginAt
<1>4. UNCHANGED <<sessions, access, mfa, device, recovery, minted, challenge, torn>>
  BY DEF WrongPassword
<1>5. account'.ver = account.ver
  <2>1. PICK doc \in AccountDoc : doc = login[c].doc
    BY CallIs
  <2>2. PICK new : new = [doc EXCEPT !.failed = doc.failed + 1,
                            !.lock = IF LockAt(doc.failed + 1) THEN "future" ELSE @]
    OBVIOUS
  <2>3. PICK lock \in {"none", "future", "past"} :
          lock = IF LockAt(doc.failed + 1) THEN "future" ELSE doc.lock
    BY DEF AccountDoc
  <2>4. PICK failed \in Nat : failed = doc.failed + 1
    BY DEF AccountDoc
  <2>5. new = [doc EXCEPT !.failed = failed, !.lock = lock]
    BY <2>2, <2>3, <2>4
  <2>6. new \in AccountDoc /\ new.ver = doc.ver
    BY <2>5 DEF AccountDoc
  <2>7. SaveAccount(c, new)
    BY <2>1, <2>2 DEF WrongPassword
  <2> QED
    BY <2>1, <2>6, <2>7, SaveIs DEF CredInv, CredType
<1>6. CallTyped(j, DOMAIN sessions', minted') /\ j.pc = "idle" /\ j.doc.ver = 0
  BY <1>1, <1>2, <1>4, AtRestTyped
<1>7. PICK i : i = login[c]
  OBVIOUS
<1>8. /\ Pays(i, j, {"wrong"}, 1, l, l) /\ Pays(i, j, {"rotate"}, 0, l, l)
      /\ Pays(i, j, {"rotate", "bump"}, 0, l, l)
  BY <1>3, <1>6, <1>7 DEF Pays, Due
<1>9. \A v \in Nat : Versions(account, login, access, v) =>
        account'.ver <= v + 0 /\ j.doc.ver <= v + 0 /\ \A t \in access' : t.ver <= v + 0
  BY <1>4, <1>5, <1>6 DEF Versions
<1>10. wrong' \in Nat /\ wrong' <= wrong + 1 /\ minted' = minted + 0
  BY <1>1, <1>3, <1>4
<1>11. login'[c] = j /\ \A o \in Logins : o # c => Same(login[o], login'[o])
  BY <1>3, MovesOnly
<1> QED
  BY <1>1, <1>3, <1>4, <1>6, <1>7, <1>8, <1>9, <1>10, <1>11, OwnSame, TypedKeep

LEMMA RightTyped ==
  ASSUME CredInv, CredTyped, NEW c \in Logins, RightPassword(c)
  PROVE  CredTyped'
<1>1. PICK j : j = [login[c] EXCEPT !.pc = "mfa"]
  OBVIOUS
<1>2. /\ login' = [login EXCEPT ![c] = j] /\ wrong' = 0 /\ logins' = logins
      /\ UNCHANGED <<sessions, access, mfa, device, recovery, minted, challenge, torn>>
  BY <1>1 DEF RightPassword, LoginTo
<1>3. /\ j.pc = "mfa" /\ j.op = login[c].op /\ j.token = login[c].token
      /\ j.doc = login[c].doc /\ j.listed = login[c].listed
  BY <1>1, CallIs DEF LoginCall
<1>4. account'.ver = account.ver
  <2>1. PICK doc \in AccountDoc : doc = login[c].doc
    BY CallIs
  <2>2. PICK new : new = [doc EXCEPT !.failed = 0, !.lock = "none"]
    OBVIOUS
  <2>3. new \in AccountDoc /\ new.ver = doc.ver
    BY <2>2 DEF AccountDoc
  <2>4. SaveAccount(c, new)
    BY <2>1, <2>2 DEF RightPassword
  <2> QED
    BY <2>1, <2>3, <2>4, SaveIs DEF CredInv, CredType
<1>5. Quiet(login[c], j)
  BY <1>2, <1>3, <1>4 DEF Quiet
<1>6. j.listed \subseteq DOMAIN sessions
  BY <1>3 DEF CredTyped, CallTyped
<1> QED
  BY <1>2, <1>3, <1>5, <1>6, OwnSame, StepTyped

LEMMA MfaStepTyped ==
  ASSUME CredInv, CredTyped, NEW c \in Logins, ShouldRequireMfa(c)
  PROVE  CredTyped'
<1>1. /\ UNCHANGED <<account, sessions, access, mfa, device, recovery, minted, torn, wrong, logins>>
      /\ minted \in Nat
  BY DEF ShouldRequireMfa, CredInv, CredType
<1>2. CASE LoginEnds(c) /\ challenge'.pw = login[c].doc.pw
  <2>1. challenge'.pw <= minted
    BY <1>2 DEF CredTyped, CallTyped
  <2>2. Quiet(login[c], AtRest)
    BY <1>1, AtRestTyped DEF Quiet
  <2> QED
    BY <1>1, <1>2, <2>1, <2>2, OwnStays, EndTyped DEF CredTyped, OwnTyped
<1>3. CASE LoginTo(c, "open") /\ UNCHANGED challenge
  <2>1. PICK j : j = [login[c] EXCEPT !.pc = "open"]
    OBVIOUS
  <2>2. /\ j.pc = "open" /\ j.op = login[c].op /\ j.token = login[c].token
        /\ j.doc = login[c].doc /\ j.listed = login[c].listed
    BY <2>1, CallIs DEF LoginCall
  <2>3. login' = [login EXCEPT ![c] = j]
    BY <1>3, <2>1 DEF LoginTo
  <2>4. Quiet(login[c], j)
    BY <1>1, <2>2 DEF Quiet
  <2>5. j.listed \subseteq DOMAIN sessions
    BY <2>2 DEF CredTyped, CallTyped
  <2> QED
    BY <1>1, <1>3, <2>2, <2>3, <2>4, <2>5, OwnSame, StepTyped
<1> QED
  BY <1>2, <1>3 DEF ShouldRequireMfa

LEMMA OpenTyped ==
  ASSUME CredInv, CredTyped, NEW c \in Logins, OpenSession(c)
  PROVE  CredTyped'
<1>1. PICK doc \in AccountDoc : doc = login[c].doc /\ doc.pw <= minted
  BY CallIs DEF CredTyped, CallTyped
<1>2. PICK new : new = [live |-> TRUE, token |-> TRUE, pw |-> doc.pw, late |-> login[c].late]
  OBVIOUS
<1>3. /\ sessions' = Append(sessions, new) /\ LoginEnds(c)
      /\ access' = access \cup {[session |-> Len(sessions) + 1, ver |-> doc.ver]}
      /\ UNCHANGED <<account, mfa, device, recovery, minted, torn, wrong, logins, challenge>>
  BY <1>1, <1>2 DEF OpenSession
<1>4. new \in Session /\ sessions \in Seq(Session) /\ minted \in Nat
  BY <1>1, <1>2, CallIs DEF Session, LoginCall, AccountDoc, CredInv, CredType
<1>5. /\ DOMAIN sessions = 1 .. Len(sessions) /\ DOMAIN sessions' = 1 .. Len(sessions) + 1
      /\ Len(sessions) \in Nat
      /\ \A s \in DOMAIN sessions' : sessions'[s] = IF s <= Len(sessions) THEN sessions[s] ELSE new
  BY <1>3, <1>4, AppendProperties, LenProperties
<1>6. OwnTyped'
  <2>1. \A s \in DOMAIN sessions' : sessions'[s].pw <= minted'
    BY <1>1, <1>2, <1>3, <1>5 DEF CredTyped, OwnTyped
  <2>2. access' \subseteq [session : DOMAIN sessions', ver : Nat]
    <3>1. [session |-> Len(sessions) + 1, ver |-> doc.ver] \in [session : DOMAIN sessions', ver : Nat]
      BY <1>1, <1>5 DEF AccountDoc
    <3>2. access \subseteq [session : DOMAIN sessions', ver : Nat]
      BY <1>5 DEF CredTyped, OwnTyped
    <3> QED
      BY <1>3, <3>1, <3>2
  <2> QED
    BY <1>3, <2>1, <2>2 DEF CredTyped, OwnTyped
<1>7. Quiet(login[c], AtRest)
  <2>1. DOMAIN sessions \subseteq DOMAIN sessions'
    BY <1>5
  <2>2. \A t \in access' : t \in access \/ t.ver = login[c].doc.ver
    BY <1>1, <1>3
  <2> QED
    BY <1>3, <1>4, <2>1, <2>2, AtRestTyped DEF Quiet
<1> QED
  BY <1>3, <1>6, <1>7, EndTyped

LEMMA VerifyTyped ==
  ASSUME CredInv, CredTyped, NEW c \in Logins, VerifyMfa(c)
  PROVE  CredTyped'
<1>1. PICK doc : doc = [account EXCEPT !.pw = challenge.pw]
  OBVIOUS
<1>2. PICK j : j = [AtRest EXCEPT !.op = "signIn", !.pc = "open", !.doc = doc, !.late = challenge.late]
  OBVIOUS
<1>3. /\ login' = [login EXCEPT ![c] = j] /\ logins' = logins + 1 /\ logins < MaxLogins
      /\ UNCHANGED <<account, access, sessions, mfa, device, recovery, minted, torn, wrong, challenge>>
  BY <1>1, <1>2 DEF VerifyMfa
<1>4. doc.pw = challenge.pw /\ doc.ver = account.ver
  BY <1>1 DEF CredInv, CredType, AccountDoc
<1>5. j.op = "signIn" /\ j.doc = doc /\ j.token = 0 /\ j.listed = {}
  BY <1>2 DEF AtRest
<1>6. CallTyped(j, DOMAIN sessions', minted')
  BY <1>3, <1>4, <1>5 DEF CallTyped, CredTyped, OwnTyped
<1>7. Quiet(login[c], j)
  BY <1>3, <1>4, <1>5 DEF Quiet
<1>8. login'[c] = j /\ \A o \in Logins : o # c => Same(login[o], login'[o])
  BY <1>3, MovesOnly
<1> QED
  BY <1>3, <1>6, <1>7, <1>8, OwnSame, TypedQuiet

LEMMA RefreshTyped ==
  ASSUME CredInv, CredTyped, NEW c \in Logins, NEW s \in DOMAIN sessions, RefreshCall(c, s)
  PROVE  CredTyped'
<1>1. PICK j : j = [AtRest EXCEPT !.op = "refresh", !.pc = "issue", !.token = s]
  OBVIOUS
<1>2. /\ login' = [login EXCEPT ![c] = j] /\ logins' = logins + 1 /\ logins < MaxLogins
      /\ sessions' = [sessions EXCEPT ![s].token = FALSE]
      /\ UNCHANGED <<account, access, mfa, device, recovery, minted, torn, wrong, challenge>>
  BY <1>1 DEF RefreshCall
<1>3. SessionsLess /\ DOMAIN sessions' = DOMAIN sessions
  BY <1>2, TokenSet
<1>4. s # 0 /\ minted \in Nat
  BY LenProperties DEF CredInv, CredType
<1>5. j.op = "refresh" /\ j.token = s /\ j.listed = {} /\ j.doc = NoDoc /\ NoDoc.pw = 0 /\ NoDoc.ver = 0
  BY <1>1 DEF AtRest, NoDoc
<1>6. CallTyped(j, DOMAIN sessions', minted')
  BY <1>2, <1>3, <1>4, <1>5 DEF CallTyped
<1>7. Quiet(login[c], j)
  BY <1>2, <1>3, <1>5 DEF Quiet
<1>8. login'[c] = j /\ \A o \in Logins : o # c => Same(login[o], login'[o])
  BY <1>2, MovesOnly
<1>9. OwnTyped'
  BY <1>2, <1>3, OwnLess DEF CredTyped, OwnTyped
<1> QED
  BY <1>6, <1>7, <1>8, <1>9, TypedQuiet

LEMMA IssueTyped ==
  ASSUME CredInv, CredTyped, NEW c \in Logins, IssueNext(c)
  PROVE  CredTyped'
<1>1. PICK s : s = login[c].token
  OBVIOUS
<1>2. /\ LoginEnds(c) /\ login[c].op = "refresh"
      /\ sessions' = [sessions EXCEPT ![s].token = TRUE]
      /\ access' = access \cup {[session |-> s, ver |-> account.ver]}
      /\ UNCHANGED <<account, mfa, device, recovery, minted, torn, wrong, challenge, logins>>
  BY <1>1 DEF IssueNext, LoginAt
<1>3. SessionsLess /\ DOMAIN sessions' = DOMAIN sessions
  BY <1>2, TokenSet
<1>4. s \in DOMAIN sessions /\ account.ver \in Nat
  BY <1>1, <1>2 DEF CredTyped, CallTyped, CredInv, CredType, AccountDoc
<1>5. [session |-> s, ver |-> account.ver] \in [session : DOMAIN sessions, ver : Nat]
  BY <1>4
<1>6. OwnTyped'
  BY <1>2, <1>3, <1>5, OwnLess DEF CredTyped, OwnTyped
<1>7. Quiet(login[c], AtRest)
  <2>1. \A t \in access' : t \in access \/ t.ver = account.ver
    BY <1>2
  <2>2. minted \in Nat
    BY DEF CredInv, CredType
  <2> QED
    BY <1>2, <1>3, <2>1, <2>2, AtRestTyped DEF Quiet
<1> QED
  BY <1>2, <1>6, <1>7, EndTyped

LEMMA RotateTyped ==
  ASSUME CredInv, CredTyped, NEW c \in Logins, RotatePassword(c)
  PROVE  CredTyped'
<1>1. PICK l \in Nat : l = logins /\ l <= MaxLogins /\ wrong \in Nat /\ minted \in Nat
  BY CredentialsAssumption DEF CredTyped, CredInv, CredType
<1>2. PICK i \in LoginCall : i = login[c]
  BY CallIs
<1>3. PICK old \in AccountDoc : old = login[c].doc
  BY CallIs
<1>4. PICK doc : doc = [old EXCEPT !.pw = minted + 1, !.mustChange = MustChange(i.op)]
  OBVIOUS
<1>5. doc \in AccountDoc /\ doc.pw = minted + 1 /\ doc.ver = old.ver
  <2>1. PICK fresh \in Nat : fresh = minted + 1
    BY <1>1
  <2>2. PICK must \in BOOLEAN : must = MustChange(i.op)
    BY DEF MustChange
  <2>3. doc = [old EXCEPT !.pw = fresh, !.mustChange = must]
    BY <1>4, <2>1, <2>2
  <2> QED
    BY <2>1, <2>3 DEF AccountDoc
<1>6. SaveAccount(c, doc) /\ login' = [login EXCEPT ![c].pc = "bump", ![c].doc = doc]
  BY <1>2, <1>3, <1>4 DEF RotatePassword
<1>7. PICK j : j = [i EXCEPT !.pc = "bump", !.doc = doc]
  OBVIOUS
<1>8. /\ j.pc = "bump" /\ j.doc = doc /\ j.op = i.op /\ j.token = i.token /\ j.listed = i.listed
      /\ login' = [login EXCEPT ![c] = j]
  <2>1. login' = [login EXCEPT ![c] = j]
    BY <1>2, <1>6, <1>7
  <2> QED
    BY <1>7, <2>1 DEF LoginCall
<1>9. account'.ver = account.ver
  BY <1>3, <1>5, <1>6, SaveIs DEF CredInv, CredType
<1>10. /\ i.pc = "rotate" /\ minted' = minted + 1
       /\ UNCHANGED <<sessions, access, mfa, device, challenge, wrong, torn, logins>>
  BY <1>2 DEF RotatePassword
<1>11. DOMAIN recovery' = DOMAIN recovery
  BY DEF RotatePassword
<1>12. OwnTyped'
  <2>1. /\ \A s \in DOMAIN sessions : sessions[s].pw \in Nat /\ sessions[s].pw <= minted
        /\ challenge.pw \in Nat /\ challenge.pw <= minted
    BY SessionIs DEF CredTyped, OwnTyped, CredInv, CredType, Session, ChallengeDoc
  <2>2. (\A s \in DOMAIN sessions' : sessions'[s].pw <= minted') /\ challenge'.pw <= minted'
    BY <1>1, <1>10, <2>1
  <2> QED
    BY <1>10, <1>11, <2>2 DEF CredTyped, OwnTyped
<1>13. CallTyped(j, DOMAIN sessions', minted')
  <2>1. CallTyped(i, DOMAIN sessions, minted)
    BY <1>2 DEF CredTyped
  <2> QED
    BY <1>1, <1>5, <1>8, <1>10, <2>1 DEF CallTyped
<1>14. /\ Pays(i, j, {"wrong"}, 0, l, l) /\ Pays(i, j, {"rotate"}, 1, l, l)
       /\ Pays(i, j, {"rotate", "bump"}, 0, l, l)
  BY <1>8, <1>10 DEF Pays, Due
<1>15. ASSUME NEW v \in Nat, Versions(account, login, access, v)
       PROVE  account'.ver <= v + 0 /\ j.doc.ver <= v + 0 /\ \A t \in access' : t.ver <= v + 0
  BY <1>3, <1>5, <1>8, <1>9, <1>10, <1>15 DEF Versions
<1>16. login'[c] = j /\ \A o \in Logins : o # c => Same(login[o], login'[o])
  BY <1>8, MovesOnly
<1>17. wrong' \in Nat /\ wrong' <= wrong + 0
  BY <1>1, <1>10
<1> QED
  BY <1>1, <1>2, <1>10, <1>12, <1>13, <1>14, <1>15, <1>16, <1>17, TypedKeep

LEMMA BumpTyped ==
  ASSUME CredInv, CredTyped, NEW c \in Logins, BumpTokenVersion(c)
  PROVE  CredTyped'
<1>1. PICK l \in Nat : l = logins /\ l <= MaxLogins /\ wrong \in Nat /\ minted \in Nat
  BY CredentialsAssumption DEF CredTyped, CredInv, CredType
<1>2. PICK i \in LoginCall : i = login[c]
  BY CallIs
<1>3. PICK doc \in AccountDoc : doc = login[c].doc
  BY CallIs
<1>4. PICK new : new = [doc EXCEPT !.ver = @ + 1]
  OBVIOUS
<1>5. new \in AccountDoc /\ new.ver = doc.ver + 1 /\ doc.ver \in Nat
  BY <1>4 DEF AccountDoc
<1>6. SaveAccount(c, new)
  BY <1>3, <1>4 DEF BumpTokenVersion
<1>7. account'.ver = doc.ver + 1
  BY <1>3, <1>5, <1>6, SaveIs DEF CredInv, CredType
<1>8. /\ i.pc = "bump"
      /\ UNCHANGED <<sessions, access, mfa, device, challenge, minted, recovery, wrong, torn, logins>>
  BY <1>2 DEF BumpTokenVersion
<1>9. PICK j : j = IF i.op = "recover" THEN [i EXCEPT !.pc = "list"] ELSE AtRest
  OBVIOUS
<1>10. login' = [login EXCEPT ![c] = j]
  BY <1>2, <1>9 DEF BumpTokenVersion, LoginTo, LoginEnds
<1>11. j.pc \in {"idle", "list"} /\ j.doc.ver \in {0, doc.ver} /\ CallTyped(j, DOMAIN sessions, minted)
  <2>1. CASE i.op = "recover"
    <3>1. j = [i EXCEPT !.pc = "list"]
      BY <1>9, <2>1
    <3>2. /\ j.pc = "list" /\ j.op = i.op /\ j.token = i.token
          /\ j.doc = i.doc /\ j.listed = i.listed
      BY <3>1 DEF LoginCall
    <3>3. CallTyped(i, DOMAIN sessions, minted)
      BY <1>2 DEF CredTyped
    <3> QED
      BY <1>2, <1>3, <3>2, <3>3 DEF CallTyped
  <2>2. CASE i.op # "recover"
    <3>1. j = AtRest
      BY <1>9, <2>2
    <3> QED
      BY <1>1, <3>1, AtRestTyped
  <2> QED
    BY <2>1, <2>2
<1>12. /\ Pays(i, j, {"wrong"}, 0, l, l) /\ Pays(i, j, {"rotate"}, 0, l, l)
       /\ Pays(i, j, {"rotate", "bump"}, 1, l, l)
  BY <1>8, <1>11 DEF Pays, Due
<1>13. ASSUME NEW v \in Nat, Versions(account, login, access, v)
       PROVE  account'.ver <= v + 1 /\ j.doc.ver <= v + 1 /\ \A t \in access' : t.ver <= v + 1
  <2>1. doc.ver <= v /\ \A t \in access : t.ver <= v
    BY <1>3, <1>13 DEF Versions
  <2>2. \A t \in access : t.ver \in Nat
    BY DEF CredTyped, OwnTyped
  <2>3. \A t \in access' : t.ver <= v + 1
    BY <1>8, <2>1, <2>2
  <2> QED
    BY <1>5, <1>7, <1>11, <2>1, <2>3
<1>14. login'[c] = j /\ \A o \in Logins : o # c => Same(login[o], login'[o])
  BY <1>10, MovesOnly
<1>15. wrong' \in Nat /\ wrong' <= wrong + 0 /\ minted' = minted + 0
  BY <1>1, <1>8
<1>16. OwnTyped' /\ CallTyped(j, DOMAIN sessions', minted')
  BY <1>8, <1>11, OwnSame
<1> QED
  BY <1>1, <1>2, <1>8, <1>12, <1>13, <1>14, <1>15, <1>16, TypedKeep

LEMMA ListTyped ==
  ASSUME CredInv, CredTyped, NEW c \in Logins, ListSessions(c)
  PROVE  CredTyped'
<1>1. PICK i \in LoginCall : i = login[c]
  BY CallIs
<1>2. PICK j : j = [i EXCEPT !.pc = "tokens", !.listed = DOMAIN sessions]
  OBVIOUS
<1>3. /\ j.pc = "tokens" /\ j.listed = DOMAIN sessions /\ j.op = i.op /\ j.token = i.token
      /\ j.doc = i.doc
  BY <1>2 DEF LoginCall
<1>4. login' = [login EXCEPT ![c] = j]
  BY <1>1, <1>2 DEF ListSessions
<1>5. UNCHANGED <<account, minted, sessions, access, recovery, mfa, device, challenge, wrong, torn, logins>>
  BY DEF ListSessions
<1>6. Quiet(login[c], j)
  BY <1>1, <1>3, <1>5 DEF Quiet
<1> QED
  BY <1>1, <1>3, <1>4, <1>5, <1>6, OwnSame, StepTyped

LEMMA RevokeTokensTyped ==
  ASSUME CredInv, CredTyped, NEW c \in Logins, RevokeTokens(c)
  PROVE  CredTyped'
<1>1. PICK i \in LoginCall : i = login[c]
  BY CallIs
<1>2. PICK j : j = [i EXCEPT !.pc = "sessions"]
  OBVIOUS
<1>3. /\ j.pc = "sessions" /\ j.listed = i.listed /\ j.op = i.op /\ j.token = i.token
      /\ j.doc = i.doc
  BY <1>2 DEF LoginCall
<1>4. login' = [login EXCEPT ![c] = j]
  BY <1>1, <1>2 DEF RevokeTokens, LoginTo
<1>5. UNCHANGED <<account, minted, access, recovery, mfa, device, challenge, wrong, torn, logins>>
  BY DEF RevokeTokens
<1>6. SessionsLess /\ DOMAIN sessions' = DOMAIN sessions
  BY TokensSpent DEF RevokeTokens
<1>7. Quiet(login[c], j)
  BY <1>1, <1>3, <1>5, <1>6 DEF Quiet
<1>8. j.listed \subseteq DOMAIN sessions
  BY <1>1, <1>3 DEF CredTyped, CallTyped
<1>9. OwnTyped'
  BY <1>5, <1>6, OwnLess DEF CredTyped, OwnTyped
<1> QED
  BY <1>1, <1>3, <1>4, <1>7, <1>8, <1>9, StepTyped

LEMMA RevokeSessionsTyped ==
  ASSUME CredInv, CredTyped, NEW c \in Logins, RevokeSessions(c)
  PROVE  CredTyped'
<1>1. PICK i \in LoginCall : i = login[c]
  BY CallIs
<1>2. UNCHANGED <<account, minted, access, recovery, mfa, device, wrong, torn, logins>>
  BY DEF RevokeSessions
<1>3. SessionsLess /\ DOMAIN sessions' = DOMAIN sessions
  BY SessionsEnded DEF RevokeSessions
<1>4. challenge'.pw = challenge.pw
  BY DEF RevokeSessions, CredInv, CredType, ChallengeDoc
<1>5. OwnTyped'
  BY <1>2, <1>3, <1>4, OwnLess DEF CredTyped, OwnTyped
<1>6. CASE i.op # "recover"
  <2>1. LoginEnds(c)
    BY <1>1, <1>6 DEF RevokeSessions
  <2>2. minted \in Nat
    BY DEF CredInv, CredType
  <2>3. Quiet(login[c], AtRest)
    BY <1>2, <1>3, <2>2, AtRestTyped DEF Quiet
  <2> QED
    BY <1>5, <2>1, <2>3, EndTyped
<1>7. CASE i.op = "recover"
  <2>1. PICK j : j = [i EXCEPT !.pc = "mark"]
    OBVIOUS
  <2>2. /\ j.pc = "mark" /\ j.listed = i.listed /\ j.op = i.op /\ j.token = i.token
        /\ j.doc = i.doc
    BY <2>1 DEF LoginCall
  <2>3. login' = [o \in Logins |-> IF o = c THEN j
                                   ELSE [login[o] EXCEPT !.late = (login[o].op = "signIn")]]
    BY <1>1, <1>7, <2>1 DEF RevokeSessions
  <2>4. ASSUME NEW o \in Logins, o # c  PROVE  Same(login[o], login'[o])
    <3>1. PICK x \in LoginCall : x = login[o]
      BY CallIs
    <3>2. PICK y : y = [x EXCEPT !.late = (x.op = "signIn")]
      OBVIOUS
    <3>3. Same(x, y)
      BY <3>2 DEF Same, LoginCall
    <3> QED
      BY <2>3, <2>4, <3>1, <3>2, <3>3
  <2>5. Quiet(login[c], j)
    BY <1>1, <1>2, <1>3, <2>2 DEF Quiet
  <2>6. CallTyped(i, DOMAIN sessions, minted)
    BY <1>1 DEF CredTyped
  <2>7. CallTyped(j, DOMAIN sessions', minted')
    BY <1>2, <1>3, <2>2, <2>6 DEF CallTyped
  <2> QED
    BY <1>5, <2>3, <2>4, <2>5, <2>7, TypedQuiet
<1> QED
  BY <1>6, <1>7

(* The recovery tokens stay as many, or one is added.                      *)
LEMMA RecoveriesTyped ==
  ASSUME CredInv, CredTyped, NEW c \in Logins, LoginEnds(c),
         DOMAIN recovery \subseteq DOMAIN recovery',
         \/ UNCHANGED torn
         \/ \E t \in DOMAIN recovery : torn' = torn \cup {t},
         UNCHANGED <<account, minted, sessions, access, mfa, device, challenge, wrong, logins>>
  PROVE  CredTyped'
<1>1. OwnTyped'
  BY DEF CredTyped, OwnTyped
<1>2. Quiet(login[c], AtRest)
  <2>1. minted \in Nat
    BY DEF CredInv, CredType
  <2> QED
    BY <2>1, AtRestTyped DEF Quiet
<1> QED
  BY <1>1, <1>2, EndTyped

LEMMA MarkTyped ==
  ASSUME CredInv, CredTyped, NEW c \in Logins, MarkRecovered(c)
  PROVE  CredTyped'
BY RecoveriesTyped DEF MarkRecovered

LEMMA CreateTyped ==
  ASSUME CredInv, CredTyped, NEW c \in Logins, CreateRecoveryToken(c)
  PROVE  CredTyped'
<1>1. PICK new : new = [state |-> "valid", recent |-> TRUE, uses |-> 0, pw |-> 0, done |-> FALSE]
  OBVIOUS
<1>2. new \in RecoveryDoc /\ recovery' = Append(recovery, new) /\ recovery \in Seq(RecoveryDoc)
  BY <1>1 DEF RecoveryDoc, CreateRecoveryToken, CredInv, CredType
<1>3. DOMAIN recovery \subseteq DOMAIN recovery'
  BY <1>2, AppendProperties, LenProperties
<1> QED
  BY <1>3, RecoveriesTyped DEF CreateRecoveryToken

LEMMA CutTyped ==
  ASSUME CredInv, CredTyped, NEW c \in Logins, LoginCut(c)
  PROVE  CredTyped'
<1>1. torn' = torn \/ \E t \in DOMAIN recovery : torn' = torn \cup {t}
  BY CallIs DEF LoginCut, CallFits
<1> QED
  BY <1>1, RecoveriesTyped DEF LoginCut

LEMMA SecondFactorTyped ==
  ASSUME CredInv, CredTyped, NEW c \in Logins, StoreSecret(c) \/ StoreEnabled(c)
  PROVE  CredTyped'
<1>1. /\ LoginEnds(c) /\ minted \in Nat
      /\ UNCHANGED <<account, minted, sessions, access, recovery, challenge, wrong, torn, logins>>
  BY DEF StoreSecret, StoreEnabled, CredInv, CredType
<1>2. mfa' \in [secret : Nat, enabled : BOOLEAN] /\ device' = mfa'.secret
  <2>1. mfa \in [secret : Nat, enabled : BOOLEAN] /\ device = mfa.secret
    BY DEF CredTyped, OwnTyped
  <2>2. CASE StoreSecret(c)
    <3>1. PICK n \in Nat : n = mfa.secret + 1
      BY <2>1
    <3>2. mfa' = [secret |-> n, enabled |-> FALSE] /\ device' = n
      BY <2>2, <3>1 DEF StoreSecret
    <3> QED
      BY <3>1, <3>2
  <2>3. CASE StoreEnabled(c)
    <3>1. PICK on \in BOOLEAN : on = (login[c].op = "confirm")
      OBVIOUS
    <3>2. mfa' = [mfa EXCEPT !.enabled = on] /\ device' = device
      BY <2>3, <3>1 DEF StoreEnabled
    <3> QED
      BY <2>1, <3>1, <3>2
  <2> QED
    BY <2>2, <2>3
<1>3. OwnTyped'
  BY <1>1, <1>2 DEF CredTyped, OwnTyped
<1>4. Quiet(login[c], AtRest)
  BY <1>1, AtRestTyped DEF Quiet
<1> QED
  BY <1>1, <1>3, <1>4, EndTyped

LEMMA RecoverTyped ==
  ASSUME CredInv, CredTyped, NEW c \in Logins, NEW t \in DOMAIN recovery, Recover(c, t)
  PROVE  CredTyped'
<1>1. PICK j : j = [AtRest EXCEPT !.op = "recover", !.pc = "rotate", !.doc = account, !.token = t]
  OBVIOUS
<1>2. /\ login' = [login EXCEPT ![c] = j] /\ logins' = logins + 1 /\ logins < MaxLogins
      /\ torn' \subseteq torn \cup {t}
      /\ UNCHANGED <<account, access, sessions, mfa, device, recovery, minted, wrong, challenge>>
  BY <1>1 DEF Recover
<1>3. t # 0 /\ minted \in Nat /\ account.pw <= minted
  BY LenProperties DEF CredInv, CredType
<1>4. j.op = "recover" /\ j.token = t /\ j.listed = {} /\ j.doc = account
  BY <1>1 DEF AtRest
<1>5. CallTyped(j, DOMAIN sessions', minted')
  BY <1>2, <1>3, <1>4 DEF CallTyped
<1>6. Quiet(login[c], j)
  BY <1>2, <1>4 DEF Quiet
<1>7. login'[c] = j /\ \A o \in Logins : o # c => Same(login[o], login'[o])
  BY <1>2, MovesOnly
<1>8. OwnTyped'
  BY <1>2, OwnStays DEF CredTyped, OwnTyped
<1> QED
  BY <1>5, <1>6, <1>7, <1>8, TypedQuiet

(* Time passes for a lock, a recovery token or a challenge.                *)
LEMMA IdleTyped ==
  ASSUME CredInv, CredTyped, OwnTyped', UNCHANGED <<login, logins, minted, access, sessions>>,
         account'.ver = account.ver, wrong' \in {0, wrong}
  PROVE  CredTyped'
<1>1. logins \in Nat /\ wrong \in Nat
  BY CredentialsAssumption DEF CredTyped, CredInv, CredType
<1>2. Affordable(login', {"wrong"}, wrong', logins')
  <2>1. IsFiniteSet(Spending(login, {"wrong"})) /\ wrong + Cardinality(Spending(login, {"wrong"})) <= logins
    BY DEF CredTyped, Affordable
  <2>2. Cardinality(Spending(login, {"wrong"})) \in Nat
    BY <2>1, FS_CardinalityType
  <2> QED
    BY <1>1, <2>1, <2>2 DEF Affordable, Spending
<1>3. Affordable(login', {"rotate"}, minted', logins')
  BY DEF CredTyped, Affordable, Spending
<1>4. PICK v \in Nat : Affordable(login, {"rotate", "bump"}, v, logins) /\ Versions(account, login, access, v)
  BY DEF CredTyped
<1>5. Affordable(login', {"rotate", "bump"}, v, logins') /\ Versions(account', login', access', v)
  BY <1>4 DEF Affordable, Spending, Versions
<1>6. logins' \in 0 .. MaxLogins /\ \A c \in Logins : CallTyped(login'[c], DOMAIN sessions', minted')
  BY DEF CredTyped
<1> QED
  BY <1>2, <1>3, <1>4, <1>5, <1>6 DEF CredTyped

LEMMA TimeTyped ==
  ASSUME CredInv, CredTyped,
         LockEnds \/ ChallengeExpires \/ (\E t \in DOMAIN recovery : RecoveryAges(t))
           \/ UNCHANGED credentialVars
  PROVE  CredTyped'
<1>1. UNCHANGED <<login, logins, minted, access, sessions, mfa, device, torn>>
  BY DEF LockEnds, ChallengeExpires, RecoveryAges, credentialVars
<1>2. account'.ver = account.ver /\ wrong' \in {0, wrong}
  BY DEF LockEnds, ChallengeExpires, RecoveryAges, credentialVars, CredInv, CredType, AccountDoc
<1>3. DOMAIN recovery' = DOMAIN recovery
  BY DEF LockEnds, ChallengeExpires, RecoveryAges, credentialVars
<1>4. challenge'.pw <= minted
  BY DEF LockEnds, ChallengeExpires, RecoveryAges, credentialVars, NoChallenge, CredTyped, OwnTyped,
         CredInv, CredType
<1>5. OwnTyped'
  BY <1>1, <1>3, <1>4 DEF CredTyped, OwnTyped
<1> QED
  BY <1>1, <1>2, <1>5, IdleTyped

LEMMA CredTypedNext ==
  ASSUME CredInv, CredTyped, [CredentialsNext]_credentialVars
  PROVE  CredTyped'
<1>1. ASSUME NEW c \in Logins,
             \/ \E right \in BOOLEAN : SignInCall(c, right)
             \/ ChangePassword(c) \/ ResetPassword(c) \/ SignOutAll(c) \/ RequestRecovery(c)
             \/ Enroll(c) \/ ConfirmEnrollment(c) \/ DisableMfa(c)
      PROVE  CredTyped'
  BY <1>1, StartsTyped
<1>2. ASSUME NEW c \in Logins, NEW t \in DOMAIN recovery, Recover(c, t)
      PROVE  CredTyped'
  BY <1>2, RecoverTyped
<1>3. ASSUME NEW c \in Logins, NEW s \in DOMAIN sessions, RefreshCall(c, s)
      PROVE  CredTyped'
  BY <1>3, RefreshTyped
<1>4. ASSUME NEW c \in Logins,
             WrongPassword(c) \/ RightPassword(c) \/ ShouldRequireMfa(c) \/ OpenSession(c)
               \/ VerifyMfa(c) \/ IssueNext(c)
      PROVE  CredTyped'
  BY <1>4, WrongTyped, RightTyped, MfaStepTyped, OpenTyped, VerifyTyped, IssueTyped
<1>5. ASSUME NEW c \in Logins,
             \/ RotatePassword(c) \/ BumpTokenVersion(c) \/ ListSessions(c) \/ RevokeTokens(c)
             \/ RevokeSessions(c) \/ MarkRecovered(c) \/ CreateRecoveryToken(c)
      PROVE  CredTyped'
  BY <1>5, RotateTyped, BumpTyped, ListTyped, RevokeTokensTyped, RevokeSessionsTyped, MarkTyped,
     CreateTyped
<1>6. ASSUME NEW c \in Logins, StoreSecret(c) \/ StoreEnabled(c) \/ LoginCut(c)
      PROVE  CredTyped'
  BY <1>6, SecondFactorTyped, CutTyped
<1> QED
  BY <1>1, <1>2, <1>3, <1>4, <1>5, <1>6, TimeTyped DEF CredentialsNext

LEMMA CredTypedInit == ASSUME CredentialsInit PROVE CredTyped
<1>1. /\ account = [NoDoc EXCEPT !.mustChange = TRUE] /\ minted = 0
      /\ sessions = <<>> /\ access = {} /\ recovery = <<>> /\ challenge = NoChallenge
      /\ wrong = 0 /\ torn = {} /\ logins = 0 /\ device = mfa.secret
      /\ mfa \in { [secret |-> 0, enabled |-> FALSE], [secret |-> 1, enabled |-> TRUE] }
      /\ login = [c \in Logins |-> AtRest]
  BY DEF CredentialsInit
<1>2. account.ver = 0 /\ challenge.pw = 0
  BY <1>1 DEF NoDoc, NoChallenge
<1>3. OwnTyped
  <2>1. mfa = [secret |-> 0, enabled |-> FALSE] \/ mfa = [secret |-> 1, enabled |-> TRUE]
    BY <1>1
  <2>2. mfa \in [secret : Nat, enabled : BOOLEAN]
    <3>1. ASSUME NEW n \in Nat, NEW b \in BOOLEAN, mfa = [secret |-> n, enabled |-> b]
          PROVE  mfa \in [secret : Nat, enabled : BOOLEAN]
      BY <3>1
    <3> QED
      BY <2>1, <3>1
  <2> QED
    BY <1>1, <1>2, <2>2 DEF OwnTyped
<1>4. /\ \A c \in Logins : login[c].pc = "idle" /\ login[c].doc.ver = 0
      /\ \A c \in Logins : CallTyped(login[c], DOMAIN sessions, minted)
  BY <1>1, AtRestTyped
<1>5. ASSUME NEW P \in {{"wrong"}, {"rotate"}, {"rotate", "bump"}}  PROVE  Affordable(login, P, 0, 0)
  <2>1. Spending(login, P) = {}
    BY <1>4 DEF Spending
  <2> QED
    BY <2>1, FS_EmptySet DEF Affordable
<1>6. /\ Affordable(login, {"wrong"}, wrong, logins) /\ Affordable(login, {"rotate"}, minted, logins)
      /\ Affordable(login, {"rotate", "bump"}, 0, logins)
  BY <1>1, <1>5
<1>7. Versions(account, login, access, 0)
  BY <1>1, <1>2, <1>4 DEF Versions
<1>8. logins \in 0 .. MaxLogins
  BY <1>1, CredentialsAssumption
<1> QED
  BY <1>3, <1>4, <1>6, <1>7, <1>8 DEF CredTyped

LEMMA TypedIsTypeOK ==
  ASSUME CredInv, CredTyped
  PROVE  CredentialsTypeOK
<1>1. PICK l \in Nat : l = logins /\ l <= MaxLogins /\ wrong \in Nat /\ minted \in Nat
  BY CredentialsAssumption DEF CredTyped, CredInv, CredType
<1>2. ASSUME NEW P, NEW n \in Nat, Affordable(login, P, n, logins)  PROVE  n <= MaxLogins
  <2>1. Cardinality(Spending(login, P)) \in Nat /\ n + Cardinality(Spending(login, P)) <= logins
    BY <1>2, FS_CardinalityType DEF Affordable
  <2> QED
    BY <1>1, <2>1, CredentialsAssumption
<1>3. wrong \in 0 .. MaxLogins /\ minted \in 0 .. MaxLogins
  BY <1>1, <1>2, CredentialsAssumption DEF CredTyped
<1>4. access \subseteq [session : DOMAIN sessions, ver : 0 .. MaxLogins]
  <2>1. PICK v \in Nat : Affordable(login, {"rotate", "bump"}, v, logins) /\ Versions(account, login, access, v)
    BY DEF CredTyped
  <2>2. v <= MaxLogins
    BY <1>2, <2>1
  <2>3. \A t \in access : t \in [session : DOMAIN sessions, ver : Nat] /\ t.ver <= v
    BY <2>1 DEF Versions, CredTyped, OwnTyped
  <2>4. \A t \in access : t \in [session : DOMAIN sessions, ver : 0 .. MaxLogins]
    BY <2>2, <2>3, CredentialsAssumption
  <2> QED
    BY <2>4
<1>5. account \in [pw : 0 .. minted, mustChange : BOOLEAN, ver : Nat, failed : Nat,
                   lock : {"none", "future", "past"}]
  BY <1>1 DEF CredInv, CredType, AccountDoc
<1>6. challenge \in [open : BOOLEAN, pw : 0 .. minted, late : BOOLEAN]
  BY <1>1 DEF CredInv, CredType, ChallengeDoc, CredTyped, OwnTyped
<1>7. sessions \in Seq([live : BOOLEAN, token : BOOLEAN, pw : 0 .. minted, late : BOOLEAN])
  <2>1. ASSUME NEW s \in DOMAIN sessions
        PROVE  sessions[s] \in [live : BOOLEAN, token : BOOLEAN, pw : 0 .. minted, late : BOOLEAN]
    <3>1. sessions[s] \in Session /\ sessions[s].pw <= minted
      BY SessionIs DEF CredTyped, OwnTyped
    <3> QED
      BY <1>1, <3>1 DEF Session
  <2>2. sessions \in Seq(Session)
    BY DEF CredInv, CredType
  <2>3. PICK T : T = [live : BOOLEAN, token : BOOLEAN, pw : 0 .. minted, late : BOOLEAN]
    OBVIOUS
  <2>4. PICK n \in Nat : n = Len(sessions)
    BY <2>2, LenProperties
  <2>5. DOMAIN sessions = 1 .. n /\ sessions \in [1 .. n -> Session]
    BY <2>2, <2>4, LenProperties
  <2>6. sessions \in [1 .. n -> T]
    BY <2>1, <2>3, <2>5
  <2>7. sessions \in Seq(T)
    BY <2>4, <2>6, SeqDef
  <2> QED
    BY <2>3, <2>7
<1>8. recovery \in Seq([state : {"valid", "used", "expired"}, recent : BOOLEAN, uses : Nat,
                        pw : 0 .. minted, done : BOOLEAN])
  <2>1. ASSUME NEW t \in DOMAIN recovery
        PROVE  recovery[t] \in [state : {"valid", "used", "expired"}, recent : BOOLEAN, uses : Nat,
                                pw : 0 .. minted, done : BOOLEAN]
    <3>1. recovery[t] \in RecoveryDoc /\ recovery[t].pw <= account.pw /\ account.pw <= minted
      BY RecoveryIs DEF CredInv, TokensInv, CredType
    <3>2. account.pw \in Nat
      BY DEF CredInv, CredType, AccountDoc
    <3>3. recovery[t].pw <= minted
      BY <1>1, <3>1, <3>2 DEF RecoveryDoc
    <3> QED
      BY <1>1, <3>1, <3>3 DEF RecoveryDoc
  <2>2. recovery \in Seq(RecoveryDoc)
    BY DEF CredInv, CredType
  <2>3. PICK T : T = [state : {"valid", "used", "expired"}, recent : BOOLEAN, uses : Nat,
                       pw : 0 .. minted, done : BOOLEAN]
    OBVIOUS
  <2>4. PICK n \in Nat : n = Len(recovery)
    BY <2>2, LenProperties
  <2>5. DOMAIN recovery = 1 .. n /\ recovery \in [1 .. n -> RecoveryDoc]
    BY <2>2, <2>4, LenProperties
  <2>6. recovery \in [1 .. n -> T]
    BY <2>1, <2>3, <2>5
  <2>7. recovery \in Seq(T)
    BY <2>4, <2>6, SeqDef
  <2> QED
    BY <2>3, <2>7
<1>9. ASSUME NEW c \in Logins
      PROVE  LET j == login[c] IN
               /\ j.op \in {"recover", "refresh"} <=> j.token # 0
               /\ j.op = "recover" => j.token \in DOMAIN recovery
               /\ j.op = "refresh" => j.token \in DOMAIN sessions
               /\ j.doc.pw \in 0 .. minted /\ j.listed \subseteq DOMAIN sessions
  <2>1. /\ CallTyped(login[c], DOMAIN sessions, minted) /\ CallFits(login[c])
        /\ login[c].doc.pw \in Nat
    BY DocNumbers DEF CredTyped, CredInv
  <2> QED
    BY <1>1, <2>1 DEF CallTyped, CallFits
<1>10. /\ temporary \subseteq 0 .. minted /\ lost \in BOOLEAN /\ over \in BOOLEAN
       /\ mfa \in [secret : Nat, enabled : BOOLEAN] /\ device = mfa.secret
       /\ torn \subseteq DOMAIN recovery /\ logins \in 0 .. MaxLogins
  BY DEF CredTyped, OwnTyped, CredInv, CredType
<1> QED
  BY <1>3, <1>4, <1>5, <1>6, <1>7, <1>8, <1>9, <1>10 DEF CredentialsTypeOK

(* Every call of an account is at a step of its own operation and refers   *)
(* to a token or a session there is, and no password is current that was   *)
(* not minted; counts, passwords and token versions are bounded by the     *)
(* calls made (auth.service.js, password.service.js, recovery.service.js). *)
THEOREM CredentialsTypeCorrect == CredentialsSpec => []CredentialsTypeOK
<1>1. CredentialsInit => CredInv /\ CredTyped
  BY CredInit, CredTypedInit
<1>2. CredInv /\ CredTyped /\ [CredentialsNext]_credentialVars => (CredInv /\ CredTyped)'
  BY CredNext, CredTypedNext
<1>3. CredInv /\ CredTyped => CredentialsTypeOK
  BY TypedIsTypeOK
<1> QED
  BY <1>1, <1>2, <1>3, PTL DEF CredentialsSpec
=============================================================================
