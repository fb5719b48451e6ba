----------------------------- MODULE Credentials -----------------------------
(***************************************************************************)
(* The credentials of one account: its password, the lockout after wrong   *)
(* ones, recovery tokens, the second factor, and the sessions they open    *)
(* (auth.service.js, password.service.js, recovery.service.js,             *)
(* mfa.service.js, user.repository.js).                                    *)
(*                                                                         *)
(* The user document is loaded at the beginning of a call and saved, in    *)
(* part, at its end; hashing and verifying lie between.  save() writes the *)
(* fields whose value the call has changed from what it loaded, and        *)
(* nothing compares versions.  A password is the number of its minting, a  *)
(* secret likewise; a time is whether it has passed.                       *)
(***************************************************************************)
EXTENDS Naturals, FiniteSets, Sequences

CONSTANTS
  Logins,          \* handler slots
  LoginOps,        \* the calls that are made
  MaxLogins,       \* bound: calls in one behaviour
  MaxFailed,       \* maxFailedAttempts
  MfaRequired,     \* is the second factor required of the user's roles?
  CallsMayFail     \* may a database call fail, or the process stop?

ASSUME CredentialsAssumption ==
  MaxLogins \in Nat /\ MaxFailed \in Nat \ {0}
  /\ MfaRequired \in BOOLEAN /\ CallsMayFail \in BOOLEAN

VARIABLES
  account,     \* the user document
  minted,      \* passwords and secrets minted so far
  temporary,   \* observer: passwords an administrator set
  sessions,    \* sessions and their refresh tokens
  access,      \* access tokens issued
  recovery,    \* recoverytokens documents, in order of creation
  mfa,         \* the mfa document; secret 0 when there is none
  device,      \* the secret in the user's authenticator
  challenge,   \* the MFA challenge token, until it expires
  wrong,       \* observer: wrong passwords since a right one or a lock's end
  lost,        \* observer: has one of those saved a count that was not current?
  over,        \* observer: was the password saved over one not loaded?
  torn,        \* observer: recovery tokens two calls held, or a call left early
  login,       \* login[c]: what a handler is at
  logins       \* calls made so far

credentialVars == <<account, minted, temporary, sessions, access, recovery, mfa,
                    device, challenge, wrong, lost, over, torn, login, logins>>

NoDoc == [pw |-> 0, mustChange |-> FALSE, ver |-> 0, failed |-> 0, lock |-> "none"]
AtRest == [op |-> "none", pc |-> "idle", doc |-> NoDoc, token |-> 0,
           listed |-> {}, late |-> FALSE]
NoChallenge == [open |-> FALSE, pw |-> 0, late |-> FALSE]

CredentialsInit ==
  /\ account = [NoDoc EXCEPT !.mustChange = TRUE]
  /\ minted = 0 /\ temporary = {0}
  /\ sessions = <<>> /\ access = {}
  /\ recovery = <<>>
  /\ mfa \in { [secret |-> 0, enabled |-> FALSE], [secret |-> 1, enabled |-> TRUE] }
  /\ device = mfa.secret
  /\ challenge = NoChallenge
  /\ wrong = 0 /\ lost = FALSE /\ over = FALSE /\ torn = {}
  /\ login = [c \in Logins |-> AtRest]
  /\ logins = 0

----------------------------------------------------------------------------
LoginAt(c, op, pc) == login[c].op = op /\ login[c].pc = pc
LoginTo(c, pc) == login' = [login EXCEPT ![c].pc = pc]
LoginEnds(c) == login' = [login EXCEPT ![c] = AtRest]

(* A call arrives and loads the user document.                             *)
LoginStarts(c, op, pc) ==
  /\ login[c] = AtRest /\ op \in LoginOps /\ logins < MaxLogins
  /\ logins' = logins + 1
  /\ login' = [login EXCEPT ![c] = [AtRest EXCEPT !.op = op, !.pc = pc, !.doc = account]]

(* save(): of the fields in new, those that differ from the loaded ones.   *)
SaveAccount(c, new) ==
  account' = [f \in DOMAIN account |-> IF new[f] = login[c].doc[f] THEN account[f] ELSE new[f]]

SignedIn == \E t \in access : t.ver = account.ver /\ sessions[t.session].live

----------------------------------------------------------------------------
(* signIn: a locked account is refused before the password is looked at.   *)
SignInCall(c, right) ==
  /\ account.lock # "future"
  /\ LoginStarts(c, "signIn", IF right THEN "right" ELSE "wrong")
  /\ UNCHANGED <<account, minted, temporary, sessions, access, recovery, mfa, device,
                 challenge, wrong, lost, over, torn>>

LockAbove(failed) == failed > MaxFailed                          \* mutant of LockAt
LockAt(failed) == failed >= MaxFailed

(* recordFailedLogin                                                       *)
WrongPassword(c) ==
  /\ LoginAt(c, "signIn", "wrong")
  /\ LET doc == login[c].doc
         failed == doc.failed + 1
     IN  /\ SaveAccount(c, [doc EXCEPT !.failed = failed,
                              !.lock = IF LockAt(failed) THEN "future" ELSE @])
         /\ lost' = (lost \/ account.failed # doc.failed)
  /\ wrong' = wrong + 1
  /\ LoginEnds(c)
  /\ UNCHANGED <<minted, temporary, sessions, access, recovery, mfa, device, challenge,
                 over, torn, logins>>

(* resetFailedLogin                                                        *)
RightPassword(c) ==
  /\ LoginAt(c, "signIn", "right")
  /\ SaveAccount(c, [login[c].doc EXCEPT !.failed = 0, !.lock = "none"])
  /\ wrong' = 0 /\ lost' = FALSE
  /\ LoginTo(c, "mfa")
  /\ UNCHANGED <<minted, temporary, sessions, access, recovery, mfa, device, challenge,
                 over, torn, logins>>

(* shouldRequireMfa: with an enabled enrolment the sign-in ends with a     *)
(* challenge.                                                              *)
ShouldRequireMfa(c) ==
  /\ LoginAt(c, "signIn", "mfa")
  /\ IF MfaRequired /\ mfa.enabled
     THEN /\ challenge' = [open |-> TRUE, pw |-> login[c].doc.pw, late |-> login[c].late]
          /\ LoginEnds(c)
     ELSE LoginTo(c, "open") /\ UNCHANGED challenge
  /\ UNCHANGED <<account, minted, temporary, sessions, access, recovery, mfa, device,
                 wrong, lost, over, torn, logins>>

(* openSession, and the access token signed for the loaded document.       *)
OpenSession(c) ==
  /\ LoginAt(c, "signIn", "open")
  /\ sessions' = Append(sessions, [live |-> TRUE, token |-> TRUE, pw |-> login[c].doc.pw,
                                   late |-> login[c].late])
  /\ access' = access \cup {[session |-> Len(sessions) + 1, ver |-> login[c].doc.ver]}
  /\ LoginEnds(c)
  /\ UNCHANGED <<account, minted, temporary, recovery, mfa, device, challenge, wrong, lost,
                 over, torn, logins>>

(* verifyMfa: the code of the user's authenticator, then completeMfaSignIn *)
(* for the user as loaded now.  The session counts as opened with the      *)
(* password the challenge was given for.                                   *)
VerifyMfa(c) ==
  /\ challenge.open /\ mfa.enabled /\ device = mfa.secret
  /\ login[c] = AtRest /\ "signIn" \in LoginOps /\ logins < MaxLogins
  /\ logins' = logins + 1
  /\ login' = [login EXCEPT ![c] =
       [AtRest EXCEPT !.op = "signIn", !.pc = "open", !.doc = [account EXCEPT !.pw = challenge.pw],
                      !.late = challenge.late]]
  /\ UNCHANGED <<account, minted, temporary, sessions, access, recovery, mfa, device,
                 challenge, wrong, lost, over, torn>>

(* refresh: rotateRefreshToken looks at the refresh token only, spends it  *)
(* and stores the next one; the access token is for the user as read then. *)
RefreshCall(c, s) ==
  /\ sessions[s].token
  /\ login[c] = AtRest /\ "refresh" \in LoginOps /\ logins < MaxLogins
  /\ logins' = logins + 1
  /\ login' = [login EXCEPT ![c] = [AtRest EXCEPT !.op = "refresh", !.pc = "issue", !.token = s]]
  /\ sessions' = [sessions EXCEPT ![s].token = FALSE]
  /\ UNCHANGED <<account, minted, temporary, access, recovery, mfa, device, challenge,
                 wrong, lost, over, torn>>

IssueNext(c) ==
  /\ LoginAt(c, "refresh", "issue")
  /\ sessions' = [sessions EXCEPT ![login[c].token].token = TRUE]
  /\ access' = access \cup {[session |-> login[c].token, ver |-> account.ver]}
  /\ LoginEnds(c)
  /\ UNCHANGED <<account, minted, temporary, recovery, mfa, device, challenge, wrong, lost,
                 over, torn, logins>>

----------------------------------------------------------------------------
(* changePassword, by whoever is signed in and knows the password.         *)
ChangePassword(c) ==
  /\ SignedIn
  /\ LoginStarts(c, "change", "rotate")
  /\ UNCHANGED <<account, minted, temporary, sessions, access, recovery, mfa, device,
                 challenge, wrong, lost, over, torn>>

(* UserAdminService.resetPassword                                          *)
ResetPassword(c) ==
  /\ LoginStarts(c, "reset", "rotate")
  /\ UNCHANGED <<account, minted, temporary, sessions, access, recovery, mfa, device,
                 challenge, wrong, lost, over, torn>>

Holds(t) == {c \in Logins : login[c].op = "recover" /\ login[c].token = t}

(* RecoveryService.resetPassword with an unused, unexpired token.          *)
Recover(c, t) ==
  /\ recovery[t].state = "valid"
  /\ login[c] = AtRest /\ "recover" \in LoginOps /\ logins < MaxLogins
  /\ logins' = logins + 1
  /\ login' = [login EXCEPT ![c] = [AtRest EXCEPT !.op = "recover", !.pc = "rotate",
                                                  !.doc = account, !.token = t]]
  /\ torn' = IF Holds(t) = {} THEN torn ELSE torn \cup {t}
  /\ UNCHANGED <<account, minted, temporary, sessions, access, recovery, mfa, device,
                 challenge, wrong, lost, over>>

MayKeep(op) == FALSE                                             \* mutant of MustChange
MustChange(op) == op = "reset"

(* rotatePassword                                                          *)
RotatePassword(c) ==
  /\ login[c].pc = "rotate"
  /\ LET j == login[c]
         doc == [j.doc EXCEPT !.pw = minted + 1, !.mustChange = MustChange(j.op)]
     IN
     /\ SaveAccount(c, doc)
     /\ over' = (account.pw # j.doc.pw)
     /\ temporary' = IF j.op = "reset" THEN temporary \cup {minted + 1} ELSE temporary
     /\ recovery' = IF j.op = "recover"
                    THEN [recovery EXCEPT ![j.token].uses = @ + 1, ![j.token].pw = minted + 1]
                    ELSE recovery
     /\ login' = [login EXCEPT ![c].pc = "bump", ![c].doc = doc]
  /\ minted' = minted + 1
  /\ UNCHANGED <<sessions, access, mfa, device, challenge, wrong, lost, torn, logins>>

(* bumpTokenVersion, and the same at the end of the repository's           *)
(* resetPassword.                                                          *)
BumpTokenVersion(c) ==
  /\ login[c].pc = "bump"
  /\ SaveAccount(c, [login[c].doc EXCEPT !.ver = @ + 1])
  /\ IF login[c].op = "recover" THEN LoginTo(c, "list") ELSE LoginEnds(c)
  /\ UNCHANGED <<minted, temporary, sessions, access, recovery, mfa, device, challenge,
                 wrong, lost, over, torn, logins>>

(* revokeAllForUser: the refresh tokens of the sessions it finds, then the *)
(* user's sessions, whichever there are by then.                           *)
ListSessions(c) ==
  /\ login[c].pc = "list"
  /\ login' = [login EXCEPT ![c].pc = "tokens", ![c].listed = DOMAIN sessions]
  /\ UNCHANGED <<account, minted, temporary, sessions, access, recovery, mfa, device,
                 challenge, wrong, lost, over, torn, logins>>

RevokeTokens(c) ==
  /\ login[c].pc = "tokens"
  /\ sessions' = [s \in DOMAIN sessions |->
       IF s \in login[c].listed THEN [sessions[s] EXCEPT !.token = FALSE] ELSE sessions[s]]
  /\ LoginTo(c, "sessions")
  /\ UNCHANGED <<account, minted, temporary, access, recovery, mfa, device, challenge,
                 wrong, lost, over, torn, logins>>

OfUser(c) == DOMAIN sessions

(* Sign-ins under way while a recovery does this are late.                 *)
RevokeSessions(c) ==
  /\ login[c].pc = "sessions"
  /\ sessions' = [s \in DOMAIN sessions |->
       IF s \in OfUser(c) THEN [sessions[s] EXCEPT !.live = FALSE] ELSE sessions[s]]
  /\ IF login[c].op = "recover"
     THEN /\ login' = [o \in Logins |->
                IF o = c THEN [login[c] EXCEPT !.pc = "mark"]
                ELSE [login[o] EXCEPT !.late = (login[o].op = "signIn")]]
          /\ challenge' = [challenge EXCEPT !.late = challenge.open]
     ELSE LoginEnds(c) /\ UNCHANGED challenge
  /\ UNCHANGED <<account, minted, temporary, access, recovery, mfa, device,
                 wrong, lost, over, torn, logins>>

UnusedState == "valid"                                           \* mutant of UsedState
UsedState == "used"

MarkRecovered(c) ==
  /\ login[c].pc = "mark"
  /\ recovery' = [recovery EXCEPT ![login[c].token].state = UsedState,
                                  ![login[c].token].done = TRUE]
  /\ LoginEnds(c)
  /\ UNCHANGED <<account, minted, temporary, sessions, access, mfa, device, challenge,
                 wrong, lost, over, torn, logins>>

SignOutAll(c) ==
  /\ SignedIn
  /\ LoginStarts(c, "signOutAll", "list")
  /\ UNCHANGED <<account, minted, temporary, sessions, access, recovery, mfa, device,
                 challenge, wrong, lost, over, torn>>

----------------------------------------------------------------------------
(* requestRecovery: none in the cooldown, then create.                     *)
RequestRecovery(c) ==
  /\ \A t \in DOMAIN recovery : ~recovery[t].recent
  /\ LoginStarts(c, "request", "create")
  /\ UNCHANGED <<account, minted, temporary, sessions, access, recovery, mfa, device,
                 challenge, wrong, lost, over, torn>>

CreateRecoveryToken(c) ==
  /\ LoginAt(c, "request", "create")
  /\ recovery' = Append(recovery, [state |-> "valid", recent |-> TRUE, uses |-> 0, pw |-> 0,
                                   done |-> FALSE])
  /\ LoginEnds(c)
  /\ UNCHANGED <<account, minted, temporary, sessions, access, mfa, device, challenge,
                 wrong, lost, over, torn, logins>>

----------------------------------------------------------------------------
(* The second factor: each call reads the record and then writes it.       *)
Enroll(c) ==
  /\ SignedIn /\ ~mfa.enabled
  /\ LoginStarts(c, "enroll", "secret")
  /\ UNCHANGED <<account, minted, temporary, sessions, access, recovery, mfa, device,
                 challenge, wrong, lost, over, torn>>

(* The user scans the secret the call answers with.                        *)
StoreSecret(c) ==
  /\ LoginAt(c, "enroll", "secret")
  /\ mfa' = [secret |-> mfa.secret + 1, enabled |-> FALSE]
  /\ device' = mfa.secret + 1
  /\ LoginEnds(c)
  /\ UNCHANGED <<account, minted, temporary, sessions, access, recovery, challenge, wrong,
                 lost, over, torn, logins>>

ConfirmEnrollment(c) ==
  /\ SignedIn /\ mfa.secret # 0 /\ ~mfa.enabled /\ device = mfa.secret
  /\ LoginStarts(c, "confirm", "enable")
  /\ UNCHANGED <<account, minted, temporary, sessions, access, recovery, mfa, device,
                 challenge, wrong, lost, over, torn>>

DisableMfa(c) ==
  /\ SignedIn /\ mfa.secret # 0
  /\ LoginStarts(c, "disable", "enable")
  /\ UNCHANGED <<account, minted, temporary, sessions, access, recovery, mfa, device,
                 challenge, wrong, lost, over, torn>>

StoreEnabled(c) ==
  /\ login[c].pc = "enable"
  /\ mfa' = [mfa EXCEPT !.enabled = (login[c].op = "confirm")]
  /\ LoginEnds(c)
  /\ UNCHANGED <<account, minted, temporary, sessions, access, recovery, device,
                 challenge, wrong, lost, over, torn, logins>>

----------------------------------------------------------------------------
(* Time passes: a lock, a cooldown, a recovery token, a challenge.         *)
LockEnds ==
  /\ account.lock = "future"
  /\ account' = [account EXCEPT !.lock = "past"]
  /\ wrong' = 0 /\ lost' = FALSE
  /\ UNCHANGED <<minted, temporary, sessions, access, recovery, mfa, device, challenge,
                 over, torn, login, logins>>

RecoveryAges(t) ==
  /\ recovery[t].recent \/ recovery[t].state = "valid"
  /\ recovery' = [recovery EXCEPT ![t] =
       IF @.recent THEN [@ EXCEPT !.recent = FALSE] ELSE [@ EXCEPT !.state = "expired"]]
  /\ UNCHANGED <<account, minted, temporary, sessions, access, mfa, device, challenge,
                 wrong, lost, over, torn, login, logins>>

ChallengeExpires ==
  /\ challenge.open /\ challenge' = NoChallenge
  /\ UNCHANGED <<account, minted, temporary, sessions, access, recovery, mfa, device,
                 wrong, lost, over, torn, login, logins>>

(* The rest of a call is never made.                                       *)
LoginCut(c) ==
  /\ CallsMayFail /\ login[c].pc \in {"bump", "list", "tokens", "sessions", "mark"}
  /\ torn' = IF login[c].op = "recover" THEN torn \cup {login[c].token} ELSE torn
  /\ LoginEnds(c)
  /\ UNCHANGED <<account, minted, temporary, sessions, access, recovery, mfa, device,
                 challenge, wrong, lost, over, logins>>

CredentialsNext ==
  \/ \E c \in Logins :
       \/ \E right \in BOOLEAN : SignInCall(c, right)
       \/ \E t \in DOMAIN recovery : Recover(c, t)
       \/ \E s \in DOMAIN sessions : RefreshCall(c, s)
       \/ WrongPassword(c) \/ RightPassword(c) \/ ShouldRequireMfa(c) \/ OpenSession(c)
       \/ VerifyMfa(c) \/ IssueNext(c) \/ ChangePassword(c) \/ ResetPassword(c)
       \/ RotatePassword(c) \/ BumpTokenVersion(c) \/ ListSessions(c) \/ RevokeTokens(c)
       \/ RevokeSessions(c) \/ MarkRecovered(c) \/ SignOutAll(c) \/ RequestRecovery(c)
       \/ CreateRecoveryToken(c) \/ Enroll(c) \/ StoreSecret(c) \/ ConfirmEnrollment(c)
       \/ DisableMfa(c) \/ StoreEnabled(c) \/ LoginCut(c)
  \/ \E t \in DOMAIN recovery : RecoveryAges(t)
  \/ LockEnds \/ ChallengeExpires

CredentialsSpec == CredentialsInit /\ [][CredentialsNext]_credentialVars

----------------------------------------------------------------------------
(* The types of the state: every call is at a step of its own operation,   *)
(* refers to a token or a session there is, and no password is current     *)
(* that was not minted.                                                    *)
CredentialsTypeOK ==
  /\ account \in [pw : 0 .. minted, mustChange : BOOLEAN, ver : Nat, failed : Nat,
                  lock : {"none", "future", "past"}]
  /\ minted \in 0 .. MaxLogins /\ temporary \subseteq 0 .. minted
  /\ sessions \in Seq([live : BOOLEAN, token : BOOLEAN, pw : 0 .. minted, late : BOOLEAN])
  /\ access \subseteq [session : DOMAIN sessions, ver : 0 .. MaxLogins]
  /\ recovery \in Seq([state : {"valid", "used", "expired"}, recent : BOOLEAN, uses : Nat,
                       pw : 0 .. minted, done : BOOLEAN])
  /\ mfa \in [secret : Nat, enabled : BOOLEAN] /\ device = mfa.secret
  /\ challenge \in [open : BOOLEAN, pw : 0 .. minted, late : BOOLEAN]
  /\ wrong \in 0 .. MaxLogins /\ lost \in BOOLEAN /\ over \in BOOLEAN
  /\ torn \subseteq DOMAIN recovery
  /\ \A c \in Logins : LET j == login[c] IN
       /\ j.op \in {"recover", "refresh"} <=> j.token # 0
       /\ j.op = "recover" => j.token \in DOMAIN recovery
       /\ j.op = "refresh" => j.token \in DOMAIN sessions
       /\ j.doc.pw \in 0 .. minted /\ j.listed \subseteq DOMAIN sessions
  /\ logins \in 0 .. MaxLogins

(* A recovery token is used once, though it is spent by the last write of  *)
(* RecoveryService.resetPassword and not by the first; and a finished      *)
(* recovery leaves no live session opened with an earlier password, but    *)
(* for a sign-in or a second-factor challenge that was under way when it   *)
(* revoked the user's sessions.  Sessions opened while revokeAllForUser    *)
(* runs are covered: its last update goes by the user and not by the list  *)
(* it read.  All of it unless two calls held the token at the same time or *)
(* one was cut short.                                                      *)
RecoveryHolds ==
  \A t \in DOMAIN recovery \ torn :
    /\ recovery[t].uses <= 1
    /\ recovery[t].done => \A s \in DOMAIN sessions :
         sessions[s].live => sessions[s].pw >= recovery[t].pw \/ sessions[s].late

(* MaxFailed wrong passwords with no right one between them lock the       *)
(* account, whatever else is saved in the meantime, unless one of them was *)
(* counted from a document that was no longer current (recordFailedLogin). *)
LockHolds == wrong >= MaxFailed /\ ~lost => account.lock = "future"

(* A password an administrator set must be changed at the next sign-in     *)
(* (rotatePassword), unless it was saved over a password set since the     *)
(* document was loaded.                                                    *)
TemporaryMustChange == account.pw \in temporary => account.mustChange \/ over

(* What resetPassword of the user administration says: "tokenVersion is    *)
(* bumped so existing sessions die immediately".  Once a reset is done, no *)
(* session opened with an earlier password has a usable access token.      *)
SessionsDie ==
  account.pw \in temporary /\ (\A c \in Logins : login[c].op # "reset") =>
    \A t \in access : sessions[t.session].live /\ t.ver = account.ver =>
      sessions[t.session].pw = account.pw
=============================================================================
