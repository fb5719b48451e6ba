---------------------------- MODULE ClientSession ----------------------------
(***************************************************************************)
(* Sessions and refresh tokens from both ends: the browser's single-flight *)
(* refresh (frontend/src/lib/axios.ts, AuthProvider.tsx), whose tabs share *)
(* one stored refresh token, and the backend's rotation with reuse         *)
(* detection (session.service.js), which reads and writes a token record   *)
(* in separate awaits.                                                     *)
(*                                                                         *)
(* A token record stands for a refresh token and the access token issued   *)
(* with it; it is named by its position in tokens, and 0 is no token.  A   *)
(* session has one rotation family, so the session names the family.       *)
(* Passwords, lockout, MFA, deactivated users, sign-out-all and the expiry *)
(* of refresh tokens are left out; a bump of a user's tokenVersion is an   *)
(* expiry of access tokens.                                                *)
(***************************************************************************)
EXTENDS Naturals, Sequences, FiniteSets

CONSTANTS
  Users, Sessions, Tabs,
  Calls,           \* API calls the pages may make
  Flights,         \* refreshes and sign-outs that can be under way at once
  Null,
  UserOf,          \* UserOf[s]: whose session s is
  MayReload,       \* may a page be reloaded?
  MayLose,         \* may an answer be lost on the way to the browser?
  MayIdle          \* may a session pass its inactivity window?

ASSUME SessionAssumption ==
  /\ Null \notin Users \cup Tabs \cup Flights
  /\ UserOf \in [Sessions -> Users]
  /\ {MayReload, MayLose, MayIdle} \subseteq BOOLEAN

VARIABLES
  session,   \* session[s]: "absent", "open", "idle" or "revoked"
  tokens,    \* refresh token records, oldest first
  flight,    \* flight[f]: a refresh or a sign-out at the server
  stored,    \* localStorage: the refresh token
  tab,       \* tab[b]: the memory of a page
  call,      \* call[c]: an API call
  leaving    \* observer: sessions whose user asked to sign out

vars == <<session, tokens, flight, stored, tab, call, leaving>>
server == <<session, tokens>>

TokenId == 0 .. Cardinality(Sessions) + 2 * Cardinality(Calls)
Token == [session : Sessions, used : BOOLEAN, revoked : BOOLEAN,
          expired : BOOLEAN]    \* expired: of the access token

Page == [access : TokenId, user : Users \cup {Null},
         promise : Flights \cup {Null}]
NewPage == [access |-> 0, user |-> Null, promise |-> Null]

Flight ==
  [kind : {"none", "refresh", "signout"},
   pc : {"none", "sent", "read", "marked", "ok", "failed"},
   tab : Tabs \cup {Null}, token : TokenId, seenUsed : BOOLEAN,
   new : TokenId]
NoFlight ==
  [kind |-> "none", pc |-> "none", tab |-> Null, token |-> 0,
   seenUsed |-> FALSE, new |-> 0]

(* by is the user the call was made for; a page that is booting asks who   *)
(* it is (GET /auth/session) for Null.                                     *)
Call ==
  [pc : {"idle", "sent", "refused", "waiting", "resent", "served",
         "rejected"},
   tab : Tabs \cup {Null}, by : Users \cup {Null}, access : TokenId]
NoCall == [pc |-> "idle", tab |-> Null, by |-> Null, access |-> 0]
Over == {"idle", "served", "rejected"}

Init ==
  /\ session = [s \in Sessions |-> "absent"]
  /\ tokens = <<>>
  /\ flight = [f \in Flights |-> NoFlight]
  /\ stored = 0
  /\ tab = [b \in Tabs |-> NewPage]
  /\ call = [c \in Calls |-> NoCall]
  /\ leaving = {}

----------------------------------------------------------------------------
(* The browser.                                                            *)

NewToken(s) == [session |-> s, used |-> FALSE, revoked |-> FALSE,
                expired |-> FALSE]
RefreshWith(t, b) ==
  [NoFlight EXCEPT !.kind = "refresh", !.pc = "sent", !.tab = b, !.token = t]

UnderWay(b) == {c \in Calls : call[c].tab = b /\ call[c].pc \notin Over}
Booting(b) == \E c \in UnderWay(b) : call[c].by = Null

(* What becomes of the calls and requests of a page that goes away: its    *)
(* code no longer runs, the server goes on with what it received.          *)
Abandoned(b) ==
  [c \in Calls |-> IF c \in UnderWay(b)
                   THEN [call[c] EXCEPT !.pc = "rejected"] ELSE call[c]]
Detached(b) ==
  [f \in Flights |-> IF flight[f].tab = b
                     THEN [flight[f] EXCEPT !.tab = Null] ELSE flight[f]]

(* AuthProvider.signIn, with AuthService.signIn and openSession.           *)
SignIn(b, s) ==
  /\ tab[b].user = Null /\ ~Booting(b) /\ session[s] = "absent"
  /\ session' = [session EXCEPT ![s] = "open"]
  /\ tokens' = Append(tokens, NewToken(s))
  /\ stored' = Len(tokens')
  /\ tab' = [tab EXCEPT ![b].access = Len(tokens'), ![b].user = UserOf[s]]
  /\ UNCHANGED <<flight, call, leaving>>

(* A page calls the API with the access token it holds in memory.          *)
StartCall(b, c) ==
  /\ tab[b].user # Null /\ call[c] = NoCall
  /\ call' = [call EXCEPT ![c] = [pc |-> "sent", tab |-> b,
                                  by |-> tab[b].user,
                                  access |-> tab[b].access]]
  /\ UNCHANGED <<server, flight, stored, tab, leaving>>

(* The response interceptor on a first 401 while a refresh is under way:   *)
(* wait for it.                                                            *)
JoinRefresh(c) ==
  /\ call[c].pc = "refused" /\ tab[call[c].tab].promise # Null
  /\ call' = [call EXCEPT ![c].pc = "waiting"]
  /\ UNCHANGED <<server, flight, stored, tab, leaving>>

(* Mutant of StartRefresh: every refused call refreshes for itself.        *)
StartRefreshAlone(c, f) ==
  LET b == call[c].tab IN
  /\ call[c].pc = "refused" /\ stored # 0
  /\ flight[f] = NoFlight
  /\ flight' = [flight EXCEPT ![f] = RefreshWith(stored, b)]
  /\ tab' = [tab EXCEPT ![b].promise = f]
  /\ call' = [call EXCEPT ![c].pc = "waiting"]
  /\ UNCHANGED <<server, stored, leaving>>

(* ... with none under way: start one with the stored token.               *)
StartRefresh(c, f) ==
  LET b == call[c].tab IN
  /\ call[c].pc = "refused" /\ tab[b].promise = Null /\ stored # 0
  /\ flight[f] = NoFlight
  /\ flight' = [flight EXCEPT ![f] = RefreshWith(stored, b)]
  /\ tab' = [tab EXCEPT ![b].promise = f]
  /\ call' = [call EXCEPT ![c].pc = "waiting"]
  /\ UNCHANGED <<server, stored, leaving>>

(* notifySessionExpired: the stored token is dropped and the page leaves   *)
(* for /login, which loads it anew.  f is the request whose failure led    *)
(* here, if any: its answer is spent when done says so.                    *)
SessionExpired(b, f, done) ==
  /\ stored' = 0
  /\ tab' = [tab EXCEPT ![b] = NewPage]
  /\ call' = Abandoned(b)
  /\ flight' = IF done THEN [Detached(b) EXCEPT ![f] = NoFlight]
               ELSE Detached(b)

(* A first 401 with no refresh under way and no token stored.              *)
RefuseSignedOut(c) ==
  LET b == call[c].tab IN
  /\ call[c].pc = "refused" /\ tab[b].promise = Null /\ stored = 0
  /\ SessionExpired(b, Null, FALSE)
  /\ UNCHANGED <<server, leaving>>

(* The calls that waited for the refresh go out again with its token; the  *)
(* session call of a booting page goes out for the first time.             *)
Resent(b, t) ==
  [c \in Calls |->
     IF c \in UnderWay(b) /\ call[c].pc = "waiting"
     THEN [call[c] EXCEPT !.access = t,
             !.pc = IF call[c].access = 0 THEN "sent" ELSE "resent"]
     ELSE call[c]]

ReceiveRefreshed(f) ==
  LET b == flight[f].tab
      t == flight[f].new
  IN
  /\ flight[f].kind = "refresh" /\ flight[f].pc = "ok" /\ b # Null
  /\ stored' = t
  /\ tab' = [tab EXCEPT ![b].access = t, ![b].promise = Null]
  /\ call' = Resent(b, t)
  /\ flight' = [flight EXCEPT ![f] = NoFlight]
  /\ UNCHANGED <<server, leaving>>

(* Mutant of RefreshFails: the promise is cleared and nobody is told.      *)
RefreshFailsQuietly(f, done) ==
  LET b == flight[f].tab IN
  /\ flight[f].kind = "refresh" /\ b # Null
  /\ done => flight[f].pc = "failed"
  /\ ~done => MayLose
  /\ tab' = [tab EXCEPT ![b].promise = Null]
  /\ flight' = [flight EXCEPT ![f] = IF done THEN NoFlight
                                     ELSE [@ EXCEPT !.tab = Null]]
  /\ UNCHANGED <<server, stored, call, leaving>>

(* The refresh was refused, or (done = FALSE) its answer never arrives:    *)
(* either way refreshAccessToken gives null and the session has expired.   *)
RefreshFails(f, done) ==
  /\ flight[f].kind = "refresh" /\ flight[f].tab # Null
  /\ done => flight[f].pc = "failed"
  /\ ~done => MayLose
  /\ SessionExpired(flight[f].tab, f, done)
  /\ UNCHANGED <<server, leaving>>

(* A second 401: the caller gets the error.  A booting page gives up.      *)
Reject(c) ==
  LET b == call[c].tab IN
  /\ call' = [call EXCEPT ![c].pc = "rejected"]
  /\ IF call[c].by = Null
     THEN /\ stored' = 0
          /\ tab' = [tab EXCEPT ![b].access = 0]
     ELSE UNCHANGED <<stored, tab>>

(* AuthProvider.signOut asks the server, then clears the page whatever the *)
(* answer (clearAuth).  A refresh under way stays under way.               *)
SignOut(b, f) ==
  /\ tab[b].user # Null /\ stored # 0 /\ flight[f] = NoFlight
  /\ flight' = [flight EXCEPT ![f] =
                  [RefreshWith(stored, b) EXCEPT !.kind = "signout"]]
  /\ leaving' = leaving \cup {tokens[stored].session}
  /\ UNCHANGED <<server, stored, tab, call>>

ClearAuth(b) ==
  /\ stored' = 0
  /\ tab' = [tab EXCEPT ![b].access = 0, ![b].user = Null]

SignedOut(f, done) ==
  LET b == flight[f].tab IN
  /\ flight[f].kind = "signout" /\ b # Null
  /\ done => flight[f].pc \in {"ok", "failed"}
  /\ ~done => MayLose
  /\ ClearAuth(b)
  /\ flight' = [flight EXCEPT ![f] = IF done THEN NoFlight
                                     ELSE [@ EXCEPT !.tab = Null]]
  /\ UNCHANGED <<server, call, leaving>>

(* Sign-out with no token stored (another tab dropped it).                 *)
SignOutLocally(b) ==
  /\ tab[b].user # Null /\ stored = 0
  /\ ClearAuth(b)
  /\ UNCHANGED <<server, flight, call, leaving>>

(* A page is loaded anew and, with a token stored, restores its session:   *)
(* a refresh, then GET /auth/session as call c.                            *)
Reload(b, c, f) ==
  /\ MayReload /\ stored # 0 /\ call[c] = NoCall /\ flight[f] = NoFlight
  /\ tab' = [tab EXCEPT ![b] = [NewPage EXCEPT !.promise = f]]
  /\ flight' = [Detached(b) EXCEPT ![f] = RefreshWith(stored, b)]
  /\ call' = [Abandoned(b) EXCEPT ![c] = [NoCall EXCEPT !.pc = "waiting",
                                                         !.tab = b]]
  /\ UNCHANGED <<server, stored, leaving>>

----------------------------------------------------------------------------
(* The server.                                                             *)

(* authenticate: the access token and the session it names.                *)
Accepted(t) ==
  t # 0 /\ ~tokens[t].expired /\ session[tokens[t].session] = "open"

Serve(c) ==
  LET b == call[c].tab IN
  /\ call[c].pc \in {"sent", "resent"} /\ Accepted(call[c].access)
  /\ call' = [call EXCEPT ![c].pc = "served"]
  /\ tab' = IF call[c].by = Null
            THEN [tab EXCEPT ![b].user =
                    UserOf[tokens[call[c].access].session]]
            ELSE tab
  /\ UNCHANGED <<server, flight, stored, leaving>>

Refuse(c) ==
  /\ call[c].pc \in {"sent", "resent"} /\ ~Accepted(call[c].access)
  /\ IF call[c].pc = "sent"
     THEN /\ call' = [call EXCEPT ![c].pc = "refused"]
          /\ UNCHANGED <<stored, tab>>
     ELSE Reject(c)
  /\ UNCHANGED <<server, flight, leaving>>

(* validateRefreshToken, the first await of a rotation and of a sign-out.  *)
Validate(f) ==
  LET t == tokens[flight[f].token] IN
  /\ flight[f].pc = "sent"
  /\ flight' = [flight EXCEPT ![f].pc = IF t.revoked THEN "failed" ELSE "read",
                              ![f].seenUsed = t.used]
  /\ UNCHANGED <<server, stored, tab, call, leaving>>

Family(s) == {t \in DOMAIN tokens : tokens[t].session = s}
RevokeAll(s) == [t \in DOMAIN tokens |->
                   IF t \in Family(s) THEN [tokens[t] EXCEPT !.revoked = TRUE]
                   ELSE tokens[t]]

(* Mutant of MarkUsed: usedAt is set on the record and never saved.        *)
MarkUsedUnsaved(f) ==
  LET t == flight[f].token IN
  /\ flight[f].kind = "refresh" /\ flight[f].pc = "read"
  /\ IF flight[f].seenUsed
     THEN /\ tokens' = RevokeAll(tokens[t].session)
          /\ flight' = [flight EXCEPT ![f].pc = "failed"]
     ELSE /\ UNCHANGED tokens
          /\ flight' = [flight EXCEPT ![f].pc = "marked"]
  /\ UNCHANGED <<session, stored, tab, call, leaving>>

(* markUsed on the record as it was read; a token seen used revokes its    *)
(* family.                                                                 *)
MarkUsed(f) ==
  LET t == flight[f].token IN
  /\ flight[f].kind = "refresh" /\ flight[f].pc = "read"
  /\ IF flight[f].seenUsed
     THEN /\ tokens' = RevokeAll(tokens[t].session)
          /\ flight' = [flight EXCEPT ![f].pc = "failed"]
     ELSE /\ tokens' = [tokens EXCEPT ![t].used = TRUE]
          /\ flight' = [flight EXCEPT ![f].pc = "marked"]
  /\ UNCHANGED <<session, stored, tab, call, leaving>>

(* The next token of the family, and touchActivity, which looks at nothing *)
(* of the session.                                                         *)
IssueNext(f) ==
  LET s == tokens[flight[f].token].session IN
  /\ flight[f].kind = "refresh" /\ flight[f].pc = "marked"
  /\ tokens' = Append(tokens, NewToken(s))
  /\ session' = [session EXCEPT ![s] = IF @ = "idle" THEN "open" ELSE @]
  /\ flight' = [flight EXCEPT ![f].pc = "ok", ![f].new = Len(tokens')]
  /\ UNCHANGED <<stored, tab, call, leaving>>

(* revokeSession: the session first, then its refresh tokens.              *)
RevokeSession(f) ==
  /\ flight[f].kind = "signout" /\ flight[f].pc = "read"
  /\ session' = [session EXCEPT ![tokens[flight[f].token].session] = "revoked"]
  /\ flight' = [flight EXCEPT ![f].pc = "marked"]
  /\ UNCHANGED <<tokens, stored, tab, call, leaving>>

RevokeTokens(f) ==
  /\ flight[f].kind = "signout" /\ flight[f].pc = "marked"
  /\ tokens' = RevokeAll(tokens[flight[f].token].session)
  /\ flight' = [flight EXCEPT ![f].pc = "ok"]
  /\ UNCHANGED <<session, stored, tab, call, leaving>>

(* Nobody waits for the answer any more.                                   *)
DropAnswer(f) ==
  /\ flight[f].pc \in {"ok", "failed"} /\ flight[f].tab = Null
  /\ flight' = [flight EXCEPT ![f] = NoFlight]
  /\ UNCHANGED <<server, stored, tab, call, leaving>>

ExpireAccess(t) ==
  /\ t \in DOMAIN tokens /\ ~tokens[t].expired
  /\ tokens' = [tokens EXCEPT ![t].expired = TRUE]
  /\ UNCHANGED <<session, flight, stored, tab, call, leaving>>

GoIdle(s) ==
  /\ MayIdle /\ session[s] = "open"
  /\ session' = [session EXCEPT ![s] = "idle"]
  /\ UNCHANGED <<tokens, flight, stored, tab, call, leaving>>

----------------------------------------------------------------------------
UserStep ==
  \/ \E b \in Tabs, s \in Sessions : SignIn(b, s)
  \/ \E b \in Tabs, c \in Calls : StartCall(b, c)
  \/ \E b \in Tabs, f \in Flights : SignOut(b, f)
  \/ \E b \in Tabs : SignOutLocally(b)
  \/ \E b \in Tabs, c \in Calls, f \in Flights : Reload(b, c, f)

CallStep(c) ==
  \/ Serve(c) \/ Refuse(c) \/ JoinRefresh(c) \/ RefuseSignedOut(c)
  \/ \E f \in Flights : StartRefresh(c, f)

FlightStep(f) ==
  \/ Validate(f) \/ MarkUsed(f) \/ IssueNext(f)
  \/ RevokeSession(f) \/ RevokeTokens(f) \/ DropAnswer(f)
  \/ ReceiveRefreshed(f) \/ RefreshFails(f, TRUE) \/ SignedOut(f, TRUE)

Clock ==
  \/ \E t \in TokenId : ExpireAccess(t)
  \/ \E s \in Sessions : GoIdle(s)
Loss == \E f \in Flights : RefreshFails(f, FALSE) \/ SignedOut(f, FALSE)

Next ==
  \/ UserStep \/ Clock \/ Loss
  \/ \E c \in Calls : CallStep(c)
  \/ \E f \in Flights : FlightStep(f)

Spec == Init /\ [][Next]_vars

(* The server and the browser's event loop go on; users and clocks need    *)
(* not.                                                                    *)
FairSpec ==
  /\ Spec
  /\ \A c \in Calls : WF_vars(CallStep(c))
  /\ \A f \in Flights : WF_vars(FlightStep(f))

----------------------------------------------------------------------------
TypeOK ==
  /\ session \in [Sessions -> {"absent", "open", "idle", "revoked"}]
  /\ \A t \in DOMAIN tokens : t \in TokenId /\ tokens[t] \in Token
  /\ flight \in [Flights -> Flight]
  /\ stored \in TokenId
  /\ tab \in [Tabs -> Page]
  /\ call \in [Calls -> Call]
  /\ leaving \subseteq Sessions

(* Reuse detection never fires on the browser's own requests: the refresh  *)
(* tokens of a session are revoked only after its user asked to sign out   *)
(* (session.service.js rotateRefreshToken against axios.ts                 *)
(* refreshAccessToken).                                                    *)
RevokedOnlyBySignOut ==
  \A t \in DOMAIN tokens : tokens[t].revoked => tokens[t].session \in leaving

(* Server and browser stay in step: a session has at most one refresh      *)
(* token that could still be rotated (session.service.js                   *)
(* rotateRefreshToken: use, then issue), ...                               *)
OneLiveToken ==
  \A s \in Sessions :
    Cardinality({t \in Family(s) : ~tokens[t].used /\ ~tokens[t].revoked}) <= 1

(* ... and the browser never keeps a spent one: the token in localStorage  *)
(* is unused, or the refresh that spends it is under way and its answer    *)
(* awaited (axios.ts refreshAccessToken, setRefreshToken).                 *)
StoredIsFresh ==
  stored # 0 /\ tokens[stored].used =>
    \E f \in Flights :
      flight[f].kind = "refresh" /\ flight[f].token = stored /\ flight[f].tab # Null

TokensInStep == OneLiveToken /\ StoredIsFresh

(* Every call a page makes ends, with an answer or an error, whatever      *)
(* becomes of the refresh it waits for (axios.ts response interceptor).    *)
CallEnds ==
  \A c \in Calls :
    call[c].pc \in {"sent", "refused", "waiting", "resent"} ~> call[c].pc \in Over
=============================================================================
