------------------------ MODULE ClientSessionProofs ------------------------
(***************************************************************************)
(* Proofs about the rotation of refresh tokens, for any numbers of users,  *)
(* sessions, calls and requests under way, in a browser with one page that *)
(* is not loaded anew: reuse detection never fires on its own requests, a  *)
(* session has one token that can still be rotated, and the browser holds  *)
(* it.  With two tabs, or a reload in the middle of a refresh, this is     *)
(* not so: they share a stored token and spend it twice.                   *)
(***************************************************************************)
EXTENDS ClientSession, FiniteSetTheorems, SequenceTheorems, TLAPS

FlightDoc ==
  [kind : {"none", "refresh", "signout"},
   pc : {"none", "sent", "read", "marked", "ok", "failed"},
   tab : Tabs \cup {Null}, token : Nat, seenUsed : BOOLEAN, new : Nat]
PageDoc == [access : Nat, user : Users \cup {Null}, promise : Flights \cup {Null}]
CallDoc ==
  [pc : {"idle", "sent", "refused", "waiting", "resent", "served", "rejected"},
   tab : Tabs \cup {Null}, by : Users \cup {Null}, access : Nat]

ClientType ==
  /\ session \in [Sessions -> {"absent", "open", "idle", "revoked"}]
  /\ tokens \in Seq(Token)
  /\ flight \in [Flights -> FlightDoc]
  /\ stored \in Nat
  /\ tab \in [Tabs -> PageDoc]
  /\ call \in [Calls -> CallDoc]
  /\ leaving \subseteq Sessions

(* Every call is one of a page that is in use.                             *)
CallsPlaced ==
  \A c \in Calls : call[c].pc # "idle" => call[c].tab \in Tabs /\ call[c].by \in Users

Refreshing(f) == flight[f].kind = "refresh"

(* A page awaits its promise, and no other refresh.                        *)
Awaiting ==
  \A b \in Tabs, f \in Flights :
    Refreshing(f) /\ flight[f].tab = b <=> tab[b].promise = f

(* A refresh has a token nobody else spends, and after its issue the next  *)
(* one, which nobody has used or stored.                                   *)
RefreshFits(f) ==
  LET t == flight[f].token IN
  /\ t \in DOMAIN tokens /\ flight[f].pc # "none"
  /\ flight[f].pc = "sent" => ~tokens[t].used
  /\ flight[f].pc = "read" => ~tokens[t].used /\ ~flight[f].seenUsed
  /\ flight[f].pc = "marked" =>
       \A u \in DOMAIN tokens : tokens[u].session = tokens[t].session => tokens[u].used
  /\ flight[f].pc = "ok" =>
       /\ flight[f].new \in DOMAIN tokens /\ ~tokens[flight[f].new].used
       /\ flight[f].new # stored
       /\ \A g \in Flights : Refreshing(g) => flight[g].token # flight[f].new

FlightsFit ==
  \A f \in Flights :
    /\ Refreshing(f) => RefreshFits(f)
    /\ flight[f].kind = "none" => flight[f].pc = "none"
    /\ flight[f].kind = "signout" =>
         flight[f].token \in DOMAIN tokens /\ tokens[flight[f].token].session \in leaving

(* Two refreshes have nothing in common.                                   *)
FlightsApart ==
  \A f, g \in Flights : f # g /\ Refreshing(f) /\ Refreshing(g) =>
    /\ flight[f].token # flight[g].token
    /\ flight[f].pc = "ok" /\ flight[g].pc = "ok" => flight[f].new # flight[g].new
    /\ flight[f].pc = "marked" /\ flight[g].pc = "marked" =>
         tokens[flight[f].token].session # tokens[flight[g].token].session

(* The stored token is spent, if at all, by a refresh that is awaited.     *)
StoredFits ==
  stored # 0 =>
    /\ stored \in DOMAIN tokens
    /\ \A f \in Flights : Refreshing(f) /\ flight[f].token = stored => flight[f].tab # Null
    /\ tokens[stored].used =>
         \E f \in Flights : Refreshing(f) /\ flight[f].token = stored

(* A session has one token that was not used.                              *)
TokensFit ==
  /\ \A t \in DOMAIN tokens : session[tokens[t].session] # "absent"
  /\ \A t, u \in DOMAIN tokens :
       tokens[t].session = tokens[u].session /\ ~tokens[t].used /\ ~tokens[u].used => t = u

ClientInv ==
  /\ ClientType /\ CallsPlaced /\ Awaiting /\ FlightsFit /\ FlightsApart
  /\ StoredFits /\ TokensFit /\ RevokedOnlyBySignOut

OnePage == (\A a, b \in Tabs : a = b) /\ MayReload = FALSE

----------------------------------------------------------------------------
(* What a step may do to the tokens without concerning anybody's refresh.  *)
TokensKept ==
  /\ tokens' \in Seq(Token) /\ DOMAIN tokens' = DOMAIN tokens
  /\ \A t \in DOMAIN tokens :
       /\ tokens'[t].session = tokens[t].session /\ tokens'[t].used = tokens[t].used
       /\ tokens'[t].revoked => tokens[t].revoked \/ tokens[t].session \in leaving'

LEMMA TokenIs ==
  ASSUME ClientInv, NEW t \in DOMAIN tokens
  PROVE  tokens[t] \in Token /\ t \in Nat /\ t # 0 /\ tokens[t].session \in Sessions
<1>1. tokens \in Seq(Token)
  BY DEF ClientInv, ClientType
<1>2. t \in 1 .. Len(tokens) /\ Len(tokens) \in Nat
  BY <1>1, LenProperties
<1>3. tokens[t] \in Token
  BY <1>1, <1>2, ElementOfSeq
<1>4. t \in Nat /\ t # 0
  BY <1>2
<1> QED
  BY <1>3, <1>4 DEF Token

(* A bulk update of the tokens.                                            *)
LEMMA TokensMapped ==
  ASSUME ClientInv, NEW m, DOMAIN m = DOMAIN tokens, m = [t \in DOMAIN tokens |-> m[t]],
         \A t \in DOMAIN tokens : m[t] \in Token
  PROVE  m \in Seq(Token)
<1>1. tokens \in Seq(Token)
  BY DEF ClientInv, ClientType
<1>2. DOMAIN tokens = 1 .. Len(tokens) /\ Len(tokens) \in Nat
  BY <1>1, LenProperties
<1>3. m \in [1 .. Len(tokens) -> Token]
  BY <1>2
<1> QED
  BY <1>2, <1>3, SeqDef

LEMMA FlightIs ==
  ASSUME ClientInv, NEW f \in Flights
  PROVE  /\ flight[f] \in FlightDoc
         /\ Refreshing(f) => RefreshFits(f)
BY DEF ClientInv, ClientType, FlightsFit

LEMMA NoFlightIs ==
  /\ NoFlight \in FlightDoc /\ NoFlight.kind = "none" /\ NoFlight.pc = "none"
  /\ NoFlight.tab = Null
BY DEF NoFlight, FlightDoc

LEMMA NewPageIs ==
  NewPage \in PageDoc /\ NewPage.promise = Null
BY DEF NewPage, PageDoc

LEMMA TokensUnchanged ==
  ASSUME ClientInv, UNCHANGED tokens
  PROVE  TokensKept
BY DEF ClientInv, ClientType, TokensKept

(* The tokens are as they were, but for some that are revoked rightly.     *)
LEMMA TokensKeptFit ==
  ASSUME ClientInv, TokensKept, leaving \subseteq leaving',
         \A s \in Sessions : session'[s] = "absent" => session[s] = "absent"
  PROVE  TokensFit' /\ RevokedOnlyBySignOut'
<1>1. TokensFit'
  <2>1. \A t \in DOMAIN tokens' : session'[tokens'[t].session] # "absent"
    BY TokenIs DEF ClientInv, TokensFit, TokensKept
  <2> QED
    BY <2>1 DEF ClientInv, TokensFit, TokensKept
<1>2. RevokedOnlyBySignOut'
  BY DEF ClientInv, RevokedOnlyBySignOut, TokensKept
<1> QED
  BY <1>1, <1>2

(* A step of a page or of the server that moves no refresh.                *)
LEMMA QuietKeeps ==
  ASSUME ClientInv, ClientType', CallsPlaced', TokensKept, UNCHANGED flight,
         stored' = stored \/ stored' = 0,
         \A b \in Tabs : tab'[b].promise = tab[b].promise,
         \A s \in Sessions : session'[s] = "absent" => session[s] = "absent",
         leaving \subseteq leaving'
  PROVE  ClientInv'
<1>1. TokensFit' /\ RevokedOnlyBySignOut'
  BY TokensKeptFit
<1>2. Awaiting'
  BY DEF ClientInv, Awaiting, Refreshing
<1>3. \A f \in Flights : Refreshing(f) => RefreshFits(f)'
  <2> SUFFICES ASSUME NEW f \in Flights, Refreshing(f)
               PROVE  RefreshFits(f)'
    OBVIOUS
  <2>1. RefreshFits(f)
    BY FlightIs
  <2>2. flight[f].pc = "ok" => flight[f].new # stored'
    BY <2>1, TokenIs DEF RefreshFits
  <2> QED
    BY <2>1, <2>2 DEF RefreshFits, TokensKept, Refreshing
<1>4. FlightsFit'
  BY <1>3 DEF ClientInv, FlightsFit, Refreshing, TokensKept
<1>5. FlightsApart'
  <2> SUFFICES ASSUME NEW f \in Flights, NEW g \in Flights, f # g, Refreshing(f), Refreshing(g)
               PROVE  /\ flight[f].token # flight[g].token
                      /\ flight[f].pc = "ok" /\ flight[g].pc = "ok" =>
                           flight[f].new # flight[g].new
                      /\ flight[f].pc = "marked" /\ flight[g].pc = "marked" =>
                           tokens'[flight[f].token].session # tokens'[flight[g].token].session
    BY DEF FlightsApart, Refreshing
  <2>1. flight[f].token \in DOMAIN tokens /\ flight[g].token \in DOMAIN tokens
    BY FlightIs DEF RefreshFits
  <2> QED
    BY <2>1 DEF ClientInv, FlightsApart, TokensKept
<1>6. StoredFits'
  BY DEF ClientInv, StoredFits, TokensKept, Refreshing
<1> QED
  BY <1>1, <1>2, <1>4, <1>5, <1>6 DEF ClientInv

(* A call moves on in the page it is of.                                   *)
LEMMA CallMoves ==
  ASSUME ClientInv, NEW c \in Calls, NEW k \in CallDoc, call' = [call EXCEPT ![c] = k],
         k.pc # "idle" => k.tab \in Tabs /\ k.by \in Users
  PROVE  call' \in [Calls -> CallDoc] /\ CallsPlaced'
<1>1. \A d \in Calls : call'[d] = IF d = c THEN k ELSE call[d]
  BY DEF ClientInv, ClientType
<1> QED
  BY <1>1 DEF ClientInv, ClientType, CallsPlaced

LEMMA CallPc ==
  ASSUME ClientInv, NEW c \in Calls, call[c].pc # "idle",
         NEW pc \in {"sent", "refused", "waiting", "resent", "served", "rejected"},
         call' = [call EXCEPT ![c].pc = pc]
  PROVE  call' \in [Calls -> CallDoc] /\ CallsPlaced'
<1>1. PICK k : k = [call[c] EXCEPT !.pc = pc]
  OBVIOUS
<1>2. k \in CallDoc /\ k.tab = call[c].tab /\ k.by = call[c].by
  BY <1>1 DEF ClientInv, ClientType, CallDoc
<1>3. call' = [call EXCEPT ![c] = k]
  BY <1>1
<1> QED
  BY <1>2, <1>3, CallMoves DEF ClientInv, CallsPlaced

(* A step that is a call's alone.                                          *)
LEMMA CallAlone ==
  ASSUME ClientInv, call' \in [Calls -> CallDoc], CallsPlaced',
         UNCHANGED <<session, tokens, flight, stored, tab, leaving>>
  PROVE  ClientInv'
<1>1. ClientType'
  BY DEF ClientInv, ClientType
<1>2. TokensKept
  BY TokensUnchanged
<1> QED
  BY <1>1, <1>2, QuietKeeps

LEMMA StartCallKeeps ==
  ASSUME ClientInv, NEW b \in Tabs, NEW c \in Calls, StartCall(b, c)
  PROVE  ClientInv'
<1>1. PICK k : k = [pc |-> "sent", tab |-> b, by |-> tab[b].user, access |-> tab[b].access]
  OBVIOUS
<1>2. k \in CallDoc /\ k.tab = b /\ k.by \in Users
  <2>1. tab[b] \in PageDoc /\ tab[b].user # Null
    BY DEF StartCall, ClientInv, ClientType
  <2> QED
    BY <1>1, <2>1 DEF CallDoc, PageDoc
<1>3. call' = [call EXCEPT ![c] = k]
      /\ UNCHANGED <<session, tokens, flight, stored, tab, leaving>>
  BY <1>1 DEF StartCall, server
<1> QED
  BY <1>2, <1>3, CallMoves, CallAlone

LEMMA JoinRefreshKeeps ==
  ASSUME ClientInv, NEW c \in Calls, JoinRefresh(c)
  PROVE  ClientInv'
<1>1. /\ call[c].pc # "idle" /\ call' = [call EXCEPT ![c].pc = "waiting"]
      /\ UNCHANGED <<session, tokens, flight, stored, tab, leaving>>
  BY DEF JoinRefresh, server
<1> QED
  BY <1>1, CallPc, CallAlone

(* No call is one of a page that is booting: none is loaded anew.          *)
LEMMA ServeKeeps ==
  ASSUME ClientInv, NEW c \in Calls, Serve(c) \/ Refuse(c)
  PROVE  ClientInv'
<1>1. call[c].pc # "idle" /\ call[c].by # Null
  BY SessionAssumption DEF Serve, Refuse, ClientInv, CallsPlaced
<1>2. UNCHANGED <<session, tokens, flight, stored, tab, leaving>>
  BY <1>1 DEF Serve, Refuse, Reject, server
<1>3. CASE Serve(c)
  BY <1>1, <1>2, <1>3, CallPc, CallAlone DEF Serve
<1>4. CASE Refuse(c) /\ call[c].pc = "sent"
  BY <1>1, <1>2, <1>4, CallPc, CallAlone DEF Refuse
<1>5. CASE Refuse(c) /\ call[c].pc # "sent"
  BY <1>1, <1>2, <1>5, CallPc, CallAlone DEF Refuse, Reject
<1> QED
  BY <1>3, <1>4, <1>5

(* clearAuth leaves the promise of the page alone.                         *)
LEMMA ClearAuthIs ==
  ASSUME ClientInv, NEW b \in Tabs, ClearAuth(b)
  PROVE  /\ stored' = 0 /\ tab' \in [Tabs -> PageDoc]
         /\ \A d \in Tabs : tab'[d].promise = tab[d].promise
<1>1. tab[b] \in PageDoc
  BY DEF ClientInv, ClientType
<1>2. PICK page : page = [tab[b] EXCEPT !.access = 0, !.user = Null]
  OBVIOUS
<1>3. page \in PageDoc /\ page.promise = tab[b].promise
  BY <1>1, <1>2 DEF PageDoc
<1>4. tab' = [tab EXCEPT ![b] = page] /\ stored' = 0
  BY <1>2 DEF ClearAuth, ClientInv, ClientType
<1> QED
  BY <1>3, <1>4 DEF ClientInv, ClientType

LEMMA SignOutLocallyKeeps ==
  ASSUME ClientInv, NEW b \in Tabs, SignOutLocally(b)
  PROVE  ClientInv'
<1>1. /\ stored' = 0 /\ tab' \in [Tabs -> PageDoc]
      /\ \A d \in Tabs : tab'[d].promise = tab[d].promise
  BY ClearAuthIs DEF SignOutLocally
<1>2. UNCHANGED <<session, tokens, flight, call, leaving>>
  BY DEF SignOutLocally, server
<1>3. ClientType' /\ CallsPlaced' /\ TokensKept
  BY <1>1, <1>2, TokensUnchanged DEF ClientInv, ClientType, CallsPlaced
<1> QED
  BY <1>1, <1>2, <1>3, QuietKeeps

(* The clocks.                                                             *)
LEMMA ExpireAccessKeeps ==
  ASSUME ClientInv, NEW t, ExpireAccess(t)
  PROVE  ClientInv'
<1>1. /\ t \in DOMAIN tokens /\ tokens' = [tokens EXCEPT ![t].expired = TRUE]
      /\ UNCHANGED <<session, flight, stored, tab, call, leaving>>
  BY DEF ExpireAccess
<1>2. PICK m : m = tokens'
  OBVIOUS
<1>3. /\ DOMAIN m = DOMAIN tokens /\ m = [u \in DOMAIN tokens |-> m[u]]
      /\ \A u \in DOMAIN tokens :
           m[u] = IF u = t THEN [tokens[u] EXCEPT !.expired = TRUE] ELSE tokens[u]
  BY <1>1, <1>2
<1>4. \A u \in DOMAIN tokens :
        /\ m[u] \in Token /\ m[u].session = tokens[u].session /\ m[u].used = tokens[u].used
        /\ m[u].revoked = tokens[u].revoked
  BY <1>3, TokenIs, ZenonT(60) DEF Token
<1>5. m \in Seq(Token)
  BY <1>3, <1>4, TokensMapped
<1>6. TokensKept
  BY <1>2, <1>3, <1>4, <1>5 DEF TokensKept
<1>7. ClientType' /\ CallsPlaced'
  BY <1>1, <1>2, <1>5 DEF ClientInv, ClientType, CallsPlaced
<1> QED
  BY <1>1, <1>6, <1>7, QuietKeeps

LEMMA GoIdleKeeps ==
  ASSUME ClientInv, NEW s \in Sessions, GoIdle(s)
  PROVE  ClientInv'
<1>1. /\ session' = [session EXCEPT ![s] = "idle"]
      /\ UNCHANGED <<tokens, flight, stored, tab, call, leaving>>
  BY DEF GoIdle
<1>2. ClientType' /\ CallsPlaced' /\ TokensKept
  BY <1>1, TokensUnchanged DEF ClientInv, ClientType, CallsPlaced
<1>3. \A o \in Sessions : session'[o] = "absent" => session[o] = "absent"
  BY <1>1 DEF ClientInv, ClientType
<1> QED
  BY <1>1, <1>2, <1>3, QuietKeeps

(* Moving one flight on, or ending it: the others need not know.           *)
LEMMA FlightMovesKeep ==
  ASSUME ClientInv, NEW f \in Flights, NEW r \in FlightDoc,
         flight' = [flight EXCEPT ![f] = r],
         ClientType', CallsPlaced', Awaiting', TokensKept,
         \A s \in Sessions : session'[s] = "absent" => session[s] = "absent",
         leaving \subseteq leaving',
         \/ r.kind # "refresh" /\ (Refreshing(f) => stored' = 0 \/ flight[f].tab = Null)
         \/ /\ Refreshing(f) /\ r.kind = "refresh" /\ r.token = flight[f].token
            /\ r.tab = flight[f].tab /\ r.pc \in {"read", "failed"}
            /\ r.pc = "read" => ~tokens[r.token].used /\ ~r.seenUsed,
         r.kind = "none" => r.pc = "none",
         r.kind = "signout" =>
           r.token \in DOMAIN tokens /\ tokens[r.token].session \in leaving',
         stored' = stored \/ stored' = 0
  PROVE  ClientInv'
<1>1. \A g \in Flights : flight'[g] = IF g = f THEN r ELSE flight[g]
  BY DEF ClientInv, ClientType
<1>2. TokensFit' /\ RevokedOnlyBySignOut'
  BY TokensKeptFit
<1>3. \A g \in Flights : Refreshing(g)' =>
        /\ Refreshing(g) /\ flight'[g].token = flight[g].token
        /\ flight'[g].tab = flight[g].tab
        /\ \/ flight'[g] = flight[g]
           \/ g = f /\ flight'[g].pc \in {"read", "failed"}
  BY <1>1 DEF Refreshing
<1>4. ASSUME NEW g \in Flights, Refreshing(g)'
      PROVE  RefreshFits(g)'
  <2>1. RefreshFits(g) /\ Refreshing(g)
    BY <1>3, <1>4, FlightIs
  <2>2. CASE g = f
    <3>1. /\ flight'[g] = r /\ r.token = flight[g].token /\ r.pc \in {"read", "failed"}
          /\ r.pc = "read" => ~tokens[r.token].used /\ ~r.seenUsed
      BY <1>1, <1>4, <2>2 DEF Refreshing
    <3> QED
      BY <2>1, <3>1 DEF RefreshFits, TokensKept
  <2>3. CASE g # f
    <3>1. flight'[g] = flight[g]
      BY <1>1, <2>3
    <3>2. flight[g].pc = "ok" => flight[g].new # stored'
      BY <2>1, TokenIs DEF RefreshFits
    <3>3. flight[g].pc = "ok" =>
            \A h \in Flights : Refreshing(h)' => flight'[h].token # flight[g].new
      BY <1>3, <2>1 DEF RefreshFits
    <3> QED
      BY <2>1, <3>1, <3>2, <3>3 DEF RefreshFits, TokensKept
  <2> QED
    BY <2>2, <2>3
<1>5. FlightsFit'
  <2>1. ASSUME NEW g \in Flights, flight'[g].kind = "signout"
        PROVE  flight'[g].token \in DOMAIN tokens'
               /\ tokens'[flight'[g].token].session \in leaving'
    BY <1>1, <2>1 DEF ClientInv, FlightsFit, TokensKept
  <2>2. \A g \in Flights : flight'[g].kind = "none" => flight'[g].pc = "none"
    BY <1>1 DEF ClientInv, FlightsFit
  <2> QED
    BY <1>4, <2>1, <2>2 DEF FlightsFit
<1>6. FlightsApart'
  <2> SUFFICES ASSUME NEW g \in Flights, NEW h \in Flights, g # h,
                      Refreshing(g)', Refreshing(h)'
               PROVE  /\ flight'[g].token # flight'[h].token
                      /\ flight'[g].pc = "ok" /\ flight'[h].pc = "ok" =>
                           flight'[g].new # flight'[h].new
                      /\ flight'[g].pc = "marked" /\ flight'[h].pc = "marked" =>
                           tokens'[flight'[g].token].session # tokens'[flight'[h].token].session
    BY DEF FlightsApart
  <2>1. /\ Refreshing(g) /\ flight'[g].token = flight[g].token
        /\ Refreshing(h) /\ flight'[h].token = flight[h].token
    BY <1>3
  <2>2. flight'[g].pc \in {"ok", "marked"} => flight'[g] = flight[g]
    BY <1>3
  <2>3. flight'[h].pc \in {"ok", "marked"} => flight'[h] = flight[h]
    BY <1>3
  <2>4. flight[g].token \in DOMAIN tokens /\ flight[h].token \in DOMAIN tokens
    BY <2>1, FlightIs DEF RefreshFits
  <2>5. tokens'[flight[g].token].session = tokens[flight[g].token].session
        /\ tokens'[flight[h].token].session = tokens[flight[h].token].session
    BY <2>4 DEF TokensKept
  <2> QED
    BY <2>1, <2>2, <2>3, <2>5 DEF ClientInv, FlightsApart
<1>7. StoredFits'
  <2> SUFFICES ASSUME stored' # 0
               PROVE  /\ stored' \in DOMAIN tokens'
                      /\ \A g \in Flights :
                           Refreshing(g)' /\ flight'[g].token = stored' => flight'[g].tab # Null
                      /\ tokens'[stored'].used =>
                           \E g \in Flights : Refreshing(g)' /\ flight'[g].token = stored'
    BY DEF StoredFits
  <2>1. stored' = stored /\ stored \in DOMAIN tokens /\ stored # 0
    BY DEF ClientInv, StoredFits
  <2>2. \A g \in Flights : Refreshing(g) /\ flight[g].token = stored =>
          flight[g].tab # Null /\ Refreshing(g)' /\ flight'[g].token = stored
    BY <1>1, <2>1 DEF ClientInv, StoredFits, Refreshing
  <2> QED
    BY <1>3, <2>1, <2>2 DEF ClientInv, StoredFits, TokensKept
<1> QED
  BY <1>2, <1>5, <1>6, <1>7 DEF ClientInv

(* A flight that stays in the page it is of, or was in none.               *)
LEMMA AwaitingKept ==
  ASSUME ClientInv, NEW f \in Flights, NEW r \in FlightDoc,
         flight' = [flight EXCEPT ![f] = r], \A b \in Tabs : tab'[b].promise = tab[b].promise,
         \/ ~Refreshing(f) /\ r.kind # "refresh"
         \/ Refreshing(f) /\ flight[f].tab = Null /\ r.kind # "refresh"
         \/ Refreshing(f) /\ r.kind = "refresh" /\ r.tab = flight[f].tab
  PROVE  Awaiting'
<1>1. \A g \in Flights : flight'[g] = IF g = f THEN r ELSE flight[g]
  BY DEF ClientInv, ClientType
<1>2. Null \notin Tabs
  BY SessionAssumption
<1> QED
  BY <1>1, <1>2 DEF ClientInv, Awaiting, Refreshing

(* A step that is a flight's alone.                                        *)
LEMMA FlightAlone ==
  ASSUME ClientInv, NEW f \in Flights, NEW r \in FlightDoc,
         flight' = [flight EXCEPT ![f] = r],
         \/ ~Refreshing(f) /\ r.kind # "refresh"
         \/ Refreshing(f) /\ flight[f].tab = Null /\ r.kind # "refresh"
         \/ /\ Refreshing(f) /\ r.kind = "refresh" /\ r.token = flight[f].token
            /\ r.tab = flight[f].tab /\ r.pc \in {"read", "failed"}
            /\ r.pc = "read" => ~tokens[r.token].used /\ ~r.seenUsed,
         r.kind = "none" => r.pc = "none",
         r.kind = "signout" =>
           r.token \in DOMAIN tokens /\ tokens[r.token].session \in leaving,
         UNCHANGED <<session, tokens, stored, tab, call, leaving>>
  PROVE  ClientInv'
<1>1. ClientType' /\ CallsPlaced' /\ TokensKept
  BY TokensUnchanged DEF ClientInv, ClientType, CallsPlaced
<1>2. Awaiting'
  BY AwaitingKept
<1> QED
  BY <1>1, <1>2, FlightMovesKeep

LEMMA SignOutKeeps ==
  ASSUME ClientInv, NEW b \in Tabs, NEW f \in Flights, SignOut(b, f)
  PROVE  ClientInv'
<1>1. PICK r : r = [RefreshWith(stored, b) EXCEPT !.kind = "signout"]
  OBVIOUS
<1>2. /\ flight' = [flight EXCEPT ![f] = r] /\ flight[f] = NoFlight /\ stored # 0
      /\ leaving' = leaving \cup {tokens[stored].session}
      /\ UNCHANGED <<session, tokens, stored, tab, call>>
  BY <1>1 DEF SignOut, server
<1>3. r \in FlightDoc /\ r.kind = "signout" /\ r.token = stored
  <2>1. stored \in Nat
    BY DEF ClientInv, ClientType
  <2>2. r = [kind |-> "signout", pc |-> "sent", tab |-> b, token |-> stored,
             seenUsed |-> FALSE, new |-> 0]
    BY <1>1 DEF RefreshWith, NoFlight
  <2> QED
    BY <2>1, <2>2 DEF FlightDoc
<1>4. stored \in DOMAIN tokens /\ tokens[stored].session \in Sessions
  BY <1>2, TokenIs DEF ClientInv, StoredFits
<1>5. ~Refreshing(f)
  BY <1>2, NoFlightIs DEF Refreshing
<1>6. flight' \in [Flights -> FlightDoc] /\ leaving' \subseteq Sessions
  BY <1>2, <1>3, <1>4 DEF ClientInv, ClientType
<1>7. ClientType' /\ CallsPlaced' /\ TokensKept
  BY <1>2, <1>6, TokensUnchanged DEF ClientInv, ClientType, CallsPlaced
<1>8. Awaiting'
  BY <1>2, <1>3, <1>5, AwaitingKept
<1> QED
  BY <1>2, <1>3, <1>4, <1>5, <1>7, <1>8, FlightMovesKeep

LEMMA SignedOutKeeps ==
  ASSUME ClientInv, NEW f \in Flights, NEW done \in BOOLEAN, SignedOut(f, done)
  PROVE  ClientInv'
<1>1. PICK b \in Tabs : b = flight[f].tab
  BY DEF SignedOut, ClientInv, ClientType, FlightDoc
<1>2. ClearAuth(b) /\ flight[f].kind = "signout"
      /\ UNCHANGED <<session, tokens, call, leaving>>
  BY <1>1 DEF SignedOut, server
<1>3. /\ stored' = 0 /\ tab' \in [Tabs -> PageDoc]
      /\ \A d \in Tabs : tab'[d].promise = tab[d].promise
  BY <1>2, ClearAuthIs
<1>4. PICK r : r = IF done THEN NoFlight ELSE [flight[f] EXCEPT !.tab = Null]
  OBVIOUS
<1>5. flight' = [flight EXCEPT ![f] = r]
  BY <1>4 DEF SignedOut
<1>6. /\ r \in FlightDoc /\ r.kind # "refresh" /\ (r.kind = "none" => r.pc = "none")
      /\ r.kind = "signout" => r.token = flight[f].token
  <2>1. CASE done
    BY <1>4, <2>1, NoFlightIs
  <2>2. CASE ~done
    BY <1>2, <1>4, <2>2 DEF ClientInv, ClientType, FlightDoc
  <2> QED
    BY <2>1, <2>2
<1>7. flight' \in [Flights -> FlightDoc]
  BY <1>5, <1>6 DEF ClientInv, ClientType
<1>8. ClientType' /\ CallsPlaced' /\ TokensKept
  BY <1>2, <1>3, <1>7, TokensUnchanged DEF ClientInv, ClientType, CallsPlaced
<1>9. ~Refreshing(f)
  BY <1>2 DEF Refreshing
<1>10. Awaiting'
  BY <1>3, <1>5, <1>6, <1>9, AwaitingKept
<1>11. flight[f].token \in DOMAIN tokens /\ tokens[flight[f].token].session \in leaving
  BY <1>2 DEF ClientInv, FlightsFit
<1> QED
  BY <1>2, <1>3, <1>5, <1>6, <1>8, <1>9, <1>10, <1>11, FlightMovesKeep

LEMMA ValidateKeeps ==
  ASSUME ClientInv, NEW f \in Flights, Validate(f)
  PROVE  ClientInv'
<1>1. PICK tok : tok = tokens[flight[f].token]
  OBVIOUS
<1>2. PICK r : r = [flight[f] EXCEPT !.pc = IF tok.revoked THEN "failed" ELSE "read",
                                     !.seenUsed = tok.used]
  OBVIOUS
<1>3. /\ flight' = [flight EXCEPT ![f] = r] /\ flight[f].pc = "sent"
      /\ UNCHANGED <<session, tokens, stored, tab, call, leaving>>
  BY <1>1, <1>2 DEF Validate, server, ClientInv, ClientType
<1>4. flight[f] \in FlightDoc
  BY FlightIs
<1>5. CASE flight[f].kind = "none"
  BY <1>3, <1>5 DEF ClientInv, FlightsFit
<1>6. CASE flight[f].kind # "none"
  <2>1. flight[f].token \in DOMAIN tokens /\ tok \in Token
    BY <1>1, <1>4, <1>6, FlightIs, TokenIs
       DEF Refreshing, RefreshFits, FlightDoc, ClientInv, FlightsFit
  <2>2. PICK pc \in {"failed", "read"} : pc = IF tok.revoked THEN "failed" ELSE "read"
    OBVIOUS
  <2>3. PICK used \in BOOLEAN : used = tok.used
    BY <2>1 DEF Token
  <2>4. r = [flight[f] EXCEPT !.pc = pc, !.seenUsed = used]
    BY <1>2, <2>2, <2>3
  <2>5. /\ r \in FlightDoc /\ r.kind = flight[f].kind /\ r.token = flight[f].token
        /\ r.tab = flight[f].tab /\ r.pc = pc /\ r.seenUsed = used
    BY <1>4, <2>4 DEF FlightDoc
  <2>6. CASE Refreshing(f)
    <3>1. ~tokens[flight[f].token].used
      BY <1>3, <2>6, FlightIs DEF RefreshFits
    <3>2. ~r.seenUsed
      BY <1>1, <2>3, <2>5, <3>1
    <3> QED
      BY <1>3, <2>5, <2>6, <3>1, <3>2, FlightAlone DEF Refreshing
  <2>7. CASE ~Refreshing(f)
    <3>1. r.kind = "signout" => tokens[r.token].session \in leaving
      BY <2>5 DEF ClientInv, FlightsFit
    <3>2. r.kind # "refresh" /\ r.kind # "none" /\ r.token \in DOMAIN tokens
      BY <1>6, <2>1, <2>5, <2>7 DEF Refreshing
    <3> QED
      BY <1>3, <2>5, <2>7, <3>1, <3>2, FlightAlone
  <2> QED
    BY <2>6, <2>7
<1> QED
  BY <1>5, <1>6

LEMMA DropAnswerKeeps ==
  ASSUME ClientInv, NEW f \in Flights, DropAnswer(f)
  PROVE  ClientInv'
<1>1. PICK r \in FlightDoc : r = NoFlight
  BY NoFlightIs
<1>2. /\ flight' = [flight EXCEPT ![f] = r] /\ r.kind = "none" /\ r.pc = "none"
      /\ flight[f].tab = Null /\ UNCHANGED <<session, tokens, stored, tab, call, leaving>>
  BY <1>1, NoFlightIs DEF DropAnswer, server
<1> QED
  BY <1>2, FlightAlone

(* The user asked to sign out.                                             *)
LEMMA RevokeSessionKeeps ==
  ASSUME ClientInv, NEW f \in Flights, RevokeSession(f)
  PROVE  ClientInv'
<1>1. PICK r : r = [flight[f] EXCEPT !.pc = "marked"]
  OBVIOUS
<1>2. /\ r \in FlightDoc /\ r.kind = "signout" /\ r.token = flight[f].token
      /\ flight[f].kind = "signout"
  BY <1>1, FlightIs DEF RevokeSession, FlightDoc
<1>3. PICK s : s = tokens[flight[f].token].session
  OBVIOUS
<1>4. /\ flight' = [flight EXCEPT ![f] = r]
      /\ session' = [session EXCEPT ![s] = "revoked"]
      /\ UNCHANGED <<tokens, stored, tab, call, leaving>>
  BY <1>1, <1>3 DEF RevokeSession
<1>5. ClientType' /\ CallsPlaced' /\ TokensKept
  BY <1>2, <1>4, TokensUnchanged DEF ClientInv, ClientType, CallsPlaced
<1>6. \A o \in Sessions : session'[o] = "absent" => session[o] = "absent"
  BY <1>4 DEF ClientInv, ClientType
<1>7. Awaiting'
  BY <1>2, <1>4, AwaitingKept DEF Refreshing
<1>8. r.token \in DOMAIN tokens /\ tokens[r.token].session \in leaving'
  BY <1>2, <1>4 DEF ClientInv, FlightsFit
<1> QED
  BY <1>2, <1>4, <1>5, <1>6, <1>7, <1>8, FlightMovesKeep DEF Refreshing

LEMMA RevokeTokensKeeps ==
  ASSUME ClientInv, NEW f \in Flights, RevokeTokens(f)
  PROVE  ClientInv'
<1>1. PICK r : r = [flight[f] EXCEPT !.pc = "ok"]
  OBVIOUS
<1>2. /\ r \in FlightDoc /\ r.kind = "signout" /\ r.token = flight[f].token
      /\ flight[f].kind = "signout"
  BY <1>1, FlightIs DEF RevokeTokens, FlightDoc
<1>3. PICK s : s = tokens[flight[f].token].session
  OBVIOUS
<1>4. /\ flight' = [flight EXCEPT ![f] = r] /\ tokens' = RevokeAll(s)
      /\ UNCHANGED <<session, stored, tab, call, leaving>>
  BY <1>1, <1>3 DEF RevokeTokens
<1>5. r.token \in DOMAIN tokens /\ s \in leaving
  BY <1>2, <1>3 DEF ClientInv, FlightsFit
<1>6. PICK m : m = tokens'
  OBVIOUS
<1>7. /\ DOMAIN m = DOMAIN tokens /\ m = [t \in DOMAIN tokens |-> m[t]]
      /\ \A t \in DOMAIN tokens :
           m[t] = IF tokens[t].session = s THEN [tokens[t] EXCEPT !.revoked = TRUE]
                  ELSE tokens[t]
  BY <1>4, <1>6 DEF RevokeAll, Family
<1>8. \A t \in DOMAIN tokens :
        /\ m[t] \in Token /\ m[t].session = tokens[t].session /\ m[t].used = tokens[t].used
        /\ tokens[t].session # s => m[t].revoked = tokens[t].revoked
  BY <1>7, TokenIs, ZenonT(60) DEF Token
<1>9. m \in Seq(Token)
  BY <1>7, <1>8, TokensMapped
<1>10. TokensKept
  BY <1>4, <1>5, <1>6, <1>7, <1>8, <1>9 DEF TokensKept
<1>11. ClientType' /\ CallsPlaced'
  BY <1>2, <1>4, <1>6, <1>9 DEF ClientInv, ClientType, CallsPlaced
<1>12. Awaiting'
  BY <1>2, <1>4, AwaitingKept DEF Refreshing
<1>13. tokens[r.token].session \in leaving'
  BY <1>2, <1>3, <1>4, <1>5
<1> QED
  BY <1>2, <1>4, <1>5, <1>10, <1>11, <1>12, <1>13, FlightMovesKeep DEF Refreshing

----------------------------------------------------------------------------
(* A new token comes last.                                                 *)
LEMMA Appended ==
  ASSUME ClientInv, NEW s \in Sessions, NEW n, n = Len(tokens) + 1,
         tokens' = Append(tokens, NewToken(s))
  PROVE  /\ tokens' \in Seq(Token) /\ Len(tokens') = n
         /\ n \in Nat /\ n # 0 /\ n \notin DOMAIN tokens
         /\ DOMAIN tokens' = DOMAIN tokens \cup {n}
         /\ \A t \in DOMAIN tokens : tokens'[t] = tokens[t]
         /\ tokens'[n].session = s /\ ~tokens'[n].used /\ ~tokens'[n].revoked
<1>1. tokens \in Seq(Token)
  BY DEF ClientInv, ClientType
<1>2. PICK k \in Token : k = NewToken(s)
  BY DEF NewToken, Token
<1>3. k.session = s /\ ~k.used /\ ~k.revoked
  BY <1>2 DEF NewToken
<1>4. tokens' = Append(tokens, k)
  BY <1>2
<1>5. /\ tokens' \in Seq(Token) /\ Len(tokens') = n /\ tokens'[n] = k
      /\ \A t \in 1 .. Len(tokens) : tokens'[t] = tokens[t]
  BY <1>1, <1>4, AppendProperties
<1>6. /\ DOMAIN tokens = 1 .. Len(tokens) /\ Len(tokens) \in Nat
      /\ DOMAIN tokens' = 1 .. Len(tokens')
  BY <1>1, <1>5, LenProperties
<1>7. DOMAIN tokens' = DOMAIN tokens \cup {n} /\ n \in Nat /\ n # 0 /\ n \notin DOMAIN tokens
  BY <1>5, <1>6
<1> QED
  BY <1>3, <1>5, <1>6, <1>7

LEMMA StoredIs ==
  ASSUME ClientInv
  PROVE  stored \in Nat /\ (stored # 0 => stored \in DOMAIN tokens)
BY DEF ClientInv, ClientType, StoredFits

LEMMA SignInKeeps ==
  ASSUME ClientInv, NEW b \in Tabs, NEW s \in Sessions, SignIn(b, s)
  PROVE  ClientInv'
<1>1. PICK n : n = Len(tokens) + 1
  OBVIOUS
<1>2. /\ session[s] = "absent" /\ session' = [session EXCEPT ![s] = "open"]
      /\ tokens' = Append(tokens, NewToken(s)) /\ UNCHANGED <<flight, call, leaving>>
  BY DEF SignIn
<1>3. /\ tokens' \in Seq(Token) /\ Len(tokens') = n
      /\ n \in Nat /\ n # 0 /\ n \notin DOMAIN tokens
      /\ DOMAIN tokens' = DOMAIN tokens \cup {n}
      /\ \A t \in DOMAIN tokens : tokens'[t] = tokens[t]
      /\ tokens'[n].session = s /\ ~tokens'[n].used /\ ~tokens'[n].revoked
  BY <1>1, <1>2, Appended
<1>4. PICK u \in Users : u = UserOf[s]
  BY SessionAssumption
<1>5. PICK page : page = [tab[b] EXCEPT !.access = n, !.user = u]
  OBVIOUS
<1>6. page \in PageDoc /\ page.promise = tab[b].promise
  <2>1. tab[b] \in PageDoc
    BY DEF ClientInv, ClientType
  <2> QED
    BY <1>3, <1>5, <2>1 DEF PageDoc
<1>7. tab' = [tab EXCEPT ![b] = page] /\ stored' = n
  BY <1>3, <1>4, <1>5 DEF SignIn, ClientInv, ClientType
<1>8. ClientType'
  BY <1>2, <1>3, <1>6, <1>7 DEF ClientInv, ClientType
<1>9. CallsPlaced'
  BY <1>2 DEF ClientInv, CallsPlaced
<1>10. Awaiting'
  <2>1. \A d \in Tabs : tab'[d].promise = tab[d].promise
    BY <1>6, <1>7 DEF ClientInv, ClientType
  <2> QED
    BY <1>2, <2>1 DEF ClientInv, Awaiting, Refreshing
<1>11. \A t \in DOMAIN tokens : tokens[t].session # s
  BY <1>2 DEF ClientInv, TokensFit
<1>12. ASSUME NEW f \in Flights, Refreshing(f)
       PROVE  RefreshFits(f)' /\ flight[f].token # n
  <2>1. RefreshFits(f)
    BY <1>12, FlightIs
  <2>2. /\ flight[f].token \in DOMAIN tokens
        /\ tokens'[flight[f].token] = tokens[flight[f].token]
        /\ tokens[flight[f].token].session # s
    BY <1>3, <1>11, <2>1 DEF RefreshFits
  <2>3. flight[f].pc = "marked" =>
          \A t \in DOMAIN tokens' :
            tokens'[t].session = tokens[flight[f].token].session => tokens'[t].used
    BY <1>3, <2>1, <2>2 DEF RefreshFits
  <2>4. flight[f].pc = "ok" =>
          /\ flight[f].new \in DOMAIN tokens' /\ ~tokens'[flight[f].new].used
          /\ flight[f].new # stored'
          /\ \A g \in Flights : Refreshing(g) => flight[g].token # flight[f].new
    BY <1>3, <1>7, <2>1 DEF RefreshFits
  <2>5. flight[f].token # n
    BY <1>3, <2>2
  <2> QED
    BY <1>2, <1>3, <2>1, <2>2, <2>3, <2>4, <2>5 DEF RefreshFits, Refreshing
<1>13. FlightsFit'
  BY <1>2, <1>3, <1>12 DEF ClientInv, FlightsFit, Refreshing
<1>14. FlightsApart'
  <2>1. \A f \in Flights : Refreshing(f) => flight[f].token \in DOMAIN tokens
    BY FlightIs DEF RefreshFits
  <2> QED
    BY <1>2, <1>3, <2>1 DEF ClientInv, FlightsApart, Refreshing
<1>15. StoredFits'
  BY <1>2, <1>3, <1>7, <1>12 DEF StoredFits, Refreshing
<1>16. TokensFit'
  <2>1. \A t \in DOMAIN tokens' : session'[tokens'[t].session] # "absent"
    <3>1. session'[s] # "absent" /\ \A o \in Sessions : o # s => session'[o] = session[o]
      BY <1>2 DEF ClientInv, ClientType
    <3>2. \A t \in DOMAIN tokens : tokens[t].session \in Sessions
      BY TokenIs
    <3> QED
      BY <1>3, <1>11, <3>1, <3>2 DEF ClientInv, TokensFit
  <2> QED
    BY <1>3, <1>11, <2>1 DEF ClientInv, TokensFit
<1>17. RevokedOnlyBySignOut'
  BY <1>2, <1>3 DEF ClientInv, RevokedOnlyBySignOut
<1> QED
  BY <1>8, <1>9, <1>10, <1>13, <1>14, <1>15, <1>16, <1>17 DEF ClientInv

(* With no promise in the one page there is, nobody spends the stored      *)
(* token.                                                                  *)
LEMMA NobodySpends ==
  ASSUME ClientInv, OnePage, NEW b \in Tabs, tab[b].promise = Null, stored # 0
  PROVE  /\ \A g \in Flights : Refreshing(g) => flight[g].tab = Null /\ flight[g].token # stored
         /\ stored \in DOMAIN tokens /\ ~tokens[stored].used
<1>1. \A g \in Flights : Refreshing(g) => flight[g].tab = Null
  <2> SUFFICES ASSUME NEW g \in Flights, Refreshing(g), flight[g].tab # Null
               PROVE  FALSE
    OBVIOUS
  <2>1. flight[g].tab \in Tabs
    BY FlightIs DEF FlightDoc
  <2>2. flight[g].tab = b
    BY <2>1 DEF OnePage
  <2> QED
    BY <2>2, SessionAssumption DEF ClientInv, Awaiting
<1> QED
  BY <1>1 DEF ClientInv, StoredFits

LEMMA StartRefreshKeeps ==
  ASSUME ClientInv, OnePage, NEW c \in Calls, NEW f \in Flights, StartRefresh(c, f)
  PROVE  ClientInv'
<1>1. PICK b \in Tabs : b = call[c].tab
  BY DEF StartRefresh, ClientInv, CallsPlaced
<1>2. PICK r : r = RefreshWith(stored, b)
  OBVIOUS
<1>3. PICK page : page = [tab[b] EXCEPT !.promise = f]
  OBVIOUS
<1>4. /\ tab[b].promise = Null /\ stored # 0 /\ flight[f] = NoFlight /\ call[c].pc # "idle"
      /\ flight' = [flight EXCEPT ![f] = r] /\ tab' = [tab EXCEPT ![b] = page]
      /\ call' = [call EXCEPT ![c].pc = "waiting"]
      /\ UNCHANGED <<session, tokens, stored, leaving>>
  BY <1>1, <1>2, <1>3 DEF StartRefresh, server
<1>5. /\ \A g \in Flights : Refreshing(g) => flight[g].tab = Null /\ flight[g].token # stored
      /\ stored \in DOMAIN tokens /\ ~tokens[stored].used
  BY <1>4, NobodySpends
<1>6. /\ r \in FlightDoc /\ r.kind = "refresh" /\ r.pc = "sent" /\ r.tab = b
      /\ r.token = stored
  <2>1. r = [kind |-> "refresh", pc |-> "sent", tab |-> b, token |-> stored,
             seenUsed |-> FALSE, new |-> 0]
    BY <1>2 DEF RefreshWith, NoFlight
  <2> QED
    BY <2>1, StoredIs DEF FlightDoc
<1>7. page \in PageDoc /\ page.promise = f
  BY <1>3 DEF PageDoc, ClientInv, ClientType
<1>8. call' \in [Calls -> CallDoc] /\ CallsPlaced'
  BY <1>4, CallPc
<1>9. \A g \in Flights : flight'[g] = IF g = f THEN r ELSE flight[g]
  BY <1>4 DEF ClientInv, ClientType
<1>10. \A d \in Tabs : tab'[d] = page
  BY <1>4 DEF ClientInv, ClientType, OnePage
<1>11. ClientType'
  BY <1>4, <1>6, <1>7, <1>8 DEF ClientInv, ClientType
<1>12. Awaiting'
  <2>1. \A d \in Tabs : d = b
    BY DEF OnePage
  <2>2. Null # b
    BY SessionAssumption
  <2> QED
    BY <1>5, <1>6, <1>7, <1>9, <1>10, <2>1, <2>2 DEF Awaiting, Refreshing
<1>13. ASSUME NEW g \in Flights, Refreshing(g)'
       PROVE  RefreshFits(g)'
  <2>1. CASE g = f
    BY <1>4, <1>5, <1>6, <1>9, <2>1 DEF RefreshFits
  <2>2. CASE g # f
    <3>1. Refreshing(g) /\ flight'[g] = flight[g]
      BY <1>9, <1>13, <2>2 DEF Refreshing
    <3>2. RefreshFits(g)
      BY <3>1, FlightIs
    <3>3. flight[g].pc = "ok" =>
            \A h \in Flights : Refreshing(h)' => flight'[h].token # flight[g].new
      BY <1>6, <1>9, <3>2 DEF RefreshFits, Refreshing
    <3> QED
      BY <1>4, <3>1, <3>2, <3>3 DEF RefreshFits
  <2> QED
    BY <2>1, <2>2
<1>14. FlightsFit'
  BY <1>4, <1>6, <1>9, <1>13 DEF ClientInv, FlightsFit
<1>15. FlightsApart'
  BY <1>4, <1>5, <1>6, <1>9 DEF ClientInv, FlightsApart, Refreshing
<1>16. StoredFits'
  <2>1. \A g \in Flights : Refreshing(g)' /\ flight'[g].token = stored => g = f
    BY <1>5, <1>9 DEF Refreshing
  <2>2. flight'[f].tab # Null
    BY <1>6, <1>9, SessionAssumption
  <2> QED
    BY <1>4, <1>5, <2>1, <2>2 DEF StoredFits
<1>17. TokensFit' /\ RevokedOnlyBySignOut'
  BY <1>4 DEF ClientInv, TokensFit, RevokedOnlyBySignOut
<1> QED
  BY <1>8, <1>11, <1>12, <1>14, <1>15, <1>16, <1>17 DEF ClientInv

(* The page leaves for /login: it awaits nothing, and no token is stored.  *)
LEMMA ExpiredKeeps ==
  ASSUME ClientInv, NEW b \in Tabs, NEW f, NEW done \in BOOLEAN,
         done => f \in Flights /\ flight[f].tab = b,
         SessionExpired(b, f, done), UNCHANGED <<session, tokens, leaving>>
  PROVE  ClientInv'
<1>1. /\ stored' = 0 /\ tab' = [tab EXCEPT ![b] = NewPage] /\ call' = Abandoned(b)
      /\ flight' = IF done THEN [Detached(b) EXCEPT ![f] = NoFlight] ELSE Detached(b)
  BY DEF SessionExpired
<1>2. call' \in [Calls -> CallDoc] /\ CallsPlaced'
  <2>1. \A c \in Calls :
          /\ call'[c] = IF c \in UnderWay(b) THEN [call[c] EXCEPT !.pc = "rejected"] ELSE call[c]
          /\ call[c] \in CallDoc
    BY <1>1 DEF Abandoned, ClientInv, ClientType
  <2>2. \A c \in Calls : c \in UnderWay(b) => call[c].pc # "idle"
    BY DEF UnderWay, Over
  <2>3. \A c \in Calls :
          /\ call'[c] \in CallDoc /\ call'[c].tab = call[c].tab /\ call'[c].by = call[c].by
          /\ call'[c].pc # "idle" => call[c].pc # "idle"
    BY <2>1, <2>2 DEF CallDoc
  <2>4. call' \in [Calls -> CallDoc]
    BY <1>1, <2>3 DEF Abandoned
  <2> QED
    BY <2>3, <2>4 DEF ClientInv, CallsPlaced
<1>3. /\ Detached(b) \in [Flights -> FlightDoc]
      /\ \A g \in Flights :
           /\ Detached(b)[g].kind = flight[g].kind /\ Detached(b)[g].pc = flight[g].pc
           /\ Detached(b)[g].token = flight[g].token
           /\ Detached(b)[g].seenUsed = flight[g].seenUsed
           /\ Detached(b)[g].new = flight[g].new
           /\ Detached(b)[g].tab = IF flight[g].tab = b THEN Null ELSE flight[g].tab
  <2>1. \A g \in Flights :
          /\ Detached(b)[g] = IF flight[g].tab = b THEN [flight[g] EXCEPT !.tab = Null]
                              ELSE flight[g]
          /\ flight[g] \in FlightDoc
    BY DEF Detached, ClientInv, ClientType
  <2>2. \A g \in Flights :
          /\ Detached(b)[g] \in FlightDoc
          /\ Detached(b)[g].kind = flight[g].kind /\ Detached(b)[g].pc = flight[g].pc
          /\ Detached(b)[g].token = flight[g].token
          /\ Detached(b)[g].seenUsed = flight[g].seenUsed
          /\ Detached(b)[g].new = flight[g].new
          /\ Detached(b)[g].tab = IF flight[g].tab = b THEN Null ELSE flight[g].tab
    BY <2>1, ZenonT(60) DEF FlightDoc
  <2> QED
    BY <2>2 DEF Detached
<1>4. /\ flight' \in [Flights -> FlightDoc]
      /\ \A g \in Flights : flight'[g] = IF done /\ g = f THEN NoFlight ELSE Detached(b)[g]
  <2>1. PICK d \in [Flights -> FlightDoc] : d = Detached(b)
    BY <1>3
  <2>2. flight' = IF done THEN [d EXCEPT ![f] = NoFlight] ELSE d
    BY <1>1, <2>1
  <2>3. CASE done
    BY <2>1, <2>2, <2>3, NoFlightIs
  <2>4. CASE ~done
    BY <2>1, <2>2, <2>4
  <2> QED
    BY <2>3, <2>4
<1>5. \A g \in Flights : Refreshing(g)' =>
        /\ Refreshing(g) /\ flight'[g].pc = flight[g].pc
        /\ flight'[g].token = flight[g].token /\ flight'[g].seenUsed = flight[g].seenUsed
        /\ flight'[g].new = flight[g].new
  BY <1>3, <1>4, NoFlightIs DEF Refreshing
<1>6. ClientType'
  BY <1>1, <1>2, <1>4, NewPageIs DEF ClientInv, ClientType
<1>7. Awaiting'
  <2> SUFFICES ASSUME NEW d \in Tabs, NEW g \in Flights
               PROVE  Refreshing(g)' /\ flight'[g].tab = d <=> tab'[d].promise = g
    BY DEF Awaiting
  <2>1. Null # d /\ Null # g
    BY SessionAssumption
  <2>2. CASE d = b
    <3>1. tab'[d].promise = Null
      BY <1>1, <2>2, NewPageIs DEF ClientInv, ClientType
    <3>2. flight'[g].tab # b
      BY <1>3, <1>4, <2>1, <2>2, NoFlightIs
    <3> QED
      BY <2>1, <2>2, <3>1, <3>2
  <2>3. CASE d # b
    <3>1. tab'[d].promise = tab[d].promise
      BY <1>1, <2>3 DEF ClientInv, ClientType
    <3>2. Refreshing(g)' /\ flight'[g].tab = d <=> Refreshing(g) /\ flight[g].tab = d
      BY <1>3, <1>4, <2>1, <2>3, NoFlightIs DEF Refreshing
    <3> QED
      BY <3>1, <3>2 DEF ClientInv, Awaiting
  <2> QED
    BY <2>2, <2>3
<1>8. ASSUME NEW g \in Flights, Refreshing(g)'
      PROVE  RefreshFits(g)'
  <2>1. RefreshFits(g)
    BY <1>5, <1>8, FlightIs
  <2>2. flight[g].pc = "ok" => flight[g].new # 0
    BY <2>1, TokenIs DEF RefreshFits
  <2>3. flight[g].pc = "ok" =>
          \A h \in Flights : Refreshing(h)' => flight'[h].token # flight[g].new
    BY <1>5, <2>1 DEF RefreshFits
  <2>4. /\ flight'[g].pc = flight[g].pc /\ flight'[g].token = flight[g].token
        /\ flight'[g].seenUsed = flight[g].seenUsed /\ flight'[g].new = flight[g].new
    BY <1>5, <1>8
  <2> QED
    BY <1>1, <2>1, <2>2, <2>3, <2>4 DEF RefreshFits
<1>9. FlightsFit'
  BY <1>3, <1>4, <1>8, NoFlightIs DEF ClientInv, FlightsFit
<1>10. FlightsApart'
  BY <1>5 DEF ClientInv, FlightsApart
<1>11. StoredFits'
  BY <1>1 DEF StoredFits
<1>12. TokensFit' /\ RevokedOnlyBySignOut'
  BY DEF ClientInv, TokensFit, RevokedOnlyBySignOut
<1> QED
  BY <1>2, <1>6, <1>7, <1>9, <1>10, <1>11, <1>12 DEF ClientInv

LEMMA RefuseSignedOutKeeps ==
  ASSUME ClientInv, NEW c \in Calls, RefuseSignedOut(c)
  PROVE  ClientInv'
<1>1. PICK b \in Tabs : b = call[c].tab
  BY DEF RefuseSignedOut, ClientInv, CallsPlaced
<1>2. SessionExpired(b, Null, FALSE) /\ UNCHANGED <<session, tokens, leaving>>
  BY <1>1 DEF RefuseSignedOut, server
<1> QED
  BY <1>2, ExpiredKeeps

LEMMA RefreshFailsKeeps ==
  ASSUME ClientInv, NEW f \in Flights, NEW done \in BOOLEAN, RefreshFails(f, done)
  PROVE  ClientInv'
<1>1. PICK b \in Tabs : b = flight[f].tab
  BY DEF RefreshFails, ClientInv, ClientType, FlightDoc
<1>2. SessionExpired(b, f, done) /\ UNCHANGED <<session, tokens, leaving>>
  BY <1>1 DEF RefreshFails, server
<1> QED
  BY <1>1, <1>2, ExpiredKeeps

(* The calls that waited are those of a page, and stay its calls.          *)
LEMMA ResentIs ==
  ASSUME ClientInv, NEW b \in Tabs, NEW t \in Nat, call' = Resent(b, t)
  PROVE  call' \in [Calls -> CallDoc] /\ CallsPlaced'
<1>1. ASSUME NEW c \in Calls
      PROVE  /\ call'[c] \in CallDoc /\ call'[c].tab = call[c].tab /\ call'[c].by = call[c].by
             /\ call'[c].pc # "idle" => call[c].pc # "idle"
  <2>1. call[c] \in CallDoc
    BY DEF ClientInv, ClientType
  <2>2. PICK pc \in {"sent", "resent"} : pc = IF call[c].access = 0 THEN "sent" ELSE "resent"
    OBVIOUS
  <2>3. \/ call'[c] = call[c]
        \/ call[c].pc = "waiting" /\ call'[c] = [call[c] EXCEPT !.access = t, !.pc = pc]
    BY <2>2 DEF Resent
  <2> QED
    BY <2>1, <2>3 DEF CallDoc
<1>2. call' \in [Calls -> CallDoc]
  BY <1>1 DEF Resent
<1> QED
  BY <1>1, <1>2 DEF ClientInv, CallsPlaced

LEMMA ReceiveRefreshedKeeps ==
  ASSUME ClientInv, NEW f \in Flights, ReceiveRefreshed(f)
  PROVE  ClientInv'
<1>1. PICK b \in Tabs : b = flight[f].tab
  BY DEF ReceiveRefreshed, ClientInv, ClientType, FlightDoc
<1>2. PICK t \in Nat : t = flight[f].new
  BY FlightIs DEF FlightDoc
<1>3. PICK page : page = [tab[b] EXCEPT !.access = t, !.promise = Null]
  OBVIOUS
<1>4. /\ Refreshing(f) /\ flight[f].pc = "ok" /\ stored' = t
      /\ tab' = [tab EXCEPT ![b] = page] /\ call' = Resent(b, t)
      /\ flight' = [flight EXCEPT ![f] = NoFlight]
      /\ UNCHANGED <<session, tokens, leaving>>
  BY <1>1, <1>2, <1>3 DEF ReceiveRefreshed, Refreshing, server, ClientInv, ClientType
<1>5. page \in PageDoc /\ page.promise = Null
  BY <1>3 DEF PageDoc, ClientInv, ClientType
<1>6. call' \in [Calls -> CallDoc] /\ CallsPlaced'
  BY <1>4, ResentIs
<1>7. \A g \in Flights : flight'[g] = IF g = f THEN NoFlight ELSE flight[g]
  BY <1>4 DEF ClientInv, ClientType
<1>8. /\ t \in DOMAIN tokens /\ ~tokens[t].used
      /\ \A g \in Flights : Refreshing(g) => flight[g].token # t
  BY <1>2, <1>4, FlightIs DEF RefreshFits
<1>9. ClientType'
  BY <1>4, <1>5, <1>6, NoFlightIs DEF ClientInv, ClientType
<1>10. Awaiting'
  <2> SUFFICES ASSUME NEW d \in Tabs, NEW g \in Flights
               PROVE  Refreshing(g)' /\ flight'[g].tab = d <=> tab'[d].promise = g
    BY DEF Awaiting
  <2>1. tab'[d].promise = IF d = b THEN Null ELSE tab[d].promise
    BY <1>4, <1>5 DEF ClientInv, ClientType
  <2>2. tab[b].promise = f
    BY <1>1, <1>4 DEF ClientInv, Awaiting
  <2>3. Null # g
    BY SessionAssumption
  <2>4. Refreshing(g) /\ flight[g].tab = d <=> tab[d].promise = g
    BY DEF ClientInv, Awaiting
  <2>5. Refreshing(g)' /\ flight'[g].tab = d <=> g # f /\ Refreshing(g) /\ flight[g].tab = d
    BY <1>7, NoFlightIs DEF Refreshing
  <2>6. CASE d = b
    BY <2>1, <2>2, <2>3, <2>4, <2>5, <2>6
  <2>7. CASE d # b
    <3>1. tab[d].promise # f
      BY <1>1, <2>7 DEF ClientInv, Awaiting
    <3> QED
      BY <2>1, <2>4, <2>5, <2>7, <3>1
  <2> QED
    BY <2>6, <2>7
<1>11. \A g \in Flights : Refreshing(g)' =>
         g # f /\ Refreshing(g) /\ flight'[g] = flight[g]
  BY <1>7, NoFlightIs DEF Refreshing
<1>12. ASSUME NEW g \in Flights, Refreshing(g)'
       PROVE  RefreshFits(g)'
  <2>1. RefreshFits(g) /\ flight'[g] = flight[g] /\ g # f
    BY <1>11, <1>12, FlightIs
  <2>2. flight[g].pc = "ok" => flight[g].new # t
    BY <1>2, <1>4, <1>11, <1>12 DEF ClientInv, FlightsApart
  <2>3. flight[g].pc = "ok" =>
          \A h \in Flights : Refreshing(h)' => flight'[h].token # flight[g].new
    BY <1>11, <2>1 DEF RefreshFits
  <2> QED
    BY <1>4, <2>1, <2>2, <2>3 DEF RefreshFits
<1>13. FlightsFit'
  BY <1>4, <1>7, <1>12, NoFlightIs DEF ClientInv, FlightsFit
<1>14. FlightsApart'
  BY <1>4, <1>11 DEF ClientInv, FlightsApart
<1>15. StoredFits'
  BY <1>4, <1>8, <1>11 DEF StoredFits
<1>16. TokensFit' /\ RevokedOnlyBySignOut'
  BY <1>4 DEF ClientInv, TokensFit, RevokedOnlyBySignOut
<1> QED
  BY <1>6, <1>9, <1>10, <1>13, <1>14, <1>15, <1>16 DEF ClientInv

(* A refresh that read its token unused marks it, and nobody else's.       *)
LEMMA MarkUsedKeeps ==
  ASSUME ClientInv, NEW f \in Flights, MarkUsed(f)
  PROVE  ClientInv'
<1>1. PICK t : t = flight[f].token
  OBVIOUS
<1>2. Refreshing(f) /\ RefreshFits(f) /\ flight[f].pc = "read"
  BY FlightIs DEF MarkUsed, Refreshing
<1>3. /\ t \in DOMAIN tokens /\ ~tokens[t].used /\ ~flight[f].seenUsed
  BY <1>1, <1>2 DEF RefreshFits
<1>4. PICK r : r = [flight[f] EXCEPT !.pc = "marked"]
  OBVIOUS
<1>5. /\ r \in FlightDoc /\ r.kind = "refresh" /\ r.pc = "marked" /\ r.token = t
      /\ r.tab = flight[f].tab
  BY <1>1, <1>2, <1>4, FlightIs DEF FlightDoc, Refreshing
<1>6. /\ flight' = [flight EXCEPT ![f] = r] /\ tokens' = [tokens EXCEPT ![t].used = TRUE]
      /\ UNCHANGED <<session, stored, tab, call, leaving>>
  BY <1>1, <1>3, <1>4 DEF MarkUsed
<1>7. PICK m : m = tokens'
  OBVIOUS
<1>8. /\ DOMAIN m = DOMAIN tokens /\ m = [u \in DOMAIN tokens |-> m[u]]
      /\ \A u \in DOMAIN tokens :
           m[u] = IF u = t THEN [tokens[u] EXCEPT !.used = TRUE] ELSE tokens[u]
  BY <1>6, <1>7
<1>9. \A u \in DOMAIN tokens :
        /\ m[u] \in Token /\ m[u].session = tokens[u].session
        /\ m[u].used = IF u = t THEN TRUE ELSE tokens[u].used
        /\ m[u].revoked = tokens[u].revoked
  BY <1>8, TokenIs, ZenonT(60) DEF Token
<1>10. m \in Seq(Token)
  BY <1>8, <1>9, TokensMapped
<1>11. \A g \in Flights : flight'[g] = IF g = f THEN r ELSE flight[g]
  BY <1>6 DEF ClientInv, ClientType
<1>12. ClientType' /\ CallsPlaced'
  BY <1>5, <1>6, <1>7, <1>10 DEF ClientInv, ClientType, CallsPlaced
<1>13. Awaiting'
  BY <1>2, <1>5, <1>6, AwaitingKept
<1>14. \A g \in Flights : Refreshing(g)' <=> Refreshing(g)
  BY <1>2, <1>5, <1>11 DEF Refreshing
<1>15. \A g \in Flights : flight'[g].token = flight[g].token
  BY <1>1, <1>5, <1>11
<1>16. \A u \in DOMAIN tokens :
         u # t /\ tokens[u].session = tokens[t].session => tokens[u].used
  BY <1>3 DEF ClientInv, TokensFit
<1>17. ASSUME NEW g \in Flights, Refreshing(g)'
       PROVE  RefreshFits(g)'
  <2>1. Refreshing(g) /\ RefreshFits(g) /\ flight[g].token \in DOMAIN tokens
    BY <1>14, <1>17, FlightIs DEF RefreshFits
  <2>2. CASE g = f
    <3>1. \A u \in DOMAIN m : m[u].session = m[t].session => m[u].used
      BY <1>3, <1>8, <1>9, <1>16
    <3> QED
      BY <1>3, <1>5, <1>7, <1>8, <1>11, <2>2, <3>1 DEF RefreshFits
  <2>3. CASE g # f
    <3>1. flight'[g] = flight[g] /\ flight[g].token # t
      BY <1>1, <1>2, <1>11, <2>1, <2>3 DEF ClientInv, FlightsApart
    <3>2. flight[g].pc = "ok" => flight[g].new # t
      BY <1>1, <1>2, <2>1 DEF RefreshFits
    <3>3. flight[g].pc = "ok" =>
            \A h \in Flights : Refreshing(h)' => flight'[h].token # flight[g].new
      BY <1>14, <1>15, <2>1 DEF RefreshFits
    <3>4. flight[g].pc = "marked" =>
            \A u \in DOMAIN m : m[u].session = m[flight[g].token].session => m[u].used
      BY <1>8, <1>9, <2>1 DEF RefreshFits
    <3>5. flight[g].pc = "ok" => flight[g].new \in DOMAIN m /\ ~m[flight[g].new].used
      BY <1>8, <1>9, <2>1, <3>2 DEF RefreshFits
    <3>6. m[flight[g].token].used = tokens[flight[g].token].used
      BY <1>9, <2>1, <3>1
    <3> QED
      BY <1>6, <1>7, <1>8, <2>1, <3>1, <3>3, <3>4, <3>5, <3>6 DEF RefreshFits
  <2> QED
    BY <2>2, <2>3
<1>18. FlightsFit'
  <2>1. ASSUME NEW g \in Flights, flight'[g].kind = "signout"
        PROVE  flight'[g].token \in DOMAIN m /\ m[flight'[g].token].session \in leaving
    <3>1. flight'[g] = flight[g]
      BY <1>5, <1>11, <2>1
    <3>2. flight[g].token \in DOMAIN tokens /\ tokens[flight[g].token].session \in leaving
      BY <2>1, <3>1 DEF ClientInv, FlightsFit
    <3> QED
      BY <1>8, <1>9, <3>1, <3>2
  <2>2. \A g \in Flights : flight'[g].kind = "none" => flight'[g].pc = "none"
    BY <1>5, <1>11 DEF ClientInv, FlightsFit
  <2> QED
    BY <1>6, <1>7, <1>17, <2>1, <2>2 DEF FlightsFit
<1>19. ASSUME NEW g \in Flights, g # f, Refreshing(g), flight[g].pc = "marked"
       PROVE  tokens[flight[g].token].session # tokens[t].session
  BY <1>3, <1>19, FlightIs DEF RefreshFits
<1>20. FlightsApart'
  <2> SUFFICES ASSUME NEW g \in Flights, NEW h \in Flights, g # h,
                      Refreshing(g)', Refreshing(h)'
               PROVE  /\ flight'[g].token # flight'[h].token
                      /\ flight'[g].pc = "ok" /\ flight'[h].pc = "ok" =>
                           flight'[g].new # flight'[h].new
                      /\ flight'[g].pc = "marked" /\ flight'[h].pc = "marked" =>
                           tokens'[flight'[g].token].session # tokens'[flight'[h].token].session
    BY DEF FlightsApart
  <2>1. Refreshing(g) /\ Refreshing(h)
    BY <1>14
  <2>2. flight[g].token \in DOMAIN tokens /\ flight[h].token \in DOMAIN tokens
    BY <2>1, FlightIs DEF RefreshFits
  <2>3. /\ tokens'[flight[g].token].session = tokens[flight[g].token].session
        /\ tokens'[flight[h].token].session = tokens[flight[h].token].session
    BY <1>7, <1>9, <2>2
  <2>4. flight'[g].pc = "marked" /\ flight'[h].pc = "marked" =>
          tokens[flight[g].token].session # tokens[flight[h].token].session
    BY <1>1, <1>11, <1>19, <2>1 DEF ClientInv, FlightsApart
  <2>5. flight'[g].pc = "ok" => flight'[g] = flight[g]
    BY <1>5, <1>11
  <2>6. flight'[h].pc = "ok" => flight'[h] = flight[h]
    BY <1>5, <1>11
  <2> QED
    BY <1>15, <2>1, <2>3, <2>4, <2>5, <2>6 DEF ClientInv, FlightsApart
<1>21. StoredFits'
  <2> SUFFICES ASSUME stored # 0
               PROVE  /\ stored \in DOMAIN m
                      /\ \A g \in Flights :
                           Refreshing(g)' /\ flight'[g].token = stored => flight'[g].tab # Null
                      /\ m[stored].used =>
                           \E g \in Flights : Refreshing(g)' /\ flight'[g].token = stored
    BY <1>6, <1>7 DEF StoredFits
  <2>1. stored \in DOMAIN tokens
    BY StoredIs
  <2>2. \A g \in Flights : flight'[g].tab = flight[g].tab
    BY <1>5, <1>11
  <2>3. \A g \in Flights :
          Refreshing(g)' /\ flight'[g].token = stored => flight'[g].tab # Null
    BY <1>14, <1>15, <2>2 DEF ClientInv, StoredFits
  <2>4. ASSUME m[stored].used
        PROVE  \E g \in Flights : Refreshing(g)' /\ flight'[g].token = stored
    <3>1. CASE stored = t
      BY <1>1, <1>2, <1>14, <1>15, <3>1
    <3>2. CASE stored # t
      <4>1. tokens[stored].used
        BY <1>9, <2>1, <2>4, <3>2
      <4> QED
        BY <1>14, <1>15, <4>1 DEF ClientInv, StoredFits
    <3> QED
      BY <3>1, <3>2
  <2> QED
    BY <1>8, <2>1, <2>3, <2>4
<1>22. TokensFit'
  <2>1. \A u \in DOMAIN m : session[m[u].session] # "absent"
    BY <1>8, <1>9 DEF ClientInv, TokensFit
  <2>2. \A u, v \in DOMAIN m :
          m[u].session = m[v].session /\ ~m[u].used /\ ~m[v].used => u = v
    BY <1>8, <1>9 DEF ClientInv, TokensFit
  <2> QED
    BY <1>6, <1>7, <2>1, <2>2 DEF TokensFit
<1>23. RevokedOnlyBySignOut'
  <2>1. \A u \in DOMAIN m : m[u].revoked => m[u].session \in leaving
    BY <1>8, <1>9 DEF ClientInv, RevokedOnlyBySignOut
  <2> QED
    BY <1>6, <1>7, <2>1 DEF RevokedOnlyBySignOut
<1> QED
  BY <1>12, <1>13, <1>18, <1>20, <1>21, <1>22, <1>23 DEF ClientInv

(* The next token of a session whose tokens were all used.                 *)
LEMMA IssueNextKeeps ==
  ASSUME ClientInv, NEW f \in Flights, IssueNext(f)
  PROVE  ClientInv'
<1>1. PICK t : t = flight[f].token
  OBVIOUS
<1>2. PICK s : s = tokens[t].session
  OBVIOUS
<1>3. PICK n : n = Len(tokens) + 1
  OBVIOUS
<1>4. Refreshing(f) /\ RefreshFits(f) /\ flight[f].pc = "marked"
  BY FlightIs DEF IssueNext, Refreshing
<1>5. /\ t \in DOMAIN tokens /\ s \in Sessions
      /\ \A u \in DOMAIN tokens : tokens[u].session = s => tokens[u].used
  BY <1>1, <1>2, <1>4, TokenIs DEF RefreshFits
<1>6. /\ tokens' = Append(tokens, NewToken(s))
      /\ session' = [session EXCEPT ![s] = IF @ = "idle" THEN "open" ELSE @]
      /\ UNCHANGED <<stored, tab, call, leaving>>
  BY <1>1, <1>2 DEF IssueNext
<1>7. /\ tokens' \in Seq(Token) /\ Len(tokens') = n
      /\ n \in Nat /\ n # 0 /\ n \notin DOMAIN tokens
      /\ DOMAIN tokens' = DOMAIN tokens \cup {n}
      /\ \A u \in DOMAIN tokens : tokens'[u] = tokens[u]
      /\ tokens'[n].session = s /\ ~tokens'[n].used /\ ~tokens'[n].revoked
  BY <1>3, <1>5, <1>6, Appended
<1>8. PICK r : r = [flight[f] EXCEPT !.pc = "ok", !.new = n]
  OBVIOUS
<1>9. /\ r \in FlightDoc /\ r.kind = "refresh" /\ r.pc = "ok" /\ r.token = t
      /\ r.tab = flight[f].tab /\ r.new = n
  BY <1>1, <1>4, <1>7, <1>8, FlightIs DEF FlightDoc, Refreshing
<1>10. flight' = [flight EXCEPT ![f] = r]
  BY <1>7, <1>8 DEF IssueNext, ClientInv, ClientType
<1>11. \A g \in Flights : flight'[g] = IF g = f THEN r ELSE flight[g]
  BY <1>10 DEF ClientInv, ClientType
<1>12. /\ session' \in [Sessions -> {"absent", "open", "idle", "revoked"}]
       /\ \A o \in Sessions : session'[o] = "absent" => session[o] = "absent"
  BY <1>6 DEF ClientInv, ClientType
<1>13. ClientType' /\ CallsPlaced'
  BY <1>6, <1>7, <1>9, <1>10, <1>12 DEF ClientInv, ClientType, CallsPlaced
<1>14. Awaiting'
  BY <1>4, <1>6, <1>9, <1>10, AwaitingKept
<1>15. \A g \in Flights : Refreshing(g)' <=> Refreshing(g)
  BY <1>4, <1>9, <1>11 DEF Refreshing
<1>16. \A g \in Flights : flight'[g].token = flight[g].token
  BY <1>1, <1>9, <1>11
<1>17. \A g \in Flights : Refreshing(g) => flight[g].token \in DOMAIN tokens
  BY FlightIs DEF RefreshFits
<1>18. ASSUME NEW g \in Flights, g # f, Refreshing(g), flight[g].pc = "marked"
       PROVE  tokens[flight[g].token].session # s
  BY <1>1, <1>2, <1>4, <1>18 DEF ClientInv, FlightsApart
<1>19. ASSUME NEW g \in Flights, Refreshing(g)'
       PROVE  RefreshFits(g)'
  <2>1. Refreshing(g) /\ RefreshFits(g) /\ flight[g].token \in DOMAIN tokens
    BY <1>15, <1>17, <1>19, FlightIs
  <2>2. CASE g = f
    <3>1. stored # n
      BY <1>7, StoredIs
    <3>2. \A h \in Flights : Refreshing(h)' => flight'[h].token # n
      BY <1>7, <1>15, <1>16, <1>17
    <3> QED
      BY <1>5, <1>6, <1>7, <1>9, <1>11, <2>2, <3>1, <3>2 DEF RefreshFits
  <2>3. CASE g # f
    <3>1. flight'[g] = flight[g]
      BY <1>11, <2>3
    <3>2. flight[g].pc = "marked" =>
            \A u \in DOMAIN tokens' :
              tokens'[u].session = tokens[flight[g].token].session => tokens'[u].used
      BY <1>7, <1>18, <2>1, <2>3 DEF RefreshFits
    <3>3. flight[g].pc = "ok" =>
            \A h \in Flights : Refreshing(h)' => flight'[h].token # flight[g].new
      BY <1>15, <1>16, <2>1 DEF RefreshFits
    <3>4. flight[g].pc = "ok" =>
            flight[g].new \in DOMAIN tokens' /\ ~tokens'[flight[g].new].used
      BY <1>7, <2>1 DEF RefreshFits
    <3>5. tokens'[flight[g].token] = tokens[flight[g].token]
      BY <1>7, <2>1
    <3> QED
      BY <1>6, <1>7, <2>1, <3>1, <3>2, <3>3, <3>4, <3>5 DEF RefreshFits
  <2> QED
    BY <2>2, <2>3
<1>20. FlightsFit'
  <2>1. ASSUME NEW g \in Flights, flight'[g].kind = "signout"
        PROVE  flight'[g].token \in DOMAIN tokens'
               /\ tokens'[flight'[g].token].session \in leaving'
    BY <1>6, <1>7, <1>9, <1>11, <2>1 DEF ClientInv, FlightsFit
  <2>2. \A g \in Flights : flight'[g].kind = "none" => flight'[g].pc = "none"
    BY <1>9, <1>11 DEF ClientInv, FlightsFit
  <2> QED
    BY <1>19, <2>1, <2>2 DEF FlightsFit
<1>21. FlightsApart'
  <2> SUFFICES ASSUME NEW g \in Flights, NEW h \in Flights, g # h,
                      Refreshing(g)', Refreshing(h)'
               PROVE  /\ flight'[g].token # flight'[h].token
                      /\ flight'[g].pc = "ok" /\ flight'[h].pc = "ok" =>
                           flight'[g].new # flight'[h].new
                      /\ flight'[g].pc = "marked" /\ flight'[h].pc = "marked" =>
                           tokens'[flight'[g].token].session # tokens'[flight'[h].token].session
    BY DEF FlightsApart
  <2>1. /\ Refreshing(g) /\ Refreshing(h) /\ flight'[g].token = flight[g].token
        /\ flight'[h].token = flight[h].token
    BY <1>15, <1>16
  <2>2. /\ tokens'[flight[g].token] = tokens[flight[g].token]
        /\ tokens'[flight[h].token] = tokens[flight[h].token]
    BY <1>7, <1>17, <2>1
  <2>3. \A o \in Flights : Refreshing(o) /\ flight[o].pc = "ok" => flight[o].new # n
    BY <1>7, FlightIs DEF RefreshFits
  <2>4. flight'[g].pc = "ok" /\ flight'[h].pc = "ok" => flight'[g].new # flight'[h].new
    BY <1>9, <1>11, <2>1, <2>3 DEF ClientInv, FlightsApart
  <2>5. /\ flight'[g].pc = "marked" => flight'[g] = flight[g]
        /\ flight'[h].pc = "marked" => flight'[h] = flight[h]
    BY <1>9, <1>11
  <2> QED
    BY <2>1, <2>2, <2>4, <2>5 DEF ClientInv, FlightsApart
<1>22. StoredFits'
  <2>1. \A g \in Flights : flight'[g].tab = flight[g].tab
    BY <1>9, <1>11
  <2>2. stored # 0 => stored \in DOMAIN tokens /\ tokens'[stored] = tokens[stored]
    BY <1>7, StoredIs
  <2> QED
    BY <1>6, <1>7, <1>15, <1>16, <2>1, <2>2 DEF ClientInv, StoredFits
<1>23. TokensFit'
  <2>1. \A u \in DOMAIN tokens' : session'[tokens'[u].session] # "absent"
    <3>1. \A u \in DOMAIN tokens : tokens[u].session \in Sessions
      BY TokenIs
    <3>2. session[s] # "absent"
      BY <1>2, <1>5 DEF ClientInv, TokensFit
    <3> QED
      BY <1>5, <1>7, <1>12, <3>1, <3>2 DEF ClientInv, TokensFit
  <2> QED
    BY <1>5, <1>7, <2>1 DEF ClientInv, TokensFit
<1>24. RevokedOnlyBySignOut'
  BY <1>6, <1>7 DEF ClientInv, RevokedOnlyBySignOut
<1> QED
  BY <1>13, <1>14, <1>20, <1>21, <1>22, <1>23, <1>24 DEF ClientInv

----------------------------------------------------------------------------
LEMMA ClientInit ==
  ASSUME Init
  PROVE  ClientInv
<1>1. tokens = <<>> /\ DOMAIN tokens = {} /\ tokens \in Seq(Token)
  BY EmptySeq DEF Init
<1>2. NoCall \in CallDoc /\ NoCall.pc = "idle"
  BY DEF NoCall, CallDoc
<1>3. ClientType
  BY <1>1, <1>2, NoFlightIs, NewPageIs DEF Init, ClientType
<1>4. \A f \in Flights : flight[f] = NoFlight /\ f # Null
  BY SessionAssumption DEF Init
<1>5. Awaiting
  BY <1>4, NoFlightIs, NewPageIs DEF Init, Awaiting, Refreshing
<1>6. FlightsFit /\ FlightsApart
  BY <1>4, NoFlightIs DEF FlightsFit, FlightsApart, Refreshing
<1>7. CallsPlaced
  BY <1>2 DEF Init, CallsPlaced
<1>8. StoredFits /\ TokensFit /\ RevokedOnlyBySignOut
  BY <1>1 DEF Init, StoredFits, TokensFit, RevokedOnlyBySignOut
<1> QED
  BY <1>3, <1>5, <1>6, <1>7, <1>8 DEF ClientInv

LEMMA ClientNext ==
  ASSUME ClientInv, OnePage, [Next]_vars
  PROVE  ClientInv'
<1>1. CASE UserStep
  <2>1. ~\E b \in Tabs, c \in Calls, f \in Flights : Reload(b, c, f)
    BY DEF OnePage, Reload
  <2> QED
    BY <1>1, <2>1, SignInKeeps, StartCallKeeps, SignOutKeeps, SignOutLocallyKeeps DEF UserStep
<1>2. CASE Clock
  BY <1>2, ExpireAccessKeeps, GoIdleKeeps DEF Clock
<1>3. CASE Loss
  BY <1>3, RefreshFailsKeeps, SignedOutKeeps DEF Loss
<1>4. ASSUME NEW c \in Calls, CallStep(c)
      PROVE  ClientInv'
  BY <1>4, ServeKeeps, JoinRefreshKeeps, RefuseSignedOutKeeps, StartRefreshKeeps DEF CallStep
<1>5. ASSUME NEW f \in Flights, FlightStep(f)
      PROVE  ClientInv'
  BY <1>5, ValidateKeeps, MarkUsedKeeps, IssueNextKeeps, RevokeSessionKeeps,
     RevokeTokensKeeps, DropAnswerKeeps, ReceiveRefreshedKeeps, RefreshFailsKeeps,
     SignedOutKeeps DEF FlightStep
<1>6. CASE UNCHANGED vars
  <2>1. UNCHANGED <<session, tokens, flight, stored, tab, call, leaving>>
    BY <1>6 DEF vars
  <2>2. call' \in [Calls -> CallDoc] /\ CallsPlaced'
    BY <2>1 DEF ClientInv, ClientType, CallsPlaced
  <2> QED
    BY <2>1, <2>2, CallAlone
<1> QED
  BY <1>1, <1>2, <1>3, <1>4, <1>5, <1>6 DEF Next

(* In a browser with one page, not loaded anew, the refreshes, the stored  *)
(* token and the families of tokens fit together, whatever is lost on the  *)
(* way, expires, goes idle or signs out in between (axios.ts against       *)
(* session.service.js).                                                    *)
THEOREM ClientInvariant ==
  ASSUME OnePage
  PROVE  Spec => []ClientInv
<1>1. Init => ClientInv
  BY ClientInit
<1>2. ClientInv /\ [Next]_vars => ClientInv'
  BY ClientNext
<1> QED
  BY <1>1, <1>2, PTL DEF Spec

(* Reuse detection never revokes the family of a session whose user did    *)
(* not sign out: no refresh of the browser's spends a token twice          *)
(* (session.service.js rotateRefreshToken, axios.ts refreshAccessToken).   *)
THEOREM ReuseNeverFires ==
  ASSUME OnePage
  PROVE  Spec => []RevokedOnlyBySignOut
<1>1. ClientInv => RevokedOnlyBySignOut
  BY DEF ClientInv
<1> QED
  BY <1>1, ClientInvariant, PTL

(* A session has at most one refresh token that can still be rotated, and  *)
(* the token in localStorage is unused or being spent by a refresh the     *)
(* page awaits (session.service.js rotateRefreshToken, axios.ts).          *)
THEOREM TokensStayInStep ==
  ASSUME OnePage
  PROVE  Spec => []TokensInStep
<1>1. ClientInv => OneLiveToken
  <2> SUFFICES ASSUME ClientInv, NEW s \in Sessions
               PROVE  Cardinality({t \in Family(s) : ~tokens[t].used /\ ~tokens[t].revoked}) <= 1
    BY DEF OneLiveToken
  <2>1. PICK A : A = {t \in Family(s) : ~tokens[t].used /\ ~tokens[t].revoked}
    OBVIOUS
  <2>2. \A t, u \in A : t = u
    BY <2>1 DEF Family, ClientInv, TokensFit
  <2>3. CASE A = {}
    BY <2>1, <2>3, FS_EmptySet
  <2>4. CASE A # {}
    <3>1. PICK t \in A : TRUE
      BY <2>4
    <3>2. A = {t}
      BY <2>2, <3>1
    <3>3. Cardinality(A) = 1
      BY <3>2, FS_Singleton
    <3> QED
      BY <2>1, <3>3
  <2> QED
    BY <2>3, <2>4
<1>2. ClientInv => StoredIsFresh
  BY DEF ClientInv, StoredFits, StoredIsFresh, Refreshing
<1>3. ClientInv => TokensInStep
  BY <1>1, <1>2 DEF TokensInStep
<1> QED
  BY <1>3, ClientInvariant, PTL

===============================================================================
