------------------------------ MODULE Geocoder ------------------------------
(***************************************************************************)
(* The addresses of the locations in a report: calls of resolveMany queue  *)
(* up behind one another, read the cache, and ask a provider outside for   *)
(* what is missing, no more often than it allows, until the deadline that  *)
(* began to run when the report asked (reverse-geocoder.js,                *)
(* location-geocode.repository.js, report.service.js enrichLocations).     *)
(*                                                                         *)
(* A location is its rounded key.  The clock runs freely: a timer fires    *)
(* when it is due or later, an answer may come at any time before it.      *)
(***************************************************************************)
EXTENDS Naturals, FiniteSets, Sequences

CONSTANTS
  Points,       \* rounded coordinates
  GeoCalls,     \* reports being made
  Deadlines,    \* time a preview or an export gives
  MinInterval,  \* between two requests to the provider
  Timeout,      \* of one request
  MaxClock,     \* bound: the clock stops here
  MaxGeoCalls,  \* bound: calls in one behaviour
  CacheMayFail  \* may the cache collection be out of reach?

ASSUME GeocoderAssumption ==
  /\ Deadlines \subseteq Nat /\ MinInterval \in Nat /\ Timeout \in Nat \ {0}
  /\ MaxClock \in Nat /\ MaxGeoCalls \in Nat /\ CacheMayFail \in BOOLEAN

VARIABLES
  clock,
  lookups,    \* geocoding.enabled: may the provider be asked?
  geo,        \* geo[g]: what a call is at
  queue,      \* calls in the order they run; the first one runs
  lastAt,     \* lastRequestAt, as the set of at most one time
  cached,     \* keys with an address in location_geocodes
  geoCalls,   \* calls begun
  askedAt,    \* observer: when the provider was asked
  resolved    \* observer: keys the provider has given an address for

geoVars == <<clock, lookups, geo, queue, lastAt, cached, geoCalls, askedAt, resolved>>

NoGeoCall == [pc |-> "idle", wanted |-> {}, deadline |-> 0, missing |-> {}, at |-> {}, due |-> 0,
              found |-> {}, none |-> {}, blind |-> FALSE]

GeocoderInit ==
  /\ clock = 0 /\ lookups \in BOOLEAN
  /\ geo = [g \in GeoCalls |-> NoGeoCall] /\ queue = <<>> /\ lastAt = {}
  /\ cached = {} /\ geoCalls = 0 /\ askedAt = <<>> /\ resolved = {}

EarlierOf(a, b) == IF a < b THEN a ELSE b

(* mutant of Running: calls run side by side.                              *)
RunningAtOnce(g) == g \in {queue[i] : i \in DOMAIN queue}

Running(g) == queue # <<>> /\ Head(queue) = g

Resume(g, call) == geo' = [geo EXCEPT ![g] = call]

----------------------------------------------------------------------------

(* resolveMany: the deadline counts from here, the call waits its turn.    *)
AskAddresses(g, P, d) ==
  /\ geo[g].pc = "idle" /\ geoCalls < MaxGeoCalls
  /\ geoCalls' = geoCalls + 1
  /\ Resume(g, [NoGeoCall EXCEPT !.pc = "queued", !.wanted = P, !.deadline = clock + d])
  /\ queue' = Append(queue, g)
  /\ UNCHANGED <<clock, lookups, lastAt, cached, askedAt, resolved>>

(* resolveManyInternal up to its loop.  A cache that fails is an empty one;*)
(* without a provider what is missing stays without an address.            *)
ReadCache(g) ==
  /\ Running(g) /\ geo[g].pc = "queued"
  /\ \E entries \in {cached} \cup (IF CacheMayFail THEN {{}} ELSE {}) :
       LET missing == geo[g].wanted \ entries IN
       Resume(g, [geo[g] EXCEPT !.pc = "loop", !.found = geo[g].wanted \cap entries,
                    !.missing = IF lookups THEN missing ELSE {},
                    !.none = IF lookups THEN {} ELSE missing,
                    !.blind = entries # cached])
  /\ UNCHANGED <<clock, lookups, queue, lastAt, cached, geoCalls, askedAt, resolved>>

GiveUp(g, p) ==
  Resume(g, [geo[g] EXCEPT !.pc = "loop", !.missing = @ \ {p}, !.at = {}, !.none = @ \cup {p}])

Request(g, p) ==
  /\ lastAt' = {clock} /\ askedAt' = Append(askedAt, clock)
  /\ Resume(g, [geo[g] EXCEPT !.pc = "asked", !.at = {p},
                  !.due = clock + EarlierOf(Timeout, geo[g].deadline - clock)])

(* The time at which the provider may be asked again.                      *)
NextSlot == IF lastAt = {} THEN clock
            ELSE LET t == (CHOOSE s \in lastAt : TRUE) + MinInterval
                 IN  IF t > clock THEN t ELSE clock

(* The next missing point: too late, or asked for at once, or after a wait.*)
TakePoint(g) ==
  /\ Running(g) /\ geo[g].pc = "loop"
  /\ \E p \in geo[g].missing :
       \/ /\ NextSlot >= geo[g].deadline
          /\ GiveUp(g, p) /\ UNCHANGED <<lastAt, askedAt>>
       \/ /\ NextSlot < geo[g].deadline /\ NextSlot = clock
          /\ Request(g, p)
       \/ /\ NextSlot < geo[g].deadline /\ NextSlot > clock
          /\ Resume(g, [geo[g] EXCEPT !.pc = "wait", !.at = {p}, !.due = NextSlot])
          /\ UNCHANGED <<lastAt, askedAt>>
  /\ UNCHANGED <<clock, lookups, queue, cached, geoCalls, resolved>>

(* mutant of EndWait: the wait may end before its time.                    *)
EndWaitEarly(g) ==
  /\ Running(g) /\ geo[g].pc = "wait"
  /\ \E p \in geo[g].at :
       IF clock >= geo[g].deadline THEN GiveUp(g, p) /\ UNCHANGED <<lastAt, askedAt>>
       ELSE Request(g, p)
  /\ UNCHANGED <<clock, lookups, queue, cached, geoCalls, resolved>>

(* The sleep of waitForRateLimit is over, on time or late.                 *)
EndWait(g) ==
  /\ Running(g) /\ geo[g].pc = "wait" /\ clock >= geo[g].due
  /\ \E p \in geo[g].at :
       IF clock >= geo[g].deadline THEN GiveUp(g, p) /\ UNCHANGED <<lastAt, askedAt>>
       ELSE Request(g, p)
  /\ UNCHANGED <<clock, lookups, queue, cached, geoCalls, resolved>>

(* The provider answers with an address ...                                *)
AnswerAddress(g) ==
  /\ Running(g) /\ geo[g].pc = "asked"
  /\ resolved' = resolved \cup geo[g].at
  /\ Resume(g, [geo[g] EXCEPT !.pc = "store", !.found = @ \cup geo[g].at])
  /\ UNCHANGED <<clock, lookups, queue, lastAt, cached, geoCalls, askedAt>>

(* ... or with none, an error, or not in time and is aborted.              *)
AnswerNothing(g) ==
  /\ Running(g) /\ geo[g].pc = "asked"
  /\ \E p \in geo[g].at : GiveUp(g, p)
  /\ UNCHANGED <<clock, lookups, queue, lastAt, cached, geoCalls, askedAt, resolved>>

(* mutant of StoreAddress: what the call wanted is stored, not what it has.*)
StoreWanted(g) ==
  /\ Running(g) /\ geo[g].pc = "store"
  /\ cached' = cached \cup geo[g].wanted
  /\ Resume(g, [geo[g] EXCEPT !.pc = "loop", !.missing = @ \ geo[g].at, !.at = {}])
  /\ UNCHANGED <<clock, lookups, queue, lastAt, geoCalls, askedAt, resolved>>

(* writeCache; that it fails is ignored.                                   *)
StoreAddress(g) ==
  /\ Running(g) /\ geo[g].pc = "store"
  /\ cached' \in {cached \cup geo[g].at} \cup (IF CacheMayFail THEN {cached} ELSE {})
  /\ Resume(g, [geo[g] EXCEPT !.pc = "loop", !.missing = @ \ geo[g].at, !.at = {}])
  /\ UNCHANGED <<clock, lookups, queue, lastAt, geoCalls, askedAt, resolved>>

(* Every point is dealt with: the report has its answer, the next call     *)
(* runs.                                                                   *)
Return(g) ==
  /\ Running(g) /\ geo[g].pc = "loop" /\ geo[g].missing = {}
  /\ queue' = Tail(queue)
  /\ Resume(g, [geo[g] EXCEPT !.pc = "done", !.due = 0])
  /\ UNCHANGED <<clock, lookups, lastAt, cached, geoCalls, askedAt, resolved>>

(* The report is sent; its slot may make another.                          *)
SendReport(g) ==
  /\ geo[g].pc = "done"
  /\ Resume(g, NoGeoCall)
  /\ UNCHANGED <<clock, lookups, queue, lastAt, cached, geoCalls, askedAt, resolved>>

PassTime ==
  /\ clock < MaxClock
  /\ clock' = clock + 1
  /\ UNCHANGED <<lookups, geo, queue, lastAt, cached, geoCalls, askedAt, resolved>>

GeocoderNext ==
  \/ \E g \in GeoCalls :
       \/ \E P \in SUBSET Points \ {{}}, d \in Deadlines : AskAddresses(g, P, d)
       \/ ReadCache(g) \/ TakePoint(g) \/ EndWait(g) \/ AnswerAddress(g) \/ AnswerNothing(g)
       \/ StoreAddress(g) \/ Return(g) \/ SendReport(g)
  \/ PassTime

GeocoderSpec == GeocoderInit /\ [][GeocoderNext]_geoVars

----------------------------------------------------------------------------
GeocoderTypeOK ==
  /\ clock \in 0 .. MaxClock /\ lookups \in BOOLEAN
  /\ lastAt \subseteq 0 .. MaxClock /\ Cardinality(lastAt) <= 1
  /\ cached \subseteq Points
  /\ \A g \in GeoCalls :
       /\ geo[g].pc \in {"idle", "queued", "loop", "wait", "asked", "store", "done"}
       /\ geo[g].missing \subseteq geo[g].wanted /\ geo[g].at \subseteq geo[g].missing

(* However many reports ask at once, the provider is asked by one of them  *)
(* at a time, and never twice within the interval (reverse-geocoder.js     *)
(* queue, waitForRateLimit).                                               *)
ProviderSpared ==
  /\ Cardinality({g \in GeoCalls : geo[g].pc = "asked"}) <= 1
  /\ \A i \in DOMAIN askedAt : i > 1 => askedAt[i] >= askedAt[i - 1] + MinInterval

(* The provider is not asked for what an earlier report has in the cache,  *)
(* unless the cache could not be read (resolveManyInternal, writeCache).   *)
AskedOnce == \A g \in GeoCalls : geo[g].pc = "asked" => geo[g].blind \/ geo[g].at \cap cached = {}

(* A report gets an answer for every point, and an address, cached or not, *)
(* only where the provider has once given one.                             *)
AnswersHonest ==
  /\ cached \subseteq resolved
  /\ \A g \in GeoCalls :
       /\ geo[g].found \subseteq resolved
       /\ geo[g].pc = "done" => geo[g].found \cup geo[g].none = geo[g].wanted

(* The three together.                                                     *)
GeocodingHolds == ProviderSpared /\ AskedOnce /\ AnswersHonest
=============================================================================
