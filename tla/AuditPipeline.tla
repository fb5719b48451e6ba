---------------------------- MODULE AuditPipeline ----------------------------
(***************************************************************************)
(* The capture pipeline of audit and activity events: every handler        *)
(* publishes through the outbox (audit-publisher.js, outbox.repository.js) *)
(* into the hash-chained audit trail (audit-event.repository.js) and the   *)
(* activity log.  Handlers run concurrently and interleave at every        *)
(* database call.                                                          *)
(*                                                                         *)
(* A hash is what it names: the record it was computed from.  recordedAt   *)
(* is a clock that no two events share, so that sorting by it is a total   *)
(* order; what else an event holds is left out.                            *)
(***************************************************************************)
EXTENDS Naturals, Sequences, FiniteSets, FiniteSetsExt

CONSTANTS
  Publishers,    \* handlers that record something
  Events,        \* what there is to record
  SurfaceOf,     \* classifyEvent: a set of surfaces for each event
  Limit,         \* entries claimed at a time (100 in the code)
  MaxEvents,     \* bound: how many of them happen
  MaxFaults,     \* bound: calls that fail and restarts of the process
  None

ASSUME PipelineAssumption ==
  /\ None \notin Events
  /\ SurfaceOf \in [Events -> SUBSET {"audit", "activity"}]
  /\ Limit \in Nat \ {0}
  /\ MaxEvents \in Nat /\ MaxFaults \in Nat

VARIABLES
  todo,       \* events nobody has published yet
  outbox,     \* outbox documents, oldest first
  log,        \* audit_events documents
  activity,   \* activity_logs: events in the order of arrival
  clock,      \* the next recordedAt
  handler,    \* handler[h]: where a publish is
  cut,        \* observer: events whose publish an error or a restart ended
  forked,     \* observer: has an append begun before another was done?
  shared,     \* observer: events whose entry two publishes had claimed at once
  faults      \* calls that failed and restarts so far

auditVars == <<todo, outbox, log, activity, clock, handler, cut, forked, shared, faults>>

(* An audit_events document; prev is the recordedAt of the record that     *)
(* prevHash names, 0 for the empty string.                                 *)
Logged == [event : Events, at : Nat, prev : Nat]

Handler ==
  [pc : {"idle", "claim", "write", "stamp", "insert", "activity", "mark", "fail"},
   event : Events \cup {None}, batch : SUBSET Nat, prev : Nat, at : Nat]
Rest == [pc |-> "idle", event |-> None, batch |-> {}, prev |-> 0, at |-> 0]

AuditInit ==
  /\ todo \in {happen \in SUBSET Events : Cardinality(happen) <= MaxEvents}
  /\ outbox = <<>>
  /\ log = {}
  /\ activity = <<>>
  /\ clock = 1
  /\ handler = [h \in Publishers |-> Rest]
  /\ cut = {} /\ forked = FALSE /\ shared = {} /\ faults = 0

Fault == faults < MaxFaults /\ faults' = faults + 1

Goto(h, pc) == handler' = [handler EXCEPT ![h].pc = pc]
Entry(h) == Min(handler[h].batch)
Writing(h) == outbox[Entry(h)].event
NextEntry(h) ==
  handler' = [handler EXCEPT ![h].pc = "write",
                               ![h].batch = @ \ {Entry(h)}]
SetStatus(h, status) == outbox' = [outbox EXCEPT ![Entry(h)].status = status]

----------------------------------------------------------------------------
(* publish: stage the event, then drain.                                   *)
Enqueue(h, e) ==
  /\ handler[h].pc = "idle" /\ e \in todo
  /\ todo' = todo \ {e}
  /\ outbox' = Append(outbox, [event |-> e, status |-> "PENDING"])
  /\ handler' = [handler EXCEPT ![h].pc = "claim", ![h].event = e]
  /\ UNCHANGED <<log, activity, clock, cut, forked, shared, faults>>

(* The insert fails, and with it publish and whoever called it.            *)
EnqueueFails(h, e) ==
  /\ Fault /\ handler[h].pc = "idle" /\ e \in todo
  /\ todo' = todo \ {e}
  /\ cut' = cut \cup {e}
  /\ UNCHANGED <<outbox, log, activity, clock, handler, forked, shared>>

(* claimPending's query: the n oldest PENDING entries, by position.        *)
Oldest(n) ==
  LET pending == {i \in DOMAIN outbox : outbox[i].status = "PENDING"}
  IN  {i \in pending : Cardinality({k \in pending : k <= i}) <= n}

(* The entries the other publishes have in hand.                           *)
Held(h) == UNION {handler[o].batch : o \in Publishers \ {h}}

(* Mutant of Claim: the limit is one short.                                *)
ClaimShort(h) ==
  /\ handler[h].pc = "claim"
  /\ handler' = [handler EXCEPT ![h].pc = "write", ![h].batch = Oldest(Limit - 1)]
  /\ shared' = shared \cup {outbox[i].event : i \in Held(h) \cap Oldest(Limit - 1)}
  /\ UNCHANGED <<todo, outbox, log, activity, clock, cut, forked, faults>>

(* claimPending: a query; the entries it returns are not marked.           *)
Claim(h) ==
  /\ handler[h].pc = "claim"
  /\ handler' = [handler EXCEPT ![h].pc = "write", ![h].batch = Oldest(Limit)]
  /\ shared' = shared \cup {outbox[i].event : i \in Held(h) \cap Oldest(Limit)}
  /\ UNCHANGED <<todo, outbox, log, activity, clock, cut, forked, faults>>

Finish(h) ==
  /\ handler[h].pc = "write" /\ handler[h].batch = {}
  /\ handler' = [handler EXCEPT ![h] = Rest]
  /\ UNCHANGED <<todo, outbox, log, activity, clock, cut, forked, shared, faults>>

----------------------------------------------------------------------------
(* write of one entry: the audit trail first, then the activity log.       *)

(* Mutant of Latest: the latest event's own prevHash.                      *)
LatestPrevious == IF log = {} THEN 0
                  ELSE (CHOOSE r \in log : \A o \in log : o.at <= r.at).prev

Latest == IF log = {} THEN 0
          ELSE (CHOOSE r \in log : \A o \in log : o.at <= r.at).at

(* Another publish is between reading the latest event and its insert.    *)
Appending(h) == \E o \in Publishers \ {h} : handler[o].pc \in {"stamp", "insert"}

(* append reads the hash of the latest event ...                           *)
ReadLatest(h) ==
  /\ handler[h].pc = "write" /\ handler[h].batch # {}
  /\ "audit" \in SurfaceOf[Writing(h)]
  /\ handler' = [handler EXCEPT ![h].pc = "stamp", ![h].prev = Latest]
  /\ forked' = (forked \/ Appending(h))
  /\ UNCHANGED <<todo, outbox, log, activity, clock, cut, shared, faults>>

SkipAudit(h) ==
  /\ handler[h].pc = "write" /\ handler[h].batch # {}
  /\ "audit" \notin SurfaceOf[Writing(h)]
  /\ Goto(h, "activity")
  /\ UNCHANGED <<todo, outbox, log, activity, clock, cut, forked, shared, faults>>

(* ... takes the time when the answer arrives ...                          *)
Stamp(h) ==
  /\ handler[h].pc = "stamp"
  /\ handler' = [handler EXCEPT ![h].pc = "insert", ![h].at = clock]
  /\ clock' = clock + 1
  /\ UNCHANGED <<todo, outbox, log, activity, cut, forked, shared, faults>>

(* ... and inserts the record.                                             *)
Insert(h) ==
  /\ handler[h].pc = "insert"
  /\ log' = log \cup {[event |-> Writing(h), at |-> handler[h].at,
                       prev |-> handler[h].prev]}
  /\ Goto(h, "activity")
  /\ UNCHANGED <<todo, outbox, activity, clock, cut, forked, shared, faults>>

InsertActivity(h) ==
  /\ handler[h].pc = "activity"
  /\ activity' = IF "activity" \in SurfaceOf[Writing(h)]
                 THEN Append(activity, Writing(h)) ELSE activity
  /\ Goto(h, "mark")
  /\ UNCHANGED <<todo, outbox, log, clock, cut, forked, shared, faults>>

MarkPublished(h) ==
  /\ handler[h].pc = "mark"
  /\ SetStatus(h, "PUBLISHED")
  /\ NextEntry(h)
  /\ UNCHANGED <<todo, log, activity, clock, cut, forked, shared, faults>>

(* Any call of the try block fails.                                        *)
WriteFails(h) ==
  /\ Fault
  /\ handler[h].pc \in {"write", "insert", "activity", "mark"}
  /\ handler[h].batch # {}
  /\ Goto(h, "fail")
  /\ UNCHANGED <<todo, outbox, log, activity, clock, cut, forked, shared>>

(* Mutant of MarkFailed: a failed entry counts as published.               *)
MarkDone(h) ==
  /\ handler[h].pc = "fail"
  /\ SetStatus(h, "PUBLISHED")
  /\ NextEntry(h)
  /\ UNCHANGED <<todo, log, activity, clock, cut, forked, shared, faults>>

(* Mutant of MarkFailed: a failed entry stays where the next publish will  *)
(* claim it again.                                                         *)
LeavePending(h) ==
  /\ handler[h].pc = "fail"
  /\ NextEntry(h)
  /\ UNCHANGED <<todo, outbox, log, activity, clock, cut, forked, shared, faults>>

MarkFailed(h) ==
  /\ handler[h].pc = "fail"
  /\ SetStatus(h, "FAILED")
  /\ NextEntry(h)
  /\ UNCHANGED <<todo, log, activity, clock, cut, forked, shared, faults>>

(* The bookkeeping of a failure fails too: publish raises.                 *)
MarkFailedFails(h) ==
  /\ Fault /\ handler[h].pc = "fail"
  /\ cut' = cut \cup {handler[h].event}
  /\ handler' = [handler EXCEPT ![h] = Rest]
  /\ UNCHANGED <<todo, outbox, log, activity, clock, forked, shared>>

(* The process restarts; the outbox is all that is left of a publish.      *)
Restart ==
  /\ Fault
  /\ cut' = cut \cup ({handler[h].event : h \in Publishers} \ {None})
  /\ handler' = [h \in Publishers |-> Rest]
  /\ UNCHANGED <<todo, outbox, log, activity, clock, forked, shared>>

Step(h) ==
  \/ Claim(h) \/ Finish(h) \/ ReadLatest(h) \/ SkipAudit(h) \/ Stamp(h)
  \/ Insert(h) \/ InsertActivity(h) \/ MarkPublished(h) \/ MarkFailed(h)

AuditNext ==
  \/ \E h \in Publishers :
       \/ Step(h) \/ WriteFails(h) \/ MarkFailedFails(h)
       \/ \E e \in Events : Enqueue(h, e) \/ EnqueueFails(h, e)
  \/ Restart

AuditSpec == AuditInit /\ [][AuditNext]_auditVars

(* A publish that has begun goes on.                                       *)
AuditFairness == \A h \in Publishers : WF_auditVars(Step(h))

----------------------------------------------------------------------------
AuditTypeOK ==
  /\ todo \subseteq Events /\ cut \subseteq Events /\ shared \subseteq Events
  /\ forked \in BOOLEAN /\ faults \in 0 .. MaxFaults
  /\ outbox \in Seq([event : Events, status : {"PENDING", "PUBLISHED", "FAILED"}])
  /\ log \subseteq Logged
  /\ activity \in Seq(Events)
  /\ clock \in Nat
  /\ handler \in [Publishers -> Handler]
  /\ \A h \in Publishers : handler[h].batch \subseteq DOMAIN outbox

InActivity(e) == \E i \in DOMAIN activity : activity[i] = e

(* A published entry has reached every surface its event is classified     *)
(* for, whoever dispatched it; and no event enters the audit trail or the  *)
(* activity log twice, unless two publishes had claimed its entry at the   *)
(* same time or a publish was cut short: a failed entry is not dispatched  *)
(* again (audit-publisher.js dispatchPending, outbox.repository.js         *)
(* claimPending, markFailed).                                              *)
Recorded(e) ==
  /\ "audit" \in SurfaceOf[e] => \E r \in log : r.event = e
  /\ "activity" \in SurfaceOf[e] => InActivity(e)

Repeated(e) ==
  \/ \E r, o \in log : r # o /\ r.event = e /\ o.event = e
  \/ \E i, k \in DOMAIN activity : i # k /\ activity[i] = e /\ activity[k] = e

PublishedOnce ==
  /\ \A i \in DOMAIN outbox : outbox[i].status = "PUBLISHED" => Recorded(outbox[i].event)
  /\ cut = {} => \A e \in Events \ shared : ~Repeated(e)

(* What verifyChain looks for: in the order of recordedAt, each record     *)
(* carries the hash of the one before (audit-event.repository.js,          *)
(* hash-chain-verifier.js).                                                *)
ChainIntact ==
  \A r \in log :
    LET before == {o \in log : o.at < r.at} IN
    IF before = {} THEN r.prev = 0
    ELSE \E o \in before : o.at = r.prev /\ \A x \in before : x.at <= o.at

(* verifyChain finds the trail intact as long as no append began before    *)
(* another was done: whatever fails, restarts or is recorded twice.        *)
ChainValid == forked \/ ChainIntact

(* The entries that wait, but for those whose own publish was cut short.   *)
Waiting ==
  {i \in DOMAIN outbox : outbox[i].status = "PENDING" /\ outbox[i].event \notin cut}

(* No entry is stranded, though nothing polls the outbox and publishes     *)
(* dispatch each other's entries: while at most Limit entries wait, what   *)
(* was staged leaves the PENDING state, and a time comes when none waits,  *)
(* unless its own publish was cut short (audit-publisher.js                *)
(* dispatchPending).                                                       *)
Drained == Waiting # {} ~> Waiting = {}
=============================================================================
