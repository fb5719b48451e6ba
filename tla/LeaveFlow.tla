------------------------------ MODULE LeaveFlow ------------------------------
(***************************************************************************)
(* One employee's leave: the quota check of LeaveService.submit, and what  *)
(* the subscribers of the request events do with it - the balance counters *)
(* (leave-balance.service.js), the attendance calendar                     *)
(* (attendance-leave-sync.service.js) and the per-user quota mirror        *)
(* (leave-quota.service.js) - beside HR setting entitlements.              *)
(*                                                                         *)
(* The request itself is reduced to its status and payload: that a change  *)
(* of status is one guarded write is what RequestLifecycle is about.  A    *)
(* handler is a job; each of its database calls is a step.                 *)
(***************************************************************************)
EXTENDS Integers, FiniteSets, FiniteSetsExt

CONSTANTS
  Requests, Jobs,
  Types,
  BalanceBased,    \* the leave types that have a quota
  Years, ThisYear,
  Payloads,        \* what a leave form may hold: type (by id or key), year, dates
  Granted,         \* Granted[t, y]: first entitlement, or Null for no row
  Quotas,          \* entitlements HR may set
  Null,
  MayEdit          \* may a pending request be edited?

Bucket == Types \X Years

ASSUME LeaveAssumption ==
  /\ BalanceBased \subseteq Types /\ ThisYear \in Years
  /\ Granted \in [Bucket -> Nat \cup {Null}] /\ Quotas \subseteq Nat
  /\ \A p \in Payloads :
       /\ p.type \in Types /\ p.named \in {"id", "key"} /\ p.year \in Years
       /\ p.dates \subseteq Nat /\ IsFiniteSet(p.dates) /\ p.dates # {}
  /\ MayEdit \in BOOLEAN

ASSUME LeaveNullAssumption == Null \notin Types \cup Requests

VARIABLES
  req,       \* req[r]: status and payload of a leave request
  row,       \* row[b]: the leave_balances row of a bucket, or Null
  used,      \* used[t]: usedDays of the user's quota mirror
  att,       \* att[d]: the attendance record of a date
  job,       \* job[j]: a handler under way
  overlap,   \* observer: have two calls that check, then write, met?
  highest,   \* observer: highest[b], the most days b was ever granted
  unchecked  \* observer: unchecked[b], the days reserved without a look at b

leaveVars == <<req, row, used, att, job, overlap, highest, unchecked>>
granting == <<highest, unchecked>>

Dates == UNION {p.dates : p \in Payloads}
NoPayload == [type |-> Null, named |-> Null, year |-> Null, dates |-> {}]
BucketOf(p) == <<p.type, p.year>>
(* rawDayDiff: no calendar service is wired.                               *)
Days(p) == Cardinality(p.dates)

Row == [entitlement : Int, adjustment : Int, consumed : Nat, reserved : Int]
ASSUME LeaveNoRow == Null \notin Row

Zero == [entitlement |-> 0, adjustment |-> 0, consumed |-> 0, reserved |-> 0]
NewRow(n) == [Zero EXCEPT !.entitlement = n]

Available(r) ==
  IF r = Null THEN 0
  ELSE r.entitlement + r.adjustment - r.consumed - r.reserved

(* The days of a row that are held or taken, beyond what HR adjusted; and  *)
(* what it was granted.                                                    *)
Taken(r) == IF r = Null THEN 0 ELSE r.consumed + r.reserved - r.adjustment
Entitled(r) == IF r = Null THEN 0 ELSE r.entitlement

(* adjust: one $inc that creates the row when it is missing.               *)
Adjusted(r, entitlement, reserved, consumed) ==
  LET old == IF r = Null THEN Zero ELSE r IN
  [old EXCEPT !.entitlement = @ + entitlement, !.reserved = @ + reserved,
              !.consumed = @ + consumed]

Job ==
  [op : {"none", "submit", "cancel", "decide", "quota"},
   pc : {"none", "create", "event", "sync", "insert", "mirror", "write"},
   request : Requests \cup {Null}, payload : Payloads \cup {NoPayload},
   left : SUBSET Dates, bucket : Bucket \cup {Null},
   seen : Row \cup {Null}, quota : Quotas \cup {Null}]
Idle ==
  [op |-> "none", pc |-> "none", request |-> Null, payload |-> NoPayload,
   left |-> {}, bucket |-> Null, seen |-> Null, quota |-> Null]

LeaveInit ==
  /\ req = [r \in Requests |-> [status |-> "NONE", payload |-> NoPayload]]
  /\ row = [b \in Bucket |-> IF Granted[b] = Null THEN Null ELSE NewRow(Granted[b])]
  /\ used = [t \in Types |-> 0]
  /\ att = [d \in Dates |-> "none"]
  /\ job = [j \in Jobs |-> Idle]
  /\ overlap = FALSE
  /\ highest = [b \in Bucket |-> IF Granted[b] = Null THEN 0 ELSE Granted[b]]
  /\ unchecked = [b \in Bucket |-> 0]

Start(j, next) == job[j] = Idle /\ job' = [job EXCEPT ![j] = next]
Finish(j) == job' = [job EXCEPT ![j] = Idle]
At(j, op, pc) == job[j].op = op /\ job[j].pc = pc
Busy(r) == \E j \in Jobs : job[j].request = r

----------------------------------------------------------------------------
(* Submission.                                                             *)

(* isActiveType, which guards submit, finds a type by its id or its key;   *)
(* the lookup before the quota check finds it by its id alone.             *)
FoundById(p) == p.named = "id"

(* Mutant of WithinQuota: one day too many.                                *)
WithinQuotaAndADay(p) ==
  FoundById(p) /\ p.type \in BalanceBased =>
    Days(p) <= Available(row[<<p.type, ThisYear>>]) + 1

(* LeaveService.submit: the days asked for against what remains this year. *)
WithinQuota(p) ==
  FoundById(p) /\ p.type \in BalanceBased =>
    Days(p) <= Available(row[<<p.type, ThisYear>>])

(* Does submit look at the row that the days of p are reserved from?       *)
Looks(p) == FoundById(p) /\ p.type \in BalanceBased /\ p.year = ThisYear

(* Such a submission, like a change of entitlement, writes what follows    *)
(* from a balance it read earlier.                                         *)
Checks(k) == k.op = "quota" \/ (k.op = "submit" /\ Looks(k.payload))
CheckThenWrite == overlap' = (overlap \/ \E k \in Jobs : Checks(job[k]))

BeginSubmit(j, r, p) ==
  /\ req[r].status = "NONE" /\ ~Busy(r) /\ WithinQuota(p)
  /\ Start(j, [Idle EXCEPT !.op = "submit", !.pc = "create", !.request = r,
                           !.payload = p])
  /\ IF Looks(p) THEN CheckThenWrite ELSE UNCHANGED overlap
  /\ UNCHANGED <<req, row, used, att, granting>>

Create(j) ==
  LET r == job[j].request IN
  /\ At(j, "submit", "create")
  /\ req' = [req EXCEPT ![r] = [status |-> "PENDING", payload |-> job[j].payload]]
  /\ job' = [job EXCEPT ![j].pc = "event"]
  /\ UNCHANGED <<row, used, att, overlap, granting>>

(* onRequestSubmitted: the payload of the event, whose type is resolved    *)
(* from an id or a key.                                                    *)
Reserve(j) ==
  LET p == job[j].payload IN
  /\ At(j, "submit", "event")
  /\ row' = [row EXCEPT ![BucketOf(p)] = Adjusted(@, 0, Days(p), 0)]
  /\ unchecked' = [unchecked EXCEPT ![BucketOf(p)] =
                     IF Looks(p) THEN @ ELSE @ + Days(p)]
  /\ Finish(j)
  /\ UNCHANGED <<req, used, att, overlap, highest>>

(* The requester replaces the payload of a pending request; no event.      *)
Edit(r, p) ==
  /\ MayEdit /\ req[r].status = "PENDING"
  /\ req' = [req EXCEPT ![r].payload = p]
  /\ UNCHANGED <<row, used, att, job, overlap, granting>>

----------------------------------------------------------------------------
(* The end of a request: the status, then the subscribers of its event.    *)

Cancel(j, r) ==
  /\ req[r].status = "PENDING"
  /\ req' = [req EXCEPT ![r].status = "CANCELLED"]
  /\ Start(j, [Idle EXCEPT !.op = "cancel", !.pc = "event", !.request = r])
  /\ UNCHANGED <<row, used, att, overlap, granting>>

Decide(j, r, to) ==
  /\ req[r].status = "PENDING" /\ to \in {"APPROVED", "REJECTED"}
  /\ req' = [req EXCEPT ![r].status = to]
  /\ Start(j, [Idle EXCEPT !.op = "decide", !.pc = "event", !.request = r])
  /\ UNCHANGED <<row, used, att, overlap, granting>>

(* onRequestCancelled: the payload of the request as it is now.            *)
Release(j) ==
  LET p == req[job[j].request].payload IN
  /\ At(j, "cancel", "event")
  /\ row' = [row EXCEPT ![BucketOf(p)] = Adjusted(@, 0, -Days(p), 0)]
  /\ Finish(j)
  /\ UNCHANGED <<req, used, att, overlap, granting>>

(* Mutant of Settle: an approval consumes the days and keeps them reserved.*)
SettleTwice(j) ==
  LET r == job[j].request
      p == req[r].payload
  IN
  /\ At(j, "decide", "event")
  /\ IF req[r].status = "APPROVED"
     THEN /\ row' = [row EXCEPT ![BucketOf(p)] = Adjusted(@, 0, 0, Days(p))]
          /\ job' = [job EXCEPT ![j].pc = "sync", ![j].left = p.dates]
     ELSE /\ row' = [row EXCEPT ![BucketOf(p)] = Adjusted(@, 0, -Days(p), 0)]
          /\ Finish(j)
  /\ UNCHANGED <<req, used, att, overlap, granting>>

(* onRequestDecided of the balance service, the first subscriber.          *)
Settle(j) ==
  LET r == job[j].request
      p == req[r].payload
  IN
  /\ At(j, "decide", "event")
  /\ IF req[r].status = "APPROVED"
     THEN /\ row' = [row EXCEPT ![BucketOf(p)] =
                       Adjusted(@, 0, -Days(p), Days(p))]
          /\ job' = [job EXCEPT ![j].pc = "sync", ![j].left = p.dates]
     ELSE /\ row' = [row EXCEPT ![BucketOf(p)] = Adjusted(@, 0, -Days(p), 0)]
          /\ Finish(j)
  /\ UNCHANGED <<req, used, att, overlap, granting>>

(* onDecided of the attendance sync, date by date: look for a record ...   *)
FindRecord(j) ==
  /\ At(j, "decide", "sync")
  /\ IF job[j].left = {}
     THEN job' = [job EXCEPT ![j].pc = "mirror"]
     ELSE IF att[Min(job[j].left)] # "none"
          THEN job' = [job EXCEPT ![j].left = @ \ {Min(@)}]
          ELSE job' = [job EXCEPT ![j].pc = "insert"]
  /\ UNCHANGED <<req, row, used, att, overlap, granting>>

(* Mutant of InsertRecord: a replace where the code inserts.               *)
ReplaceRecord(j) ==
  LET d == Min(job[j].left) IN
  /\ At(j, "decide", "insert")
  /\ att' = [att EXCEPT ![d] = "leave"]
  /\ job' = [job EXCEPT ![j].pc = "sync", ![j].left = @ \ {d}]
  /\ UNCHANGED <<req, row, used, overlap, granting>>

(* ... and insert one.  The unique index refuses a second record of the    *)
(* date, and the error ends the whole loop.                                *)
InsertRecord(j) ==
  LET d == Min(job[j].left) IN
  /\ At(j, "decide", "insert")
  /\ IF att[d] = "none"
     THEN /\ att' = [att EXCEPT ![d] = "leave"]
          /\ job' = [job EXCEPT ![j].pc = "sync", ![j].left = @ \ {d}]
     ELSE /\ job' = [job EXCEPT ![j].pc = "mirror", ![j].left = {}]
          /\ UNCHANGED att
  /\ UNCHANGED <<req, row, used, overlap, granting>>

(* What request.decided carries of the request's payload.                  *)
PayloadOfEvent(r) == NoPayload

(* onDecided of the quota mirror: a payload without a leave type ends it.  *)
CountQuota(j) ==
  LET p == PayloadOfEvent(job[j].request) IN
  /\ At(j, "decide", "mirror")
  /\ used' = IF p.type = Null THEN used ELSE [used EXCEPT ![p.type] = @ + Days(p)]
  /\ Finish(j)
  /\ UNCHANGED <<req, row, att, overlap, granting>>

(* The employee clocks in on a date without a record.                      *)
ClockIn(d) ==
  /\ att[d] = "none"
  /\ att' = [att EXCEPT ![d] = "worked"]
  /\ UNCHANGED <<req, row, used, job, overlap, granting>>

----------------------------------------------------------------------------
(* HR.                                                                     *)

(* setEntitlement: the row as it is ...                                    *)
BeginSetEntitlement(j, b, n) ==
  /\ b[1] \in BalanceBased /\ b[2] = ThisYear
  /\ Start(j, [Idle EXCEPT !.op = "quota", !.pc = "write", !.bucket = b,
                           !.seen = row[b], !.quota = n])
  /\ CheckThenWrite
  /\ UNCHANGED <<req, row, used, att, granting>>

Written(j) ==
  LET seen == job[j].seen
      b == job[j].bucket
  IN
  IF seen = Null THEN NewRow(job[j].quota)
  ELSE Adjusted(row[b], job[j].quota - seen.entitlement, 0, 0)

(* ... and the write that follows from it.  The remainder is looked at     *)
(* afterwards: a negative one ends the call in LEAVE_QUOTA_NEGATIVE and    *)
(* the row stays as written.                                               *)
SetEntitlement(j) ==
  /\ At(j, "quota", "write")
  /\ row' = [row EXCEPT ![job[j].bucket] = Written(j)]
  /\ highest' = [highest EXCEPT ![job[j].bucket] = Max({@, job[j].quota})]
  /\ Finish(j)
  /\ UNCHANGED <<req, used, att, overlap, unchecked>>

JobStep(j) ==
  \/ Create(j) \/ Reserve(j) \/ Release(j) \/ Settle(j)
  \/ FindRecord(j) \/ InsertRecord(j) \/ CountQuota(j) \/ SetEntitlement(j)

LeaveNext ==
  \/ \E j \in Jobs :
       \/ JobStep(j)
       \/ \E r \in Requests :
            \/ \E p \in Payloads : BeginSubmit(j, r, p)
            \/ Cancel(j, r)
            \/ \E to \in {"APPROVED", "REJECTED"} : Decide(j, r, to)
       \/ \E b \in Bucket, n \in Quotas : BeginSetEntitlement(j, b, n)
  \/ \E r \in Requests, p \in Payloads : Edit(r, p)
  \/ \E d \in Dates : ClockIn(d)

LeaveSpec == LeaveInit /\ [][LeaveNext]_leaveVars

----------------------------------------------------------------------------
LeaveTypeOK ==
  /\ \A r \in Requests :
       /\ req[r].status \in {"NONE", "PENDING", "APPROVED", "REJECTED", "CANCELLED"}
       /\ req[r].payload \in Payloads \cup {NoPayload}
  /\ \A b \in Bucket : row[b] \in Row \cup {Null}
  /\ used \in [Types -> Nat]
  /\ att \in [Dates -> {"none", "leave", "worked"}]
  /\ job \in [Jobs -> Job] /\ overlap \in BOOLEAN
  /\ highest \in [Bucket -> Nat] /\ unchecked \in [Bucket -> Nat]

Of(status, b) ==
  {r \in Requests : req[r].status = status /\ BucketOf(req[r].payload) = b}
(* The days of the requests R, each day counted once for every request.    *)
TotalDays(R) == Cardinality(UNION {{r} \X req[r].payload.dates : r \in R})
Counters(b) == IF row[b] = Null THEN Zero ELSE row[b]

(* Whatever the order in which submissions, decisions and cancellations    *)
(* reach the counters: once no event is on its way, a bucket reserves the  *)
(* days of its pending requests and has consumed those of its approved     *)
(* ones (leave-balance.service.js onRequestSubmitted, onRequestCancelled,  *)
(* onRequestDecided).                                                      *)
BalanceMatchesRequests ==
  (\A j \in Jobs : job[j].pc # "event") =>
    \A b \in Bucket :
      /\ Counters(b).reserved = TotalDays(Of("PENDING", b))
      /\ Counters(b).consumed = TotalDays(Of("APPROVED", b))

(* Only checks that overlap can over-book: otherwise the days of a bucket  *)
(* that are held and taken never exceed the most it was ever granted, but  *)
(* for those that no submission looked at the bucket for, whatever         *)
(* decisions, cancellations, edits, unchecked submissions and changes of   *)
(* entitlement come in between (leave.service.js submit,                   *)
(* domain/leave-balance.js).                                               *)
NoOverbook ==
  ~overlap => \A b \in Bucket : Taken(row[b]) <= highest[b] + unchecked[b]

(* "the client can never bypass the quota" (leave.service.js:38-39): while *)
(* HR lowers no entitlement and no two checks overlap, a balance that is   *)
(* the measure of a quota never becomes negative.                          *)
QuotaNeverBypassed ==
  ~overlap => \A b \in Bucket : b[1] \in BalanceBased => Available(row[b]) >= 0

(* The leave sync never touches a record that is there, whoever wrote it   *)
(* and whenever (attendance-leave-sync.service.js, createLeaveIfAbsent).   *)
AttendanceKept ==
  [][\A d \in Dates : att[d] # "none" => att'[d] = att[d]]_leaveVars

(* Once its handlers are done, the quota mirror counts the days of         *)
(* approved leave (leave-quota.service.js onDecided).                      *)
UsedDaysCounted ==
  (\A j \in Jobs : job[j].op # "decide") =>
    \A t \in Types :
      used[t] = TotalDays({r \in Requests : req[r].status = "APPROVED"
                                            /\ req[r].payload.type = t})
=============================================================================
