-------------------------- MODULE RequestLifecycle --------------------------
(***************************************************************************)
(* The request lifecycle as the backend runs it.  HTTP handlers of         *)
(* request.service.js, approval.service.js and approval-engine.service.js  *)
(* interleave at every await over one document per request in MongoDB.     *)
(* A handler reads the document, checks it, writes it back with            *)
(* RequestRepository.updateStatus (guarded by the version it read) or with *)
(* claimForUser (guarded by the assignment), then appends to the timeline  *)
(* and publishes on the in-process event bus, one await at a time.         *)
(*                                                                         *)
(* Abstractions.  A payload is a model value; times, comments and name     *)
(* snapshots are left out; the audit record that follows each timeline     *)
(* entry is part of that entry's step, except the override audit, which a  *)
(* property is about.  Permissions, eligibility and hierarchy checks are   *)
(* constants: sets of users that pass them.                                *)
(***************************************************************************)
EXTENDS Naturals, Sequences, FiniteSets

CONSTANTS
  Requests,            \* request ids
  Users,
  Handlers,            \* HTTP requests being served at the same time
  Payloads,
  Null,                \* null user, null payload
  Requester,           \* Requester[r]: the user who submits r
  Eligible,            \* Eligible[r]: approvers eligible for r's type,
                       \* contract and hierarchy (getEligibleUsers, ancestors)
  InLine,              \* InLine[r]: users above the requester in the active
                       \* chart, or everybody when there is no chart
  Approvers,           \* holders of <type>:approve
  Overriders,          \* SUPER_ADMIN, "*" or approval:override
  HrAdmins,            \* holders of the HR_ADMIN role
  Delegations,         \* <<approver, delegate>> pairs that may be delegated
  Blocked,             \* requests whose type is under a cutoff block
  SelfApprovalAllowed, \* approval configuration, default FALSE
  MayFail,             \* may a handler die or an await throw midway?
  MaxVersion           \* bound: no edit of a document at this version

ASSUME LifecycleAssumption ==
  /\ Null \notin Users /\ Null \notin Payloads
  /\ Requester \in [Requests -> Users]
  /\ Eligible \in [Requests -> SUBSET Users]
  /\ InLine \in [Requests -> SUBSET Users]
  /\ Approvers \subseteq Users /\ Overriders \subseteq Users
  /\ HrAdmins \subseteq Users
  /\ Delegations \subseteq {d \in Users \X Users : d[1] # d[2]}
  /\ Blocked \subseteq Requests
  /\ SelfApprovalAllowed \in BOOLEAN /\ MayFail \in BOOLEAN
  /\ MaxVersion \in Nat

VARIABLES
  doc,          \* doc[r]: the stored request document
  job,          \* job[p]: what handler p is doing
  timeline,     \* timeline[r]: request-event collection, in append order
  published,    \* published[r]: bus events about r, in publication order
  delegates,    \* delegates[u]: who u's delegations that cover today name,
                \* newest first
  granted,      \* observer: every <<approver, delegate>> pair ever active
  audited       \* audited[r]: who has an APPROVAL.OVERRIDE audit record on r

vars == <<doc, job, timeline, published, delegates, granted, audited>>

UserOrNull == Users \cup {Null}
Decisions == {"APPROVED", "REJECTED"}
Terminal == Decisions \cup {"CANCELLED"}
Status == {"ABSENT", "DRAFT", "PENDING"} \cup Terminal
Event == {"SUBMITTED", "ASSIGNED", "EDITED", "CLAIMED"} \cup Terminal

(* The fields of the request model that a handler reads or writes: the     *)
(* embedded approval block is target .. blockBy, the decision is action    *)
(* and decider.                                                            *)
Document ==
  [status : Status, version : Nat, payload : Payloads \cup {Null},
   approver : UserOrNull, target : {"NONE", "ROLE", "USER"},
   assigned : UserOrNull,
   block : {"NONE", "PENDING_APPROVAL"} \cup Decisions,
   blockBy : UserOrNull,
   action : {"NONE"} \cup Decisions, decider : UserOrNull]

NoDocument ==
  [status |-> "ABSENT", version |-> 0, payload |-> Null, approver |-> Null,
   target |-> "NONE", assigned |-> Null, block |-> "NONE", blockBy |-> Null,
   action |-> "NONE", decider |-> Null]

(* The approval target and the resolved approver a submission carries: a   *)
(* USER target is assigned at once, a ROLE target waits to be claimed, and *)
(* without a target routing names an approver or nobody.                   *)
Routes(r) ==
  {[target |-> "ROLE", approver |-> Null]}
    \cup [target : {"USER"}, approver : Eligible[r]]
    \cup [target : {"NONE"}, approver : UserOrNull]

Route == [target : {"NONE", "ROLE", "USER"}, approver : UserOrNull]
NoRoute == [target |-> "NONE", approver |-> Null]

Effect == [kind : {"record", "publish"}, event : Event]
Record(e) == [kind |-> "record", event |-> e]
Publish(e) == [kind |-> "publish", event |-> e]

(* What a handler holds between two awaits: the document it last read      *)
(* (seen), what it will write, and the effects still to perform.           *)
Job ==
  [pc : {"idle", "pend", "cancel", "edit", "claim", "reread", "decide",
         "effects"},
   req : Requests \cup {Null}, actor : UserOrNull, seen : Document,
   payload : Payloads \cup {Null}, route : Route,
   verdict : {"NONE"} \cup Decisions, takeOver : BOOLEAN,
   todo : Seq(Effect)]

Idle ==
  [pc |-> "idle", req |-> Null, actor |-> Null, seen |-> NoDocument,
   payload |-> Null, route |-> NoRoute, verdict |-> "NONE",
   takeOver |-> FALSE, todo |-> <<>>]

Init ==
  /\ doc = [r \in Requests |-> NoDocument]
  /\ job = [p \in Handlers |-> Idle]
  /\ timeline = [r \in Requests |-> <<>>]
  /\ published = [r \in Requests |-> <<>>]
  /\ delegates = [u \in Users |-> <<>>]
  /\ granted = {}
  /\ audited = [r \in Requests |-> {}]

environment == <<delegates, granted>>
logs == <<timeline, published>>

(* The handler p starts with the job j, or ends with a result or an error. *)
Start(p, j) == job[p] = Idle /\ job' = [job EXCEPT ![p] = j]
End(p) == job' = [job EXCEPT ![p] = Idle]

(* Once its write succeeded, handler p has the effects es left to perform. *)
Perform(p, es) ==
  job' = [job EXCEPT ![p] =
            [Idle EXCEPT !.pc = "effects", !.req = job[p].req,
                         !.actor = job[p].actor, !.todo = es]]

----------------------------------------------------------------------------
(* Mutant: the write does not compare versions.                            *)
UpdateStatusUnguarded(p, new, es) ==
  /\ doc' = [doc EXCEPT ![job[p].req] =
               [new EXCEPT !.version = job[p].seen.version + 1]]
  /\ Perform(p, es)

(* Mutant: a lost write is reported as a success.                          *)
UpdateStatusSwallowingConflict(p, new, es) ==
  LET r == job[p].req IN
  /\ doc' = IF doc[r].version = job[p].seen.version
            THEN [doc EXCEPT ![r] =
                    [new EXCEPT !.version = job[p].seen.version + 1]]
            ELSE doc
  /\ Perform(p, es)

(* RequestRepository.updateStatus: write the document new if the version   *)
(* is still the one that was read, else REQUEST_VERSION_CONFLICT, which    *)
(* ends the handler.                                                       *)
UpdateStatus(p, new, es) ==
  LET r == job[p].req IN
  IF doc[r].version = job[p].seen.version
  THEN /\ doc' = [doc EXCEPT ![r] =
                    [new EXCEPT !.version = job[p].seen.version + 1]]
       /\ Perform(p, es)
  ELSE End(p) /\ UNCHANGED doc

----------------------------------------------------------------------------
(* RequestService.submitRequest: create the DRAFT ...                      *)
BeginSubmit(p, r, pay, route) ==
  /\ doc[r].status = "ABSENT"
  /\ doc' = [doc EXCEPT ![r] =
               [NoDocument EXCEPT !.status = "DRAFT", !.version = 1,
                                  !.payload = pay]]
  /\ Start(p, [Idle EXCEPT !.pc = "pend", !.req = r, !.actor = Requester[r],
                           !.seen = doc'[r], !.route = route])
  /\ UNCHANGED <<environment, logs, audited>>

(* Mutant: the API's name of the status is stored.                         *)
SubmittedInApiVocabulary(d, route) == [d EXCEPT !.status = "PENDING_APPROVAL"]

(* The document of a submission: a USER target is assigned at once.        *)
Submitted(d, route) ==
  [d EXCEPT
     !.status = "PENDING", !.approver = route.approver,
     !.target = route.target,
     !.assigned = IF route.target = "NONE" THEN Null ELSE route.approver,
     !.block = IF route.target = "NONE" THEN "NONE" ELSE "PENDING_APPROVAL"]

(* ... then move it to PENDING with the resolved approver; a submission    *)
(* with a target has two more effects, the ASSIGNED entry and event.       *)
Pend(p) ==
  LET j == job[p] IN
  /\ j.pc = "pend"
  /\ UpdateStatus(p, Submitted(doc[j.req], j.route),
       <<Record("SUBMITTED"), Publish("SUBMITTED")>>
         \o IF j.route.target = "NONE" THEN <<>>
            ELSE <<Record("ASSIGNED"), Publish("ASSIGNED")>>)
  /\ UNCHANGED <<environment, logs, audited>>

(* Mutant: the end of a request is recorded and not published.             *)
EndUnpublished(e) == <<Record(e)>>

(* What follows the write that ends a request: recordTransition, publish.  *)
EndEffects(e) == <<Record(e), Publish(e)>>

(* Mutant: anything not yet ended can be cancelled.                        *)
CancellableUnlessEnded(d) == d.status \notin Terminal \cup {"ABSENT"}

(* assertCancelAllowed *)
Cancellable(d) == d.status = "PENDING"

(* RequestService.cancelRequest, by the requester while PENDING.           *)
BeginCancel(p, r) ==
  /\ Cancellable(doc[r])
  /\ Start(p, [Idle EXCEPT !.pc = "cancel", !.req = r,
                           !.actor = Requester[r], !.seen = doc[r]])
  /\ UNCHANGED <<doc, environment, logs, audited>>

CommitCancel(p) ==
  /\ job[p].pc = "cancel"
  /\ UpdateStatus(p, [doc[job[p].req] EXCEPT !.status = "CANCELLED"],
                  EndEffects("CANCELLED"))
  /\ UNCHANGED <<environment, logs, audited>>

(* RequestService.editPendingRequest: replaces the payload, writes the     *)
(* EDITED entry and publishes nothing.                                     *)
BeginEdit(p, r, pay) ==
  /\ doc[r].status = "PENDING" /\ doc[r].version < MaxVersion
  /\ Start(p, [Idle EXCEPT !.pc = "edit", !.req = r, !.actor = Requester[r],
                           !.seen = doc[r], !.payload = pay])
  /\ UNCHANGED <<doc, environment, logs, audited>>

CommitEdit(p) ==
  /\ job[p].pc = "edit"
  /\ UpdateStatus(p, [doc[job[p].req] EXCEPT !.status = "PENDING",
                                             !.payload = job[p].payload],
                  <<Record("EDITED")>>)
  /\ UNCHANGED <<environment, logs, audited>>

----------------------------------------------------------------------------
(* ApprovalEngineService.claimApproval: the read and its checks, then      *)
(* RequestRepository.claimForUser, one conditional update that succeeds    *)
(* only while the request is PENDING, role-targeted and unassigned.        *)
Claimable(d) ==
  d.status = "PENDING" /\ d.target = "ROLE" /\ d.assigned = Null

(* Mutant: the claim does not count as a new version.                      *)
ClaimedUnversioned(d, u) == [d EXCEPT !.assigned = u, !.approver = u]

Claimed(d, u) ==
  [d EXCEPT !.assigned = u, !.approver = u, !.version = @ + 1]

BeginClaim(p, r, u) ==
  /\ Claimable(doc[r])
  /\ u \in Eligible[r]
  /\ u = Requester[r] => SelfApprovalAllowed
  /\ Start(p, [Idle EXCEPT !.pc = "claim", !.req = r, !.actor = u,
                           !.seen = doc[r]])
  /\ UNCHANGED <<doc, environment, logs, audited>>

CommitClaim(p) ==
  LET r == job[p].req IN
  /\ job[p].pc = "claim"
  /\ IF Claimable(doc[r])
     THEN /\ doc' = [doc EXCEPT ![r] = Claimed(doc[r], job[p].actor)]
          /\ Perform(p, <<Record("CLAIMED"), Publish("CLAIMED")>>)
     ELSE End(p) /\ UNCHANGED doc
  /\ UNCHANGED <<environment, logs, audited>>

----------------------------------------------------------------------------
(* Both decision endpoints read the request, check the actor against what  *)
(* they read, and compute the approval fields: an unassigned request is    *)
(* taken over by the actor.  They then call RequestService.transition,     *)
(* which reads the request again.                                          *)
BeginDecision(p, r, u, verdict) ==
  Start(p, [Idle EXCEPT !.pc = "reread", !.req = r, !.actor = u,
                        !.verdict = verdict,
                        !.takeOver = doc[r].assigned = Null])

(* DelegationService.resolveEffectiveApprover: the newest delegation that   *)
(* covers today wins; without one, nobody stands in.                       *)
EffectiveDelegate(u) ==
  IF u = Null \/ delegates[u] = <<>> THEN Null ELSE Head(delegates[u])

(* Mutant: the self-approval guard of ApprovalService is missing.          *)
MayDecideOwn(r, u) ==
  \/ u \in Overriders
  \/ u \in Approvers /\ u \in {doc[r].approver, EffectiveDelegate(doc[r].approver)}

(* ApprovalService.decide's checks: the approver or the approver's         *)
(* effective delegate with the permission, or an override authority; never *)
(* the requester.                                                          *)
MayDecide(r, u) ==
  /\ \/ u \in Overriders
     \/ u \in Approvers /\ u \in {doc[r].approver, EffectiveDelegate(doc[r].approver)}
  /\ u # Requester[r]

(* ApprovalService.decide (POST /approvals/:id/decide).  A cutoff block is *)
(* passed by whoever sends overrideCutoff, after an audit record.          *)
DecideApproval(p, r, u, verdict, overrideCutoff) ==
  /\ doc[r].status # "ABSENT"
  /\ MayDecide(r, u)
  /\ r \in Blocked => overrideCutoff
  /\ audited' = IF r \in Blocked THEN [audited EXCEPT ![r] = @ \cup {u}]
                                 ELSE audited
  /\ BeginDecision(p, r, u, verdict)
  /\ UNCHANGED <<doc, environment, logs>>

AssignedApprover(d) == IF d.assigned # Null THEN d.assigned ELSE d.approver

(* Mutant: any approver in the requester's line passes as the assigned one. *)
EngineMayDecideInLine(r, u) ==
  /\ u \in Overriders \/ (u \in Approvers /\ u \in InLine[r])
  /\ u = Requester[r] => SelfApprovalAllowed

(* ApprovalEngineService.decide's checks: the assigned approver in the     *)
(* requester's line or an HR admin, with the permission, or an override    *)
(* authority; the requester only where the configuration allows it.        *)
EngineMayDecide(r, u) ==
  /\ \/ u \in Overriders
     \/ /\ u \in Approvers
        /\ u \in HrAdmins \/ (AssignedApprover(doc[r]) = u /\ u \in InLine[r])
  /\ u = Requester[r] => SelfApprovalAllowed

(* ApprovalEngineService.decide (POST /requests/:id/approve and /reject)   *)
(* knows no cutoff and no delegation.                                      *)
EngineDecide(p, r, u, verdict) ==
  /\ doc[r].status # "ABSENT"
  /\ EngineMayDecide(r, u)
  /\ BeginDecision(p, r, u, verdict)
  /\ UNCHANGED <<doc, environment, logs, audited>>

(* RequestService.transition: the second read and the transition matrix,   *)
(* then the guarded write of status, decision and approval block.          *)
Reread(p) ==
  LET r == job[p].req IN
  /\ job[p].pc = "reread"
  /\ IF doc[r].status = "PENDING"
     THEN job' = [job EXCEPT ![p].pc = "decide", ![p].seen = doc[r]]
     ELSE End(p)
  /\ UNCHANGED <<doc, environment, logs, audited>>

CommitDecision(p) ==
  LET j == job[p] IN
  /\ j.pc = "decide"
  /\ UpdateStatus(p,
       [doc[j.req] EXCEPT
          !.status = j.verdict, !.action = j.verdict, !.decider = j.actor,
          !.target = j.seen.target,
          !.assigned = IF j.takeOver THEN j.actor ELSE j.seen.assigned,
          !.block = j.verdict, !.blockBy = j.actor],
       EndEffects(j.verdict))
  /\ UNCHANGED <<environment, logs, audited>>

----------------------------------------------------------------------------
(* The timeline entry (RequestEventRepository.append) or the bus event     *)
(* that a handler owes next, in the order its code awaits them.            *)
PerformNext(p) ==
  LET j == job[p]
      e == Head(j.todo)
  IN
  /\ j.pc = "effects"
  /\ IF e.kind = "record"
     THEN /\ timeline' = [timeline EXCEPT ![j.req] =
                            Append(@, [event |-> e.event, actor |-> j.actor])]
          /\ UNCHANGED published
     ELSE /\ published' = [published EXCEPT ![j.req] = Append(@, e.event)]
          /\ UNCHANGED timeline
  /\ IF Len(j.todo) = 1
     THEN End(p)
     ELSE job' = [job EXCEPT ![p].todo = Tail(@)]
  /\ UNCHANGED <<doc, environment, audited>>

(* Any await may throw (routing, database, audit outbox) and the process   *)
(* may stop: what was written stays, what was owed is lost.                *)
Abort(p) ==
  /\ MayFail /\ job[p] # Idle
  /\ End(p)
  /\ UNCHANGED <<doc, environment, logs, audited>>

(* DelegationService.createDelegation and revokeDelegation; a delegation   *)
(* also ends when its window does.  Bound: no pair is active twice.        *)
Delegate(u, v) ==
  /\ \A i \in DOMAIN delegates[u] : delegates[u][i] # v
  /\ delegates' = [delegates EXCEPT ![u] = <<v>> \o @]
  /\ granted' = granted \cup {<<u, v>>}
  /\ UNCHANGED <<doc, job, logs, audited>>

EndDelegation(u, i) ==
  /\ delegates' = [delegates EXCEPT ![u] =
                     SubSeq(@, 1, i - 1) \o SubSeq(@, i + 1, Len(@))]
  /\ UNCHANGED <<doc, job, granted, logs, audited>>

----------------------------------------------------------------------------
Begin(p) ==
  \E r \in Requests :
    \/ \E pay \in Payloads, route \in Routes(r) : BeginSubmit(p, r, pay, route)
    \/ BeginCancel(p, r)
    \/ \E pay \in Payloads : BeginEdit(p, r, pay)
    \/ \E u \in Users : BeginClaim(p, r, u)
    \/ \E u \in Users, verdict \in Decisions :
         \/ \E overrideCutoff \in BOOLEAN :
              DecideApproval(p, r, u, verdict, overrideCutoff)
         \/ EngineDecide(p, r, u, verdict)

(* The steps of a handler that is under way.                               *)
Continue(p) ==
  \/ Pend(p) \/ CommitCancel(p) \/ CommitEdit(p) \/ CommitClaim(p)
  \/ Reread(p) \/ CommitDecision(p) \/ PerformNext(p)

Next ==
  \/ \E p \in Handlers : Begin(p) \/ Continue(p) \/ Abort(p)
  \/ \E d \in Delegations : Delegate(d[1], d[2])
  \/ \E u \in Users : \E i \in DOMAIN delegates[u] : EndDelegation(u, i)

Spec == Init /\ [][Next]_vars

(* Node's event loop resumes every await that settles, so a handler that   *)
(* is under way keeps going; nothing forces a user to send a request.      *)
Fairness == \A p \in Handlers : WF_vars(Continue(p))

----------------------------------------------------------------------------
(* Every variable holds what the schema and the handlers' locals can hold. *)
TypeOK ==
  /\ doc \in [Requests -> Document]
  /\ job \in [Handlers -> Job]
  /\ timeline \in [Requests -> Seq([event : Event, actor : UserOrNull])]
  /\ published \in [Requests -> Seq(Event)]
  /\ delegates \in [Users -> Seq(Users)]
  /\ granted \subseteq Delegations
  /\ audited \in [Requests -> SUBSET Users]

(* A decided request carries one decision, told three times alike: in the  *)
(* status, in the decision block and in the approval block, by one actor,  *)
(* with an assignee; no other request carries any of it.                   *)
DecisionAgrees ==
  \A r \in Requests :
    LET d == doc[r] IN
    IF d.status \in Decisions
    THEN /\ d.action = d.status /\ d.block = d.status
         /\ d.decider = d.blockBy /\ d.decider # Null /\ d.assigned # Null
    ELSE /\ d.action = "NONE" /\ d.block \notin Decisions
         /\ d.decider = Null /\ d.blockBy = Null

(* Nobody decides a request of their own (assertNoSelfApproval), not by a  *)
(* claim, by a delegation back to them or by an override, unless the       *)
(* approval configuration allows it.                                       *)
NoSelfDecision ==
  \A r \in Requests :
    doc[r].decider = Requester[r] => SelfApprovalAllowed

(* Whoever decided was entitled by the document that was decided, not by   *)
(* an older one: an override authority, an HR admin with the permission,   *)
(* its approver, or a delegate of its approver.                            *)
DeciderEntitled ==
  \A r \in Requests :
    LET d == doc[r] IN
    d.decider # Null =>
      \/ d.decider \in Overriders
      \/ /\ d.decider \in Approvers
         /\ \/ d.decider \in HrAdmins
            \/ d.decider = d.approver
            \/ <<d.approver, d.decider>> \in granted

(* Decided and cancelled requests are immutable ("Decided requests are     *)
(* immutable", editPendingRequest), whatever handlers are still under way. *)
TerminalFinal ==
  [][\A r \in Requests : doc[r].status \in Terminal => doc'[r] = doc[r]]_doc

Positions(s, S) == {i \in DOMAIN s : s[i] \in S}

(* The timeline and the bus tell of at most one end of a request, and of   *)
(* the one it has, told by the one who decided it.                         *)
OneEndTold ==
  \A r \in Requests :
    /\ \A i, k \in Positions(published[r], Terminal) :
         i = k /\ published[r][i] = doc[r].status
    /\ \A i, k \in {n \in DOMAIN timeline[r] :
                    timeline[r][n].event \in Terminal} :
         /\ i = k /\ timeline[r][i].event = doc[r].status
         /\ doc[r].status \in Decisions =>
              timeline[r][i].actor = doc[r].decider

(* While no await throws, every write of a request that was created is in *)
(* its timeline exactly once or owed to it by exactly one handler (the     *)
(* ASSIGNED entry tells of no write of its own).                           *)
Owes(p, r) ==
  /\ job[p].req = r
  /\ \E i \in DOMAIN job[p].todo :
       job[p].todo[i].kind = "record" /\ job[p].todo[i].event # "ASSIGNED"

TimelineComplete ==
  ~MayFail =>
    \A r \in Requests :
      doc[r].version > 0 =>
        doc[r].version - 1 =
          Cardinality({i \in DOMAIN timeline[r] :
                         timeline[r][i].event # "ASSIGNED"})
          + Cardinality({p \in Handlers : Owes(p, r)})

(* The lifecycle promises of RequestSpec hold of the interleaved handlers. *)
Promise ==
  INSTANCE RequestSpec WITH
    status <- [r \in Requests |-> doc[r].status],
    decider <- [r \in Requests |-> doc[r].decider]

ImplementsRequestSpec == Promise!Spec

(* A request that reached an end is announced on the bus, so that balances *)
(* and attendance hear of it, as long as no handler dies on the way.       *)
EndAnnounced ==
  \A r \in Requests :
    doc[r].status \in Terminal ~> Positions(published[r], {doc[r].status}) # {}
=============================================================================
