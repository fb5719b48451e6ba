------------------------------- MODULE Notices -------------------------------
(***************************************************************************)
(* The notifications about one request and the people of it: how an event  *)
(* becomes rows in inboxes, who opts out of what, and what is read         *)
(* (notification.service.js, the inbox page and the bell).                 *)
(*                                                                         *)
(* The bus awaits this subscriber before the call that published goes on,  *)
(* and several calls publish at once.  Deliveries interleave at their      *)
(* database calls; what throws ends the delivery, and the bus catches it.  *)
(* Texts and links are left out.                                           *)
(***************************************************************************)
EXTENDS Naturals, Sequences, FiniteSets

CONSTANTS
  Senders,           \* calls that publish
  Requester, Boss,   \* two people
  Nobody,            \* no approver or no manager
  Toggled(_),        \* bound: the types whose box a person clicks
  MaxEvents          \* bound: events published

People == {Requester, Boss}

ASSUME NoticesAssumption ==
  /\ Requester # Boss /\ Nobody \notin People
  /\ MaxEvents \in Nat

VARIABLES
  approver, manager,   \* of the request and of its requester
  status,              \* of the request
  optOut,              \* optOut[u]: types stored in the preferences
  shownPrefs,          \* shownPrefs[u]: what the person's page loaded, or Nobody
  inbox,               \* rows: the event, to whom, read or not, and the order
  published,           \* events published: what was due, and how it went
  sending              \* sending[c]: the call's delivery

noticeVars == <<approver, manager, status, optOut, shownPrefs, inbox, published, sending>>

(* Events, the types they give and the targets of the catalog.             *)
TRIGGER_CATALOG ==
  [submitted     |-> [type |-> "assigned", recipients |-> <<"approver", "manager">>],
   decided       |-> [type |-> "decided", recipients |-> <<"requester">>],
   cancelled     |-> [type |-> "cancelled", recipients |-> <<"approver">>],
   passwordReset |-> [type |-> "passwordReset", recipients |-> <<"requester">>],
   slipUploaded  |-> [type |-> "slipUploaded", recipients |-> <<"requester">>]]
Types == {TRIGGER_CATALOG[e].type : e \in DOMAIN TRIGGER_CATALOG}
MANDATORY_TYPES == {"assigned", "passwordReset"}

ShouldDeliver(type, preferences) == type \in MANDATORY_TYPES \/ type \notin preferences

Idle == [op |-> "idle"]

NoticesInit ==
  /\ approver \in {Boss, Nobody} /\ manager \in {Boss, Nobody} /\ status = "none"
  /\ optOut = [u \in People |-> {}] /\ shownPrefs = [u \in People |-> Nobody]
  /\ inbox = {} /\ published = <<>> /\ sending = [c \in Senders |-> Idle]

requestVars == <<approver, status>>
preferenceVars == <<optOut, shownPrefs>>

----------------------------------------------------------------------------
(* Publishing.  due is what the catalog promises at that moment.           *)

Targets(targets, requester, boss) ==
  {CASE targets[i] = "approver" -> approver
     [] targets[i] = "manager" -> boss
     [] targets[i] = "requester" -> requester : i \in DOMAIN targets} \ {Nobody}

Due(event) ==
  LET trigger == TRIGGER_CATALOG[event] IN
  {u \in Targets(trigger.recipients, Requester, manager) : ShouldDeliver(trigger.type, optOut[u])}

Publish(c, event) ==
  /\ sending[c] = Idle /\ Len(published) < MaxEvents
  /\ published' = Append(published, [event |-> event, due |-> Due(event), state |-> "open"])
  /\ sending' = [sending EXCEPT ![c] = [op |-> "resolve", no |-> Len(published) + 1]]

(* submitRequest, decide and cancel, after their write; and the two events *)
(* without a request.                                                      *)
AnnounceSubmission(c) ==
  /\ status = "none" /\ status' = "PENDING"
  /\ Publish(c, "submitted")
  /\ UNCHANGED <<approver, manager, preferenceVars, inbox>>
AnnounceEnd(c, event) ==
  /\ status = "PENDING" /\ event \in {"decided", "cancelled"}
  /\ status' = event
  /\ Publish(c, event)
  /\ UNCHANGED <<approver, manager, preferenceVars, inbox>>
PublishDirect(c, event) ==
  /\ event \in {"passwordReset", "slipUploaded"}
  /\ Publish(c, event)
  /\ UNCHANGED <<requestVars, manager, preferenceVars, inbox>>

(* onEvent: the recipients are a set, the manager is read now.             *)
OnEvent(c) ==
  LET no == sending[c].no
      targets == TRIGGER_CATALOG[published[no].event].recipients
  IN
  /\ sending[c].op = "resolve"
  /\ sending' = [sending EXCEPT ![c] =
       [op |-> "next", no |-> no, to |-> Targets(targets, Requester, manager)]]
  /\ UNCHANGED <<requestVars, manager, preferenceVars, inbox, published>>

(* create reads the preferences, and then inserts.                         *)
ReadPreferences(c, u) ==
  LET type == TRIGGER_CATALOG[published[sending[c].no].event].type IN
  /\ sending[c].op = "next" /\ u \in sending[c].to
  /\ sending' = [sending EXCEPT ![c] =
       IF ShouldDeliver(type, optOut[u])
         THEN [op |-> "insert", no |-> sending[c].no, to |-> sending[c].to \ {u}, u |-> u]
         ELSE [sending[c] EXCEPT !.to = @ \ {u}]]
  /\ UNCHANGED <<requestVars, manager, preferenceVars, inbox, published>>

Insert(c) ==
  /\ sending[c].op = "insert"
  /\ inbox' = inbox \cup {[to |-> sending[c].u, no |-> sending[c].no, read |-> FALSE,
                           order |-> Cardinality(inbox) + 1]}
  /\ sending' = [sending EXCEPT ![c] = [op |-> "next", no |-> @.no, to |-> @.to]]
  /\ UNCHANGED <<requestVars, manager, preferenceVars, published>>

EndDelivery(c, state) ==
  /\ published' = [published EXCEPT ![sending[c].no].state =
                     IF @ = "disturbed" THEN @ ELSE state]
  /\ sending' = [sending EXCEPT ![c] = Idle]
  /\ UNCHANGED <<requestVars, manager, preferenceVars, inbox>>

Delivered(c) == sending[c].op = "next" /\ sending[c].to = {} /\ EndDelivery(c, "delivered")

(* Mutant of DeliveryFails: what failed is started again.                  *)
DeliveryRestarts(c) ==
  /\ sending[c].op \in {"next", "insert"}
  /\ sending' = [sending EXCEPT ![c] = [op |-> "resolve", no |-> @.no]]
  /\ UNCHANGED <<requestVars, manager, preferenceVars, inbox, published>>

DeliveryFails(c) == sending[c].op \in {"resolve", "next", "insert"} /\ EndDelivery(c, "failed")

----------------------------------------------------------------------------
(* The people.                                                             *)

(* What was due may change while a delivery is under way.                  *)
Disturb ==
  published' = [i \in DOMAIN published |->
    IF published[i].state = "open" THEN [published[i] EXCEPT !.state = "disturbed"]
    ELSE published[i]]

ChangeManager(boss) ==
  /\ boss # manager /\ manager' = boss /\ Disturb
  /\ UNCHANGED <<requestVars, preferenceVars, inbox, sending>>

(* claimForUser: a request that a role may decide gets its approver.       *)
Claim ==
  /\ status = "PENDING" /\ approver = Nobody
  /\ approver' = Boss /\ Disturb
  /\ UNCHANGED <<status, manager, preferenceVars, inbox, sending>>

LoadPage(u) ==
  /\ shownPrefs' = [shownPrefs EXCEPT ![u] = optOut[u]]
  /\ UNCHANGED <<requestVars, manager, optOut, inbox, published, sending>>

(* The page sends the whole list, computed from the one it loaded; the     *)
(* boxes of mandatory types are disabled.                                  *)
ToggleOptOut(u, type) ==
  /\ shownPrefs[u] # Nobody /\ type \in Toggled(u) \ MANDATORY_TYPES
  /\ optOut' = [optOut EXCEPT ![u] = IF type \in shownPrefs[u] THEN shownPrefs[u] \ {type}
                                     ELSE shownPrefs[u] \cup {type}]
  /\ Disturb
  /\ UNCHANGED <<requestVars, manager, shownPrefs, inbox, sending>>

(* A row is opened; rows never go, so a page that was loaded earlier lists *)
(* none that is not there.                                                 *)
MarkRead(u, n) ==
  /\ n \in inbox
  /\ inbox' = {IF r.order = n.order /\ r.to = u THEN [r EXCEPT !.read = TRUE] ELSE r : r \in inbox}
  /\ UNCHANGED <<requestVars, manager, preferenceVars, published, sending>>

MarkAllRead(u) ==
  /\ inbox' = {IF r.to = u THEN [r EXCEPT !.read = TRUE] ELSE r : r \in inbox}
  /\ UNCHANGED <<requestVars, manager, preferenceVars, published, sending>>

NoticesNext ==
  \/ \E c \in Senders :
       \/ AnnounceSubmission(c) \/ \E e \in DOMAIN TRIGGER_CATALOG : AnnounceEnd(c, e) \/ PublishDirect(c, e)
       \/ OnEvent(c) \/ Insert(c) \/ Delivered(c) \/ DeliveryFails(c)
       \/ \E u \in People : ReadPreferences(c, u)
  \/ \E boss \in {Boss, Nobody} : ChangeManager(boss)
  \/ Claim
  \/ \E u \in People :
       \/ LoadPage(u) \/ MarkAllRead(u)
       \/ \E type \in Types : ToggleOptOut(u, type)
       \/ \E n \in inbox : MarkRead(u, n)

NoticesSpec == NoticesInit /\ [][NoticesNext]_noticeVars

----------------------------------------------------------------------------
(* A delivery that nothing disturbed gives everyone who was due one row,   *)
(* and nobody else any; one that failed, or was disturbed, gives nobody    *)
(* two.                                                                    *)
RowsOf(no, u) == {n \in inbox : n.no = no /\ n.to = u}

ToldOnce ==
  \A i \in DOMAIN published :
    /\ published[i].state = "delivered" =>
         published[i].due = {u \in People : RowsOf(i, u) # {}}
    /\ published[i].state = "failed" =>
         {u \in People : RowsOf(i, u) # {}} \subseteq published[i].due
    /\ \A u \in People : Cardinality(RowsOf(i, u)) <= 1
=============================================================================
