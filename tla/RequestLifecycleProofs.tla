----------------------- MODULE RequestLifecycleProofs -----------------------
(***************************************************************************)
(* Proofs about RequestLifecycle for every set of requests, users and      *)
(* handlers.  The inductive invariant says what a handler under way may    *)
(* still believe of the document it read: its version is not newer than    *)
(* the stored one, and if the versions are equal the documents are.  With  *)
(* it, the version guard of updateStatus carries every check made on the   *)
(* read over to the write.                                                 *)
(***************************************************************************)
EXTENDS RequestLifecycle, FiniteSetTheorems, SequenceTheorems, TLAPS

(* What is true of each stored document d of request r.                    *)
DocumentOK(r, d) ==
  /\ d.status \in Decisions =>
       /\ d.action = d.status /\ d.block = d.status
       /\ d.decider = d.blockBy /\ d.decider # Null /\ d.assigned # Null
  /\ d.status \notin Decisions =>
       /\ d.action = "NONE" /\ d.block \notin Decisions
       /\ d.decider = Null /\ d.blockBy = Null
  /\ d.decider = Requester[r] => SelfApprovalAllowed
  /\ d.status \in {"ABSENT", "DRAFT"} => d.assigned = Null

(* What handler j read is not newer than the stored document, and is the   *)
(* stored document if nobody wrote since.                                  *)
Fresh(j) ==
  /\ j.seen.version <= doc[j.req].version
  /\ j.seen.version = doc[j.req].version => j.seen = doc[j.req]

(* What is true of each handler j under way.                               *)
JobOK(j) ==
  /\ j.pc # "idle" =>
       /\ j.req \in Requests /\ j.actor \in Users
       /\ doc[j.req].status # "ABSENT"
  /\ j.pc \in {"pend", "cancel", "edit", "decide"} => Fresh(j)
  /\ j.pc = "pend" => j.seen.status = "DRAFT"
  /\ j.pc \in {"cancel", "edit", "decide"} => j.seen.status = "PENDING"
  /\ j.pc \in {"reread", "decide"} =>
       /\ j.verdict \in Decisions
       /\ j.actor = Requester[j.req] => SelfApprovalAllowed
  /\ j.pc = "reread" => j.takeOver \/ doc[j.req].assigned # Null
  /\ j.pc = "decide" => j.takeOver \/ j.seen.assigned # Null
  /\ j.pc = "effects" => j.todo # <<>>

DocTypeOK == doc \in [Requests -> Document]
JobTypeOK == job \in [Handlers -> Job]
LogTypeOK ==
  /\ timeline \in [Requests -> Seq([event : Event, actor : UserOrNull])]
  /\ published \in [Requests -> Seq(Event)]
EnvironmentTypeOK ==
  /\ delegates \in [Users -> Seq(Users)]
  /\ granted \subseteq Delegations
  /\ audited \in [Requests -> SUBSET Users]

IInv ==
  /\ DocTypeOK /\ JobTypeOK /\ LogTypeOK /\ EnvironmentTypeOK
  /\ \A r \in Requests : DocumentOK(r, doc[r])
  /\ \A p \in Handlers : JobOK(job[p])

----------------------------------------------------------------------------
LEMMA NoDocumentType == NoDocument \in Document
BY DEF NoDocument, Document, Status, UserOrNull

LEMMA IdleType == Idle \in Job
BY NoDocumentType DEF Idle, Job, NoRoute, Route, UserOrNull

(* Initially nothing is stored and every handler is idle.                  *)
LEMMA InitIInv == Init => IInv
<1> SUFFICES ASSUME Init PROVE IInv
  OBVIOUS
<1>1. DocTypeOK /\ \A r \in Requests : DocumentOK(r, doc[r])
  BY NoDocumentType, LifecycleAssumption
  DEF Init, DocTypeOK, DocumentOK, NoDocument, Decisions
<1>2. JobTypeOK /\ \A p \in Handlers : JobOK(job[p])
  BY IdleType DEF Init, JobTypeOK, JobOK, Idle
<1>3. LogTypeOK /\ EnvironmentTypeOK
  BY DEF Init, LogTypeOK, EnvironmentTypeOK
<1> QED
  BY <1>1, <1>2, <1>3 DEF IInv

(* A handler that starts with a job that is right for the stored documents *)
(* leaves every other handler's beliefs as they were.                      *)
LEMMA StartKeeps ==
  ASSUME IInv, NEW p \in Handlers, NEW j \in Job, JobOK(j), doc' = doc,
         job' = [job EXCEPT ![p] = j]
  PROVE  JobTypeOK' /\ (\A q \in Handlers : JobOK(job[q]))'
BY DEF IInv, JobTypeOK, JobOK, Fresh

(* Ending a handler always does.                                           *)
LEMMA EndKeeps ==
  ASSUME IInv, NEW p \in Handlers, doc' = doc, End(p)
  PROVE  JobTypeOK' /\ (\A q \in Handlers : JobOK(job[q]))'
<1>1. JobOK(Idle)
  BY DEF JobOK, Idle
<1> QED
  BY <1>1, IdleType, StartKeeps DEF End

(* A write that raises the version, keeps an assignee and stores a right   *)
(* document makes every other reader of that document stale, never wrong.  *)
LEMMA WriteKeeps ==
  ASSUME IInv, NEW p \in Handlers, NEW r \in Requests, NEW d \in Document,
         NEW es \in Seq(Effect), es # <<>>,
         job[p].req = r, job[p].pc # "idle",
         d.version = doc[r].version + 1, DocumentOK(r, d),
         d.status # "ABSENT",
         doc[r].assigned # Null => d.assigned # Null,
         doc' = [doc EXCEPT ![r] = d], Perform(p, es)
  PROVE  /\ DocTypeOK' /\ JobTypeOK'
         /\ (\A q \in Requests : DocumentOK(q, doc[q]))'
         /\ (\A q \in Handlers : JobOK(job[q]))'
<1> DEFINE j == [Idle EXCEPT !.pc = "effects", !.req = job[p].req,
                             !.actor = job[p].actor, !.todo = es]
<1>1. DocTypeOK' /\ (\A q \in Requests : DocumentOK(q, doc[q]))'
  BY DEF IInv, DocTypeOK, DocumentOK
<1>2. j \in Job
  BY IdleType DEF IInv, JobTypeOK, Job
<1>3. JobTypeOK'
  BY <1>2 DEF IInv, JobTypeOK, Perform
<1>4. ASSUME NEW q \in Handlers PROVE JobOK(job[q])'
  <2>1. CASE q = p
    BY <2>1 DEF IInv, JobTypeOK, JobOK, Perform, Idle
  <2>2. CASE q # p /\ job[q].req # r
    BY <2>2 DEF IInv, JobTypeOK, JobOK, Fresh, Perform, DocTypeOK, Job
  <2>3. CASE q # p /\ job[q].req = r
    <3>1. job'[q] = job[q] /\ doc'[r] = d
      BY <2>3 DEF IInv, JobTypeOK, DocTypeOK, Perform
    <3>2. job[q].seen.version \in Nat /\ doc[r].version \in Nat
      BY DEF IInv, JobTypeOK, Job, DocTypeOK, Document
    <3>3. Fresh(job[q]) => Fresh(job[q])'
      BY <2>3, <3>1, <3>2 DEF Fresh
    <3> QED
      BY <2>3, <3>1, <3>3 DEF IInv, JobOK
  <2> QED
    BY <2>1, <2>2, <2>3
<1> QED
  BY <1>1, <1>3, <1>4

----------------------------------------------------------------------------
(* A successful updateStatus is such a write, because the document it      *)
(* overwrites is the one the handler read; a failed one ends the handler.  *)
LEMMA UpdateStatusKeeps ==
  ASSUME IInv, NEW p \in Handlers, job[p].pc # "idle",
         NEW new \in Document, NEW es \in Seq(Effect), es # <<>>,
         UpdateStatus(p, new, es),
         job[p].seen.version = doc[job[p].req].version =>
           /\ DocumentOK(job[p].req, new) /\ new.status # "ABSENT"
           /\ doc[job[p].req].assigned # Null => new.assigned # Null
  PROVE  /\ DocTypeOK' /\ JobTypeOK'
         /\ (\A q \in Requests : DocumentOK(q, doc[q]))'
         /\ (\A q \in Handlers : JobOK(job[q]))'
<1> DEFINE r == job[p].req
<1> DEFINE d == [new EXCEPT !.version = job[p].seen.version + 1]
<1>1. r \in Requests /\ job[p].seen.version \in Nat
  BY DEF IInv, JobOK, JobTypeOK, Job, Document
<1>2. CASE doc[r].version = job[p].seen.version
  <2>1. doc' = [doc EXCEPT ![r] = d] /\ Perform(p, es)
    BY <1>2 DEF UpdateStatus
  <2>2. d \in Document /\ d.version = doc[r].version + 1
    BY <1>1, <1>2 DEF Document
  <2>3. DocumentOK(r, d) /\ d.status # "ABSENT"
        /\ (doc[r].assigned # Null => d.assigned # Null)
    BY <1>1, <1>2 DEF DocumentOK, Document
  <2> QED
    BY <1>1, <2>1, <2>2, <2>3, WriteKeeps
<1>3. CASE doc[r].version # job[p].seen.version
  <2>1. End(p) /\ doc' = doc
    BY <1>3 DEF UpdateStatus
  <2> QED
    BY <2>1, EndKeeps DEF IInv, DocTypeOK
<1> QED
  BY <1>2, <1>3

LEMMA EffectType ==
  ASSUME NEW e \in Event
  PROVE  Record(e) \in Effect /\ Publish(e) \in Effect
BY DEF Record, Publish, Effect

LEMMA EndEffectsType ==
  ASSUME NEW e \in Terminal
  PROVE  EndEffects(e) \in Seq(Effect) /\ EndEffects(e) # <<>>
<1>1. Record(e) \in Effect /\ Publish(e) \in Effect
  BY EffectType DEF Event
<1> QED
  BY <1>1 DEF EndEffects

----------------------------------------------------------------------------
(* Each action keeps the documents and the handlers right.                 *)
HandlersAndDocumentsOK ==
  /\ DocTypeOK /\ JobTypeOK
  /\ \A r \in Requests : DocumentOK(r, doc[r])
  /\ \A p \in Handlers : JobOK(job[p])

LEMMA BeginSubmitKeeps ==
  ASSUME IInv, NEW p \in Handlers, NEW r \in Requests, NEW pay \in Payloads,
         NEW route \in Routes(r), BeginSubmit(p, r, pay, route)
  PROVE  HandlersAndDocumentsOK'
<1> DEFINE d == [NoDocument EXCEPT !.status = "DRAFT", !.version = 1,
                                   !.payload = pay]
<1> DEFINE j == [Idle EXCEPT !.pc = "pend", !.req = r, !.actor = Requester[r],
                             !.seen = d, !.route = route]
<1>1. d \in Document
  BY NoDocumentType DEF Document, Status
<1>2. doc' = [doc EXCEPT ![r] = d] /\ doc'[r] = d
  BY DEF BeginSubmit, IInv, DocTypeOK
<1>3. job' = [job EXCEPT ![p] = j]
  BY <1>2 DEF BeginSubmit, Start
<1>4. DocTypeOK'
  BY <1>1, <1>2 DEF IInv, DocTypeOK
<1>5. DocumentOK(r, d)
  BY LifecycleAssumption DEF DocumentOK, NoDocument, Decisions
<1>6. (\A q \in Requests : DocumentOK(q, doc[q]))'
  BY <1>2, <1>5 DEF IInv, DocTypeOK, DocumentOK
<1>7. route \in Route
  BY LifecycleAssumption DEF Routes, Route, UserOrNull
<1>8. j \in Job
  BY <1>1, <1>7, IdleType, LifecycleAssumption DEF Job, UserOrNull
<1>9. JobTypeOK'
  BY <1>3, <1>8 DEF IInv, JobTypeOK
<1>10. ASSUME NEW q \in Handlers PROVE JobOK(job[q])'
  <2>1. CASE q = p
    <3>1. job'[q] = j
      BY <2>1, <1>3 DEF IInv, JobTypeOK
    <3>2. j.pc = "pend" /\ j.req = r /\ j.actor \in Users /\ j.seen = d
      BY LifecycleAssumption DEF Idle
    <3>3. d.status = "DRAFT" /\ d.version <= d.version
      BY DEF NoDocument
    <3> QED
      BY <3>1, <3>2, <3>3, <1>2 DEF JobOK, Fresh
  <2>2. CASE q # p
    <3>1. job'[q] = job[q]
      BY <2>2, <1>3 DEF IInv, JobTypeOK
    <3>2. job[q].req # r => JobOK(job[q])'
      BY <3>1, <1>2 DEF IInv, JobOK, Fresh, DocTypeOK
    <3>3. job[q].req = r => job[q].pc = "idle"
      BY DEF BeginSubmit, IInv, JobOK
    <3> QED
      BY <3>1, <3>2, <3>3 DEF IInv, JobOK
  <2> QED
    BY <2>1, <2>2
<1> QED
  BY <1>4, <1>6, <1>9, <1>10 DEF HandlersAndDocumentsOK

(* A handler that writes on the strength of its read finds, when the       *)
(* versions agree, the document it read.                                   *)
LEMMA SameVersionSameDocument ==
  ASSUME IInv, NEW p \in Handlers,
         job[p].pc \in {"pend", "cancel", "edit", "decide"}
  PROVE  /\ job[p].req \in Requests
         /\ doc[job[p].req] \in Document
         /\ DocumentOK(job[p].req, doc[job[p].req])
         /\ job[p].seen.version = doc[job[p].req].version =>
              job[p].seen = doc[job[p].req]
BY DEF IInv, JobOK, Fresh, DocTypeOK

LEMMA SubmittedType ==
  ASSUME NEW d \in Document, NEW route \in Route
  PROVE  Submitted(d, route) \in Document
<1>1. route.approver \in UserOrNull
      /\ (IF route.target = "NONE" THEN Null ELSE route.approver) \in UserOrNull
      /\ route.target \in {"NONE", "ROLE", "USER"}
  BY DEF Route, UserOrNull
<1>2. (IF route.target = "NONE" THEN "NONE" ELSE "PENDING_APPROVAL")
        \in {"NONE", "PENDING_APPROVAL"} \cup Decisions
  OBVIOUS
<1> QED
  BY <1>1, <1>2 DEF Submitted, Document, Status

LEMMA PendKeeps ==
  ASSUME IInv, NEW p \in Handlers, Pend(p)
  PROVE  HandlersAndDocumentsOK'
<1> DEFINE j == job[p]
<1> DEFINE r == j.req
<1> DEFINE new == Submitted(doc[r], j.route)
<1> DEFINE es == <<Record("SUBMITTED"), Publish("SUBMITTED")>>
                   \o IF j.route.target = "NONE" THEN <<>>
                      ELSE <<Record("ASSIGNED"), Publish("ASSIGNED")>>
<1>1. j.pc = "pend" /\ UpdateStatus(p, new, es)
  BY DEF Pend
<1>2. r \in Requests /\ doc[r] \in Document /\ DocumentOK(r, doc[r])
  BY <1>1, SameVersionSameDocument
<1>3. j.route \in Route
  BY DEF IInv, JobTypeOK, Job
<1>4. new \in Document
  BY <1>2, <1>3, SubmittedType
<1>5. es \in Seq(Effect) /\ es # <<>>
  <2> DEFINE first == <<Record("SUBMITTED"), Publish("SUBMITTED")>>
  <2> DEFINE rest == IF j.route.target = "NONE" THEN <<>>
                     ELSE <<Record("ASSIGNED"), Publish("ASSIGNED")>>
  <2>1. first \in Seq(Effect) /\ Len(first) = 2
    BY EffectType DEF Event
  <2>2. rest \in Seq(Effect)
    BY EffectType DEF Event
  <2>3. first \o rest \in Seq(Effect) /\ Len(first \o rest) >= 2
    BY <2>1, <2>2
  <2> QED
    BY <2>3
<1>6. j.seen.version = doc[r].version =>
        /\ DocumentOK(r, new) /\ new.status # "ABSENT"
        /\ doc[r].assigned # Null => new.assigned # Null
  <2> SUFFICES ASSUME j.seen.version = doc[r].version
               PROVE  /\ DocumentOK(r, new) /\ new.status # "ABSENT"
                      /\ doc[r].assigned # Null => new.assigned # Null
    OBVIOUS
  <2>1. doc[r].status = "DRAFT"
    BY <1>1, SameVersionSameDocument DEF IInv, JobOK
  <2> QED
    BY <1>2, <2>1 DEF DocumentOK, Submitted, Decisions, Document
<1> HIDE DEF new, es
<1> QED
  BY <1>1, <1>4, <1>5, <1>6, UpdateStatusKeeps DEF HandlersAndDocumentsOK

LEMMA BeginCancelKeeps ==
  ASSUME IInv, NEW p \in Handlers, NEW r \in Requests, BeginCancel(p, r)
  PROVE  HandlersAndDocumentsOK'
<1> DEFINE j == [Idle EXCEPT !.pc = "cancel", !.req = r,
                             !.actor = Requester[r], !.seen = doc[r]]
<1>1. doc' = doc /\ job' = [job EXCEPT ![p] = j]
  BY DEF BeginCancel, Start
<1>2. doc[r] \in Document /\ doc[r].status = "PENDING"
  BY DEF BeginCancel, Cancellable, IInv, DocTypeOK
<1>3. j \in Job
  BY <1>2, IdleType, LifecycleAssumption DEF Job, UserOrNull
<1>4. JobOK(j)
  BY <1>2, LifecycleAssumption DEF JobOK, Fresh, Idle, Document
<1> HIDE DEF j
<1> QED
  BY <1>1, <1>3, <1>4, StartKeeps
  DEF HandlersAndDocumentsOK, IInv, DocTypeOK

LEMMA CommitCancelKeeps ==
  ASSUME IInv, NEW p \in Handlers, CommitCancel(p)
  PROVE  HandlersAndDocumentsOK'
<1> DEFINE r == job[p].req
<1> DEFINE new == [doc[r] EXCEPT !.status = "CANCELLED"]
<1>1. job[p].pc = "cancel" /\ UpdateStatus(p, new, EndEffects("CANCELLED"))
  BY DEF CommitCancel
<1>2. r \in Requests /\ doc[r] \in Document /\ DocumentOK(r, doc[r])
  BY <1>1, SameVersionSameDocument
<1>3. new \in Document
  BY <1>2 DEF Document, Status, Terminal
<1>4. EndEffects("CANCELLED") \in Seq(Effect)
      /\ EndEffects("CANCELLED") # <<>>
  BY EndEffectsType DEF Terminal
<1>5. job[p].seen.version = doc[r].version =>
        /\ DocumentOK(r, new) /\ new.status # "ABSENT"
        /\ doc[r].assigned # Null => new.assigned # Null
  <2>1. job[p].seen.version = doc[r].version => doc[r].status = "PENDING"
    BY <1>1, SameVersionSameDocument DEF IInv, JobOK
  <2> QED
    BY <1>2, <2>1 DEF DocumentOK, Decisions, Document
<1> HIDE DEF new
<1> QED
  BY <1>1, <1>3, <1>4, <1>5, UpdateStatusKeeps DEF HandlersAndDocumentsOK

LEMMA BeginEditKeeps ==
  ASSUME IInv, NEW p \in Handlers, NEW r \in Requests, NEW pay \in Payloads,
         BeginEdit(p, r, pay)
  PROVE  HandlersAndDocumentsOK'
<1> DEFINE j == [Idle EXCEPT !.pc = "edit", !.req = r, !.actor = Requester[r],
                             !.seen = doc[r], !.payload = pay]
<1>1. doc' = doc /\ job' = [job EXCEPT ![p] = j]
  BY DEF BeginEdit, Start
<1>2. doc[r] \in Document /\ doc[r].status = "PENDING"
  BY DEF BeginEdit, IInv, DocTypeOK
<1>3. j \in Job
  BY <1>2, IdleType, LifecycleAssumption DEF Job, UserOrNull
<1>4. JobOK(j)
  BY <1>2, LifecycleAssumption DEF JobOK, Fresh, Idle, Document
<1> HIDE DEF j
<1> QED
  BY <1>1, <1>3, <1>4, StartKeeps
  DEF HandlersAndDocumentsOK, IInv, DocTypeOK

LEMMA CommitEditKeeps ==
  ASSUME IInv, NEW p \in Handlers, CommitEdit(p)
  PROVE  HandlersAndDocumentsOK'
<1> DEFINE r == job[p].req
<1> DEFINE new == [doc[r] EXCEPT !.status = "PENDING",
                                 !.payload = job[p].payload]
<1> DEFINE es == <<Record("EDITED")>>
<1>1. job[p].pc = "edit" /\ UpdateStatus(p, new, es)
  BY DEF CommitEdit
<1>2. r \in Requests /\ doc[r] \in Document /\ DocumentOK(r, doc[r])
  BY <1>1, SameVersionSameDocument
<1>3. new \in Document
  BY <1>2 DEF IInv, JobTypeOK, Job, Document, Status
<1>4. es \in Seq(Effect) /\ es # <<>>
  BY EffectType DEF Event
<1>5. job[p].seen.version = doc[r].version =>
        /\ DocumentOK(r, new) /\ new.status # "ABSENT"
        /\ doc[r].assigned # Null => new.assigned # Null
  <2>1. job[p].seen.version = doc[r].version => doc[r].status = "PENDING"
    BY <1>1, SameVersionSameDocument DEF IInv, JobOK
  <2> QED
    BY <1>2, <2>1 DEF DocumentOK, Decisions, Document
<1> HIDE DEF new, es
<1> QED
  BY <1>1, <1>3, <1>4, <1>5, UpdateStatusKeeps DEF HandlersAndDocumentsOK

LEMMA BeginClaimKeeps ==
  ASSUME IInv, NEW p \in Handlers, NEW r \in Requests, NEW u \in Users,
         BeginClaim(p, r, u)
  PROVE  HandlersAndDocumentsOK'
<1> DEFINE j == [Idle EXCEPT !.pc = "claim", !.req = r, !.actor = u,
                             !.seen = doc[r]]
<1>1. doc' = doc /\ job' = [job EXCEPT ![p] = j]
  BY DEF BeginClaim, Start
<1>2. doc[r] \in Document /\ doc[r].status = "PENDING"
  BY DEF BeginClaim, Claimable, IInv, DocTypeOK
<1>3. j \in Job
  BY <1>2, IdleType DEF Job, UserOrNull
<1>4. JobOK(j)
  BY <1>2 DEF JobOK, Idle
<1> HIDE DEF j
<1> QED
  BY <1>1, <1>3, <1>4, StartKeeps
  DEF HandlersAndDocumentsOK, IInv, DocTypeOK

(* A claim has no version guard: it writes over whatever is stored, which  *)
(* its own condition says is pending and unassigned.                       *)
LEMMA CommitClaimKeeps ==
  ASSUME IInv, NEW p \in Handlers, CommitClaim(p)
  PROVE  HandlersAndDocumentsOK'
<1> DEFINE r == job[p].req
<1> DEFINE new == Claimed(doc[r], job[p].actor)
<1> DEFINE es == <<Record("CLAIMED"), Publish("CLAIMED")>>
<1>1. job[p].pc = "claim" /\ r \in Requests /\ job[p].actor \in Users
  BY DEF CommitClaim, IInv, JobOK
<1>2. doc[r] \in Document /\ DocumentOK(r, doc[r])
  BY <1>1 DEF IInv, DocTypeOK
<1>3. CASE Claimable(doc[r])
  <2>1. doc' = [doc EXCEPT ![r] = new] /\ Perform(p, es)
    BY <1>3 DEF CommitClaim
  <2>2. new \in Document /\ new.version = doc[r].version + 1
    <3>1. job[p].actor \in UserOrNull /\ doc[r].version + 1 \in Nat
      BY <1>1, <1>2 DEF Document, UserOrNull
    <3> QED
      BY <3>1, <1>2 DEF Claimed, Document
  <2>3. DocumentOK(r, new) /\ new.status # "ABSENT" /\ new.assigned # Null
    BY <1>1, <1>2, <1>3, LifecycleAssumption
    DEF DocumentOK, Claimed, Claimable, Document, Decisions
  <2>4. es \in Seq(Effect) /\ es # <<>>
    BY EffectType DEF Event
  <2> HIDE DEF new, es
  <2> QED
    BY <1>1, <2>1, <2>2, <2>3, <2>4, WriteKeeps DEF HandlersAndDocumentsOK
<1>4. CASE ~Claimable(doc[r])
  <2>1. End(p) /\ doc' = doc
    BY <1>4 DEF CommitClaim
  <2> QED
    BY <2>1, EndKeeps DEF HandlersAndDocumentsOK, IInv, DocTypeOK
<1> QED
  BY <1>3, <1>4

(* What the two decision endpoints have in common.                         *)
LEMMA BeginDecisionKeeps ==
  ASSUME IInv, NEW p \in Handlers, NEW r \in Requests, NEW u \in Users,
         NEW verdict \in Decisions, doc[r].status # "ABSENT",
         u = Requester[r] => SelfApprovalAllowed,
         BeginDecision(p, r, u, verdict), doc' = doc
  PROVE  HandlersAndDocumentsOK'
<1> DEFINE j == [Idle EXCEPT !.pc = "reread", !.req = r, !.actor = u,
                             !.verdict = verdict,
                             !.takeOver = doc[r].assigned = Null]
<1>1. job' = [job EXCEPT ![p] = j]
  BY DEF BeginDecision, Start
<1>2. (doc[r].assigned = Null) \in BOOLEAN
  OBVIOUS
<1>3. j \in Job
  BY <1>2, IdleType DEF Job, UserOrNull
<1>4. JobOK(j)
  BY DEF JobOK, Idle
<1> HIDE DEF j
<1> QED
  BY <1>1, <1>3, <1>4, StartKeeps
  DEF HandlersAndDocumentsOK, IInv, DocTypeOK

LEMMA DecideApprovalKeeps ==
  ASSUME IInv, NEW p \in Handlers, NEW r \in Requests, NEW u \in Users,
         NEW verdict \in Decisions, NEW overrideCutoff \in BOOLEAN,
         DecideApproval(p, r, u, verdict, overrideCutoff)
  PROVE  HandlersAndDocumentsOK'
BY BeginDecisionKeeps DEF DecideApproval, MayDecide

LEMMA EngineDecideKeeps ==
  ASSUME IInv, NEW p \in Handlers, NEW r \in Requests, NEW u \in Users,
         NEW verdict \in Decisions, EngineDecide(p, r, u, verdict)
  PROVE  HandlersAndDocumentsOK'
BY BeginDecisionKeeps DEF EngineDecide, EngineMayDecide

LEMMA RereadKeeps ==
  ASSUME IInv, NEW p \in Handlers, Reread(p)
  PROVE  HandlersAndDocumentsOK'
<1> DEFINE r == job[p].req
<1> DEFINE j == [job[p] EXCEPT !.pc = "decide", !.seen = doc[r]]
<1>1. job[p] \in Job /\ job[p].pc = "reread" /\ JobOK(job[p]) /\ doc' = doc
  BY DEF Reread, IInv, JobTypeOK
<1>2. r \in Requests /\ doc[r] \in Document
  BY <1>1 DEF JobOK, IInv, DocTypeOK
<1>3. CASE doc[r].status = "PENDING"
  <2>1. job' = [job EXCEPT ![p] = j]
    BY <1>3 DEF Reread, IInv, JobTypeOK
  <2>2. j \in Job
    BY <1>1, <1>2 DEF Job
  <2>3. j.pc = "decide" /\ j.req = r /\ j.seen = doc[r]
        /\ j.actor = job[p].actor /\ j.verdict = job[p].verdict
        /\ j.takeOver = job[p].takeOver
    BY <1>1 DEF Job
  <2>4. doc[r].version <= doc[r].version
    BY <1>2 DEF Document
  <2>5. JobOK(j)
    BY <1>1, <1>3, <2>3, <2>4 DEF JobOK, Fresh
  <2> HIDE DEF j
  <2> QED
    BY <1>1, <2>1, <2>2, <2>5, StartKeeps
    DEF HandlersAndDocumentsOK, IInv, DocTypeOK
<1>4. CASE doc[r].status # "PENDING"
  <2>1. End(p)
    BY <1>4 DEF Reread
  <2> QED
    BY <1>1, <2>1, EndKeeps DEF HandlersAndDocumentsOK, IInv, DocTypeOK
<1> QED
  BY <1>3, <1>4

LEMMA CommitDecisionKeeps ==
  ASSUME IInv, NEW p \in Handlers, CommitDecision(p)
  PROVE  HandlersAndDocumentsOK'
<1> DEFINE j == job[p]
<1> DEFINE r == j.req
<1> DEFINE assignee == IF j.takeOver THEN j.actor ELSE j.seen.assigned
<1> DEFINE new == [doc[r] EXCEPT
                     !.status = j.verdict, !.action = j.verdict,
                     !.decider = j.actor, !.target = j.seen.target,
                     !.assigned = assignee,
                     !.block = j.verdict, !.blockBy = j.actor]
<1>1. j.pc = "decide" /\ UpdateStatus(p, new, EndEffects(j.verdict))
  BY DEF CommitDecision
<1>2. r \in Requests /\ doc[r] \in Document /\ DocumentOK(r, doc[r])
  BY <1>1, SameVersionSameDocument
<1>3. /\ j.verdict \in Decisions /\ j.actor \in Users /\ j.actor # Null
      /\ j.actor = Requester[r] => SelfApprovalAllowed
      /\ j.takeOver \/ j.seen.assigned # Null
  BY <1>1, LifecycleAssumption DEF IInv, JobOK
<1>4. j.seen \in Document
  BY DEF IInv, JobTypeOK, Job
<1>5. assignee \in UserOrNull /\ assignee # Null
  BY <1>3, <1>4 DEF Document, UserOrNull
<1>6. new \in Document
  <2>1. j.actor \in UserOrNull
    BY <1>3 DEF UserOrNull
  <2>2. j.verdict \in Status /\ j.verdict \in {"NONE"} \cup Decisions
        /\ j.verdict \in {"NONE", "PENDING_APPROVAL"} \cup Decisions
    BY <1>3 DEF Status, Terminal
  <2>3. j.seen.target \in {"NONE", "ROLE", "USER"}
    BY <1>4 DEF Document
  <2> HIDE DEF assignee
  <2> QED
    BY <1>2, <1>5, <2>1, <2>2, <2>3 DEF Document
<1>7. EndEffects(j.verdict) \in Seq(Effect) /\ EndEffects(j.verdict) # <<>>
  BY <1>3, EndEffectsType DEF Terminal
<1>8. DocumentOK(r, new) /\ new.status # "ABSENT" /\ new.assigned # Null
  <2>1. /\ new.status = j.verdict /\ new.action = j.verdict
        /\ new.block = j.verdict /\ new.decider = j.actor
        /\ new.blockBy = j.actor /\ new.assigned = assignee
    BY <1>2 DEF Document
  <2> QED
    BY <1>3, <1>5, <2>1 DEF DocumentOK, Decisions
<1> HIDE DEF new
<1> QED
  BY <1>1, <1>6, <1>7, <1>8, UpdateStatusKeeps DEF HandlersAndDocumentsOK

LEMMA TailOfLongSequence ==
  ASSUME NEW S, NEW sq \in Seq(S), sq # <<>>, Len(sq) # 1
  PROVE  Tail(sq) \in Seq(S) /\ Tail(sq) # <<>>
<1>1. Len(sq) \in Nat /\ Len(sq) # 0
  BY EmptySeq
<1>2. Tail(sq) \in Seq(S) /\ Len(Tail(sq)) = Len(sq) - 1
  BY HeadTailProperties
<1>3. Len(Tail(sq)) # 0
  BY <1>1, <1>2
<1> QED
  BY <1>2, <1>3, EmptySeq

LEMMA PerformNextKeeps ==
  ASSUME IInv, NEW p \in Handlers, PerformNext(p)
  PROVE  HandlersAndDocumentsOK'
<1> DEFINE j == [job[p] EXCEPT !.todo = Tail(@)]
<1>1. job[p] \in Job /\ job[p].pc = "effects" /\ JobOK(job[p]) /\ doc' = doc
  BY DEF PerformNext, IInv, JobTypeOK
<1>2. CASE Len(job[p].todo) = 1
  <2>1. End(p)
    BY <1>2 DEF PerformNext
  <2> QED
    BY <1>1, <2>1, EndKeeps DEF HandlersAndDocumentsOK, IInv, DocTypeOK
<1>3. CASE Len(job[p].todo) # 1
  <2>1. job' = [job EXCEPT ![p] = j]
    BY <1>3 DEF PerformNext, IInv, JobTypeOK
  <2>2. job[p].todo \in Seq(Effect) /\ job[p].todo # <<>>
    BY <1>1 DEF Job, JobOK
  <2>3. Tail(job[p].todo) \in Seq(Effect) /\ Tail(job[p].todo) # <<>>
    BY <1>3, <2>2, TailOfLongSequence
  <2>4. j \in Job
    BY <1>1, <2>3 DEF Job
  <2>5. j.pc = "effects" /\ j.req = job[p].req /\ j.actor = job[p].actor
        /\ j.todo = Tail(job[p].todo)
    BY <1>1 DEF Job
  <2>6. JobOK(j)
    BY <1>1, <2>3, <2>5 DEF JobOK
  <2> HIDE DEF j
  <2> QED
    BY <1>1, <2>1, <2>4, <2>6, StartKeeps
    DEF HandlersAndDocumentsOK, IInv, DocTypeOK
<1> QED
  BY <1>2, <1>3

(* A handler dies, or the delegations change: no document is written.      *)
LEMMA AbortKeeps ==
  ASSUME IInv, NEW p \in Handlers, Abort(p)
  PROVE  HandlersAndDocumentsOK'
BY EndKeeps DEF Abort, HandlersAndDocumentsOK, IInv, DocTypeOK

LEMMA UnchangedKeeps ==
  ASSUME IInv, doc' = doc, job' = job
  PROVE  HandlersAndDocumentsOK'
BY DEF HandlersAndDocumentsOK, IInv, DocTypeOK, JobTypeOK, JobOK, Fresh

----------------------------------------------------------------------------
(* The logs, the delegations and the audit records stay typed.             *)
LEMMA PerformNextTyped ==
  ASSUME IInv, NEW p \in Handlers, PerformNext(p)
  PROVE  LogTypeOK' /\ EnvironmentTypeOK'
<1> DEFINE j == job[p]
<1> DEFINE e == Head(j.todo)
<1>1. j \in Job /\ j.req \in Requests /\ j.todo # <<>>
  BY DEF PerformNext, IInv, JobTypeOK, JobOK
<1>2. j.todo \in Seq(Effect) /\ j.actor \in UserOrNull
  BY <1>1 DEF Job
<1>3. e \in Effect
  BY <1>1, <1>2, HeadTailProperties
<1>4. e.event \in Event
  BY <1>3 DEF Effect
<1> HIDE DEF e
<1>5. EnvironmentTypeOK'
  BY DEF PerformNext, environment, IInv, EnvironmentTypeOK
<1>6. CASE e.kind = "record"
  <2> DEFINE entry == [event |-> e.event, actor |-> j.actor]
  <2>1. timeline' = [timeline EXCEPT ![j.req] = Append(@, entry)]
        /\ published' = published
    BY <1>6 DEF PerformNext, e
  <2>2. entry \in [event : Event, actor : UserOrNull]
    BY <1>2, <1>4
  <2>3. Append(timeline[j.req], entry)
          \in Seq([event : Event, actor : UserOrNull])
    BY <1>1, <2>2, AppendProperties DEF IInv, LogTypeOK
  <2> QED
    BY <1>5, <2>1, <2>3 DEF IInv, LogTypeOK
<1>7. CASE e.kind # "record"
  <2>1. published' = [published EXCEPT ![j.req] = Append(@, e.event)]
        /\ timeline' = timeline
    BY <1>7 DEF PerformNext, e
  <2>2. Append(published[j.req], e.event) \in Seq(Event)
    BY <1>1, <1>4, AppendProperties DEF IInv, LogTypeOK
  <2> QED
    BY <1>5, <2>1, <2>2 DEF IInv, LogTypeOK
<1> QED
  BY <1>6, <1>7

LEMMA DelegateTyped ==
  ASSUME IInv, NEW d \in Delegations, Delegate(d[1], d[2])
  PROVE  LogTypeOK' /\ EnvironmentTypeOK'
<1>1. d[1] \in Users /\ d[2] \in Users /\ <<d[1], d[2]>> = d
  BY LifecycleAssumption
<1>2. delegates[d[1]] \in Seq(Users) /\ <<d[2]>> \in Seq(Users)
  BY <1>1 DEF IInv, EnvironmentTypeOK
<1>3. <<d[2]>> \o delegates[d[1]] \in Seq(Users)
  BY <1>2, ConcatProperties
<1> QED
  BY <1>1, <1>3 DEF Delegate, logs, IInv, LogTypeOK, EnvironmentTypeOK

LEMMA EndDelegationTyped ==
  ASSUME IInv, NEW u \in Users, NEW i \in DOMAIN delegates[u],
         EndDelegation(u, i)
  PROVE  LogTypeOK' /\ EnvironmentTypeOK'
<1> DEFINE s == delegates[u]
<1>1. s \in Seq(Users) /\ Len(s) \in Nat /\ i \in 1 .. Len(s)
  BY LenProperties DEF IInv, EnvironmentTypeOK
<1>2. (\A k \in 1 .. (i - 1) : s[k] \in Users)
      /\ (\A k \in (i + 1) .. Len(s) : s[k] \in Users)
  BY <1>1, ElementOfSeq
<1>3. SubSeq(s, 1, i - 1) \in Seq(Users)
      /\ SubSeq(s, i + 1, Len(s)) \in Seq(Users)
  BY <1>1, <1>2, SubSeqProperties
<1>4. SubSeq(s, 1, i - 1) \o SubSeq(s, i + 1, Len(s)) \in Seq(Users)
  BY <1>3, ConcatProperties
<1> QED
  BY <1>4 DEF EndDelegation, logs, IInv, LogTypeOK, EnvironmentTypeOK

LEMMA BeginTyped ==
  ASSUME IInv, NEW p \in Handlers, Begin(p)
  PROVE  LogTypeOK' /\ EnvironmentTypeOK'
<1>1. UNCHANGED <<delegates, granted, timeline, published>>
  BY DEF Begin, BeginSubmit, BeginCancel, BeginEdit, BeginClaim,
         DecideApproval, EngineDecide, environment, logs
<1>2. \/ audited' = audited
      \/ \E r \in Requests, u \in Users :
           audited' = [audited EXCEPT ![r] = @ \cup {u}]
  BY DEF Begin, BeginSubmit, BeginCancel, BeginEdit, BeginClaim,
         DecideApproval, EngineDecide
<1>3. audited \in [Requests -> SUBSET Users]
  BY DEF IInv, EnvironmentTypeOK
<1>4. audited' \in [Requests -> SUBSET Users]
  BY <1>2, <1>3
<1> QED
  BY <1>1, <1>4 DEF IInv, LogTypeOK, EnvironmentTypeOK

LEMMA WritesAndReadsTyped ==
  ASSUME IInv, UNCHANGED <<environment, logs, audited>>
  PROVE  LogTypeOK' /\ EnvironmentTypeOK'
BY DEF environment, logs, IInv, LogTypeOK, EnvironmentTypeOK

----------------------------------------------------------------------------
(* The invariant is inductive: one step for each action.                   *)
LEMMA BeginKeeps ==
  ASSUME IInv, NEW p \in Handlers, Begin(p)
  PROVE  HandlersAndDocumentsOK'
BY BeginSubmitKeeps, BeginCancelKeeps, BeginEditKeeps, BeginClaimKeeps,
   DecideApprovalKeeps, EngineDecideKeeps DEF Begin

LEMMA ContinueKeeps ==
  ASSUME IInv, NEW p \in Handlers, Continue(p)
  PROVE  HandlersAndDocumentsOK' /\ LogTypeOK' /\ EnvironmentTypeOK'
<1>1. CASE Pend(p)
  BY <1>1, PendKeeps, WritesAndReadsTyped DEF Pend
<1>2. CASE CommitCancel(p)
  BY <1>2, CommitCancelKeeps, WritesAndReadsTyped DEF CommitCancel
<1>3. CASE CommitEdit(p)
  BY <1>3, CommitEditKeeps, WritesAndReadsTyped DEF CommitEdit
<1>4. CASE CommitClaim(p)
  BY <1>4, CommitClaimKeeps, WritesAndReadsTyped DEF CommitClaim
<1>5. CASE Reread(p)
  BY <1>5, RereadKeeps, WritesAndReadsTyped DEF Reread
<1>6. CASE CommitDecision(p)
  BY <1>6, CommitDecisionKeeps, WritesAndReadsTyped DEF CommitDecision
<1>7. CASE PerformNext(p)
  BY <1>7, PerformNextKeeps, PerformNextTyped
<1> QED
  BY <1>1, <1>2, <1>3, <1>4, <1>5, <1>6, <1>7 DEF Continue

LEMMA NextIInv == IInv /\ [Next]_vars => IInv'
<1> SUFFICES ASSUME IInv, [Next]_vars
             PROVE  HandlersAndDocumentsOK' /\ LogTypeOK' /\ EnvironmentTypeOK'
  BY DEF IInv, HandlersAndDocumentsOK
<1>1. ASSUME NEW p \in Handlers, Begin(p)
      PROVE  HandlersAndDocumentsOK' /\ LogTypeOK' /\ EnvironmentTypeOK'
  BY <1>1, BeginKeeps, BeginTyped
<1>2. ASSUME NEW p \in Handlers, Continue(p)
      PROVE  HandlersAndDocumentsOK' /\ LogTypeOK' /\ EnvironmentTypeOK'
  BY <1>2, ContinueKeeps
<1>3. ASSUME NEW p \in Handlers, Abort(p)
      PROVE  HandlersAndDocumentsOK' /\ LogTypeOK' /\ EnvironmentTypeOK'
  BY <1>3, AbortKeeps, WritesAndReadsTyped DEF Abort
<1>4. ASSUME NEW d \in Delegations, Delegate(d[1], d[2])
      PROVE  HandlersAndDocumentsOK' /\ LogTypeOK' /\ EnvironmentTypeOK'
  BY <1>4, UnchangedKeeps, DelegateTyped DEF Delegate
<1>5. ASSUME NEW u \in Users, NEW i \in DOMAIN delegates[u],
             EndDelegation(u, i)
      PROVE  HandlersAndDocumentsOK' /\ LogTypeOK' /\ EnvironmentTypeOK'
  BY <1>5, UnchangedKeeps, EndDelegationTyped DEF EndDelegation
<1>6. CASE UNCHANGED vars
  BY <1>6, UnchangedKeeps, WritesAndReadsTyped DEF vars, environment, logs
<1> QED
  BY <1>1, <1>2, <1>3, <1>4, <1>5, <1>6 DEF Next

(* The inductive invariant holds in every reachable state.                 *)
THEOREM Invariant == Spec => []IInv
BY InitIInv, NextIInv, PTL DEF Spec

----------------------------------------------------------------------------
(* What one step may do to the document d of request r, turning it into e. *)
DocumentStep(r, d, e) ==
  \/ d.status = "ABSENT" /\ e.status = "DRAFT" /\ e.decider = d.decider
  \/ d.status = "DRAFT" /\ e.status = "PENDING" /\ e.decider = d.decider
  \/ /\ d.status = "PENDING" /\ e.status \in {"PENDING", "CANCELLED"}
     /\ e.decider = d.decider
  \/ /\ d.status = "PENDING" /\ e.status \in Decisions
     /\ e.decider \in Users
     /\ e.decider = Requester[r] => SelfApprovalAllowed

OneDocumentStep ==
  \/ doc' = doc
  \/ \E r \in Requests, e \in Document :
       doc' = [doc EXCEPT ![r] = e] /\ DocumentStep(r, doc[r], e)

(* A successful updateStatus is a document step if it is one from the      *)
(* document that was read.                                                 *)
LEMMA UpdateStatusStep ==
  ASSUME IInv, NEW p \in Handlers,
         job[p].pc \in {"pend", "cancel", "edit", "decide"},
         NEW new \in Document, NEW es, UpdateStatus(p, new, es),
         job[p].seen = doc[job[p].req] =>
           DocumentStep(job[p].req, doc[job[p].req], new)
  PROVE  OneDocumentStep
<1> DEFINE r == job[p].req
<1> DEFINE e == [new EXCEPT !.version = job[p].seen.version + 1]
<1>1. CASE doc[r].version = job[p].seen.version
  <2>1. r \in Requests /\ job[p].seen = doc[r] /\ doc[r] \in Document
    BY <1>1, SameVersionSameDocument
  <2>2. e \in Document /\ e.status = new.status /\ e.decider = new.decider
    BY <2>1 DEF Document
  <2>3. DocumentStep(r, doc[r], e)
    BY <2>1, <2>2 DEF DocumentStep
  <2>4. doc' = [doc EXCEPT ![r] = e]
    BY <1>1 DEF UpdateStatus
  <2> QED
    BY <2>1, <2>2, <2>3, <2>4 DEF OneDocumentStep
<1>2. CASE doc[r].version # job[p].seen.version
  BY <1>2 DEF UpdateStatus, OneDocumentStep
<1> QED
  BY <1>1, <1>2

LEMMA NextStep == IInv /\ [Next]_vars => OneDocumentStep
<1> SUFFICES ASSUME IInv, [Next]_vars PROVE OneDocumentStep
  OBVIOUS
<1>1. ASSUME NEW p \in Handlers, NEW r \in Requests, NEW pay \in Payloads,
             NEW route \in Routes(r), BeginSubmit(p, r, pay, route)
      PROVE  OneDocumentStep
  <2> DEFINE e == [NoDocument EXCEPT !.status = "DRAFT", !.version = 1,
                                     !.payload = pay]
  <2>1. doc' = [doc EXCEPT ![r] = e] /\ doc[r].status = "ABSENT"
    BY <1>1 DEF BeginSubmit
  <2>2. e \in Document
    BY NoDocumentType DEF Document, Status
  <2>3. doc[r].decider = Null
    BY <2>1 DEF IInv, DocumentOK, Decisions
  <2>4. e.status = "DRAFT" /\ e.decider = Null
    BY DEF NoDocument
  <2> HIDE DEF e
  <2> QED
    BY <2>1, <2>2, <2>3, <2>4 DEF OneDocumentStep, DocumentStep
<1>2. ASSUME NEW p \in Handlers, Pend(p) PROVE OneDocumentStep
  <2> DEFINE new == Submitted(doc[job[p].req], job[p].route)
  <2>1. job[p].pc = "pend" /\ job[p].seen.status = "DRAFT"
    BY <1>2 DEF Pend, IInv, JobOK
  <2>2. doc[job[p].req] \in Document
    BY <2>1, SameVersionSameDocument
  <2>3. new \in Document
    BY <2>2, SubmittedType DEF IInv, JobTypeOK, Job
  <2>4. new.status = "PENDING" /\ new.decider = doc[job[p].req].decider
    BY <2>2 DEF Submitted, Document
  <2> HIDE DEF new
  <2>5. \E es : UpdateStatus(p, new, es)
    BY <1>2 DEF Pend, new
  <2> QED
    BY <2>1, <2>3, <2>4, <2>5, UpdateStatusStep DEF DocumentStep
<1>3. ASSUME NEW p \in Handlers, CommitCancel(p) PROVE OneDocumentStep
  <2> DEFINE new == [doc[job[p].req] EXCEPT !.status = "CANCELLED"]
  <2>1. job[p].pc = "cancel" /\ job[p].seen.status = "PENDING"
    BY <1>3 DEF CommitCancel, IInv, JobOK
  <2>2. doc[job[p].req] \in Document
    BY <2>1, SameVersionSameDocument
  <2>3. /\ new \in Document
        /\ new.status = "CANCELLED" /\ new.decider = doc[job[p].req].decider
    BY <2>2 DEF Document, Status, Terminal
  <2>4. UpdateStatus(p, new, EndEffects("CANCELLED"))
    BY <1>3 DEF CommitCancel
  <2> HIDE DEF new
  <2> QED
    BY <2>1, <2>3, <2>4, UpdateStatusStep DEF DocumentStep
<1>4. ASSUME NEW p \in Handlers, CommitEdit(p) PROVE OneDocumentStep
  <2> DEFINE new == [doc[job[p].req] EXCEPT !.status = "PENDING",
                                            !.payload = job[p].payload]
  <2>1. job[p].pc = "edit" /\ job[p].seen.status = "PENDING"
    BY <1>4 DEF CommitEdit, IInv, JobOK
  <2>2. doc[job[p].req] \in Document
    BY <2>1, SameVersionSameDocument
  <2>3. /\ new \in Document
        /\ new.status = "PENDING" /\ new.decider = doc[job[p].req].decider
    BY <2>2 DEF IInv, JobTypeOK, Job, Document, Status
  <2>4. UpdateStatus(p, new, <<Record("EDITED")>>)
    BY <1>4 DEF CommitEdit
  <2> HIDE DEF new
  <2> QED
    BY <2>1, <2>3, <2>4, UpdateStatusStep DEF DocumentStep
<1>5. ASSUME NEW p \in Handlers, CommitClaim(p) PROVE OneDocumentStep
  <2> DEFINE r == job[p].req
  <2> DEFINE e == Claimed(doc[r], job[p].actor)
  <2>1. r \in Requests /\ job[p].actor \in Users
    BY <1>5 DEF CommitClaim, IInv, JobOK
  <2>2. doc[r] \in Document
    BY <2>1 DEF IInv, DocTypeOK
  <2>3. job[p].actor \in UserOrNull /\ doc[r].version + 1 \in Nat
    BY <2>1, <2>2 DEF Document, UserOrNull
  <2>4. /\ e \in Document
        /\ e.status = doc[r].status /\ e.decider = doc[r].decider
    BY <2>2, <2>3 DEF Claimed, Document
  <2> HIDE DEF e
  <2>5. CASE Claimable(doc[r])
    BY <1>5, <2>1, <2>4, <2>5
    DEF CommitClaim, Claimable, OneDocumentStep, DocumentStep, e
  <2>6. CASE ~Claimable(doc[r])
    BY <1>5, <2>6 DEF CommitClaim, OneDocumentStep
  <2> QED
    BY <2>5, <2>6
<1>6. ASSUME NEW p \in Handlers, CommitDecision(p) PROVE OneDocumentStep
  <2> DEFINE j == job[p]
  <2> DEFINE assignee == IF j.takeOver THEN j.actor ELSE j.seen.assigned
  <2> DEFINE new == [doc[j.req] EXCEPT
                       !.status = j.verdict, !.action = j.verdict,
                       !.decider = j.actor, !.target = j.seen.target,
                       !.assigned = assignee,
                       !.block = j.verdict, !.blockBy = j.actor]
  <2>1. /\ j.pc = "decide" /\ j.seen.status = "PENDING"
        /\ j.verdict \in Decisions /\ j.actor \in Users
        /\ j.actor = Requester[j.req] => SelfApprovalAllowed
    BY <1>6 DEF CommitDecision, IInv, JobOK
  <2>2. doc[j.req] \in Document /\ j.seen \in Document
    BY <2>1, SameVersionSameDocument DEF IInv, JobTypeOK, Job
  <2>3. /\ j.actor \in UserOrNull /\ assignee \in UserOrNull
        /\ j.verdict \in Status /\ j.verdict \in {"NONE"} \cup Decisions
        /\ j.verdict \in {"NONE", "PENDING_APPROVAL"} \cup Decisions
        /\ j.seen.target \in {"NONE", "ROLE", "USER"}
    BY <2>1, <2>2 DEF Status, Terminal, Document, UserOrNull
  <2>4. UpdateStatus(p, new, EndEffects(j.verdict))
    BY <1>6 DEF CommitDecision
  <2> HIDE DEF assignee
  <2>5. new \in Document /\ new.status = j.verdict /\ new.decider = j.actor
    BY <2>2, <2>3 DEF Document
  <2> HIDE DEF new
  <2> QED
    BY <2>1, <2>4, <2>5, UpdateStatusStep DEF DocumentStep
<1>7. CASE UNCHANGED doc
  BY <1>7 DEF OneDocumentStep
<1>8. ASSUME NEW p \in Handlers, Begin(p) PROVE OneDocumentStep
  BY <1>8, <1>1, <1>7
  DEF Begin, BeginCancel, BeginEdit, BeginClaim, DecideApproval, EngineDecide
<1>9. ASSUME NEW p \in Handlers, Continue(p) \/ Abort(p)
      PROVE  OneDocumentStep
  BY <1>9, <1>2, <1>3, <1>4, <1>5, <1>6, <1>7
  DEF Continue, Reread, PerformNext, Abort
<1>10. ASSUME NEW d \in Delegations, Delegate(d[1], d[2])
       PROVE  OneDocumentStep
  BY <1>10, <1>7 DEF Delegate
<1>11. ASSUME NEW u \in Users, NEW i \in DOMAIN delegates[u],
              EndDelegation(u, i)
       PROVE  OneDocumentStep
  BY <1>11, <1>7 DEF EndDelegation
<1>12. CASE UNCHANGED vars
  BY <1>12, <1>7 DEF vars
<1> QED
  BY <1>8, <1>9, <1>10, <1>11, <1>12 DEF Next

----------------------------------------------------------------------------
(* Every variable keeps its type, whatever handlers run and die.           *)
THEOREM TypeCorrect == Spec => []TypeOK
<1>1. IInv => TypeOK
  BY DEF IInv, TypeOK, DocTypeOK, JobTypeOK, LogTypeOK, EnvironmentTypeOK
<1> QED
  BY <1>1, Invariant, PTL

(* The status, the decision block and the approval block of a stored       *)
(* request always tell the same decision by the same actor.                *)
THEOREM DecisionAgreement == Spec => []DecisionAgrees
<1>1. IInv => DecisionAgrees
  BY DEF IInv, DecisionAgrees, DocumentOK
<1> QED
  BY <1>1, Invariant, PTL

(* No interleaving of claims, delegations and decisions lets a requester   *)
(* decide a request of their own where self approval is off.               *)
THEOREM NoSelfApproval == Spec => []NoSelfDecision
<1>1. IInv => NoSelfDecision
  BY DEF IInv, NoSelfDecision, DocumentOK
<1> QED
  BY <1>1, Invariant, PTL

(* No handler still under way writes over a decided or cancelled request.  *)
THEOREM TerminalImmutable == Spec => TerminalFinal
<1>1. IInv /\ [Next]_vars =>
        [\A r \in Requests : doc[r].status \in Terminal => doc'[r] = doc[r]]_doc
  <2> SUFFICES ASSUME IInv, [Next]_vars, NEW r \in Requests,
                      doc[r].status \in Terminal
               PROVE  doc'[r] = doc[r]
    OBVIOUS
  <2>1. CASE doc' = doc
    BY <2>1
  <2>2. ASSUME NEW q \in Requests, NEW e \in Document,
               doc' = [doc EXCEPT ![q] = e], DocumentStep(q, doc[q], e)
        PROVE  doc'[r] = doc[r]
    <3>1. doc[q].status \in {"ABSENT", "DRAFT", "PENDING"}
      BY <2>2 DEF DocumentStep
    <3>2. q # r
      BY <3>1 DEF Terminal, Decisions
    <3> QED
      BY <2>2, <3>2 DEF IInv, DocTypeOK
  <2> QED
    BY <2>1, <2>2, NextStep DEF OneDocumentStep
<1> QED
  BY <1>1, Invariant, PTL DEF Spec, TerminalFinal

(* The interleaved handlers implement the abstract lifecycle: each write   *)
(* is one of its steps, every other step a stutter.                        *)
THEOREM Refinement == Spec => ImplementsRequestSpec
<1>1. Init => Promise!Init
  BY DEF Init, Promise!Init, NoDocument
<1>2. IInv /\ [Next]_vars => [Promise!Next]_Promise!vars
  <2> SUFFICES ASSUME IInv, [Next]_vars PROVE [Promise!Next]_Promise!vars
    OBVIOUS
  <2>1. CASE doc' = doc
    BY <2>1 DEF Promise!vars
  <2>2. ASSUME NEW r \in Requests, NEW e \in Document,
               doc' = [doc EXCEPT ![r] = e], DocumentStep(r, doc[r], e)
        PROVE  [Promise!Next]_Promise!vars
    <3> DEFINE status == [q \in Requests |-> doc[q].status]
    <3> DEFINE decider == [q \in Requests |-> doc[q].decider]
    <3>1. /\ status' = [status EXCEPT ![r] = e.status]
          /\ decider' = [decider EXCEPT ![r] = e.decider]
          /\ status[r] = doc[r].status /\ decider[r] = doc[r].decider
      BY <2>2 DEF IInv, DocTypeOK
    <3>2. e.decider = doc[r].decider => decider' = decider
      BY <3>1
    <3>3. e.status = doc[r].status => status' = status
      BY <3>1
    <3> HIDE DEF status, decider
    <3>4. CASE doc[r].status = "ABSENT" /\ e.status = "DRAFT"
               /\ e.decider = doc[r].decider
      <4>1. Promise!Create(r)
        BY <3>1, <3>2, <3>4 DEF Promise!Create, status, decider
      <4> QED
        BY <4>1 DEF Promise!Next
    <3>5. CASE doc[r].status = "DRAFT" /\ e.status = "PENDING"
               /\ e.decider = doc[r].decider
      <4>1. Promise!Submit(r)
        BY <3>1, <3>2, <3>5 DEF Promise!Submit, status, decider
      <4> QED
        BY <4>1 DEF Promise!Next
    <3>6. CASE doc[r].status = "PENDING" /\ e.status = "CANCELLED"
               /\ e.decider = doc[r].decider
      <4>1. Promise!Cancel(r)
        BY <3>1, <3>2, <3>6 DEF Promise!Cancel, status, decider
      <4> QED
        BY <4>1 DEF Promise!Next
    <3>7. CASE doc[r].status = "PENDING" /\ e.status = "PENDING"
               /\ e.decider = doc[r].decider
      BY <3>2, <3>3, <3>7 DEF Promise!vars, status, decider
    <3>8. CASE /\ doc[r].status = "PENDING" /\ e.status \in Decisions
               /\ e.decider \in Users
               /\ e.decider = Requester[r] => SelfApprovalAllowed
      <4>1. e.status \in Promise!Decisions
        BY <3>8 DEF Decisions, Promise!Decisions
      <4>2. Promise!Decide(r, e.decider, e.status)
        BY <3>1, <3>8 DEF Promise!Decide, status, decider
      <4> QED
        BY <3>8, <4>1, <4>2 DEF Promise!Next
    <3> QED
      BY <2>2, <3>4, <3>5, <3>6, <3>7, <3>8 DEF DocumentStep
  <2> QED
    BY <2>1, <2>2, NextStep DEF OneDocumentStep
<1> QED
  BY <1>1, <1>2, Invariant, PTL DEF Spec, ImplementsRequestSpec, Promise!Spec

----------------------------------------------------------------------------
(* What the lifecycle leaves behind: who was entitled to decide, and what  *)
(* the timeline and the bus tell of each request.  The proofs rest on the  *)
(* invariant above and add one of their own, HInv, which relates the       *)
(* stored document to the effects that the handlers under way still owe.   *)

(* User u may decide a request whose approver is a: by override, as an HR  *)
(* administrator, as the approver or by a delegation the approver made.    *)
Entitled(a, u) ==
  \/ u \in Overriders
  \/ u \in Approvers /\ (u \in HrAdmins \/ u = a \/ <<a, u>> \in granted)

(* The approver of a request is settled by its submission or, for a role   *)
(* target, by the claim; an assignee is the approver, or the decider who   *)
(* took an unassigned request over.                                        *)
ApproverSettled(d) ==
  /\ d.status \in {"ABSENT", "DRAFT"} => d.approver = Null
  /\ d.status = "PENDING" /\ d.target = "ROLE" /\ d.assigned = Null =>
       d.approver = Null
  /\ d.assigned \in {Null, d.approver, d.decider}
  /\ d.decider # Null => Entitled(d.approver, d.decider)

(* What a handler may still be about to do, by where it is.                *)
HandlerOK(j) ==
  /\ j.pc = "idle" => j = Idle
  /\ j.pc # "effects" => j.todo = <<>>
  /\ j.pc = "pend" => (j.route.target = "ROLE" => j.route.approver = Null)
  /\ j.pc \in {"reread", "decide"} => Entitled(doc[j.req].approver, j.actor)

(* Every delegation that covers today was granted.                         *)
DelegationsGranted ==
  \A u \in Users : \A i \in DOMAIN delegates[u] : <<u, delegates[u][i]>> \in granted

(* The effects es tell of no end; what is left of those that tell one.     *)
NoEnd(es) == \A i \in DOMAIN es : es[i].event \notin Terminal
LastEffects(e) == {EndEffects(e), <<Publish(e)>>}
Ending(p, r) == job[p].req = r /\ ~NoEnd(job[p].todo)

EndsRecorded(r) == {n \in DOMAIN timeline[r] : timeline[r][n].event \in Terminal}
EndsPublished(r) == Positions(published[r], Terminal)

(* The end of a request is told, or owed by one handler, once.             *)
EndTold(r) ==
  /\ doc[r].status \notin Terminal =>
       /\ EndsRecorded(r) = {} /\ EndsPublished(r) = {}
       /\ \A p \in Handlers : ~Ending(p, r)
  /\ \A p, q \in Handlers : Ending(p, r) /\ Ending(q, r) => p = q
  /\ \A p \in Handlers : Ending(p, r) =>
       /\ job[p].todo \in LastEffects(doc[r].status)
       /\ doc[r].status \in Decisions => job[p].actor = doc[r].decider
       /\ EndsPublished(r) = {}
       /\ job[p].todo = EndEffects(doc[r].status) => EndsRecorded(r) = {}
  /\ \A i, k \in EndsPublished(r) : i = k /\ published[r][i] = doc[r].status
  /\ \A i, k \in EndsRecorded(r) :
       /\ i = k /\ timeline[r][i].event = doc[r].status
       /\ doc[r].status \in Decisions => timeline[r][i].actor = doc[r].decider

(* The entries that stand for a write, in a timeline and in what is owed.  *)
Counts(e) == e.kind = "record" /\ e.event # "ASSIGNED"
CountedOnce(es) ==
  \A i, k \in DOMAIN es : Counts(es[i]) /\ Counts(es[k]) => i = k
WritesRecorded(r) ==
  {i \in DOMAIN timeline[r] : timeline[r][i].event # "ASSIGNED"}
WritesOwed(r) == {p \in Handlers : Owes(p, r)}

(* The version of a request counts its writes.                             *)
WritesAccounted(r) ==
  /\ doc[r].status = "ABSENT" => doc[r].version = 0 /\ timeline[r] = <<>>
  /\ doc[r].status # "ABSENT" => doc[r].version > 0
  /\ ~MayFail /\ doc[r].version > 0 =>
       doc[r].version - 1 =
         Cardinality(WritesRecorded(r)) + Cardinality(WritesOwed(r))

EntitledInv ==
  /\ DelegationsGranted
  /\ \A r \in Requests : ApproverSettled(doc[r])
  /\ \A p \in Handlers : HandlerOK(job[p])
ToldInv ==
  /\ \A r \in Requests : EndTold(r)
  /\ \A p \in Handlers : CountedOnce(job[p].todo)
CountInv == \A r \in Requests : WritesAccounted(r)

HInv == IInv /\ EntitledInv /\ ToldInv

----------------------------------------------------------------------------
(* The steps of the system, told by what they do to the documents and to   *)
(* the handlers.  A quiet step of handler p leaves it with the job j: it   *)
(* starts, reads again, gives up, or dies.                                 *)
Quiet(p, j) ==
  /\ doc' = doc /\ job' = [job EXCEPT ![p] = j]
  /\ j \in Job /\ HandlerOK(j) /\ j.todo = <<>>
  /\ job[p].todo = <<>> \/ MayFail
  /\ UNCHANGED <<environment, logs>>

(* A submission creates the document d of r.                               *)
Create(p, r, d, j) ==
  /\ doc[r].status = "ABSENT"
  /\ d \in Document /\ d.status = "DRAFT" /\ d.version = 1 /\ d.approver = Null
  /\ d.assigned = Null /\ d.decider = Null
  /\ doc' = [doc EXCEPT ![r] = d] /\ job' = [job EXCEPT ![p] = j]
  /\ job[p] = Idle /\ j \in Job /\ j.pc = "pend" /\ j.todo = <<>>
  /\ j.route.target = "ROLE" => j.route.approver = Null
  /\ UNCHANGED <<environment, logs>>

(* A write of handler p stores d and leaves p with the effects es.         *)
Write(p, d, es) ==
  LET r == job[p].req IN
  /\ job[p].pc \notin {"idle", "effects"}
  /\ doc[r].status \in {"DRAFT", "PENDING"} /\ d.status # "ABSENT"
  /\ d \in Document /\ d.version = doc[r].version + 1
  /\ ApproverSettled(d)
  /\ doc[r].approver # Null => d.approver = doc[r].approver
  /\ es \in Seq(Effect) /\ CountedOnce(es) /\ \E i \in DOMAIN es : Counts(es[i])
  /\ IF d.status \in Terminal
     THEN /\ es = EndEffects(d.status)
          /\ d.status \in Decisions => d.decider = job[p].actor
     ELSE NoEnd(es)
  /\ doc' = [doc EXCEPT ![r] = d] /\ Perform(p, es)
  /\ UNCHANGED <<environment, logs>>

(* What those steps read of the invariants.                                *)
LEMMA HandlerFacts ==
  ASSUME HInv, NEW p \in Handlers
  PROVE  /\ job[p] \in Job /\ JobOK(job[p]) /\ HandlerOK(job[p])
         /\ job[p].pc # "idle" =>
              /\ job[p].req \in Requests /\ doc[job[p].req] \in Document
              /\ doc[job[p].req].version \in Nat /\ doc[job[p].req].status # "ABSENT"
              /\ DocumentOK(job[p].req, doc[job[p].req])
              /\ ApproverSettled(doc[job[p].req])
BY DEF HInv, IInv, JobTypeOK, DocTypeOK, JobOK, EntitledInv, Document

(* Ending a handler is quiet, if it owed nothing or awaits may throw.      *)
LEMMA EndIsQuiet ==
  ASSUME HInv, NEW p \in Handlers, End(p), doc' = doc,
         job[p].pc # "effects" \/ MayFail, UNCHANGED <<environment, logs>>
  PROVE  Quiet(p, Idle)
<1>1. HandlerOK(Idle) /\ Idle.todo = <<>>
  BY DEF HandlerOK, Idle
<1>2. job[p].todo = <<>> \/ MayFail
  BY HandlerFacts DEF HandlerOK
<1> QED
  BY <1>1, <1>2, IdleType DEF Quiet, End

(* So is starting one that read what is stored and owes nothing yet.       *)
LEMMA StartIsQuiet ==
  ASSUME HInv, NEW p \in Handlers, NEW j \in Job, Start(p, j), doc' = doc,
         j.pc \notin {"idle", "pend", "effects"}, j.todo = <<>>,
         j.pc \in {"reread", "decide"} => Entitled(doc[j.req].approver, j.actor),
         UNCHANGED <<environment, logs>>
  PROVE  Quiet(p, j)
<1>1. job[p].todo = <<>>
  BY DEF Start, Idle
<1>2. HandlerOK(j)
  BY DEF HandlerOK
<1> QED
  BY <1>1, <1>2 DEF Quiet, Start

LEMMA BeginSubmitCreates ==
  ASSUME HInv, NEW p \in Handlers, NEW r \in Requests, NEW pay \in Payloads,
         NEW route \in Routes(r), BeginSubmit(p, r, pay, route)
  PROVE  \E d, j : Create(p, r, d, j)
<1> DEFINE d == [NoDocument EXCEPT !.status = "DRAFT", !.version = 1,
                                   !.payload = pay]
<1> DEFINE j == [Idle EXCEPT !.pc = "pend", !.req = r, !.actor = Requester[r],
                             !.seen = d, !.route = route]
<1>1. d \in Document
  BY NoDocumentType DEF Document, Status
<1>2. doc' = [doc EXCEPT ![r] = d] /\ doc'[r] = d
  BY DEF BeginSubmit, HInv, IInv, DocTypeOK
<1>3. job[p] = Idle /\ job' = [job EXCEPT ![p] = j]
  BY <1>2 DEF BeginSubmit, Start
<1>4. route \in Route /\ (route.target = "ROLE" => route.approver = Null)
  BY LifecycleAssumption DEF Routes, Route, UserOrNull
<1>5. j \in Job
  BY <1>1, <1>4, IdleType, LifecycleAssumption DEF Job, UserOrNull
<1>6. /\ d.status = "DRAFT" /\ d.version = 1
      /\ d.approver = Null /\ d.assigned = Null /\ d.decider = Null
  BY DEF NoDocument
<1>7. j.pc = "pend" /\ j.todo = <<>> /\ j.route = route
  BY DEF Idle
<1>8. Create(p, r, d, j)
  <2> HIDE DEF d, j
  <2> QED
    BY <1>1, <1>2, <1>3, <1>4, <1>5, <1>6, <1>7 DEF Create, BeginSubmit
<1> QED
  BY <1>8

LEMMA BeginCancelQuiet ==
  ASSUME HInv, NEW p \in Handlers, NEW r \in Requests, BeginCancel(p, r)
  PROVE  \E j : Quiet(p, j)
<1> DEFINE j == [Idle EXCEPT !.pc = "cancel", !.req = r,
                             !.actor = Requester[r], !.seen = doc[r]]
<1>1. doc[r] \in Document
  BY DEF HInv, IInv, DocTypeOK
<1>2. j \in Job
  BY <1>1, IdleType, LifecycleAssumption DEF Job, UserOrNull
<1>3. j.pc = "cancel" /\ j.todo = <<>>
  BY DEF Idle
<1> QED
  BY <1>2, <1>3, StartIsQuiet DEF BeginCancel

LEMMA BeginEditQuiet ==
  ASSUME HInv, NEW p \in Handlers, NEW r \in Requests, NEW pay \in Payloads,
         BeginEdit(p, r, pay)
  PROVE  \E j : Quiet(p, j)
<1> DEFINE j == [Idle EXCEPT !.pc = "edit", !.req = r, !.actor = Requester[r],
                             !.seen = doc[r], !.payload = pay]
<1>1. doc[r] \in Document
  BY DEF HInv, IInv, DocTypeOK
<1>2. j \in Job
  BY <1>1, IdleType, LifecycleAssumption DEF Job, UserOrNull
<1>3. j.pc = "edit" /\ j.todo = <<>>
  BY DEF Idle
<1> QED
  BY <1>2, <1>3, StartIsQuiet DEF BeginEdit

LEMMA BeginClaimQuiet ==
  ASSUME HInv, NEW p \in Handlers, NEW r \in Requests, NEW u \in Users,
         BeginClaim(p, r, u)
  PROVE  \E j : Quiet(p, j)
<1> DEFINE j == [Idle EXCEPT !.pc = "claim", !.req = r, !.actor = u,
                             !.seen = doc[r]]
<1>1. doc[r] \in Document
  BY DEF HInv, IInv, DocTypeOK
<1>2. j \in Job
  BY <1>1, IdleType DEF Job, UserOrNull
<1>3. j.pc = "claim" /\ j.todo = <<>>
  BY DEF Idle
<1> QED
  BY <1>2, <1>3, StartIsQuiet DEF BeginClaim

(* Both decision endpoints check the entitlement against what is stored.   *)
LEMMA BeginDecisionQuiet ==
  ASSUME HInv, NEW p \in Handlers, NEW r \in Requests, NEW u \in Users,
         NEW verdict \in Decisions, BeginDecision(p, r, u, verdict),
         Entitled(doc[r].approver, u), doc' = doc,
         UNCHANGED <<environment, logs>>
  PROVE  \E j : Quiet(p, j)
<1> DEFINE j == [Idle EXCEPT !.pc = "reread", !.req = r, !.actor = u,
                             !.verdict = verdict,
                             !.takeOver = doc[r].assigned = Null]
<1>1. (doc[r].assigned = Null) \in BOOLEAN
  OBVIOUS
<1>2. j \in Job
  BY <1>1, IdleType DEF Job, UserOrNull
<1>3. j.pc = "reread" /\ j.todo = <<>> /\ j.req = r /\ j.actor = u
  BY DEF Idle
<1>4. Start(p, j)
  BY DEF BeginDecision
<1> HIDE DEF j
<1> QED
  BY <1>2, <1>3, <1>4, StartIsQuiet

(* The effective delegate has a delegation that was granted.               *)
LEMMA EffectiveDelegateGranted ==
  ASSUME HInv, NEW a \in UserOrNull, NEW u \in Users, u = EffectiveDelegate(a)
  PROVE  <<a, u>> \in granted
<1>1. a \in Users /\ delegates[a] # <<>> /\ u = Head(delegates[a])
  BY LifecycleAssumption DEF EffectiveDelegate, UserOrNull
<1>2. delegates[a] \in Seq(Users)
  BY <1>1 DEF HInv, IInv, EnvironmentTypeOK
<1>3. 1 \in DOMAIN delegates[a] /\ Head(delegates[a]) = delegates[a][1]
  BY <1>1, <1>2, EmptySeq, LenProperties, HeadTailProperties
<1> QED
  BY <1>1, <1>3 DEF HInv, EntitledInv, DelegationsGranted

LEMMA DecideApprovalQuiet ==
  ASSUME HInv, NEW p \in Handlers, NEW r \in Requests, NEW u \in Users,
         NEW verdict \in Decisions, NEW overrideCutoff \in BOOLEAN,
         DecideApproval(p, r, u, verdict, overrideCutoff)
  PROVE  \E j : Quiet(p, j)
<1>1. doc[r].approver \in UserOrNull
  BY DEF HInv, IInv, DocTypeOK, Document
<1>2. Entitled(doc[r].approver, u)
  BY <1>1, EffectiveDelegateGranted DEF DecideApproval, MayDecide, Entitled
<1> QED
  BY <1>2, BeginDecisionQuiet DEF DecideApproval

(* The engine goes by the assignee: the approver, or a former decider.     *)
LEMMA EngineDecideQuiet ==
  ASSUME HInv, NEW p \in Handlers, NEW r \in Requests, NEW u \in Users,
         NEW verdict \in Decisions, EngineDecide(p, r, u, verdict)
  PROVE  \E j : Quiet(p, j)
<1>1. ApproverSettled(doc[r]) /\ u # Null
  BY LifecycleAssumption DEF HInv, EntitledInv
<1>2. Entitled(doc[r].approver, u)
  BY <1>1
  DEF EngineDecide, EngineMayDecide, Entitled, AssignedApprover, ApproverSettled
<1> QED
  BY <1>2, BeginDecisionQuiet DEF EngineDecide

LEMMA RereadQuiet ==
  ASSUME HInv, NEW p \in Handlers, Reread(p)
  PROVE  \E j : Quiet(p, j)
<1> DEFINE r == job[p].req
<1> DEFINE j == [job[p] EXCEPT !.pc = "decide", !.seen = doc[r]]
<1>1. job[p] \in Job /\ job[p].pc = "reread" /\ HandlerOK(job[p])
      /\ doc[r] \in Document
  BY HandlerFacts DEF Reread
<1>2. CASE doc[r].status = "PENDING"
  <2>1. job' = [job EXCEPT ![p] = j]
    BY <1>2 DEF Reread, HInv, IInv, JobTypeOK
  <2>2. j \in Job /\ j.pc = "decide" /\ j.req = r /\ j.actor = job[p].actor
        /\ j.todo = job[p].todo
    BY <1>1 DEF Job
  <2>3. HandlerOK(j) /\ job[p].todo = <<>>
    BY <1>1, <2>2 DEF HandlerOK
  <2>4. Quiet(p, j)
    BY <2>1, <2>2, <2>3 DEF Quiet, Reread
  <2> QED
    BY <2>4
<1>3. CASE doc[r].status # "PENDING"
  BY <1>1, <1>3, EndIsQuiet DEF Reread
<1> QED
  BY <1>2, <1>3

----------------------------------------------------------------------------
(* A lost updateStatus is quiet; one that succeeds is a write, if it would *)
(* be one over the document that was read.                                 *)
LEMMA UpdateStatusForm ==
  ASSUME HInv, NEW p \in Handlers,
         job[p].pc \in {"pend", "cancel", "edit", "decide"},
         NEW new \in Document, NEW es \in Seq(Effect), UpdateStatus(p, new, es),
         UNCHANGED <<environment, logs>>,
         CountedOnce(es), \E i \in DOMAIN es : Counts(es[i]),
         IF new.status \in Terminal
         THEN /\ es = EndEffects(new.status)
              /\ new.status \in Decisions => new.decider = job[p].actor
         ELSE NoEnd(es),
         job[p].seen = doc[job[p].req] =>
           /\ ApproverSettled(new) /\ new.status # "ABSENT"
           /\ doc[job[p].req].approver # Null =>
                new.approver = doc[job[p].req].approver
  PROVE  (\E j : Quiet(p, j)) \/ (\E d : Write(p, d, es))
<1> DEFINE r == job[p].req
<1> DEFINE d == [new EXCEPT !.version = job[p].seen.version + 1]
<1>1. CASE doc[r].version = job[p].seen.version
  <2>1. r \in Requests /\ job[p].seen = doc[r] /\ doc[r] \in Document
    BY <1>1, SameVersionSameDocument DEF HInv
  <2>2. doc[r].status \in {"DRAFT", "PENDING"} /\ doc[r].version \in Nat
    BY <2>1, HandlerFacts DEF JobOK, Document
  <2>3. /\ d \in Document /\ d.version = doc[r].version + 1
        /\ d.status = new.status /\ d.decider = new.decider
        /\ d.approver = new.approver /\ d.assigned = new.assigned
        /\ d.target = new.target
    BY <2>1, <2>2 DEF Document
  <2>4. ApproverSettled(d)
    BY <2>1, <2>3 DEF ApproverSettled
  <2>5. doc' = [doc EXCEPT ![r] = d] /\ Perform(p, es)
    BY <1>1 DEF UpdateStatus
  <2> HIDE DEF d
  <2>6. Write(p, d, es)
    BY <2>1, <2>2, <2>3, <2>4, <2>5 DEF Write
  <2> QED
    BY <2>6
<1>2. CASE doc[r].version # job[p].seen.version
  BY <1>2, EndIsQuiet DEF UpdateStatus
<1> QED
  BY <1>1, <1>2

LEMMA EndEffectsForm ==
  ASSUME NEW e \in Terminal
  PROVE  /\ EndEffects(e) \in Seq(Effect) /\ CountedOnce(EndEffects(e))
         /\ \E i \in DOMAIN EndEffects(e) : Counts(EndEffects(e)[i])
<1>1. EndEffects(e) \in Seq(Effect)
  BY EndEffectsType
<1>2. DOMAIN EndEffects(e) = 1 .. 2 /\ EndEffects(e)[1] = Record(e)
      /\ EndEffects(e)[2] = Publish(e)
  BY DEF EndEffects
<1>3. Counts(Record(e)) /\ ~Counts(Publish(e))
  BY DEF Counts, Record, Publish, Terminal, Decisions
<1> QED
  BY <1>1, <1>2, <1>3 DEF CountedOnce

(* A handler that continues is quiet, writes, or performs an effect.       *)
QuietOrWrite(p) ==
  \/ \E j : Quiet(p, j)
  \/ \E d, es : Write(p, d, es)

LEMMA PendForm ==
  ASSUME HInv, NEW p \in Handlers, Pend(p)
  PROVE  QuietOrWrite(p)
<1> DEFINE j == job[p]
<1> DEFINE r == j.req
<1> DEFINE new == Submitted(doc[r], j.route)
<1> DEFINE first == <<Record("SUBMITTED"), Publish("SUBMITTED")>>
<1> DEFINE rest == IF j.route.target = "NONE" THEN <<>>
                   ELSE <<Record("ASSIGNED"), Publish("ASSIGNED")>>
<1> DEFINE es == first \o rest
<1>1. j.pc = "pend" /\ UpdateStatus(p, new, es) /\ UNCHANGED <<environment, logs>>
  BY DEF Pend
<1>2. /\ doc[r] \in Document /\ ApproverSettled(doc[r])
      /\ DocumentOK(r, doc[r]) /\ j.route \in Route /\ HandlerOK(j)
      /\ j.seen.status = "DRAFT"
  BY <1>1, HandlerFacts DEF Job, JobOK
<1>3. new \in Document
  BY <1>2, SubmittedType
<1>4. first \in Seq(Effect) /\ rest \in Seq(Effect) /\ Len(first) = 2
      /\ Len(rest) \in {0, 2}
  BY EffectType DEF Event
<1>5. es \in Seq(Effect) /\ DOMAIN es = 1 .. (2 + Len(rest))
      /\ es[1] = Record("SUBMITTED") /\ es[2] = Publish("SUBMITTED")
      /\ (Len(rest) = 2 =>
            es[3] = Record("ASSIGNED") /\ es[4] = Publish("ASSIGNED"))
  BY <1>4
<1>6. CountedOnce(es) /\ (\E i \in DOMAIN es : Counts(es[i])) /\ NoEnd(es)
  <2>1. \A i \in DOMAIN es :
          /\ Counts(es[i]) <=> i = 1
          /\ es[i].event \in {"SUBMITTED", "ASSIGNED"}
    BY <1>4, <1>5 DEF Counts, Record, Publish
  <2> HIDE DEF es
  <2> QED
    BY <1>4, <1>5, <2>1 DEF CountedOnce, NoEnd, Terminal, Decisions
<1>7. /\ new.status = "PENDING" /\ new.approver = j.route.approver
      /\ new.target = j.route.target /\ new.decider = doc[r].decider
      /\ new.assigned \in {Null, j.route.approver}
  BY <1>2 DEF Submitted, Document
<1>8. j.seen = doc[r] =>
        /\ ApproverSettled(new) /\ new.status # "ABSENT"
        /\ doc[r].approver # Null => new.approver = doc[r].approver
  BY <1>1, <1>2, <1>7 DEF ApproverSettled, HandlerOK, DocumentOK, Decisions
<1> HIDE DEF new, es
<1> QED
  BY <1>1, <1>3, <1>5, <1>6, <1>7, <1>8, UpdateStatusForm
  DEF QuietOrWrite, Terminal, Decisions

LEMMA CommitCancelForm ==
  ASSUME HInv, NEW p \in Handlers, CommitCancel(p)
  PROVE  QuietOrWrite(p)
<1> DEFINE r == job[p].req
<1> DEFINE new == [doc[r] EXCEPT !.status = "CANCELLED"]
<1>1. /\ job[p].pc = "cancel" /\ UpdateStatus(p, new, EndEffects("CANCELLED"))
      /\ UNCHANGED <<environment, logs>>
  BY DEF CommitCancel
<1>2. doc[r] \in Document /\ ApproverSettled(doc[r])
  BY <1>1, HandlerFacts
<1>3. new \in Document /\ new.status = "CANCELLED"
      /\ new.approver = doc[r].approver
  BY <1>2 DEF Document, Status, Terminal
<1>4. job[p].seen = doc[r] => ApproverSettled(new)
  BY <1>1, <1>2, HandlerFacts DEF ApproverSettled, Document, JobOK
<1> HIDE DEF new
<1> QED
  BY <1>1, <1>3, <1>4, EndEffectsForm, UpdateStatusForm
  DEF QuietOrWrite, Terminal, Decisions

LEMMA CommitEditForm ==
  ASSUME HInv, NEW p \in Handlers, CommitEdit(p)
  PROVE  QuietOrWrite(p)
<1> DEFINE r == job[p].req
<1> DEFINE new == [doc[r] EXCEPT !.status = "PENDING",
                                 !.payload = job[p].payload]
<1> DEFINE es == <<Record("EDITED")>>
<1>1. /\ job[p].pc = "edit" /\ UpdateStatus(p, new, es)
      /\ UNCHANGED <<environment, logs>>
  BY DEF CommitEdit
<1>2. doc[r] \in Document /\ ApproverSettled(doc[r]) /\ job[p] \in Job
      /\ job[p].seen.status = "PENDING"
  BY <1>1, HandlerFacts DEF JobOK
<1>3. new \in Document /\ new.status = "PENDING"
      /\ new.approver = doc[r].approver
  BY <1>2 DEF Document, Status, Job
<1>4. job[p].seen = doc[r] => ApproverSettled(new)
  BY <1>2 DEF ApproverSettled, Document
<1>5. es \in Seq(Effect) /\ DOMAIN es = {1} /\ es[1] = Record("EDITED")
  BY EffectType DEF Event
<1>6. CountedOnce(es) /\ (\E i \in DOMAIN es : Counts(es[i])) /\ NoEnd(es)
  BY <1>5 DEF CountedOnce, Counts, NoEnd, Record, Terminal, Decisions
<1> HIDE DEF new, es
<1> QED
  BY <1>1, <1>3, <1>4, <1>5, <1>6, UpdateStatusForm
  DEF QuietOrWrite, Terminal, Decisions

LEMMA CommitClaimForm ==
  ASSUME HInv, NEW p \in Handlers, CommitClaim(p)
  PROVE  QuietOrWrite(p)
<1> DEFINE r == job[p].req
<1> DEFINE u == job[p].actor
<1> DEFINE new == Claimed(doc[r], u)
<1> DEFINE es == <<Record("CLAIMED"), Publish("CLAIMED")>>
<1>1. job[p].pc = "claim" /\ u \in Users /\ UNCHANGED <<environment, logs>>
  BY HandlerFacts DEF CommitClaim, JobOK
<1>2. doc[r] \in Document /\ ApproverSettled(doc[r]) /\ doc[r].version \in Nat
      /\ DocumentOK(r, doc[r])
  BY <1>1, HandlerFacts
<1>3. CASE Claimable(doc[r])
  <2>1. doc' = [doc EXCEPT ![r] = new] /\ Perform(p, es)
    BY <1>3 DEF CommitClaim
  <2>2. u \in UserOrNull /\ doc[r].version + 1 \in Nat
    BY <1>1, <1>2 DEF UserOrNull
  <2>3. /\ new \in Document /\ new.version = doc[r].version + 1
        /\ new.status = doc[r].status /\ new.assigned = u /\ new.approver = u
        /\ new.decider = doc[r].decider
    BY <1>2, <2>2 DEF Claimed, Document
  <2>4. doc[r].status = "PENDING" /\ doc[r].approver = Null
        /\ doc[r].decider = Null
    BY <1>2, <1>3 DEF Claimable, ApproverSettled, DocumentOK, Decisions
  <2>5. ApproverSettled(new)
    BY <1>1, <2>3, <2>4, LifecycleAssumption DEF ApproverSettled
  <2>6. es \in Seq(Effect) /\ DOMAIN es = 1 .. 2
        /\ es[1] = Record("CLAIMED") /\ es[2] = Publish("CLAIMED")
    BY EffectType DEF Event
  <2>7. CountedOnce(es) /\ (\E i \in DOMAIN es : Counts(es[i])) /\ NoEnd(es)
    BY <2>6
    DEF CountedOnce, Counts, NoEnd, Record, Publish, Terminal, Decisions
  <2> HIDE DEF new, es
  <2>8. Write(p, new, es)
    BY <1>1, <2>1, <2>3, <2>4, <2>5, <2>6, <2>7
    DEF Write, Terminal, Decisions
  <2> QED
    BY <2>8 DEF QuietOrWrite
<1>4. CASE ~Claimable(doc[r])
  BY <1>1, <1>4, EndIsQuiet DEF CommitClaim, QuietOrWrite
<1> QED
  BY <1>3, <1>4

LEMMA CommitDecisionForm ==
  ASSUME HInv, NEW p \in Handlers, CommitDecision(p)
  PROVE  QuietOrWrite(p)
<1> DEFINE j == job[p]
<1> DEFINE r == j.req
<1> DEFINE assignee == IF j.takeOver THEN j.actor ELSE j.seen.assigned
<1> DEFINE new == [doc[r] EXCEPT
                     !.status = j.verdict, !.action = j.verdict,
                     !.decider = j.actor, !.target = j.seen.target,
                     !.assigned = assignee,
                     !.block = j.verdict, !.blockBy = j.actor]
<1>1. /\ j.pc = "decide" /\ UpdateStatus(p, new, EndEffects(j.verdict))
      /\ UNCHANGED <<environment, logs>>
  BY DEF CommitDecision
<1>2. /\ doc[r] \in Document /\ j.seen \in Document
      /\ ApproverSettled(doc[r]) /\ DocumentOK(r, doc[r])
      /\ j.verdict \in Decisions /\ j.actor \in Users
      /\ Entitled(doc[r].approver, j.actor) /\ j.seen.status = "PENDING"
  BY <1>1, HandlerFacts DEF JobOK, HandlerOK, Job
<1>3. /\ j.actor \in UserOrNull /\ assignee \in UserOrNull
      /\ j.verdict \in Status /\ j.verdict \in {"NONE"} \cup Decisions
      /\ j.verdict \in {"NONE", "PENDING_APPROVAL"} \cup Decisions
      /\ j.seen.target \in {"NONE", "ROLE", "USER"}
      /\ assignee \in {j.actor, j.seen.assigned}
  BY <1>2 DEF Status, Terminal, Document, UserOrNull
<1> HIDE DEF assignee
<1>4. /\ new \in Document /\ new.status = j.verdict /\ new.decider = j.actor
      /\ new.approver = doc[r].approver /\ new.assigned = assignee
  BY <1>2, <1>3 DEF Document
<1> HIDE DEF new
<1>5. j.seen = doc[r] => ApproverSettled(new)
  BY <1>2, <1>3, <1>4 DEF ApproverSettled, DocumentOK, Decisions
<1>6. new.status \in Terminal /\ new.status # "ABSENT"
  BY <1>2, <1>4 DEF Terminal, Decisions
<1> QED
  BY <1>1, <1>4, <1>5, <1>6, EndEffectsForm, UpdateStatusForm DEF QuietOrWrite

(* Every step is one of these six kinds, or changes nothing of interest.   *)
LEMMA StepForms ==
  ASSUME HInv, [Next]_vars
  PROVE  \/ \E p \in Handlers : QuietOrWrite(p) \/ PerformNext(p)
         \/ \E p \in Handlers, r \in Requests : \E d, j : Create(p, r, d, j)
         \/ \E d \in Delegations : Delegate(d[1], d[2])
         \/ \E u \in Users : \E i \in DOMAIN delegates[u] : EndDelegation(u, i)
         \/ UNCHANGED <<doc, job, environment, logs>>
<1>1. ASSUME NEW p \in Handlers, Begin(p)
      PROVE  \/ QuietOrWrite(p)
             \/ \E r \in Requests : \E d, j : Create(p, r, d, j)
  BY <1>1, BeginSubmitCreates, BeginCancelQuiet, BeginEditQuiet, BeginClaimQuiet,
     DecideApprovalQuiet, EngineDecideQuiet DEF Begin, QuietOrWrite
<1>2. ASSUME NEW p \in Handlers, Continue(p)
      PROVE  QuietOrWrite(p) \/ PerformNext(p)
  BY <1>2, PendForm, CommitCancelForm, CommitEditForm, CommitClaimForm,
     RereadQuiet, CommitDecisionForm DEF Continue, QuietOrWrite
<1>3. ASSUME NEW p \in Handlers, Abort(p) PROVE QuietOrWrite(p)
  BY <1>3, EndIsQuiet DEF Abort, QuietOrWrite
<1>4. CASE UNCHANGED vars
  BY <1>4 DEF vars, environment, logs
<1> QED
  BY <1>1, <1>2, <1>3, <1>4 DEF Next

----------------------------------------------------------------------------
(* The entitlement part of the invariant.                                  *)
LEMMA QuietEntitled ==
  ASSUME HInv, NEW p \in Handlers, NEW j, Quiet(p, j)
  PROVE  EntitledInv'
<1>1. granted' = granted /\ delegates' = delegates
  BY DEF Quiet, environment
<1>2. DelegationsGranted' /\ (\A r \in Requests : ApproverSettled(doc[r]))'
  BY <1>1 DEF Quiet, HInv, EntitledInv, DelegationsGranted, ApproverSettled,
     Entitled
<1>3. ASSUME NEW q \in Handlers PROVE HandlerOK(job[q])'
  <2>1. job'[q] = IF q = p THEN j ELSE job[q]
    BY DEF Quiet, HInv, IInv, JobTypeOK
  <2>2. HandlerOK(job'[q])
    BY <2>1 DEF Quiet, HInv, EntitledInv
  <2> QED
    BY <2>2, <1>1 DEF Quiet, HandlerOK, Entitled
<1> QED
  BY <1>2, <1>3 DEF EntitledInv

LEMMA CreateEntitled ==
  ASSUME HInv, NEW p \in Handlers, NEW r \in Requests, NEW d, NEW j,
         Create(p, r, d, j)
  PROVE  EntitledInv'
<1>1. granted' = granted /\ delegates' = delegates
  BY DEF Create, environment
<1>2. DelegationsGranted'
  BY <1>1 DEF HInv, EntitledInv, DelegationsGranted
<1>3. ASSUME NEW q \in Requests PROVE ApproverSettled(doc[q])'
  BY <1>1
  DEF Create, HInv, IInv, DocTypeOK, EntitledInv, ApproverSettled, Entitled
<1>4. ASSUME NEW q \in Handlers PROVE HandlerOK(job[q])'
  <2>1. job'[q] = IF q = p THEN j ELSE job[q]
    BY DEF Create, HInv, IInv, JobTypeOK
  <2>2. CASE q = p
    BY <2>1, <2>2 DEF Create, HandlerOK
  <2>3. CASE q # p
    <3>1. HandlerOK(job[q]) /\ JobOK(job[q])
      BY HandlerFacts
    <3>2. job[q].pc # "idle" => job[q].req # r /\ doc'[job[q].req] = doc[job[q].req]
      BY <3>1 DEF Create, JobOK, HInv, IInv, DocTypeOK
    <3> QED
      BY <1>1, <2>1, <2>3, <3>1, <3>2 DEF HandlerOK, Entitled
  <2> QED
    BY <2>2, <2>3
<1> QED
  BY <1>2, <1>3, <1>4 DEF EntitledInv

(* A handler left with nothing but effects may do no more than them.       *)
LEMMA PerformJob ==
  ASSUME HInv, NEW p \in Handlers, NEW es, Perform(p, es)
  PROVE  /\ \A q \in Handlers \ {p} : job'[q] = job[q]
         /\ job'[p].pc = "effects" /\ job'[p].req = job[p].req
         /\ job'[p].actor = job[p].actor /\ job'[p].todo = es
BY DEF Perform, Idle, HInv, IInv, JobTypeOK

(* The approver changes only from nobody, so an entitlement lasts.         *)
LEMMA WriteEntitled ==
  ASSUME HInv, NEW p \in Handlers, NEW d, NEW es, Write(p, d, es)
  PROVE  EntitledInv'
<1> DEFINE r == job[p].req
<1>1. granted' = granted /\ delegates' = delegates
  BY DEF Write, environment
<1>2. DelegationsGranted'
  BY <1>1 DEF HInv, EntitledInv, DelegationsGranted
<1>3. r \in Requests /\ doc' = [doc EXCEPT ![r] = d] /\ ApproverSettled(d)
      /\ (doc[r].approver # Null => d.approver = doc[r].approver)
  BY HandlerFacts DEF Write
<1>4. ASSUME NEW q \in Requests PROVE ApproverSettled(doc[q])'
  BY <1>1, <1>3
  DEF HInv, IInv, DocTypeOK, EntitledInv, ApproverSettled, Entitled
<1>5. ASSUME NEW q \in Handlers PROVE HandlerOK(job[q])'
  <2>1. CASE q = p
    BY <2>1, PerformJob DEF Write, HandlerOK
  <2>2. CASE q # p
    <3>1. job'[q] = job[q] /\ HandlerOK(job[q]) /\ JobOK(job[q])
      BY <2>2, PerformJob, HandlerFacts DEF Write
    <3>2. ASSUME job[q].pc \in {"reread", "decide"}
          PROVE  Entitled(doc'[job[q].req].approver, job[q].actor)
      <4>1. job[q].actor \in Users /\ job[q].req \in Requests
            /\ Entitled(doc[job[q].req].approver, job[q].actor)
        BY <3>1, <3>2 DEF JobOK, HandlerOK
      <4>2. \A u \in Users : <<Null, u>> \notin granted /\ u # Null
        BY LifecycleAssumption DEF HInv, IInv, EnvironmentTypeOK
      <4>3. doc[job[q].req].approver # Null =>
              doc'[job[q].req].approver = doc[job[q].req].approver
        BY <1>3, <4>1 DEF HInv, IInv, DocTypeOK
      <4> QED
        BY <4>1, <4>2, <4>3 DEF Entitled
    <3> QED
      BY <1>1, <3>1, <3>2 DEF HandlerOK, Entitled
  <2> QED
    BY <2>1, <2>2
<1> QED
  BY <1>2, <1>4, <1>5 DEF EntitledInv

(* Performing an effect leaves the handler with the rest, or idle.         *)
LEMMA PerformNextJob ==
  ASSUME HInv, NEW p \in Handlers, PerformNext(p)
  PROVE  /\ job[p].todo \in Seq(Effect) /\ job[p].todo # <<>>
         /\ job[p].req \in Requests /\ job[p].pc = "effects"
         /\ doc' = doc /\ UNCHANGED environment
         /\ \A q \in Handlers \ {p} : job'[q] = job[q]
         /\ job'[p].todo = Tail(job[p].todo)
         /\ \/ job'[p] = Idle
            \/ job'[p] = [job[p] EXCEPT !.todo = Tail(job[p].todo)]
<1>1. job[p] \in Job /\ JobOK(job[p]) /\ job[p].pc = "effects"
  BY HandlerFacts DEF PerformNext
<1>2. job[p].todo \in Seq(Effect) /\ job[p].todo # <<>>
      /\ job[p].req \in Requests
  BY <1>1 DEF Job, JobOK
<1>3. CASE Len(job[p].todo) = 1
  <2>1. Tail(job[p].todo) = <<>>
    <3>1. Tail(job[p].todo) \in Seq(Effect) /\ Len(Tail(job[p].todo)) = 0
      BY <1>2, <1>3, HeadTailProperties
    <3> QED
      BY <3>1, EmptySeq
  <2>2. job' = [job EXCEPT ![p] = Idle]
    BY <1>3 DEF PerformNext, End
  <2> QED
    BY <1>1, <1>2, <2>1, <2>2
    DEF PerformNext, Idle, HInv, IInv, JobTypeOK
<1>4. CASE Len(job[p].todo) # 1
  <2>1. job' = [job EXCEPT ![p] = [job[p] EXCEPT !.todo = Tail(job[p].todo)]]
    BY <1>4 DEF PerformNext, HInv, IInv, JobTypeOK
  <2> QED
    BY <1>1, <1>2, <2>1 DEF PerformNext, Job, HInv, IInv, JobTypeOK
<1> QED
  BY <1>3, <1>4

LEMMA PerformNextEntitled ==
  ASSUME HInv, NEW p \in Handlers, PerformNext(p)
  PROVE  EntitledInv'
<1>1. granted' = granted /\ delegates' = delegates /\ doc' = doc
  BY PerformNextJob DEF environment
<1>2. DelegationsGranted' /\ (\A r \in Requests : ApproverSettled(doc[r]))'
  BY <1>1 DEF HInv, EntitledInv, DelegationsGranted, ApproverSettled, Entitled
<1>3. ASSUME NEW q \in Handlers PROVE HandlerOK(job[q])'
  <2>1. HandlerOK(job'[q])
    <3>1. CASE q # p
      BY <3>1, PerformNextJob, HandlerFacts
    <3>2. CASE q = p /\ job'[p] = Idle
      BY <3>2 DEF HandlerOK, Idle
    <3>3. CASE q = p /\ job'[p] = [job[p] EXCEPT !.todo = Tail(job[p].todo)]
      BY <3>3, PerformNextJob, HandlerFacts DEF HandlerOK, Job
    <3> QED
      BY <3>1, <3>2, <3>3, PerformNextJob
  <2> QED
    BY <1>1, <2>1 DEF HandlerOK, Entitled
<1> QED
  BY <1>2, <1>3 DEF EntitledInv

(* What was granted stays granted.                                         *)
LEMMA GrantedGrows ==
  ASSUME HInv, granted \subseteq granted', doc' = doc, job' = job,
         DelegationsGranted'
  PROVE  EntitledInv'
BY DEF HInv, EntitledInv, ApproverSettled, HandlerOK, Entitled

LEMMA DelegateEntitled ==
  ASSUME HInv, NEW d \in Delegations, Delegate(d[1], d[2])
  PROVE  EntitledInv'
<1> DEFINE u == d[1]
<1> DEFINE v == d[2]
<1>1. u \in Users /\ v \in Users /\ delegates[u] \in Seq(Users)
  BY LifecycleAssumption DEF HInv, IInv, EnvironmentTypeOK
<1>2. delegates' = [delegates EXCEPT ![u] = <<v>> \o @]
      /\ granted' = granted \cup {<<u, v>>} /\ doc' = doc /\ job' = job
  BY DEF Delegate
<1>3. ASSUME NEW i \in DOMAIN (<<v>> \o delegates[u])
      PROVE  \/ (<<v>> \o delegates[u])[i] = v
             \/ \E k \in DOMAIN delegates[u] :
                  (<<v>> \o delegates[u])[i] = delegates[u][k]
  BY <1>1, ConcatProperties, LenProperties
<1>4. ASSUME NEW w \in Users, NEW i \in DOMAIN delegates'[w]
      PROVE  <<w, delegates'[w][i]>> \in granted'
  BY <1>1, <1>2, <1>3
  DEF HInv, IInv, EnvironmentTypeOK, EntitledInv, DelegationsGranted
<1> QED
  BY <1>2, <1>4, GrantedGrows DEF DelegationsGranted

LEMMA EndDelegationEntitled ==
  ASSUME HInv, NEW u \in Users, NEW i \in DOMAIN delegates[u],
         EndDelegation(u, i)
  PROVE  EntitledInv'
<1> DEFINE s == delegates[u]
<1> DEFINE t == SubSeq(s, 1, i - 1) \o SubSeq(s, i + 1, Len(s))
<1>1. s \in Seq(Users) /\ Len(s) \in Nat /\ i \in 1 .. Len(s)
  BY LenProperties DEF HInv, IInv, EnvironmentTypeOK
<1>2. delegates' = [delegates EXCEPT ![u] = t]
      /\ granted' = granted /\ doc' = doc /\ job' = job
  BY DEF EndDelegation
<1>3. ASSUME NEW k \in DOMAIN t PROVE \E m \in DOMAIN s : t[k] = s[m]
  <2> DEFINE S == {s[m] : m \in DOMAIN s}
  <2>1. \A m \in 1 .. Len(s) : s[m] \in S
    BY <1>1, LenProperties
  <2>2. SubSeq(s, 1, i - 1) \in Seq(S) /\ SubSeq(s, i + 1, Len(s)) \in Seq(S)
    <3> HIDE DEF S
    <3>1. (\A m \in 1 .. (i - 1) : s[m] \in S)
          /\ (\A m \in (i + 1) .. Len(s) : s[m] \in S)
      BY <1>1, <2>1
    <3> QED
      BY <1>1, <3>1, SubSeqProperties
  <2>3. t \in Seq(S)
    BY <2>2, ConcatProperties
  <2>4. t[k] \in S
    BY <2>3, LenProperties, ElementOfSeq
  <2> QED
    BY <2>4
<1> HIDE DEF t
<1>4. ASSUME NEW w \in Users, NEW k \in DOMAIN delegates'[w]
      PROVE  <<w, delegates'[w][k]>> \in granted'
  BY <1>1, <1>2, <1>3
  DEF HInv, IInv, EnvironmentTypeOK, EntitledInv, DelegationsGranted
<1> QED
  BY <1>2, <1>4, GrantedGrows DEF DelegationsGranted

----------------------------------------------------------------------------
(* The told part of the invariant.                                         *)
(* The told part says nothing of a handler but what it owes.               *)
LEMMA QuietTold ==
  ASSUME HInv, NEW p \in Handlers, NEW j, Quiet(p, j)
  PROVE  ToldInv'
<1>1. doc' = doc /\ timeline' = timeline /\ published' = published
  BY DEF Quiet, logs
<1>2. ASSUME NEW q \in Handlers
      PROVE  /\ job'[q] = job[q] \/ job'[q].todo = <<>>
             /\ CountedOnce(job'[q].todo)
  <2>1. job'[q] = IF q = p THEN j ELSE job[q]
    BY DEF Quiet, HInv, IInv, JobTypeOK
  <2> QED
    BY <2>1 DEF Quiet, HInv, ToldInv, CountedOnce
<1>3. ASSUME NEW r \in Requests, NEW q \in Handlers, Ending(q, r)'
      PROVE  Ending(q, r) /\ job'[q] = job[q]
  BY <1>2, <1>3 DEF Ending, NoEnd
<1>4. ASSUME NEW r \in Requests PROVE EndTold(r)'
  <2>1. EndTold(r)
    BY DEF HInv, ToldInv
  <2>2. EndsRecorded(r)' = EndsRecorded(r) /\ EndsPublished(r)' = EndsPublished(r)
    BY <1>1 DEF EndsRecorded, EndsPublished, Positions
  <2> QED
    BY <1>1, <1>3, <2>1, <2>2 DEF EndTold
<1> QED
  BY <1>2, <1>4 DEF ToldInv

LEMMA CreateTold ==
  ASSUME HInv, NEW p \in Handlers, NEW r \in Requests, NEW d, NEW j,
         Create(p, r, d, j)
  PROVE  ToldInv'
<1>1. timeline' = timeline /\ published' = published
      /\ doc' = [doc EXCEPT ![r] = d] /\ doc[r].status = "ABSENT"
      /\ d.status = "DRAFT"
  BY DEF Create, logs
<1>2. ASSUME NEW q \in Handlers
      PROVE  /\ job'[q] = job[q] \/ job'[q].todo = <<>>
             /\ CountedOnce(job'[q].todo)
  <2>1. job'[q] = IF q = p THEN j ELSE job[q]
    BY DEF Create, HInv, IInv, JobTypeOK
  <2> QED
    BY <2>1 DEF Create, HInv, ToldInv, CountedOnce
<1>3. ASSUME NEW s \in Requests, NEW q \in Handlers, Ending(q, s)'
      PROVE  Ending(q, s) /\ job'[q] = job[q]
  BY <1>2, <1>3 DEF Ending, NoEnd
<1>4. ASSUME NEW s \in Requests PROVE EndTold(s)'
  <2>1. EndTold(s)
    BY DEF HInv, ToldInv
  <2>2. EndsRecorded(s)' = EndsRecorded(s) /\ EndsPublished(s)' = EndsPublished(s)
    BY <1>1 DEF EndsRecorded, EndsPublished, Positions
  <2>3. CASE s = r
    BY <1>1, <1>3, <2>1, <2>2, <2>3
    DEF EndTold, Terminal, Decisions, HInv, IInv, DocTypeOK
  <2>4. CASE s # r
    <3>1. doc'[s] = doc[s]
      BY <1>1, <2>4 DEF HInv, IInv, DocTypeOK
    <3> QED
      BY <1>1, <1>3, <2>1, <2>2, <3>1 DEF EndTold
  <2> QED
    BY <2>3, <2>4
<1> QED
  BY <1>2, <1>4 DEF ToldInv

(* A write that ends a request makes its handler the one who tells.        *)
LEMMA WriteTold ==
  ASSUME HInv, NEW p \in Handlers, NEW d, NEW es, Write(p, d, es)
  PROVE  ToldInv'
<1> DEFINE r == job[p].req
<1>1. /\ r \in Requests /\ doc' = [doc EXCEPT ![r] = d]
      /\ timeline' = timeline /\ published' = published
      /\ doc[r].status \notin Terminal /\ job[p].todo = <<>>
  BY HandlerFacts DEF Write, logs, HandlerOK, Terminal, Decisions
<1>2. /\ \A q \in Handlers \ {p} : job'[q] = job[q]
      /\ job'[p].req = r /\ job'[p].actor = job[p].actor /\ job'[p].todo = es
  BY PerformJob DEF Write
<1>3. \A q \in Handlers : CountedOnce(job'[q].todo)
  BY <1>2 DEF Write, HInv, ToldInv
<1>4. ASSUME NEW s \in Requests PROVE EndTold(s)'
  <2>1. EndTold(s)
    BY DEF HInv, ToldInv
  <2>2. EndsRecorded(s)' = EndsRecorded(s) /\ EndsPublished(s)' = EndsPublished(s)
    BY <1>1 DEF EndsRecorded, EndsPublished, Positions
  <2>3. \A q \in Handlers \ {p} : Ending(q, s)' <=> Ending(q, s)
    BY <1>2 DEF Ending
  <2>4. CASE s # r
    <3>1. doc'[s] = doc[s] /\ ~Ending(p, s)'
      BY <1>1, <1>2, <2>4 DEF HInv, IInv, DocTypeOK, Ending
    <3> QED
      BY <1>1, <1>2, <2>1, <2>2, <2>3, <3>1 DEF EndTold
  <2>5. CASE s = r
    <3>1. /\ EndsRecorded(s) = {} /\ EndsPublished(s) = {}
          /\ \A q \in Handlers \ {p} : ~Ending(q, s)'
      BY <1>1, <2>1, <2>3, <2>5 DEF EndTold
    <3>2. doc'[s] = d
      BY <1>1, <2>5 DEF HInv, IInv, DocTypeOK
    <3>3. CASE d.status \notin Terminal
      <4>1. ~Ending(p, s)'
        BY <1>2, <3>3 DEF Write, Ending
      <4> QED
        BY <2>2, <3>1, <3>2, <3>3, <4>1 DEF EndTold
    <3>4. CASE d.status \in Terminal
      <4>1. es = EndEffects(d.status)
            /\ (d.status \in Decisions => d.decider = job[p].actor)
        BY <3>4 DEF Write
      <4> QED
        BY <1>2, <2>2, <3>1, <3>2, <3>4, <4>1 DEF EndTold, LastEffects
    <3> QED
      BY <3>3, <3>4
  <2> QED
    BY <2>4, <2>5
<1> QED
  BY <1>3, <1>4 DEF ToldInv

(* What is left of effects that tell no end, or one write at most.         *)
LEMMA RestOfEffects ==
  ASSUME NEW es \in Seq(Effect), es # <<>>
  PROVE  /\ Head(es) \in Effect /\ Head(es) = es[1] /\ 1 \in DOMAIN es
         /\ NoEnd(es) => Head(es).event \notin Terminal /\ NoEnd(Tail(es))
         /\ CountedOnce(es) => CountedOnce(Tail(es))
         /\ CountedOnce(es) /\ Counts(Head(es)) =>
              \A i \in DOMAIN Tail(es) : ~Counts(Tail(es)[i])
         /\ ~Counts(Head(es)) =>
              ((\E i \in DOMAIN Tail(es) : Counts(Tail(es)[i]))
                 <=> (\E i \in DOMAIN es : Counts(es[i])))
<1>1. Len(es) \in Nat /\ Len(es) # 0 /\ DOMAIN es = 1 .. Len(es)
  BY EmptySeq, LenProperties
<1>2. /\ Head(es) \in Effect /\ Head(es) = es[1]
      /\ Tail(es) \in Seq(Effect) /\ Len(Tail(es)) = Len(es) - 1
      /\ \A i \in 1 .. (Len(es) - 1) : Tail(es)[i] = es[i + 1]
  BY <1>1, HeadTailProperties
<1>3. DOMAIN Tail(es) = 1 .. (Len(es) - 1)
  BY <1>2, LenProperties
<1>4. \A i \in DOMAIN Tail(es) :
        i + 1 \in DOMAIN es /\ i + 1 # 1 /\ Tail(es)[i] = es[i + 1]
  BY <1>1, <1>2, <1>3
<1>5. \A i \in DOMAIN es : i = 1 \/ \E k \in DOMAIN Tail(es) : i = k + 1
  <2> SUFFICES ASSUME NEW i \in DOMAIN es, i # 1
               PROVE  \E k \in DOMAIN Tail(es) : i = k + 1
    OBVIOUS
  <2>1. i - 1 \in 1 .. (Len(es) - 1) /\ i = (i - 1) + 1
    BY <1>1
  <2> QED
    BY <1>3, <2>1
<1>6. 1 \in DOMAIN es
  BY <1>1
<1>7. NoEnd(es) => Head(es).event \notin Terminal /\ NoEnd(Tail(es))
  BY <1>2, <1>4, <1>6 DEF NoEnd
<1>8. CountedOnce(es) => CountedOnce(Tail(es))
  <2> SUFFICES ASSUME CountedOnce(es), NEW i \in DOMAIN Tail(es),
                      NEW k \in DOMAIN Tail(es),
                      Counts(Tail(es)[i]), Counts(Tail(es)[k])
               PROVE  i = k
    BY DEF CountedOnce
  <2>1. i + 1 = k + 1
    BY <1>4 DEF CountedOnce
  <2> QED
    BY <1>3, <2>1
<1>9. CountedOnce(es) /\ Counts(Head(es)) =>
        \A i \in DOMAIN Tail(es) : ~Counts(Tail(es)[i])
  BY <1>2, <1>4, <1>6 DEF CountedOnce
<1>10. ~Counts(Head(es)) =>
         ((\E i \in DOMAIN Tail(es) : Counts(Tail(es)[i]))
            <=> (\E i \in DOMAIN es : Counts(es[i])))
  BY <1>2, <1>4, <1>5
<1> QED
  BY <1>2, <1>6, <1>7, <1>8, <1>9, <1>10

(* One more element at the end of a log.                                   *)
LEMMA Appended ==
  ASSUME NEW S, NEW s \in Seq(S), NEW x \in S
  PROVE  /\ DOMAIN Append(s, x) = DOMAIN s \cup {Len(s) + 1}
         /\ Len(s) + 1 \notin DOMAIN s
         /\ Append(s, x)[Len(s) + 1] = x
         /\ \A i \in DOMAIN s : Append(s, x)[i] = s[i]
<1>1. Len(s) \in Nat /\ DOMAIN s = 1 .. Len(s)
  BY LenProperties
<1>2. /\ Append(s, x) \in Seq(S) /\ Len(Append(s, x)) = Len(s) + 1
      /\ \A i \in 1 .. Len(s) : Append(s, x)[i] = s[i]
      /\ Append(s, x)[Len(s) + 1] = x
  BY AppendProperties
<1>3. DOMAIN Append(s, x) = 1 .. (Len(s) + 1)
  BY <1>2, LenProperties
<1>4. 1 .. (Len(s) + 1) = (1 .. Len(s)) \cup {Len(s) + 1}
      /\ Len(s) + 1 \notin 1 .. Len(s)
  BY <1>1
<1> QED
  BY <1>1, <1>2, <1>3, <1>4

(* What performing the next effect does to the logs of the request.        *)
LEMMA PerformNextLogs ==
  ASSUME HInv, NEW p \in Handlers, PerformNext(p)
  PROVE  LET r == job[p].req
             e == Head(job[p].todo)
             n == Len(timeline[r]) + 1
             m == Len(published[r]) + 1
         IN
         /\ \A s \in Requests \ {r} :
              timeline'[s] = timeline[s] /\ published'[s] = published[s]
         /\ e.kind = "record" =>
              /\ published' = published
              /\ DOMAIN timeline'[r] = DOMAIN timeline[r] \cup {n}
              /\ n \notin DOMAIN timeline[r]
              /\ timeline'[r][n] = [event |-> e.event, actor |-> job[p].actor]
              /\ \A i \in DOMAIN timeline[r] : timeline'[r][i] = timeline[r][i]
         /\ e.kind # "record" =>
              /\ timeline' = timeline
              /\ DOMAIN published'[r] = DOMAIN published[r] \cup {m}
              /\ m \notin DOMAIN published[r] /\ published'[r][m] = e.event
              /\ \A i \in DOMAIN published[r] : published'[r][i] = published[r][i]
<1> DEFINE r == job[p].req
<1> DEFINE e == Head(job[p].todo)
<1> DEFINE entry == [event |-> e.event, actor |-> job[p].actor]
<1> DEFINE E == [event : Event, actor : UserOrNull]
<1>1. r \in Requests /\ e \in Effect /\ job[p] \in Job
  BY PerformNextJob, RestOfEffects, HandlerFacts
<1>2. timeline \in [Requests -> Seq(E)] /\ published \in [Requests -> Seq(Event)]
  BY DEF HInv, IInv, LogTypeOK
<1>3. entry \in E /\ e.event \in Event
  BY <1>1 DEF Effect, Job
<1>4. /\ e.kind = "record" =>
           /\ timeline' = [timeline EXCEPT ![r] = Append(@, entry)]
           /\ published' = published
      /\ e.kind # "record" =>
           /\ published' = [published EXCEPT ![r] = Append(@, e.event)]
           /\ timeline' = timeline
  BY DEF PerformNext
<1> HIDE DEF r, e, entry, E
<1>5. \A s \in Requests \ {r} :
        timeline'[s] = timeline[s] /\ published'[s] = published[s]
  BY <1>2, <1>4
<1>6. e.kind = "record" => timeline'[r] = Append(timeline[r], entry)
  BY <1>1, <1>2, <1>4
<1>7. e.kind # "record" => published'[r] = Append(published[r], e.event)
  BY <1>1, <1>2, <1>4
<1>8. timeline[r] \in Seq(E) /\ published[r] \in Seq(Event)
  BY <1>1, <1>2
<1>9. e.kind = "record" =>
        /\ DOMAIN timeline'[r] = DOMAIN timeline[r] \cup {Len(timeline[r]) + 1}
        /\ Len(timeline[r]) + 1 \notin DOMAIN timeline[r]
        /\ timeline'[r][Len(timeline[r]) + 1] = entry
        /\ \A i \in DOMAIN timeline[r] : timeline'[r][i] = timeline[r][i]
  BY <1>3, <1>6, <1>8, Appended
<1>10. e.kind # "record" =>
        /\ DOMAIN published'[r] = DOMAIN published[r] \cup {Len(published[r]) + 1}
        /\ Len(published[r]) + 1 \notin DOMAIN published[r]
        /\ published'[r][Len(published[r]) + 1] = e.event
        /\ \A i \in DOMAIN published[r] : published'[r][i] = published[r][i]
  BY <1>3, <1>7, <1>8, Appended
<1> QED
  BY <1>4, <1>5, <1>9, <1>10 DEF r, e, entry

(* A handler that owes an end tells it once, then owes it no more.         *)
LEMMA PerformNextTold ==
  ASSUME HInv, NEW p \in Handlers, PerformNext(p),
         NEW r \in Requests, r = job[p].req
  PROVE  EndTold(r)'
<1> DEFINE todo == job[p].todo
<1> DEFINE e == Head(todo)
<1> DEFINE st == doc[r].status
<1>1. /\ todo \in Seq(Effect) /\ todo # <<>> /\ doc' = doc
      /\ \A q \in Handlers \ {p} : job'[q] = job[q]
      /\ job'[p].todo = Tail(todo)
      /\ job'[p] = Idle \/ job'[p] = [job[p] EXCEPT !.todo = Tail(todo)]
  BY PerformNextJob
<1>2. NoEnd(todo) => e.event \notin Terminal /\ NoEnd(Tail(todo))
  BY <1>1, RestOfEffects
<1>3. ~NoEnd(Tail(todo)) => job'[p].req = r /\ job'[p].actor = job[p].actor
  <2>1. job'[p] = Idle => NoEnd(Tail(todo))
    BY <1>1 DEF Idle, NoEnd
  <2> QED
    BY <1>1, <2>1, HandlerFacts DEF Job
<1>4. \A q \in Handlers \ {p} : Ending(q, r)' <=> Ending(q, r)
  BY <1>1 DEF Ending
<1>5. EndTold(r)
  BY <1>1 DEF HInv, ToldInv
<1>6. CASE NoEnd(todo)
  <2>1. ~Ending(p, r)'
    BY <1>1, <1>2, <1>6 DEF Ending
  <2>2. /\ EndsRecorded(r)' = EndsRecorded(r)
        /\ \A i \in EndsRecorded(r) : timeline'[r][i] = timeline[r][i]
        /\ EndsPublished(r)' = EndsPublished(r)
        /\ \A i \in EndsPublished(r) : published'[r][i] = published[r][i]
    <3> HIDE DEF todo
    <3>1. e.event \notin Terminal
      BY <1>2, <1>6
    <3> DEFINE n == Len(timeline[r]) + 1
    <3> DEFINE m == Len(published[r]) + 1
    <3>2. CASE e.kind = "record"
      <4>1. /\ published' = published
            /\ DOMAIN timeline'[r] = DOMAIN timeline[r] \cup {n}
            /\ timeline'[r][n] = [event |-> e.event, actor |-> job[p].actor]
            /\ \A i \in DOMAIN timeline[r] : timeline'[r][i] = timeline[r][i]
        BY <3>2, PerformNextLogs DEF todo
      <4>2. timeline'[r][n].event \notin Terminal
        BY <3>1, <4>1
      <4> HIDE DEF n
      <4> QED
        BY <4>1, <4>2 DEF EndsRecorded, EndsPublished, Positions
    <3>3. CASE e.kind # "record"
      <4>1. /\ timeline' = timeline
            /\ DOMAIN published'[r] = DOMAIN published[r] \cup {m}
            /\ published'[r][m] = e.event
            /\ \A i \in DOMAIN published[r] : published'[r][i] = published[r][i]
        BY <3>3, PerformNextLogs DEF todo
      <4> HIDE DEF m
      <4> QED
        BY <3>1, <4>1 DEF EndsRecorded, EndsPublished, Positions
    <3> QED
      BY <3>2, <3>3
  <2> QED
    BY <1>1, <1>4, <1>5, <2>1, <2>2, SMTT(40) DEF EndTold
<1>7. CASE ~NoEnd(todo)
  <2>1. /\ Ending(p, r) /\ st \in Terminal
        /\ \A q \in Handlers \ {p} : ~Ending(q, r)'
    BY <1>4, <1>5, <1>7 DEF Ending, EndTold
  <2>2. /\ todo \in LastEffects(st) /\ EndsPublished(r) = {}
        /\ st \in Decisions => job[p].actor = doc[r].decider
        /\ todo = EndEffects(st) => EndsRecorded(r) = {}
    BY <1>5, <2>1 DEF EndTold
  <2>3. CASE todo = EndEffects(st)
    <3>1. e = Record(st) /\ Tail(todo) = <<Publish(st)>>
      BY <2>3 DEF EndEffects
    <3>2. e.kind = "record" /\ e.event = st
      BY <3>1 DEF Record
    <3>3. /\ EndsPublished(r)' = {}
          /\ EndsRecorded(r)' = {Len(timeline[r]) + 1}
          /\ timeline'[r][Len(timeline[r]) + 1] =
               [event |-> st, actor |-> job[p].actor]
      <4>1. published'[r] = published[r]
            /\ DOMAIN timeline'[r] = DOMAIN timeline[r] \cup {Len(timeline[r]) + 1}
            /\ timeline'[r][Len(timeline[r]) + 1] =
                 [event |-> st, actor |-> job[p].actor]
            /\ \A i \in DOMAIN timeline[r] : timeline'[r][i] = timeline[r][i]
        BY <3>2, PerformNextLogs
      <4> QED
        BY <2>1, <2>2, <2>3, <4>1, SMTT(40) DEF EndsPublished, EndsRecorded, Positions
    <3>4. \A q \in Handlers : Ending(q, r)' =>
            /\ q = p /\ job'[q].todo = <<Publish(st)>>
            /\ job'[q].actor = job[p].actor
      BY <1>1, <1>3, <2>1, <3>1 DEF Ending
    <3>5. EndEffects(st) # <<Publish(st)>>
      BY DEF EndEffects
    <3>6. doc' = doc /\ st \in Terminal
          /\ (st \in Decisions => job[p].actor = doc[r].decider)
      BY <1>1, <2>1, <2>2
    <3> HIDE DEF todo, e
    <3>7. \A q \in Handlers : Ending(q, r)' =>
            /\ job'[q].todo \in LastEffects(st)
            /\ st \in Decisions => job'[q].actor = doc[r].decider
            /\ job'[q].todo # EndEffects(st)
      BY <3>4, <3>5, <3>6 DEF LastEffects
    <3>8. \A q, k \in Handlers : Ending(q, r)' /\ Ending(k, r)' => q = k
      BY <3>4
    <3>9. \A i, k \in EndsRecorded(r)' :
            /\ i = k /\ timeline'[r][i].event = st
            /\ st \in Decisions => timeline'[r][i].actor = doc[r].decider
      BY <3>3, <3>6
    <3> QED
      BY <3>3, <3>6, <3>7, <3>8, <3>9 DEF EndTold
  <2>4. CASE todo = <<Publish(st)>>
    <3>1. e = Publish(st) /\ Tail(todo) = <<>>
      BY <2>4
    <3>2. e.kind # "record" /\ e.event = st
      BY <3>1 DEF Publish
    <3>3. ~Ending(p, r)'
      BY <1>1, <3>1 DEF Ending, NoEnd
    <3>4. /\ timeline' = timeline
          /\ EndsPublished(r)' = {Len(published[r]) + 1}
          /\ published'[r][Len(published[r]) + 1] = st
      <4>1. /\ timeline' = timeline
            /\ DOMAIN published'[r] =
                 DOMAIN published[r] \cup {Len(published[r]) + 1}
            /\ published'[r][Len(published[r]) + 1] = st
            /\ \A i \in DOMAIN published[r] : published'[r][i] = published[r][i]
        BY <3>2, PerformNextLogs
      <4> QED
        BY <2>1, <2>2, <4>1 DEF EndsPublished, Positions
    <3>5. EndsRecorded(r)' = EndsRecorded(r)
      BY <3>4 DEF EndsRecorded
    <3> QED
      BY <1>1, <1>5, <2>1, <3>3, <3>4, <3>5, SMTT(40) DEF EndTold
  <2> QED
    BY <2>2, <2>3, <2>4 DEF LastEffects
<1> QED
  BY <1>6, <1>7

(* It tells nothing of another request.                                    *)
LEMMA PerformNextToldOthers ==
  ASSUME HInv, NEW p \in Handlers, PerformNext(p),
         NEW r \in Requests, r # job[p].req
  PROVE  EndTold(r)'
<1>1. /\ doc' = doc /\ \A q \in Handlers \ {p} : job'[q] = job[q]
      /\ job'[p] = Idle \/ job'[p] = [job[p] EXCEPT !.todo = Tail(job[p].todo)]
  BY PerformNextJob
<1>2. timeline'[r] = timeline[r] /\ published'[r] = published[r]
  BY PerformNextLogs
<1>3. EndsRecorded(r)' = EndsRecorded(r) /\ EndsPublished(r)' = EndsPublished(r)
  BY <1>2 DEF EndsRecorded, EndsPublished, Positions
<1>4. ~Ending(p, r)'
  <2>1. CASE job'[p] = Idle
    BY <2>1 DEF Ending, NoEnd, Idle
  <2>2. CASE job'[p] = [job[p] EXCEPT !.todo = Tail(job[p].todo)]
    BY <2>2, HandlerFacts DEF Ending, Job
  <2> QED
    BY <1>1, <2>1, <2>2
<1>5. \A q \in Handlers \ {p} : Ending(q, r)' <=> Ending(q, r)
  BY <1>1 DEF Ending
<1> QED
  BY <1>1, <1>2, <1>3, <1>4, <1>5 DEF HInv, ToldInv, EndTold

LEMMA PerformNextCountedOnce ==
  ASSUME HInv, NEW p \in Handlers, PerformNext(p)
  PROVE  \A q \in Handlers : CountedOnce(job'[q].todo)
<1>1. CountedOnce(job'[p].todo)
  <2>1. CountedOnce(Tail(job[p].todo))
    BY PerformNextJob, RestOfEffects DEF HInv, ToldInv
  <2>2. job'[p].todo = Tail(job[p].todo)
    BY PerformNextJob
  <2> QED
    BY <2>1, <2>2
<1>2. \A q \in Handlers \ {p} : CountedOnce(job'[q].todo)
  BY PerformNextJob DEF HInv, ToldInv
<1> QED
  BY <1>1, <1>2

LEMMA UnchangedTold ==
  ASSUME HInv, UNCHANGED <<doc, job, logs>>
  PROVE  ToldInv'
<1>1. \A r \in Requests :
        /\ EndsRecorded(r)' = EndsRecorded(r)
        /\ EndsPublished(r)' = EndsPublished(r)
        /\ \A p \in Handlers : Ending(p, r)' <=> Ending(p, r)
  BY DEF logs, EndsRecorded, EndsPublished, Positions, Ending
<1>2. \A r \in Requests : EndTold(r)'
  BY <1>1 DEF logs, HInv, ToldInv, EndTold
<1> QED
  BY <1>2 DEF HInv, ToldInv

----------------------------------------------------------------------------
(* The counting part, for finitely many handlers.                          *)
LEMMA CountingIsFinite ==
  ASSUME HInv, IsFiniteSet(Handlers), NEW r \in Requests
  PROVE  /\ IsFiniteSet(WritesRecorded(r)) /\ IsFiniteSet(WritesOwed(r))
         /\ Cardinality(WritesRecorded(r)) \in Nat
         /\ Cardinality(WritesOwed(r)) \in Nat
<1>1. DOMAIN timeline[r] = 1 .. Len(timeline[r]) /\ Len(timeline[r]) \in Nat
  BY LenProperties DEF HInv, IInv, LogTypeOK
<1>2. IsFiniteSet(1 .. Len(timeline[r]))
  BY <1>1, FS_Interval
<1>3. IsFiniteSet(WritesRecorded(r)) /\ IsFiniteSet(WritesOwed(r))
  BY <1>1, <1>2, FS_Subset DEF WritesRecorded, WritesOwed
<1> QED
  BY <1>3, FS_CardinalityType

(* A request about which no document, entry or debt changed.               *)
LEMMA SameCount ==
  ASSUME CountInv, NEW r \in Requests, doc'[r] = doc[r],
         timeline'[r] = timeline[r],
         ~MayFail => \A q \in Handlers : Owes(q, r)' <=> Owes(q, r)
  PROVE  WritesAccounted(r)'
<1>1. WritesRecorded(r)' = WritesRecorded(r)
  BY DEF WritesRecorded
<1>2. ~MayFail => WritesOwed(r)' = WritesOwed(r)
  BY DEF WritesOwed
<1> QED
  BY <1>1, <1>2 DEF CountInv, WritesAccounted

LEMMA QuietCounts ==
  ASSUME HInv, CountInv, NEW p \in Handlers, NEW j, Quiet(p, j)
  PROVE  CountInv'
<1>1. \A q \in Handlers : job'[q] = IF q = p THEN j ELSE job[q]
  BY DEF Quiet, HInv, IInv, JobTypeOK
<1>2. ~MayFail => \A q \in Handlers, r \in Requests : Owes(q, r)' <=> Owes(q, r)
  BY <1>1 DEF Quiet, Owes
<1> QED
  BY <1>2, SameCount DEF Quiet, logs, CountInv

LEMMA CreateCounts ==
  ASSUME HInv, CountInv, NEW p \in Handlers, NEW r \in Requests, NEW d, NEW j,
         Create(p, r, d, j)
  PROVE  CountInv'
<1>1. /\ doc' = [doc EXCEPT ![r] = d] /\ d.version = 1 /\ d.status = "DRAFT"
      /\ doc[r].status = "ABSENT" /\ timeline' = timeline
      /\ \A q \in Handlers : job'[q] = IF q = p THEN j ELSE job[q]
      /\ job[p].todo = <<>> /\ j.todo = <<>>
  BY DEF Create, logs, Idle, HInv, IInv, JobTypeOK
<1>2. \A q \in Handlers, s \in Requests : Owes(q, s)' <=> Owes(q, s)
  BY <1>1 DEF Owes
<1>3. ASSUME NEW s \in Requests, s # r PROVE WritesAccounted(s)'
  BY <1>1, <1>2, <1>3, SameCount DEF HInv, IInv, DocTypeOK
<1>4. WritesAccounted(r)'
  <2>1. WritesRecorded(r)' = {}
    <3>1. timeline'[r] = <<>>
      BY <1>1 DEF CountInv, WritesAccounted
    <3>2. DOMAIN timeline'[r] = {}
      BY <3>1
    <3> QED
      BY <3>2 DEF WritesRecorded
  <2>2. ASSUME NEW q \in Handlers PROVE ~Owes(q, r)
    BY <1>1, HandlerFacts DEF HandlerOK, Idle, Owes
  <2>3. WritesOwed(r)' = {}
    BY <1>2, <2>2 DEF WritesOwed
  <2>4. doc'[r] = d
    BY <1>1 DEF HInv, IInv, DocTypeOK
  <2> QED
    BY <1>1, <2>1, <2>3, <2>4, FS_EmptySet DEF WritesAccounted
<1> QED
  BY <1>3, <1>4 DEF CountInv

(* A write counts one version more and is owed by its handler.             *)
LEMMA WriteCounts ==
  ASSUME HInv, CountInv, IsFiniteSet(Handlers), NEW p \in Handlers,
         NEW d, NEW es, Write(p, d, es)
  PROVE  CountInv'
<1>1. /\ doc' = [doc EXCEPT ![job[p].req] = d] /\ timeline' = timeline
      /\ doc[job[p].req].status # "ABSENT" /\ d.status # "ABSENT"
      /\ d.version = doc[job[p].req].version + 1 /\ job[p].todo = <<>>
      /\ job[p].req \in Requests /\ doc[job[p].req].version \in Nat
  BY HandlerFacts DEF Write, logs, HandlerOK
<1>2. /\ \A q \in Handlers \ {p} : job'[q] = job[q]
      /\ job'[p].req = job[p].req /\ job'[p].todo = es
  BY PerformJob DEF Write
<1>3. \A q \in Handlers \ {p}, s \in Requests : Owes(q, s)' <=> Owes(q, s)
  BY <1>2 DEF Owes
<1>4. /\ \A s \in Requests : ~Owes(p, s)
      /\ \A s \in Requests : Owes(p, s)' <=> s = job[p].req
  BY <1>1, <1>2 DEF Write, Owes, Counts
<1>5. ASSUME NEW s \in Requests, s # job[p].req PROVE WritesAccounted(s)'
  BY <1>1, <1>3, <1>4, <1>5, SameCount DEF HInv, IInv, DocTypeOK
<1>6. ASSUME NEW s \in Requests, s = job[p].req PROVE WritesAccounted(s)'
  <2>1. WritesRecorded(s)' = WritesRecorded(s)
    BY <1>1 DEF WritesRecorded
  <2>2. WritesOwed(s)' = WritesOwed(s) \cup {p} /\ p \notin WritesOwed(s)
    BY <1>3, <1>4, <1>6 DEF WritesOwed
  <2>3. Cardinality(WritesOwed(s)') = Cardinality(WritesOwed(s)) + 1
    BY <2>2, CountingIsFinite, FS_AddElement
  <2>4. doc'[s] = d
    BY <1>1, <1>6 DEF HInv, IInv, DocTypeOK
  <2>5. WritesAccounted(s) /\ Cardinality(WritesRecorded(s)) \in Nat
        /\ Cardinality(WritesOwed(s)) \in Nat
    BY CountingIsFinite DEF CountInv
  <2> QED
    BY <1>1, <1>6, <2>1, <2>3, <2>4, <2>5, SMTT(40) DEF WritesAccounted
<1> QED
  BY <1>5, <1>6 DEF CountInv

(* What a handler owed as a write it now has recorded, or still owes.      *)
LEMMA PerformNextCounts ==
  ASSUME HInv, CountInv, IsFiniteSet(Handlers), NEW p \in Handlers,
         PerformNext(p)
  PROVE  CountInv'
<1> DEFINE todo == job[p].todo
<1> DEFINE e == Head(todo)
<1>1. /\ todo \in Seq(Effect) /\ todo # <<>> /\ doc' = doc
      /\ \A q \in Handlers \ {p} : job'[q] = job[q]
      /\ job'[p].todo = Tail(todo) /\ job[p].req \in Requests
      /\ job'[p] = Idle \/ job'[p] = [job[p] EXCEPT !.todo = Tail(todo)]
      /\ doc[job[p].req].status # "ABSENT"
  BY PerformNextJob, HandlerFacts
<1>2. \A q \in Handlers \ {p}, s \in Requests : Owes(q, s)' <=> Owes(q, s)
  BY <1>1 DEF Owes
<1>3. /\ \A s \in Requests :
           Owes(p, s) <=> s = job[p].req /\ \E i \in DOMAIN todo : Counts(todo[i])
      /\ \A s \in Requests :
           Owes(p, s)' <=> /\ s = job[p].req
                           /\ \E i \in DOMAIN Tail(todo) : Counts(Tail(todo)[i])
  <2>1. job'[p] = Idle => ~ \E i \in DOMAIN Tail(todo) : Counts(Tail(todo)[i])
    BY <1>1 DEF Idle
  <2>2. job'[p] # Idle => job'[p].req = job[p].req
    BY <1>1, HandlerFacts DEF Job
  <2>3. \A s \in Requests :
          Owes(p, s)' <=> /\ s = job'[p].req
                          /\ \E i \in DOMAIN Tail(todo) : Counts(Tail(todo)[i])
    <3> HIDE DEF todo
    <3> QED
      BY <1>1 DEF Owes, Counts
  <2> QED
    BY <2>1, <2>2, <2>3 DEF Owes, Counts
<1>4. CountedOnce(todo)
  BY DEF HInv, ToldInv
<1>5. ASSUME NEW s \in Requests, s # job[p].req PROVE WritesAccounted(s)'
  <2>1. timeline'[s] = timeline[s] /\ doc'[s] = doc[s]
    BY <1>1, <1>5, PerformNextLogs
  <2>2. \A q \in Handlers : Owes(q, s)' <=> Owes(q, s)
    BY <1>2, <1>3, <1>5
  <2> QED
    BY <2>1, <2>2, SameCount
<1>6. ASSUME NEW s \in Requests, s = job[p].req PROVE WritesAccounted(s)'
  <2> DEFINE n == Len(timeline[s]) + 1
  <2>1. WritesAccounted(s) /\ doc[s].status # "ABSENT"
    BY <1>1, <1>6 DEF CountInv
  <2>2. CASE Counts(e)
    <3>1. /\ DOMAIN timeline'[s] = DOMAIN timeline[s] \cup {n}
          /\ n \notin DOMAIN timeline[s]
          /\ timeline'[s][n] = [event |-> e.event, actor |-> job[p].actor]
          /\ \A i \in DOMAIN timeline[s] : timeline'[s][i] = timeline[s][i]
      BY <1>6, <2>2, PerformNextLogs DEF Counts
    <3>2. timeline'[s][n].event # "ASSIGNED"
      BY <2>2, <3>1 DEF Counts
    <3> HIDE DEF n
    <3>3. WritesRecorded(s)' = WritesRecorded(s) \cup {n}
          /\ n \notin WritesRecorded(s)
      BY <3>1, <3>2 DEF WritesRecorded
    <3>4. Owes(p, s) /\ ~Owes(p, s)'
      BY <1>1, <1>3, <1>4, <1>6, <2>2, RestOfEffects, ZenonT(60)
    <3>5. WritesOwed(s) = WritesOwed(s)' \cup {p} /\ p \notin WritesOwed(s)'
          /\ WritesOwed(s)' \subseteq WritesOwed(s)
      BY <1>2, <3>4 DEF WritesOwed
    <3>6. IsFiniteSet(WritesOwed(s)') /\ Cardinality(WritesOwed(s)') \in Nat
      BY <3>5, CountingIsFinite, FS_Subset, FS_CardinalityType
    <3>7. Cardinality(WritesOwed(s)) = Cardinality(WritesOwed(s)') + 1
      BY <3>5, <3>6, FS_AddElement
    <3>8. Cardinality(WritesRecorded(s)') = Cardinality(WritesRecorded(s)) + 1
          /\ Cardinality(WritesRecorded(s)) \in Nat
      BY <3>3, CountingIsFinite, FS_AddElement
    <3> QED
      BY <1>1, <2>1, <3>6, <3>7, <3>8 DEF WritesAccounted
  <2>3. CASE ~Counts(e)
    <3>1. WritesRecorded(s)' = WritesRecorded(s)
      <4>1. CASE e.kind = "record"
        <5>1. /\ DOMAIN timeline'[s] = DOMAIN timeline[s] \cup {n}
              /\ timeline'[s][n] = [event |-> e.event, actor |-> job[p].actor]
              /\ \A i \in DOMAIN timeline[s] : timeline'[s][i] = timeline[s][i]
          BY <1>6, <4>1, PerformNextLogs
        <5>2. timeline'[s][n].event = "ASSIGNED"
          BY <2>3, <4>1, <5>1 DEF Counts
        <5> HIDE DEF n
        <5> QED
          BY <5>1, <5>2 DEF WritesRecorded
      <4>2. CASE e.kind # "record"
        BY <4>2, PerformNextLogs DEF WritesRecorded
      <4> QED
        BY <4>1, <4>2
    <3>2. Owes(p, s)' <=> Owes(p, s)
      BY <1>1, <1>3, <2>3, RestOfEffects
    <3>3. WritesOwed(s)' = WritesOwed(s)
      BY <1>2, <3>2 DEF WritesOwed
    <3> QED
      BY <1>1, <2>1, <3>1, <3>3 DEF WritesAccounted
  <2> QED
    BY <2>2, <2>3
<1> QED
  BY <1>5, <1>6 DEF CountInv

----------------------------------------------------------------------------
(* The invariant holds at first and is kept by every kind of step.         *)
LEMMA InitHInv == Init => HInv /\ CountInv
<1> SUFFICES ASSUME Init PROVE HInv /\ CountInv
  OBVIOUS
<1>1. IInv
  BY InitIInv
<1>2. EntitledInv
  <2>1. \A u \in Users : DOMAIN delegates[u] = {}
    BY DEF Init
  <2> QED
    BY <2>1, LifecycleAssumption
    DEF Init, EntitledInv, DelegationsGranted, ApproverSettled, HandlerOK,
        NoDocument, Idle
<1>3. \A r \in Requests : DOMAIN timeline[r] = {} /\ DOMAIN published[r] = {}
  BY DEF Init
<1>4. \A p \in Handlers : DOMAIN job[p].todo = {}
  BY DEF Init, Idle
<1>5. ToldInv
  BY <1>3, <1>4
  DEF Init, ToldInv, EndTold, CountedOnce, Ending, NoEnd, EndsRecorded,
      EndsPublished, Positions, NoDocument, Terminal, Decisions
<1>6. CountInv
  BY DEF Init, CountInv, WritesAccounted, NoDocument
<1> QED
  BY <1>1, <1>2, <1>5, <1>6 DEF HInv

LEMMA NextHInv == HInv /\ [Next]_vars => HInv'
<1> SUFFICES ASSUME HInv, [Next]_vars PROVE HInv'
  OBVIOUS
<1>1. IInv'
  BY NextIInv DEF HInv
<1>2. ASSUME NEW p \in Handlers, QuietOrWrite(p)
      PROVE  EntitledInv' /\ ToldInv'
  BY <1>2, QuietEntitled, QuietTold, WriteEntitled, WriteTold DEF QuietOrWrite
<1>3. ASSUME NEW p \in Handlers, PerformNext(p)
      PROVE  EntitledInv' /\ ToldInv'
  <2>1. \A r \in Requests : EndTold(r)'
    BY <1>3, PerformNextTold, PerformNextToldOthers
  <2> QED
    BY <1>3, <2>1, PerformNextCountedOnce, PerformNextEntitled DEF ToldInv
<1>4. ASSUME NEW p \in Handlers, NEW r \in Requests, NEW d, NEW j,
             Create(p, r, d, j)
      PROVE  EntitledInv' /\ ToldInv'
  BY <1>4, CreateEntitled, CreateTold
<1>5. ASSUME NEW d \in Delegations, Delegate(d[1], d[2])
      PROVE  EntitledInv' /\ ToldInv'
  BY <1>5, DelegateEntitled, UnchangedTold DEF Delegate
<1>6. ASSUME NEW u \in Users, NEW i \in DOMAIN delegates[u],
             EndDelegation(u, i)
      PROVE  EntitledInv' /\ ToldInv'
  BY <1>6, EndDelegationEntitled, UnchangedTold DEF EndDelegation
<1>7. ASSUME UNCHANGED <<doc, job, environment, logs>>
      PROVE  EntitledInv' /\ ToldInv'
  <2>1. EntitledInv'
    BY <1>7, GrantedGrows
    DEF environment, HInv, EntitledInv, DelegationsGranted
  <2> QED
    BY <1>7, <2>1, UnchangedTold
<1>8. EntitledInv' /\ ToldInv'
  <2>1. CASE \E p \in Handlers : QuietOrWrite(p) \/ PerformNext(p)
    BY <1>2, <1>3, <2>1
  <2>2. CASE \E p \in Handlers, r \in Requests : \E d, j : Create(p, r, d, j)
    BY <1>4, <2>2
  <2>3. CASE \E d \in Delegations : Delegate(d[1], d[2])
    BY <1>5, <2>3
  <2>4. CASE \E u \in Users : \E i \in DOMAIN delegates[u] : EndDelegation(u, i)
    BY <1>6, <2>4
  <2> QED
    BY <1>7, <2>1, <2>2, <2>3, <2>4, StepForms
<1> QED
  BY <1>1, <1>8 DEF HInv

LEMMA NextCounts ==
  ASSUME IsFiniteSet(Handlers)
  PROVE  HInv /\ CountInv /\ [Next]_vars => CountInv'
<1> SUFFICES ASSUME HInv, CountInv, [Next]_vars PROVE CountInv'
  OBVIOUS
<1>1. ASSUME NEW p \in Handlers, QuietOrWrite(p) \/ PerformNext(p)
      PROVE  CountInv'
  BY <1>1, QuietCounts, WriteCounts, PerformNextCounts DEF QuietOrWrite
<1>2. ASSUME UNCHANGED <<doc, job, logs>> PROVE CountInv'
  BY <1>2, SameCount DEF logs, CountInv, Owes
<1>3. ASSUME NEW d \in Delegations, Delegate(d[1], d[2]) PROVE CountInv'
  BY <1>3, <1>2 DEF Delegate
<1>4. ASSUME NEW u \in Users, NEW i \in DOMAIN delegates[u],
             EndDelegation(u, i)
      PROVE  CountInv'
  BY <1>4, <1>2 DEF EndDelegation
<1> QED
  BY <1>1, <1>2, <1>3, <1>4, CreateCounts, StepForms

THEOREM HistoryInvariant == Spec => []HInv
BY InitHInv, NextHInv, PTL DEF Spec

(* Whoever decided a request was entitled to by the document that was      *)
(* decided, however claims and delegations interleaved with the decision.  *)
THEOREM DecidersEntitled == Spec => []DeciderEntitled
<1>1. HInv => DeciderEntitled
  BY DEF HInv, EntitledInv, ApproverSettled, Entitled, DeciderEntitled
<1> QED
  BY <1>1, HistoryInvariant, PTL

(* The timeline and the bus never tell of two ends of one request, nor of  *)
(* another end or another decider than the stored one.                     *)
THEOREM EndsToldOnce == Spec => []OneEndTold
<1>1. HInv => OneEndTold
  BY DEF HInv, ToldInv, EndTold, OneEndTold, EndsRecorded, EndsPublished
<1> QED
  BY <1>1, HistoryInvariant, PTL

(* While no await throws, the version of a request counts what its         *)
(* timeline tells and what handlers still owe it, for any finite number of *)
(* handlers.                                                               *)
THEOREM TimelineAccounts ==
  ASSUME IsFiniteSet(Handlers)
  PROVE  Spec => []TimelineComplete
<1>1. Init => HInv /\ CountInv
  BY InitHInv
<1>2. HInv /\ CountInv /\ [Next]_vars => HInv' /\ CountInv'
  BY NextHInv, NextCounts
<1>3. CountInv => TimelineComplete
  BY DEF CountInv, WritesAccounted, WritesRecorded, WritesOwed,
         TimelineComplete
<1> QED
  BY <1>1, <1>2, <1>3, PTL DEF Spec
=============================================================================
