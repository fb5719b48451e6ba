------------------------- MODULE AuditPipelineProofs -------------------------
(***************************************************************************)
(* Proofs about AuditPipeline for any number of handlers and events, any   *)
(* classification and any bounds.  The chain of the audit trail is intact  *)
(* because, until two appends overlap, the one handler that is appending   *)
(* holds the latest record's hash and takes a later time.  An event is     *)
(* recorded once because an entry nobody else holds is touched by nobody   *)
(* else, and is marked before its handler lets it go.                      *)
(***************************************************************************)
EXTENDS AuditPipeline, FiniteSetTheorems, SequenceTheorems,
        WellFoundedInduction, TLAPS

LogTypeOK ==
  /\ todo \subseteq Events /\ cut \subseteq Events /\ shared \subseteq Events
  /\ forked \in BOOLEAN /\ faults \in 0 .. MaxFaults
  /\ log \subseteq Logged
  /\ activity \in Seq(Events)
  /\ clock \in Nat
OutboxTypeOK ==
  outbox \in Seq([event : Events, status : {"PENDING", "PUBLISHED", "FAILED"}])
HandlerTypeOK ==
  /\ handler \in [Publishers -> Handler]
  /\ \A h \in Publishers : handler[h].batch \subseteq DOMAIN outbox

(* What handler h may hold, by where it is.                                *)
HoldsOK(h) ==
  /\ handler[h].pc \in {"idle", "claim"} => handler[h].batch = {}
  /\ handler[h].pc \in {"stamp", "insert", "activity", "mark", "fail"} =>
       handler[h].batch # {}
  /\ handler[h].pc # "idle" => handler[h].event \in Events

TypeInv ==
  /\ LogTypeOK /\ OutboxTypeOK /\ HandlerTypeOK
  /\ \A h \in Publishers : HoldsOK(h)

IsLatest(r) == \A o \in log : o.at <= r.at

LatestExists == log # {} => \E r \in log : IsLatest(r)

(* Handler h appends to the trail as it read it.                           *)
AppendingHere(h) == handler[h].pc \in {"stamp", "insert"}
AppendOK(h) ==
  /\ AppendingHere(h) => handler[h].prev = Latest
  /\ handler[h].pc = "insert" => \A r \in log : r.at < handler[h].at

(* Until two appends overlap, one handler at a time appends.               *)
ChainInv ==
  /\ \A r \in log : 0 < r.at /\ r.at < clock
  /\ 0 < clock
  /\ \A h \in Publishers : handler[h].pc = "insert" =>
       0 < handler[h].at /\ handler[h].at < clock
  /\ LatestExists
  /\ ~forked =>
       /\ ChainIntact
       /\ \A h, o \in Publishers : AppendingHere(h) /\ AppendingHere(o) => h = o
       /\ \A h \in Publishers : AppendOK(h)

InTrail(e) == \E r \in log : r.event = e

(* What the entry that handler h works on has reached.                     *)
ReachedOK(h) ==
  /\ handler[h].pc \in {"activity", "mark"}
     /\ "audit" \in SurfaceOf[Writing(h)] => InTrail(Writing(h))
  /\ handler[h].pc = "mark" /\ "activity" \in SurfaceOf[Writing(h)] =>
       InActivity(Writing(h))

(* Each event was staged once, and only staged events are recorded.        *)
StagedInv ==
  /\ \A i, k \in DOMAIN outbox : outbox[i].event = outbox[k].event => i = k
  /\ \A i \in DOMAIN outbox : outbox[i].event \notin todo
  /\ \A e \in Events : InTrail(e) \/ InActivity(e) =>
       \E i \in DOMAIN outbox : outbox[i].event = e

(* Handler h has dispatched its entry i to the trail, or to the log.       *)
PastTrail(h, i) ==
  handler[h].pc \in {"activity", "mark", "fail"} /\ i = Entry(h)
PastActivity(h, i) == handler[h].pc \in {"mark", "fail"} /\ i = Entry(h)

(* An entry that waits, and that no handler has dispatched, is nowhere     *)
(* recorded; nothing that only one publish had in hand is recorded twice.  *)
OnceOK(i) ==
  LET e == outbox[i].event IN
  /\ \A h \in Publishers : i \in handler[h].batch => outbox[i].status = "PENDING"
  /\ outbox[i].status = "PENDING" /\ InTrail(e) =>
       \E h \in Publishers : i \in handler[h].batch /\ PastTrail(h, i)
  /\ outbox[i].status = "PENDING" /\ InActivity(e) =>
       \E h \in Publishers : i \in handler[h].batch /\ PastActivity(h, i)

OnceInv ==
  /\ \A h, o \in Publishers : \A i \in handler[h].batch \cap handler[o].batch :
       h = o \/ outbox[i].event \in shared
  /\ cut = {} =>
       /\ \A i \in DOMAIN outbox : outbox[i].event \in shared \/ OnceOK(i)
       /\ \A e \in Events \ shared : ~Repeated(e)

PublishedInv ==
  /\ \A h \in Publishers : ReachedOK(h)
  /\ \A i \in DOMAIN outbox :
       outbox[i].status = "PUBLISHED" => Recorded(outbox[i].event)

IInv == TypeInv /\ ChainInv /\ StagedInv /\ PublishedInv /\ OnceInv

----------------------------------------------------------------------------
(* A non-empty set of positions has a least one.                           *)
LEMMA MinInSet ==
  ASSUME NEW S \in SUBSET Nat, S # {}
  PROVE  Min(S) \in S /\ \A i \in S : Min(S) <= i
<1> DEFINE R == {ss \in Nat \X Nat : ss[1] < ss[2]}
<1>1. IsWellFoundedOn(R, Nat)
  BY NatLessThanWellFounded DEF OpToRel
<1>2. PICK x \in S : \A y \in S : ~(<<y, x>> \in R)
  <2> HIDE DEF R
  <2> QED
    BY <1>1, WFMin
<1>3. \A y \in S : x <= y
  <2> SUFFICES ASSUME NEW y \in S PROVE x <= y
    OBVIOUS
  <2>1. x \in Nat /\ y \in Nat /\ <<y, x>> \notin R
    BY <1>2
  <2>2. ~(y < x)
    BY <2>1
  <2> QED
    BY <2>1, <2>2
<1> QED
  BY <1>2, <1>3 DEF Min

LEMMA OutboxElement ==
  ASSUME TypeInv, NEW i \in DOMAIN outbox
  PROVE  outbox[i] \in
           [event : Events, status : {"PENDING", "PUBLISHED", "FAILED"}]
<1>1. i \in 1 .. Len(outbox)
  BY LenProperties DEF TypeInv, OutboxTypeOK
<1> QED
  BY <1>1, ElementOfSeq DEF TypeInv, OutboxTypeOK

LEMMA EntryInBatch ==
  ASSUME TypeInv, NEW h \in Publishers, handler[h].batch # {}
  PROVE  /\ Entry(h) \in handler[h].batch /\ Entry(h) \in DOMAIN outbox
         /\ Writing(h) \in Events /\ Writing(h) = outbox[Entry(h)].event
<1>1. handler[h].batch \in SUBSET Nat /\ handler[h].batch \subseteq DOMAIN outbox
  BY DEF TypeInv, HandlerTypeOK, Handler
<1>2. Entry(h) \in handler[h].batch
  BY <1>1, MinInSet DEF Entry
<1>3. Writing(h) = outbox[Entry(h)].event
  BY DEF Writing
<1>4. \A i \in DOMAIN outbox : outbox[i].event \in Events
  BY OutboxElement
<1> QED
  BY <1>1, <1>2, <1>3, <1>4

(* What is staged stays staged, and is about the same event.               *)
StagedKept ==
  /\ OutboxTypeOK'
  /\ DOMAIN outbox \subseteq DOMAIN outbox'
  /\ \A i \in DOMAIN outbox : outbox'[i].event = outbox[i].event

LEMMA SetStatusKeeps ==
  ASSUME TypeInv, NEW h \in Publishers, handler[h].batch # {},
         NEW status \in {"PENDING", "PUBLISHED", "FAILED"}, SetStatus(h, status)
  PROVE  /\ StagedKept
         /\ DOMAIN outbox' = DOMAIN outbox
         /\ \A i \in DOMAIN outbox :
              outbox'[i].status = IF i = Entry(h) THEN status ELSE outbox[i].status
<1> DEFINE E == [event : Events, status : {"PENDING", "PUBLISHED", "FAILED"}]
<1>1. Entry(h) \in DOMAIN outbox
  BY EntryInBatch
<1>2. outbox \in Seq(E) /\ DOMAIN outbox = 1 .. Len(outbox)
  BY LenProperties DEF TypeInv, OutboxTypeOK
<1>3. \A i \in DOMAIN outbox : outbox[i] \in E
  BY <1>2, ElementOfSeq
<1>4. /\ DOMAIN outbox' = DOMAIN outbox
      /\ \A i \in DOMAIN outbox :
           /\ outbox'[i] \in E /\ outbox'[i].event = outbox[i].event
           /\ outbox'[i].status = IF i = Entry(h) THEN status ELSE outbox[i].status
  BY <1>1, <1>3 DEF SetStatus
<1>5. outbox' \in Seq(E)
  <2>1. outbox' \in [1 .. Len(outbox) -> E]
    BY <1>2, <1>4 DEF SetStatus
  <2> QED
    BY <1>2, <2>1
<1> QED
  BY <1>4, <1>5 DEF StagedKept, OutboxTypeOK

LEMMA EnqueueKeepsStaged ==
  ASSUME TypeInv, NEW h \in Publishers, NEW e \in Events, Enqueue(h, e)
  PROVE  /\ StagedKept
         /\ \E n : /\ DOMAIN outbox' = DOMAIN outbox \cup {n}
                   /\ n \notin DOMAIN outbox
                   /\ outbox'[n] = [event |-> e, status |-> "PENDING"]
                   /\ \A i \in DOMAIN outbox : outbox'[i] = outbox[i]
<1> DEFINE E == [event : Events, status : {"PENDING", "PUBLISHED", "FAILED"}]
<1> DEFINE x == [event |-> e, status |-> "PENDING"]
<1>1. outbox \in Seq(E) /\ DOMAIN outbox = 1 .. Len(outbox) /\ Len(outbox) \in Nat
  BY LenProperties DEF TypeInv, OutboxTypeOK
<1>2. x \in E /\ outbox' = Append(outbox, x)
  BY DEF Enqueue
<1> HIDE DEF E, x
<1>3. /\ outbox' \in Seq(E) /\ Len(outbox') = Len(outbox) + 1
      /\ \A i \in 1 .. Len(outbox) : outbox'[i] = outbox[i]
      /\ outbox'[Len(outbox) + 1] = x
  BY <1>1, <1>2, AppendProperties
<1>4. DOMAIN outbox' = 1 .. (Len(outbox) + 1)
  BY <1>3, LenProperties
<1>5. /\ DOMAIN outbox' = DOMAIN outbox \cup {Len(outbox) + 1}
      /\ Len(outbox) + 1 \notin DOMAIN outbox
      /\ outbox'[Len(outbox) + 1] = x
      /\ \A i \in DOMAIN outbox : outbox'[i] = outbox[i]
  BY <1>1, <1>3, <1>4
<1>6. StagedKept
  BY <1>3, <1>5 DEF StagedKept, OutboxTypeOK, E
<1> QED
  BY <1>5, <1>6 DEF x

LEMMA SameOutbox == ASSUME TypeInv, outbox' = outbox PROVE StagedKept
BY DEF TypeInv, OutboxTypeOK, StagedKept

----------------------------------------------------------------------------
(* Type correctness.  A step of handler h leaves it as j, which holds what *)
(* a handler of its kind may hold, of what is staged.                      *)
Moves(h, j) ==
  /\ handler' = [handler EXCEPT ![h] = j]
  /\ j \in Handler /\ j.batch \subseteq DOMAIN outbox'
  /\ j.pc \in {"idle", "claim"} => j.batch = {}
  /\ j.pc \in {"stamp", "insert", "activity", "mark", "fail"} => j.batch # {}
  /\ j.pc # "idle" => j.event \in Events

LEMMA MovesKeeps ==
  ASSUME TypeInv, NEW h \in Publishers, NEW j, Moves(h, j), StagedKept, LogTypeOK'
  PROVE  TypeInv'
<1>1. handler' \in [Publishers -> Handler]
  BY DEF Moves, TypeInv, HandlerTypeOK
<1>2. \A o \in Publishers : handler'[o] = IF o = h THEN j ELSE handler[o]
  BY DEF Moves, TypeInv, HandlerTypeOK
<1>3. \A o \in Publishers : handler'[o].batch \subseteq DOMAIN outbox'
  BY <1>2 DEF Moves, StagedKept, TypeInv, HandlerTypeOK
<1>4. \A o \in Publishers : HoldsOK(o)'
  BY <1>2 DEF Moves, TypeInv, HoldsOK
<1> QED
  BY <1>1, <1>3, <1>4 DEF StagedKept, TypeInv, HandlerTypeOK

LEMMA IdleType == Rest \in Handler
BY DEF Rest, Handler

LEMMA HandlerType ==
  ASSUME TypeInv, NEW h \in Publishers
  PROVE  /\ handler[h] \in Handler /\ handler[h].batch \subseteq DOMAIN outbox
         /\ handler[h].batch \in SUBSET Nat /\ HoldsOK(h)
BY DEF TypeInv, HandlerTypeOK, Handler

LEMMA EnqueueMoves ==
  ASSUME TypeInv, NEW h \in Publishers, NEW e \in Events, Enqueue(h, e)
  PROVE  /\ Moves(h, [handler[h] EXCEPT !.pc = "claim", !.event = e])
         /\ LogTypeOK' /\ StagedKept
<1> DEFINE j == [handler[h] EXCEPT !.pc = "claim", !.event = e]
<1>1. handler[h] \in Handler /\ handler[h].batch = {}
  BY HandlerType DEF Enqueue, HoldsOK
<1>2. handler' = [handler EXCEPT ![h] = j]
  BY DEF Enqueue, TypeInv, HandlerTypeOK
<1>3. j \in Handler /\ j.pc = "claim" /\ j.event = e /\ j.batch = {}
  BY <1>1 DEF Handler
<1>4. LogTypeOK'
  BY DEF Enqueue, TypeInv, LogTypeOK
<1> QED
  BY <1>2, <1>3, <1>4, EnqueueKeepsStaged DEF Moves

LEMMA OldestStaged ==
  ASSUME TypeInv, NEW n
  PROVE  Oldest(n) \in SUBSET Nat /\ Oldest(n) \subseteq DOMAIN outbox
         /\ \A i \in Oldest(n) : outbox[i].status = "PENDING"
BY LenProperties DEF Oldest, TypeInv, OutboxTypeOK

LEMMA ClaimMoves ==
  ASSUME TypeInv, NEW h \in Publishers, Claim(h)
  PROVE  /\ Moves(h, [handler[h] EXCEPT !.pc = "write", !.batch = Oldest(Limit)])
         /\ LogTypeOK' /\ StagedKept
<1> DEFINE j == [handler[h] EXCEPT !.pc = "write", !.batch = Oldest(Limit)]
<1>1. handler[h] \in Handler /\ handler[h].event \in Events
  BY HandlerType DEF Claim, HoldsOK
<1>2. handler' = [handler EXCEPT ![h] = j] /\ StagedKept
  BY SameOutbox DEF Claim, TypeInv, HandlerTypeOK
<1>3. j \in Handler /\ j.pc = "write" /\ j.event = handler[h].event
      /\ j.batch = Oldest(Limit)
  BY <1>1, OldestStaged DEF Handler
<1>4. LogTypeOK'
  BY OldestStaged, OutboxElement DEF Claim, TypeInv, LogTypeOK
<1> QED
  BY <1>1, <1>2, <1>3, <1>4, OldestStaged DEF Moves, StagedKept

LEMMA LatestIs ==
  ASSUME TypeInv, LatestExists
  PROVE  /\ log = {} => Latest = 0
         /\ log # {} => \E r \in log : r.at = Latest /\ IsLatest(r)
         /\ Latest \in Nat
<1>1. ASSUME log # {} PROVE \E r \in log : r.at = Latest /\ IsLatest(r)
  <2>1. \E r \in log : \A o \in log : o.at <= r.at
    BY <1>1 DEF LatestExists, IsLatest
  <2> DEFINE top == CHOOSE r \in log : \A o \in log : o.at <= r.at
  <2>2. top \in log /\ \A o \in log : o.at <= top.at
    BY <2>1
  <2>3. Latest = top.at
    BY <1>1 DEF Latest
  <2> QED
    BY <2>2, <2>3 DEF IsLatest
<1>2. \A r \in log : r.at \in Nat
  BY DEF TypeInv, LogTypeOK, Logged
<1>3. log = {} => Latest = 0
  BY DEF Latest
<1> QED
  BY <1>1, <1>2, <1>3

(* What an action of handler h leaves in its place.                        *)
WithPc(h, pc) == [handler[h] EXCEPT !.pc = pc]
WithRest(h) ==
  [handler[h] EXCEPT !.pc = "write", !.batch = @ \ {Entry(h)}]

(* A change of place alone, or of place and batch, is a move.              *)
LEMMA PcMoves ==
  ASSUME TypeInv, NEW h \in Publishers, StagedKept,
         NEW pc \in {"stamp", "insert", "activity", "mark", "fail"},
         handler[h].batch # {}, Goto(h, pc)
  PROVE  Moves(h, WithPc(h, pc))
<1> DEFINE j == WithPc(h, pc)
<1>1. handler[h] \in Handler /\ HoldsOK(h)
      /\ handler[h].batch \subseteq DOMAIN outbox
  BY HandlerType
<1>2. j \in Handler /\ j.pc = pc /\ j.batch = handler[h].batch
      /\ j.event = handler[h].event
  BY <1>1 DEF Handler, WithPc
<1>3. handler' = [handler EXCEPT ![h] = j]
  BY DEF Goto, WithPc, TypeInv, HandlerTypeOK
<1> HIDE DEF j
<1> QED
  BY <1>1, <1>2, <1>3 DEF Moves, StagedKept, HoldsOK, j

LEMMA NextEntryMoves ==
  ASSUME TypeInv, NEW h \in Publishers, StagedKept, handler[h].batch # {},
         NextEntry(h)
  PROVE  Moves(h, WithRest(h))
<1> DEFINE j == WithRest(h)
<1>1. handler[h] \in Handler /\ HoldsOK(h)
      /\ handler[h].batch \subseteq DOMAIN outbox
  BY HandlerType
<1>2. j \in Handler /\ j.pc = "write" /\ j.event = handler[h].event
      /\ j.batch = handler[h].batch \ {Entry(h)}
  BY <1>1 DEF Handler, WithRest
<1>3. handler' = [handler EXCEPT ![h] = j]
  BY DEF NextEntry, WithRest, TypeInv, HandlerTypeOK
<1> HIDE DEF j
<1> QED
  BY <1>1, <1>2, <1>3 DEF Moves, StagedKept, HoldsOK, j

LEMMA IdleMoves ==
  ASSUME TypeInv, NEW h \in Publishers, StagedKept,
         handler' = [handler EXCEPT ![h] = Rest]
  PROVE  Moves(h, Rest)
<1>1. Rest.pc = "idle" /\ Rest.batch = {}
  BY DEF Rest
<1> QED
  BY <1>1, IdleType DEF Moves

LEMMA ReadLatestMoves ==
  ASSUME TypeInv, LatestExists, NEW h \in Publishers, ReadLatest(h)
  PROVE  Moves(h, [handler[h] EXCEPT !.pc = "stamp", !.prev = Latest])
<1> DEFINE j == [handler[h] EXCEPT !.pc = "stamp", !.prev = Latest]
<1>1. handler[h] \in Handler /\ HoldsOK(h) /\ handler[h].batch # {}
      /\ handler[h].pc = "write" /\ handler[h].batch \subseteq DOMAIN outbox
  BY HandlerType DEF ReadLatest
<1>2. j \in Handler /\ j.pc = "stamp" /\ j.batch = handler[h].batch
      /\ j.event = handler[h].event
  BY <1>1, LatestIs DEF Handler
<1>3. handler' = [handler EXCEPT ![h] = j] /\ StagedKept
  BY SameOutbox DEF ReadLatest, TypeInv, HandlerTypeOK
<1> HIDE DEF j
<1> QED
  BY <1>1, <1>2, <1>3 DEF Moves, StagedKept, HoldsOK, j

LEMMA StampMoves ==
  ASSUME TypeInv, NEW h \in Publishers, Stamp(h)
  PROVE  Moves(h, [handler[h] EXCEPT !.pc = "insert", !.at = clock])
<1> DEFINE j == [handler[h] EXCEPT !.pc = "insert", !.at = clock]
<1>1. handler[h] \in Handler /\ HoldsOK(h) /\ handler[h].pc = "stamp"
      /\ handler[h].batch \subseteq DOMAIN outbox
  BY HandlerType DEF Stamp
<1>2. j \in Handler /\ j.pc = "insert" /\ j.batch = handler[h].batch
      /\ j.event = handler[h].event
  BY <1>1 DEF Handler, TypeInv, LogTypeOK
<1>3. handler' = [handler EXCEPT ![h] = j] /\ StagedKept
  BY SameOutbox DEF Stamp, TypeInv, HandlerTypeOK
<1> HIDE DEF j
<1> QED
  BY <1>1, <1>2, <1>3 DEF Moves, StagedKept, HoldsOK, j

(* The actions of handler h that write to the trail, the log, or nothing.  *)
LEMMA InsertMoves ==
  ASSUME TypeInv, NEW h \in Publishers, Insert(h)
  PROVE  Moves(h, WithPc(h, "activity")) /\ StagedKept /\ LogTypeOK'
<1>1. handler[h].batch # {} /\ handler[h] \in Handler
  BY HandlerType DEF Insert, HoldsOK
<1>2. [event |-> Writing(h), at |-> handler[h].at, prev |-> handler[h].prev]
        \in Logged
  BY <1>1, EntryInBatch DEF Logged, Handler
<1>3. LogTypeOK'
  BY <1>2 DEF Insert, TypeInv, LogTypeOK
<1> QED
  BY <1>1, <1>3, SameOutbox, PcMoves DEF Insert

LEMMA InsertActivityMoves ==
  ASSUME TypeInv, NEW h \in Publishers, InsertActivity(h)
  PROVE  Moves(h, WithPc(h, "mark")) /\ StagedKept /\ LogTypeOK'
<1>1. handler[h].batch # {}
  BY HandlerType DEF InsertActivity, HoldsOK
<1>2. activity \in Seq(Events) /\ Writing(h) \in Events
  BY <1>1, EntryInBatch DEF TypeInv, LogTypeOK
<1>3. Append(activity, Writing(h)) \in Seq(Events)
  BY <1>2, AppendProperties
<1>4. activity' \in Seq(Events)
  BY <1>2, <1>3 DEF InsertActivity
<1>5. LogTypeOK'
  BY <1>4 DEF InsertActivity, TypeInv, LogTypeOK
<1> QED
  BY <1>1, <1>5, SameOutbox, PcMoves DEF InsertActivity

LEMMA SkipAuditMoves ==
  ASSUME TypeInv, NEW h \in Publishers, SkipAudit(h)
  PROVE  Moves(h, WithPc(h, "activity")) /\ StagedKept /\ LogTypeOK'
<1>1. LogTypeOK'
  BY DEF SkipAudit, TypeInv, LogTypeOK
<1> QED
  BY <1>1, SameOutbox, PcMoves DEF SkipAudit

LEMMA MarkPublishedMoves ==
  ASSUME TypeInv, NEW h \in Publishers, MarkPublished(h)
  PROVE  Moves(h, WithRest(h)) /\ StagedKept /\ LogTypeOK'
<1>1. handler[h].batch # {}
  BY HandlerType DEF MarkPublished, HoldsOK
<1>2. LogTypeOK'
  BY DEF MarkPublished, TypeInv, LogTypeOK
<1> QED
  BY <1>1, <1>2, SetStatusKeeps, NextEntryMoves DEF MarkPublished

LEMMA MarkFailedMoves ==
  ASSUME TypeInv, NEW h \in Publishers, MarkFailed(h)
  PROVE  Moves(h, WithRest(h)) /\ StagedKept /\ LogTypeOK'
<1>1. handler[h].batch # {}
  BY HandlerType DEF MarkFailed, HoldsOK
<1>2. LogTypeOK'
  BY DEF MarkFailed, TypeInv, LogTypeOK
<1> QED
  BY <1>1, <1>2, SetStatusKeeps, NextEntryMoves DEF MarkFailed

LEMMA FaultType == ASSUME TypeInv, Fault PROVE faults' \in 0 .. MaxFaults
BY PipelineAssumption DEF Fault, TypeInv, LogTypeOK

LEMMA WriteFailsMoves ==
  ASSUME TypeInv, NEW h \in Publishers, WriteFails(h)
  PROVE  Moves(h, WithPc(h, "fail")) /\ StagedKept /\ LogTypeOK'
<1>1. LogTypeOK'
  BY FaultType DEF WriteFails, TypeInv, LogTypeOK
<1> QED
  BY <1>1, SameOutbox, PcMoves DEF WriteFails

LEMMA FinishMoves ==
  ASSUME TypeInv, NEW h \in Publishers, Finish(h)
  PROVE  Moves(h, Rest) /\ StagedKept /\ LogTypeOK'
BY SameOutbox, IdleMoves DEF Finish, TypeInv, LogTypeOK

LEMMA MarkFailedFailsMoves ==
  ASSUME TypeInv, NEW h \in Publishers, MarkFailedFails(h)
  PROVE  Moves(h, Rest) /\ StagedKept /\ LogTypeOK'
<1>1. handler[h].event \in Events
  BY HandlerType DEF MarkFailedFails, HoldsOK
<1>2. LogTypeOK'
  BY <1>1, FaultType DEF MarkFailedFails, TypeInv, LogTypeOK
<1> QED
  BY <1>2, SameOutbox, IdleMoves DEF MarkFailedFails

LEMMA RestartType ==
  ASSUME TypeInv, Restart
  PROVE  TypeInv' /\ StagedKept
<1>1. \A h \in Publishers : handler[h].event \in Events \cup {None}
  BY HandlerType DEF Handler
<1>2. LogTypeOK'
  BY <1>1, FaultType DEF Restart, TypeInv, LogTypeOK
<1>3. StagedKept
  BY SameOutbox DEF Restart
<1>4. \A h \in Publishers : handler'[h] = Rest
  BY DEF Restart
<1>5. HandlerTypeOK' /\ \A h \in Publishers : HoldsOK(h)'
  BY <1>4, IdleType DEF Restart, HandlerTypeOK, HoldsOK, Rest
<1> QED
  BY <1>2, <1>3, <1>5 DEF TypeInv, StagedKept

LEMMA NextTyped ==
  ASSUME TypeInv, LatestExists, [AuditNext]_auditVars
  PROVE  TypeInv' /\ StagedKept
<1>1. ASSUME NEW h \in Publishers, NEW j, Moves(h, j), StagedKept, LogTypeOK'
      PROVE  TypeInv' /\ StagedKept
  BY <1>1, MovesKeeps
<1>2. ASSUME NEW h \in Publishers, Step(h) PROVE TypeInv' /\ StagedKept
  <2>1. CASE ReadLatest(h)
    <3>1. LogTypeOK'
      BY <2>1 DEF ReadLatest, TypeInv, LogTypeOK, Appending
    <3> QED
      BY <1>1, <2>1, <3>1, ReadLatestMoves, SameOutbox DEF ReadLatest
  <2>2. CASE Stamp(h)
    <3>1. LogTypeOK'
      BY <2>2 DEF Stamp, TypeInv, LogTypeOK
    <3> QED
      BY <1>1, <2>2, <3>1, StampMoves, SameOutbox DEF Stamp
  <2> QED
    BY <1>1, <1>2, <2>1, <2>2, ClaimMoves, FinishMoves, SkipAuditMoves,
       InsertMoves, InsertActivityMoves, MarkPublishedMoves, MarkFailedMoves
    DEF Step
<1>3. ASSUME NEW h \in Publishers, NEW e \in Events,
             Enqueue(h, e) \/ EnqueueFails(h, e)
      PROVE  TypeInv' /\ StagedKept
  <2>1. CASE Enqueue(h, e)
    BY <1>1, <2>1, EnqueueMoves
  <2>2. CASE EnqueueFails(h, e)
    <3>1. LogTypeOK'
      BY <2>2, FaultType DEF EnqueueFails, TypeInv, LogTypeOK
    <3> QED
      BY <2>2, <3>1, SameOutbox
      DEF EnqueueFails, TypeInv, OutboxTypeOK, HandlerTypeOK, HoldsOK
  <2> QED
    BY <1>3, <2>1, <2>2
<1>4. CASE UNCHANGED auditVars
  BY <1>4, SameOutbox
  DEF auditVars, TypeInv, LogTypeOK, OutboxTypeOK, HandlerTypeOK, HoldsOK
<1> QED
  BY <1>1, <1>2, <1>3, <1>4, WriteFailsMoves, MarkFailedFailsMoves, RestartType
  DEF AuditNext

----------------------------------------------------------------------------
(* The chain.  A step that appends nothing and starts no append keeps it.  *)
LEMMA NoAppendChain ==
  ASSUME ChainInv, log' = log, clock' = clock, forked' = forked,
         \A o \in Publishers : AppendingHere(o)' =>
           /\ handler'[o].pc = handler[o].pc
           /\ handler'[o].prev = handler[o].prev
           /\ handler'[o].at = handler[o].at
  PROVE  ChainInv'
<1>1. \A o \in Publishers : AppendingHere(o)' => AppendingHere(o)
  BY DEF AppendingHere
<1>2. \A o \in Publishers : AppendOK(o) => AppendOK(o)'
  BY <1>1 DEF AppendOK, AppendingHere, Latest
<1>3. ChainIntact <=> ChainIntact'
  BY DEF ChainIntact
<1>4. LatestExists'
  BY DEF ChainInv, LatestExists, IsLatest
<1> QED
  BY <1>1, <1>2, <1>3, <1>4 DEF ChainInv, AppendingHere

(* Handler h leaves the append, or is in none.                             *)
LEMMA OutsideChain ==
  ASSUME TypeInv, ChainInv, NEW h \in Publishers, NEW j, Moves(h, j),
         j.pc \notin {"stamp", "insert"},
         log' = log, clock' = clock, forked' = forked
  PROVE  ChainInv'
<1>1. \A o \in Publishers : handler'[o] = IF o = h THEN j ELSE handler[o]
  BY DEF Moves, TypeInv, HandlerTypeOK
<1> QED
  BY <1>1, NoAppendChain DEF AppendingHere

LEMMA ReadLatestChain ==
  ASSUME TypeInv, ChainInv, NEW h \in Publishers, ReadLatest(h)
  PROVE  ChainInv'
<1> DEFINE j == [handler[h] EXCEPT !.pc = "stamp", !.prev = Latest]
<1>1. handler[h] \in Handler /\ Moves(h, j)
  BY HandlerType, ReadLatestMoves DEF ChainInv
<1>2. j.pc = "stamp" /\ j.prev = Latest
  BY <1>1 DEF Handler
<1> HIDE DEF j
<1>3. \A o \in Publishers : handler'[o] = IF o = h THEN j ELSE handler[o]
  BY <1>1 DEF Moves, TypeInv, HandlerTypeOK
<1>4. log' = log /\ clock' = clock /\ forked' = (forked \/ Appending(h))
  BY DEF ReadLatest
<1>5. Latest' = Latest /\ (ChainIntact <=> ChainIntact')
      /\ (LatestExists => LatestExists')
  BY <1>4 DEF Latest, ChainIntact, LatestExists, IsLatest
<1>6. forked \in BOOLEAN
  BY DEF TypeInv, LogTypeOK
<1>7. ASSUME ~forked'
      PROVE  /\ ~forked
             /\ \A o \in Publishers : AppendingHere(o)' => o = h
             /\ \A o \in Publishers : AppendOK(o)'
  <2>1. ~forked /\ ~Appending(h)
    BY <1>4, <1>6, <1>7
  <2>2. \A o \in Publishers : AppendingHere(o)' => o = h
    BY <1>3, <2>1 DEF Appending, AppendingHere
  <2>3. AppendOK(h)'
    BY <1>2, <1>3, <1>5 DEF AppendOK
  <2>4. \A o \in Publishers : AppendOK(o)'
    BY <2>2, <2>3 DEF AppendOK, AppendingHere
  <2> QED
    BY <2>1, <2>2, <2>4
<1>8. \A o \in Publishers : handler'[o].pc = "insert" =>
        0 < handler'[o].at /\ handler'[o].at < clock'
  BY <1>2, <1>3, <1>4 DEF ChainInv
<1> QED
  BY <1>4, <1>5, <1>7, <1>8 DEF ChainInv

LEMMA StampChain ==
  ASSUME TypeInv, ChainInv, NEW h \in Publishers, Stamp(h)
  PROVE  ChainInv'
<1> DEFINE j == [handler[h] EXCEPT !.pc = "insert", !.at = clock]
<1>1. handler[h] \in Handler /\ Moves(h, j) /\ handler[h].pc = "stamp"
  BY HandlerType, StampMoves DEF Stamp
<1>2. j.pc = "insert" /\ j.at = clock /\ j.prev = handler[h].prev
  BY <1>1 DEF Handler
<1> HIDE DEF j
<1>3. \A o \in Publishers : handler'[o] = IF o = h THEN j ELSE handler[o]
  BY <1>1 DEF Moves, TypeInv, HandlerTypeOK
<1>4. log' = log /\ clock' = clock + 1 /\ forked' = forked /\ clock \in Nat
  BY DEF Stamp, TypeInv, LogTypeOK
<1>5. Latest' = Latest /\ (ChainIntact <=> ChainIntact')
      /\ (LatestExists => LatestExists')
  BY <1>4 DEF Latest, ChainIntact, LatestExists, IsLatest
<1>6. \A o \in Publishers : AppendingHere(o)' <=> AppendingHere(o)
  BY <1>1, <1>2, <1>3 DEF AppendingHere
<1>7. (\A r \in log : 0 < r.at /\ r.at < clock /\ r.at \in Nat)
      /\ \A o \in Publishers : handler[o].at \in Nat
  BY HandlerType DEF ChainInv, TypeInv, LogTypeOK, Logged, Handler
<1>8. \A o \in Publishers : ~forked /\ AppendOK(o) => AppendOK(o)'
  BY <1>1, <1>2, <1>3, <1>4, <1>5, <1>7 DEF AppendOK, AppendingHere
<1>9. \A o \in Publishers : handler'[o].pc = "insert" =>
        0 < handler'[o].at /\ handler'[o].at < clock'
  BY <1>2, <1>3, <1>4, <1>7 DEF ChainInv
<1>10. \A r \in log : r.at < clock'
  BY <1>4, <1>7
<1> QED
  BY <1>4, <1>5, <1>6, <1>8, <1>9, <1>10 DEF ChainInv

(* The record is later than all there are and names the latest of them.    *)
LEMMA InsertChain ==
  ASSUME TypeInv, ChainInv, NEW h \in Publishers, Insert(h)
  PROVE  ChainInv'
<1> DEFINE j == WithPc(h, "activity")
<1>1. handler[h] \in Handler /\ Moves(h, j) /\ handler[h].pc = "insert"
  BY HandlerType, InsertMoves DEF Insert
<1>2. j.pc = "activity"
  BY <1>1 DEF Handler, WithPc
<1>3. \A o \in Publishers : handler'[o] = IF o = h THEN j ELSE handler[o]
  BY <1>1 DEF Moves, TypeInv, HandlerTypeOK
<1>4. PICK new : /\ log' = log \cup {new} /\ clock' = clock
                 /\ forked' = forked
                 /\ new.at = handler[h].at /\ new.prev = handler[h].prev
  <2> DEFINE rec == [event |-> Writing(h), at |-> handler[h].at,
                     prev |-> handler[h].prev]
  <2>1. /\ log' = log \cup {rec} /\ clock' = clock /\ forked' = forked
        /\ rec.at = handler[h].at /\ rec.prev = handler[h].prev
    BY DEF Insert
  <2> HIDE DEF rec
  <2> QED
    BY <2>1
<1> HIDE DEF j
<1>5. /\ \A r \in log : 0 < r.at /\ r.at < clock /\ r.at \in Nat
      /\ 0 < new.at /\ new.at < clock /\ new.at \in Nat
  BY <1>1, <1>4 DEF ChainInv, TypeInv, LogTypeOK, Logged, Handler
<1>6. LatestExists'
  <2>1. CASE IsLatest(new)'
    BY <1>4, <2>1 DEF LatestExists
  <2>2. CASE ~IsLatest(new)'
    <3>1. PICK o \in log : new.at < o.at
      BY <1>4, <1>5, <2>2 DEF IsLatest
    <3>2. PICK r \in log : IsLatest(r)
      BY <3>1 DEF ChainInv, LatestExists
    <3>3. new.at <= r.at /\ \A x \in log : x.at <= r.at
      BY <1>5, <3>1, <3>2 DEF IsLatest
    <3>4. IsLatest(r)'
      BY <1>4, <3>3 DEF IsLatest
    <3> QED
      BY <1>4, <3>2, <3>4 DEF LatestExists
  <2> QED
    BY <2>1, <2>2
<1>7. ASSUME ~forked
      PROVE  ChainIntact' /\ \A o \in Publishers : ~AppendingHere(o)'
  <2>1. /\ \A r \in log : r.at < new.at
        /\ new.prev = Latest
    BY <1>1, <1>4, <1>7 DEF ChainInv, AppendOK, AppendingHere
  <2>2. \A o \in Publishers : ~AppendingHere(o)'
    BY <1>1, <1>2, <1>3, <1>7 DEF ChainInv, AppendingHere
  <2>3. ASSUME NEW r \in log
        PROVE  {o \in log' : o.at < r.at} = {o \in log : o.at < r.at}
    BY <1>4, <1>5, <2>1
  <2>4. {o \in log' : o.at < new.at} = log
    BY <1>4, <1>5, <2>1
  <2>5. ASSUME NEW r \in log'
        PROVE  LET before == {o \in log' : o.at < r.at} IN
               IF before = {} THEN r.prev = 0
               ELSE \E o \in before : o.at = r.prev /\ \A x \in before : x.at <= o.at
    <3>1. CASE r \in log
      BY <1>7, <2>3, <3>1 DEF ChainInv, ChainIntact
    <3>2. CASE r = new
      BY <2>1, <2>4, <3>2, LatestIs DEF ChainInv, IsLatest
    <3> QED
      BY <1>4, <2>5, <3>1, <3>2
  <2> QED
    BY <2>2, <2>5 DEF ChainIntact
<1>8. \A o \in Publishers : handler'[o].pc = "insert" =>
        0 < handler'[o].at /\ handler'[o].at < clock'
  BY <1>2, <1>3, <1>4 DEF ChainInv
<1>9. \A r \in log' : 0 < r.at /\ r.at < clock'
  BY <1>4, <1>5
<1>10. ~forked' => \A o \in Publishers : AppendOK(o)'
  BY <1>4, <1>7 DEF AppendOK, AppendingHere
<1> QED
  BY <1>4, <1>6, <1>7, <1>8, <1>9, <1>10 DEF ChainInv

LEMMA NextChain ==
  ASSUME TypeInv, ChainInv, [AuditNext]_auditVars
  PROVE  ChainInv'
<1>1. ASSUME NEW h \in Publishers, Step(h) PROVE ChainInv'
  <2>1. CASE Claim(h)
    <3> DEFINE j == [handler[h] EXCEPT !.pc = "write", !.batch = Oldest(Limit)]
    <3>1. Moves(h, j) /\ j.pc = "write"
      BY <2>1, ClaimMoves, HandlerType DEF Handler
    <3> HIDE DEF j
    <3> QED
      BY <2>1, <3>1, OutsideChain DEF Claim
  <2>2. CASE Finish(h)
    BY <2>2, FinishMoves, OutsideChain DEF Finish, Rest
  <2>3. CASE SkipAudit(h) \/ InsertActivity(h)
    <3>1. PICK pc \in {"activity", "mark"} : Moves(h, WithPc(h, pc))
      BY <2>3, SkipAuditMoves, InsertActivityMoves
    <3>2. WithPc(h, pc).pc = pc
      BY HandlerType DEF WithPc, Handler
    <3> QED
      BY <2>3, <3>1, <3>2, OutsideChain DEF SkipAudit, InsertActivity
  <2>4. CASE MarkPublished(h) \/ MarkFailed(h)
    <3>1. Moves(h, WithRest(h))
      BY <2>4, MarkPublishedMoves, MarkFailedMoves
    <3>2. WithRest(h).pc = "write"
      BY HandlerType DEF WithRest, Handler
    <3> QED
      BY <2>4, <3>1, <3>2, OutsideChain DEF MarkPublished, MarkFailed
  <2> QED
    BY <1>1, <2>1, <2>2, <2>3, <2>4, ReadLatestChain, StampChain, InsertChain
    DEF Step
<1>2. ASSUME NEW h \in Publishers, WriteFails(h) \/ MarkFailedFails(h)
      PROVE  ChainInv'
  <2>1. Moves(h, WithPc(h, "fail")) \/ Moves(h, Rest)
    BY <1>2, WriteFailsMoves, MarkFailedFailsMoves
  <2>2. WithPc(h, "fail").pc = "fail" /\ Rest.pc = "idle"
    BY HandlerType DEF WithPc, Handler, Rest
  <2> QED
    BY <1>2, <2>1, <2>2, OutsideChain DEF WriteFails, MarkFailedFails
<1>3. ASSUME NEW h \in Publishers, NEW e \in Events,
             Enqueue(h, e) \/ EnqueueFails(h, e)
      PROVE  ChainInv'
  <2>1. CASE Enqueue(h, e)
    <3> DEFINE j == [handler[h] EXCEPT !.pc = "claim", !.event = e]
    <3>1. Moves(h, j) /\ j.pc = "claim"
      BY <2>1, EnqueueMoves, HandlerType DEF Handler
    <3> HIDE DEF j
    <3> QED
      BY <2>1, <3>1, OutsideChain DEF Enqueue
  <2>2. CASE EnqueueFails(h, e)
    BY <2>2, NoAppendChain DEF EnqueueFails
  <2> QED
    BY <1>3, <2>1, <2>2
<1>4. CASE Restart
  <2>1. \A o \in Publishers : handler'[o].pc = "idle"
    BY <1>4 DEF Restart, Rest
  <2> QED
    BY <1>4, <2>1, NoAppendChain DEF Restart, AppendingHere
<1>5. CASE UNCHANGED auditVars
  BY <1>5, NoAppendChain DEF auditVars
<1> QED
  BY <1>1, <1>2, <1>3, <1>4, <1>5 DEF AuditNext

----------------------------------------------------------------------------
(* What is staged and recorded.  A step stages one event, records the one  *)
(* that its handler has in hand, or does neither.                          *)
LEMMA KeepsStaged ==
  ASSUME TypeInv, StagedInv, StagedKept, DOMAIN outbox' = DOMAIN outbox,
         todo' \subseteq todo,
         \A e \in Events : InTrail(e)' \/ InActivity(e)' =>
           InTrail(e) \/ InActivity(e) \/ \E i \in DOMAIN outbox : outbox[i].event = e
  PROVE  StagedInv'
<1>1. \A i \in DOMAIN outbox : outbox'[i].event = outbox[i].event
  BY DEF StagedKept
<1>2. ASSUME NEW e \in Events, InTrail(e)' \/ InActivity(e)'
      PROVE  \E i \in DOMAIN outbox' : outbox'[i].event = e
  <2>1. PICK i \in DOMAIN outbox : outbox[i].event = e
    BY <1>2 DEF StagedInv
  <2> QED
    BY <1>1, <2>1
<1> QED
  BY <1>1, <1>2 DEF StagedInv

(* The records after handler h recorded its entry, or nothing.             *)
LEMMA InsertRecords ==
  ASSUME NEW h \in Publishers, Insert(h)
  PROVE  /\ \A e \in Events : InTrail(e)' <=> InTrail(e) \/ e = Writing(h)
         /\ \A e \in Events : InActivity(e)' <=> InActivity(e)
         /\ outbox' = outbox /\ todo' = todo /\ cut' = cut /\ shared' = shared
<1> DEFINE rec == [event |-> Writing(h), at |-> handler[h].at,
                   prev |-> handler[h].prev]
<1>1. log' = log \cup {rec} /\ rec.event = Writing(h) /\ activity' = activity
  BY DEF Insert
<1> HIDE DEF rec
<1>2. \A e \in Events : InTrail(e)' <=> InTrail(e) \/ e = Writing(h)
  BY <1>1 DEF InTrail
<1>3. \A e \in Events : InActivity(e)' <=> InActivity(e)
  BY <1>1 DEF InActivity
<1> QED
  BY <1>2, <1>3 DEF Insert

LEMMA InsertActivityRecords ==
  ASSUME TypeInv, NEW h \in Publishers, InsertActivity(h)
  PROVE  /\ \A e \in Events : InTrail(e)' <=> InTrail(e)
         /\ \A e \in Events : InActivity(e)' <=>
              \/ InActivity(e)
              \/ e = Writing(h) /\ "activity" \in SurfaceOf[Writing(h)]
         /\ \A e \in Events : Repeated(e)' =>
              Repeated(e) \/ (InActivity(e) /\ e = Writing(h))
         /\ outbox' = outbox /\ todo' = todo /\ cut' = cut /\ shared' = shared
<1>1. log' = log /\ outbox' = outbox /\ todo' = todo /\ cut' = cut
      /\ shared' = shared
  BY DEF InsertActivity
<1>2. CASE "activity" \in SurfaceOf[Writing(h)]
  <2> DEFINE x == Writing(h)
  <2>1. handler[h].batch # {} /\ x \in Events
    BY HandlerType, EntryInBatch DEF InsertActivity, HoldsOK
  <2>2. activity \in Seq(Events) /\ activity' = Append(activity, x)
    BY <1>2 DEF InsertActivity, TypeInv, LogTypeOK
  <2> HIDE DEF x
  <2>3. /\ activity' \in Seq(Events) /\ Len(activity') = Len(activity) + 1
        /\ \A i \in 1 .. Len(activity) : activity'[i] = activity[i]
        /\ activity'[Len(activity) + 1] = x
    BY <2>1, <2>2, AppendProperties
  <2>4. DOMAIN activity' = 1 .. (Len(activity) + 1)
        /\ DOMAIN activity = 1 .. Len(activity) /\ Len(activity) \in Nat
    BY <2>2, <2>3, LenProperties
  <2>5. DOMAIN activity' = DOMAIN activity \cup {Len(activity) + 1}
    BY <2>4
  <2>6. \A e \in Events : InActivity(e)' <=> InActivity(e) \/ e = x
    BY <2>3, <2>4, <2>5 DEF InActivity
  <2>7. \A e \in Events :
          Repeated(e)' => Repeated(e) \/ (InActivity(e) /\ e = x)
    BY <1>1, <2>3, <2>4, <2>5 DEF Repeated, InActivity
  <2> QED
    BY <1>1, <1>2, <2>6, <2>7 DEF InTrail, x
<1>3. CASE "activity" \notin SurfaceOf[Writing(h)]
  <2>1. activity' = activity
    BY <1>3 DEF InsertActivity
  <2> QED
    BY <1>1, <1>3, <2>1 DEF InTrail, InActivity, Repeated
<1> QED
  BY <1>2, <1>3

LEMMA EnqueueStaged ==
  ASSUME TypeInv, StagedInv, NEW h \in Publishers, NEW e \in Events, Enqueue(h, e)
  PROVE  StagedInv'
<1>1. PICK n : /\ DOMAIN outbox' = DOMAIN outbox \cup {n}
               /\ n \notin DOMAIN outbox
               /\ outbox'[n] = [event |-> e, status |-> "PENDING"]
               /\ \A i \in DOMAIN outbox : outbox'[i] = outbox[i]
  BY EnqueueKeepsStaged
<1>2. \A i \in DOMAIN outbox : outbox[i].event # e
  BY DEF Enqueue, StagedInv
<1>3. todo' = todo \ {e} /\ log' = log /\ activity' = activity
  BY DEF Enqueue
<1>4. \A i, k \in DOMAIN outbox' : outbox'[i].event = outbox'[k].event => i = k
  BY <1>1, <1>2 DEF StagedInv
<1>5. \A i \in DOMAIN outbox' : outbox'[i].event \notin todo'
  BY <1>1, <1>3 DEF StagedInv
<1>6. ASSUME NEW x \in Events, InTrail(x)' \/ InActivity(x)'
      PROVE  \E i \in DOMAIN outbox' : outbox'[i].event = x
  <2>1. InTrail(x) \/ InActivity(x)
    BY <1>3, <1>6 DEF InTrail, InActivity
  <2> QED
    BY <1>1, <2>1 DEF StagedInv
<1> QED
  BY <1>4, <1>5, <1>6 DEF StagedInv

(* An action that only moves its handler records nothing.                  *)
LEMMA SameRecords ==
  ASSUME log' = log, activity' = activity
  PROVE  \A e \in Events :
           /\ InTrail(e)' <=> InTrail(e)
           /\ InActivity(e)' <=> InActivity(e)
           /\ Repeated(e)' <=> Repeated(e)
BY DEF InTrail, InActivity, Repeated

LEMMA NextStaged ==
  ASSUME TypeInv, StagedInv, [AuditNext]_auditVars
  PROVE  StagedInv'
<1>1. ASSUME NEW h \in Publishers, handler[h].batch # {}
      PROVE  Writing(h) \in Events /\ \E i \in DOMAIN outbox : outbox[i].event = Writing(h)
  BY <1>1, EntryInBatch
<1>2. ASSUME outbox' = outbox, todo' \subseteq todo, log' = log,
             activity' = activity
      PROVE  StagedInv'
  BY <1>2, SameOutbox, SameRecords, KeepsStaged
<1>3. ASSUME NEW h \in Publishers, Insert(h) \/ InsertActivity(h)
      PROVE  StagedInv'
  <2>1. handler[h].batch # {}
    BY <1>3, HandlerType DEF Insert, InsertActivity, HoldsOK
  <2>2. /\ outbox' = outbox /\ todo' = todo
        /\ \A e \in Events : InTrail(e)' \/ InActivity(e)' =>
             InTrail(e) \/ InActivity(e) \/ e = Writing(h)
    BY <1>3, InsertRecords, InsertActivityRecords
  <2> QED
    BY <1>1, <2>1, <2>2, SameOutbox, KeepsStaged
<1>4. ASSUME NEW h \in Publishers, MarkPublished(h) \/ MarkFailed(h)
      PROVE  StagedInv'
  <2>1. handler[h].batch # {}
    BY <1>4, HandlerType DEF MarkPublished, MarkFailed, HoldsOK
  <2>2. StagedKept /\ DOMAIN outbox' = DOMAIN outbox
    BY <1>4, <2>1, SetStatusKeeps DEF MarkPublished, MarkFailed
  <2>3. todo' = todo /\ log' = log /\ activity' = activity
    BY <1>4 DEF MarkPublished, MarkFailed
  <2> QED
    BY <2>2, <2>3, SameRecords, KeepsStaged
<1>5. ASSUME NEW h \in Publishers, Step(h) PROVE StagedInv'
  BY <1>2, <1>3, <1>4, <1>5
  DEF Step, Claim, Finish, ReadLatest, SkipAudit, Stamp
<1>6. ASSUME NEW h \in Publishers, NEW e \in Events,
             Enqueue(h, e) \/ EnqueueFails(h, e)
      PROVE  StagedInv'
  BY <1>2, <1>6, EnqueueStaged DEF EnqueueFails
<1> QED
  BY <1>2, <1>5, <1>6
  DEF AuditNext, auditVars, WriteFails, MarkFailedFails, Restart

----------------------------------------------------------------------------
(* What a published entry has reached.  Records are never removed.         *)
Grows ==
  /\ \A e \in Events : InTrail(e) => InTrail(e)'
  /\ \A e \in Events : InActivity(e) => InActivity(e)'

LEMMA KeepsPublished ==
  ASSUME TypeInv, PublishedInv, NEW h \in Publishers, NEW j, Moves(h, j),
         StagedKept, Grows, ReachedOK(h)',
         \A i \in DOMAIN outbox' :
           outbox'[i].status = "PUBLISHED" =>
             \/ i \in DOMAIN outbox /\ outbox[i].status = "PUBLISHED"
             \/ Recorded(outbox[i].event)'
  PROVE  PublishedInv'
<1>1. \A o \in Publishers : handler'[o] = IF o = h THEN j ELSE handler[o]
  BY DEF Moves, TypeInv, HandlerTypeOK
<1>2. ASSUME NEW o \in Publishers, o # h PROVE ReachedOK(o)'
  <2>1. CASE handler[o].pc \in {"activity", "mark"}
    <3>1. handler[o].batch # {}
      BY <2>1, HandlerType DEF HoldsOK
    <3>2. handler'[o] = handler[o] /\ Entry(o)' = Entry(o)
      BY <1>1, <1>2 DEF Entry
    <3>3. Entry(o) \in DOMAIN outbox /\ Writing(o) \in Events
          /\ Writing(o) = outbox[Entry(o)].event
      BY <3>1, EntryInBatch
    <3>4. Writing(o)' = Writing(o)
      BY <3>2, <3>3 DEF Writing, StagedKept
    <3>5. ReachedOK(o)
      BY DEF PublishedInv
    <3> QED
      BY <3>2, <3>3, <3>4, <3>5 DEF ReachedOK, Grows
  <2>2. CASE handler[o].pc \notin {"activity", "mark"}
    BY <1>1, <1>2, <2>2 DEF ReachedOK
  <2> QED
    BY <2>1, <2>2
<1>3. ASSUME NEW i \in DOMAIN outbox, outbox[i].status = "PUBLISHED"
      PROVE  Recorded(outbox[i].event)'
  <2>1. outbox'[i].event = outbox[i].event /\ outbox[i].event \in Events
    BY OutboxElement DEF StagedKept
  <2>2. Recorded(outbox[i].event)
    BY <1>3 DEF PublishedInv
  <2>3. \A e \in Events : Recorded(e) => Recorded(e)'
    BY DEF Recorded, Grows, InTrail
  <2>4. PICK e \in Events : outbox[i].event = e
    BY <2>1
  <2>5. Recorded(e)' /\ outbox'[i].event = e
    BY <2>1, <2>2, <2>3, <2>4
  <2> QED
    BY <2>5 DEF Recorded
<1> QED
  BY <1>2, <1>3 DEF PublishedInv

(* The action leaves its handler at no entry, or at the start of one.      *)
LEMMA OutsidePublished ==
  ASSUME TypeInv, PublishedInv, NEW h \in Publishers, NEW j, Moves(h, j),
         StagedKept, j.pc \notin {"activity", "mark"},
         log' = log, activity' = activity,
         \A i \in DOMAIN outbox' :
           outbox'[i].status = "PUBLISHED" =>
             \/ i \in DOMAIN outbox /\ outbox[i].status = "PUBLISHED"
             \/ Recorded(outbox[i].event)'
  PROVE  PublishedInv'
<1>1. handler'[h] = j
  BY DEF Moves, TypeInv, HandlerTypeOK
<1>2. ReachedOK(h)'
  BY <1>1 DEF ReachedOK
<1>3. Grows
  BY SameRecords DEF Grows
<1> QED
  BY <1>2, <1>3, KeepsPublished

LEMMA SameWriting ==
  ASSUME TypeInv, NEW h \in Publishers, StagedKept, handler[h].batch # {},
         handler'[h].batch = handler[h].batch
  PROVE  Writing(h)' = Writing(h) /\ Entry(h)' = Entry(h)
<1>1. Entry(h)' = Entry(h)
  BY DEF Entry
<1> QED
  BY <1>1, EntryInBatch DEF Writing, StagedKept

(* The action takes its handler to the next call for the same entry.       *)
LEMMA DispatchPublished ==
  ASSUME TypeInv, PublishedInv, NEW h \in Publishers,
         SkipAudit(h) \/ Insert(h) \/ InsertActivity(h)
  PROVE  PublishedInv'
<1>1. PICK pc \in {"activity", "mark"} : Moves(h, WithPc(h, pc))
  BY SkipAuditMoves, InsertMoves, InsertActivityMoves
<1>2. handler'[h] = WithPc(h, pc) /\ WithPc(h, pc).batch = handler[h].batch
  BY <1>1, HandlerType DEF Moves, WithPc, Handler, TypeInv, HandlerTypeOK
<1>3. outbox' = outbox /\ StagedKept /\ handler[h].batch # {}
  BY SameOutbox, HandlerType
  DEF SkipAudit, Insert, InsertActivity, HoldsOK
<1>4. Writing(h)' = Writing(h) /\ Writing(h) \in Events
  BY <1>2, <1>3, SameWriting, EntryInBatch
<1>5. ReachedOK(h)
  BY DEF PublishedInv
<1>6. Grows /\ ReachedOK(h)'
  <2>1. CASE SkipAudit(h)
    <3>1. Grows /\ handler'[h].pc = "activity"
      BY <2>1, <1>2, SameRecords, SkipAuditMoves
      DEF SkipAudit, Goto, Grows, TypeInv, HandlerTypeOK, Handler
    <3> QED
      BY <2>1, <3>1, <1>4 DEF SkipAudit, ReachedOK
  <2>2. CASE Insert(h)
    <3>1. Grows /\ InTrail(Writing(h))'
      <4>1. PICK x \in Events : x = Writing(h)
        BY <1>4
      <4>2. InTrail(x)' /\ Grows
        BY <2>2, <4>1, InsertRecords DEF Grows
      <4> QED
        BY <4>1, <4>2, <1>4 DEF InTrail
    <3>2. handler'[h].pc = "activity"
      BY <2>2 DEF Insert, Goto, TypeInv, HandlerTypeOK, Handler
    <3> QED
      BY <3>1, <3>2, <1>4 DEF ReachedOK
  <2>3. CASE InsertActivity(h)
    <3>1. PICK x \in Events : x = Writing(h)
      BY <1>4
    <3>2. /\ Grows
          /\ "activity" \in SurfaceOf[x] => InActivity(x)'
          /\ "audit" \in SurfaceOf[x] => InTrail(x)'
      BY <2>3, <3>1, <1>5, InsertActivityRecords
      DEF Grows, InsertActivity, ReachedOK
    <3>3. x = Writing(h)'
      BY <3>1, <1>4
    <3> QED
      BY <3>2, <3>3 DEF ReachedOK, InTrail, InActivity
  <2> QED
    BY <2>1, <2>2, <2>3
<1> QED
  BY <1>1, <1>3, <1>6, KeepsPublished

LEMMA MarkedPublished ==
  ASSUME TypeInv, PublishedInv, NEW h \in Publishers,
         MarkPublished(h) \/ MarkFailed(h)
  PROVE  PublishedInv'
<1>1. handler[h].batch # {} /\ Moves(h, WithRest(h)) /\ StagedKept
  BY MarkPublishedMoves, MarkFailedMoves, HandlerType
  DEF MarkPublished, MarkFailed, HoldsOK
<1>2. WithRest(h).pc = "write"
  BY HandlerType DEF WithRest, Handler
<1>3. log' = log /\ activity' = activity
  BY DEF MarkPublished, MarkFailed
<1>4. Entry(h) \in DOMAIN outbox /\ Writing(h) = outbox[Entry(h)].event
      /\ Writing(h) \in Events
  BY <1>1, EntryInBatch
<1>5. ASSUME NEW i \in DOMAIN outbox', outbox'[i].status = "PUBLISHED",
             ~(i \in DOMAIN outbox /\ outbox[i].status = "PUBLISHED")
      PROVE  Recorded(outbox[i].event)'
  <2>1. i = Entry(h) /\ MarkPublished(h)
    BY <1>1, <1>5, SetStatusKeeps DEF MarkPublished, MarkFailed
  <2>2. PICK e \in Events : e = Writing(h) /\ e = outbox'[i].event
    BY <1>1, <1>4, <2>1 DEF StagedKept
  <2>3. Recorded(e)
    BY <2>1, <2>2 DEF PublishedInv, ReachedOK, Recorded, MarkPublished, InTrail
  <2> QED
    BY <1>3, <2>2, <2>3 DEF Recorded, InActivity
<1> QED
  BY <1>1, <1>2, <1>3, <1>5, OutsidePublished

LEMMA NextPublished ==
  ASSUME TypeInv, PublishedInv, LatestExists, [AuditNext]_auditVars
  PROVE  PublishedInv'
<1>1. ASSUME NEW h \in Publishers, NEW j, Moves(h, j),
             j.pc \notin {"activity", "mark"},
             outbox' = outbox, log' = log, activity' = activity
      PROVE  PublishedInv'
  BY <1>1, SameOutbox, OutsidePublished
<1>2. \A h \in Publishers : handler[h] \in Handler
  BY HandlerType
<1>3. ASSUME NEW h \in Publishers, Step(h) PROVE PublishedInv'
  <2>1. CASE Claim(h)
    <3> DEFINE j == [handler[h] EXCEPT !.pc = "write", !.batch = Oldest(Limit)]
    <3>1. Moves(h, j) /\ j.pc = "write"
      BY <2>1, <1>2, ClaimMoves DEF Handler
    <3> HIDE DEF j
    <3> QED
      BY <2>1, <3>1, <1>1 DEF Claim
  <2>2. CASE Finish(h)
    BY <2>2, <1>1, FinishMoves DEF Finish, Rest
  <2>3. CASE ReadLatest(h)
    <3> DEFINE j == [handler[h] EXCEPT !.pc = "stamp", !.prev = Latest]
    <3>1. Moves(h, j) /\ j.pc = "stamp"
      BY <2>3, <1>2, ReadLatestMoves DEF Handler
    <3> HIDE DEF j
    <3> QED
      BY <2>3, <3>1, <1>1 DEF ReadLatest
  <2>4. CASE Stamp(h)
    <3> DEFINE j == [handler[h] EXCEPT !.pc = "insert", !.at = clock]
    <3>1. Moves(h, j) /\ j.pc = "insert"
      BY <2>4, <1>2, StampMoves DEF Handler
    <3> HIDE DEF j
    <3> QED
      BY <2>4, <3>1, <1>1 DEF Stamp
  <2> QED
    BY <1>3, <2>1, <2>2, <2>3, <2>4, DispatchPublished, MarkedPublished DEF Step
<1>4. ASSUME NEW h \in Publishers, WriteFails(h) \/ MarkFailedFails(h)
      PROVE  PublishedInv'
  <2>1. Moves(h, WithPc(h, "fail")) \/ Moves(h, Rest)
    BY <1>4, WriteFailsMoves, MarkFailedFailsMoves
  <2>2. WithPc(h, "fail").pc = "fail" /\ Rest.pc = "idle"
    BY <1>2 DEF WithPc, Handler, Rest
  <2> QED
    BY <1>4, <2>1, <2>2, <1>1 DEF WriteFails, MarkFailedFails
<1>5. ASSUME NEW h \in Publishers, NEW e \in Events, Enqueue(h, e)
      PROVE  PublishedInv'
  <2> DEFINE j == [handler[h] EXCEPT !.pc = "claim", !.event = e]
  <2>1. Moves(h, j) /\ j.pc = "claim" /\ StagedKept
    BY <1>5, <1>2, EnqueueMoves DEF Handler
  <2> HIDE DEF j
  <2>2. log' = log /\ activity' = activity
    BY <1>5 DEF Enqueue
  <2>3. PICK n : /\ DOMAIN outbox' = DOMAIN outbox \cup {n}
                 /\ outbox'[n] = [event |-> e, status |-> "PENDING"]
                 /\ \A i \in DOMAIN outbox : outbox'[i] = outbox[i]
    BY <1>5, EnqueueKeepsStaged
  <2> QED
    BY <2>1, <2>2, <2>3, OutsidePublished
<1>6. ASSUME outbox' = outbox, log' = log, activity' = activity,
             \A h \in Publishers : handler'[h] = handler[h] \/ handler'[h] = Rest
      PROVE  PublishedInv'
  <2>1. Rest.pc = "idle"
    BY DEF Rest
  <2>2. \A h \in Publishers : ReachedOK(h)'
    BY <1>6, <2>1
    DEF PublishedInv, ReachedOK, InTrail, InActivity, Writing, Entry
  <2> QED
    BY <1>6, <2>2 DEF PublishedInv, Recorded, InActivity
<1> QED
  BY <1>3, <1>4, <1>5, <1>6 DEF AuditNext, auditVars, EnqueueFails, Restart

----------------------------------------------------------------------------
(* Nothing is recorded twice.  The action leaves its handler with the      *)
(* entries it had, and records nothing.                                    *)
LEMMA PlaceOnce ==
  ASSUME TypeInv, OnceInv, NEW h \in Publishers, NEW j, Moves(h, j),
         outbox' = outbox, log' = log, activity' = activity,
         shared' = shared, cut' = cut, j.batch = handler[h].batch,
         handler[h].pc \in {"activity", "mark", "fail"} =>
           j.pc \in {"activity", "mark", "fail"},
         handler[h].pc \in {"mark", "fail"} => j.pc \in {"mark", "fail"}
  PROVE  OnceInv'
<1>1. \A o \in Publishers : handler'[o] = IF o = h THEN j ELSE handler[o]
  BY DEF Moves, TypeInv, HandlerTypeOK
<1>2. \A o \in Publishers : handler'[o].batch = handler[o].batch
                         /\ Entry(o)' = Entry(o)
  BY <1>1 DEF Entry
<1>3. \A o \in Publishers : \A i \in DOMAIN outbox :
        /\ PastTrail(o, i) => PastTrail(o, i)'
        /\ PastActivity(o, i) => PastActivity(o, i)'
  BY <1>1, <1>2 DEF PastTrail, PastActivity
<1>4. \A e : /\ InTrail(e)' <=> InTrail(e)
             /\ InActivity(e)' <=> InActivity(e)
             /\ Repeated(e)' <=> Repeated(e)
  BY DEF InTrail, InActivity, Repeated
<1>5. ASSUME NEW i \in DOMAIN outbox, OnceOK(i) PROVE OnceOK(i)'
  <2>1. \A o \in Publishers : i \in handler'[o].batch => outbox'[i].status = "PENDING"
    BY <1>2, <1>5 DEF OnceOK
  <2>2. InTrail(outbox[i].event)' <=> InTrail(outbox[i].event)
    BY DEF InTrail
  <2>3. InActivity(outbox[i].event)' <=> InActivity(outbox[i].event)
    BY DEF InActivity
  <2> QED
    BY <1>2, <1>3, <1>5, <2>1, <2>2, <2>3 DEF OnceOK
<1> QED
  BY <1>2, <1>4, <1>5 DEF OnceInv

(* The one publish that has entry i in hand.                               *)
LEMMA SoleHolder ==
  ASSUME TypeInv, OnceInv, NEW h \in Publishers, NEW o \in Publishers,
         handler[h].batch # {}, Writing(h) \notin shared,
         Entry(h) \in handler[o].batch
  PROVE  o = h
<1>1. Entry(h) \in handler[h].batch /\ Writing(h) = outbox[Entry(h)].event
  BY EntryInBatch
<1> QED
  BY <1>1 DEF OnceInv

LEMMA InsertOnce ==
  ASSUME TypeInv, StagedInv, OnceInv, NEW h \in Publishers, Insert(h)
  PROVE  OnceInv'
<1> DEFINE k == Entry(h)
<1>1. handler[h].batch # {} /\ handler[h].pc = "insert"
  BY HandlerType DEF Insert, HoldsOK
<1>2. k \in handler[h].batch /\ k \in DOMAIN outbox
      /\ Writing(h) \in Events /\ Writing(h) = outbox[k].event
  BY <1>1, EntryInBatch
<1>3. /\ \A o \in Publishers : handler'[o].batch = handler[o].batch
                            /\ Entry(o)' = Entry(o)
      /\ \A o \in Publishers : o # h => handler'[o].pc = handler[o].pc
      /\ handler'[h].pc = "activity"
  BY DEF Insert, Goto, Entry, TypeInv, HandlerTypeOK, Handler
<1>4. \A o \in Publishers : \A i \in DOMAIN outbox :
        /\ PastTrail(o, i) => PastTrail(o, i)'
        /\ PastActivity(o, i) => PastActivity(o, i)'
  BY <1>1, <1>3 DEF PastTrail, PastActivity
<1>5. /\ \A e \in Events : InTrail(e)' <=> InTrail(e) \/ e = Writing(h)
      /\ \A e \in Events : InActivity(e)' <=> InActivity(e)
      /\ outbox' = outbox /\ cut' = cut /\ shared' = shared
  BY InsertRecords
<1>6. ASSUME NEW i \in DOMAIN outbox, OnceOK(i) PROVE OnceOK(i)'
  <2>1. PICK e \in Events : e = outbox[i].event /\ e = outbox'[i].event
    BY <1>5, OutboxElement
  <2>2. \A o \in Publishers : i \in handler'[o].batch => outbox'[i].status = "PENDING"
    BY <1>3, <1>5, <1>6 DEF OnceOK
  <2>3. ASSUME outbox'[i].status = "PENDING", InTrail(e)'
        PROVE  \E o \in Publishers : i \in handler'[o].batch /\ PastTrail(o, i)'
    <3>1. CASE e = Writing(h)
      <4>1. i = k
        BY <1>2, <2>1, <3>1 DEF StagedInv
      <4>2. PastTrail(h, i)'
        BY <1>3, <4>1 DEF PastTrail
      <4> QED
        BY <1>2, <1>3, <4>1, <4>2
    <3>2. CASE e # Writing(h)
      <4>1. InTrail(e) /\ outbox[i].status = "PENDING"
        BY <1>5, <2>3, <3>2
      <4> QED
        BY <1>3, <1>4, <1>6, <2>1, <4>1 DEF OnceOK
    <3> QED
      BY <3>1, <3>2
  <2>4. ASSUME outbox'[i].status = "PENDING", InActivity(e)'
        PROVE  \E o \in Publishers : i \in handler'[o].batch /\ PastActivity(o, i)'
    <3>1. InActivity(e) /\ outbox[i].status = "PENDING"
      BY <1>5, <2>4
    <3> QED
      BY <1>3, <1>4, <1>6, <2>1, <3>1 DEF OnceOK
  <2> HIDE DEF k
  <2> QED
    BY <2>1, <2>2, <2>3, <2>4 DEF OnceOK, InTrail, InActivity
<1>7. ASSUME cut = {}, Writing(h) \notin shared PROVE ~InTrail(Writing(h))
  <2>1. OnceOK(k)
    BY <1>2, <1>7 DEF OnceInv
  <2>2. SUFFICES ASSUME InTrail(outbox[k].event) PROVE FALSE
    BY <1>2
  <2>3. PICK o \in Publishers : k \in handler[o].batch /\ PastTrail(o, k)
    BY <1>2, <2>1, <2>2 DEF OnceOK
  <2>4. o = h
    BY <1>1, <1>7, <2>3, SoleHolder
  <2> QED
    BY <1>1, <2>3, <2>4 DEF PastTrail
<1>8. ASSUME cut = {}, NEW e \in Events \ shared, ~Repeated(e)
      PROVE  ~Repeated(e)'
  <2> DEFINE rec == [event |-> Writing(h), at |-> handler[h].at,
                     prev |-> handler[h].prev]
  <2>1. log' = log \cup {rec} /\ rec.event = Writing(h) /\ activity' = activity
    BY DEF Insert
  <2> HIDE DEF rec, k
  <2>2. e = Writing(h) => ~InTrail(e)
    BY <1>7, <1>8
  <2> QED
    BY <1>8, <2>1, <2>2 DEF Repeated, InTrail
<1> HIDE DEF k
<1> QED
  BY <1>3, <1>5, <1>6, <1>8 DEF OnceInv

LEMMA InsertActivityOnce ==
  ASSUME TypeInv, StagedInv, OnceInv, NEW h \in Publishers, InsertActivity(h)
  PROVE  OnceInv'
<1> DEFINE k == Entry(h)
<1>1. handler[h].batch # {} /\ handler[h].pc = "activity"
  BY HandlerType DEF InsertActivity, HoldsOK
<1>2. k \in handler[h].batch /\ k \in DOMAIN outbox
      /\ Writing(h) \in Events /\ Writing(h) = outbox[k].event
  BY <1>1, EntryInBatch
<1>3. /\ \A o \in Publishers : handler'[o].batch = handler[o].batch
                            /\ Entry(o)' = Entry(o)
      /\ \A o \in Publishers : o # h => handler'[o].pc = handler[o].pc
      /\ handler'[h].pc = "mark"
  BY DEF InsertActivity, Goto, Entry, TypeInv, HandlerTypeOK, Handler
<1>4. \A o \in Publishers : \A i \in DOMAIN outbox :
        /\ PastTrail(o, i) => PastTrail(o, i)'
        /\ PastActivity(o, i) => PastActivity(o, i)'
  BY <1>1, <1>3 DEF PastTrail, PastActivity
<1>5. /\ \A e \in Events : InTrail(e)' <=> InTrail(e)
      /\ \A e \in Events : InActivity(e)' => InActivity(e) \/ e = Writing(h)
      /\ \A e \in Events : Repeated(e)' =>
           Repeated(e) \/ (InActivity(e) /\ e = Writing(h))
      /\ outbox' = outbox /\ cut' = cut /\ shared' = shared
  BY InsertActivityRecords
<1>6. ASSUME NEW i \in DOMAIN outbox, OnceOK(i) PROVE OnceOK(i)'
  <2>1. PICK e \in Events : e = outbox[i].event /\ e = outbox'[i].event
    BY <1>5, OutboxElement
  <2>2. \A o \in Publishers : i \in handler'[o].batch => outbox'[i].status = "PENDING"
    BY <1>3, <1>5, <1>6 DEF OnceOK
  <2>3. ASSUME outbox'[i].status = "PENDING", InTrail(e)'
        PROVE  \E o \in Publishers : i \in handler'[o].batch /\ PastTrail(o, i)'
    <3>1. InTrail(e) /\ outbox[i].status = "PENDING"
      BY <1>5, <2>3
    <3> QED
      BY <1>3, <1>4, <1>6, <2>1, <3>1 DEF OnceOK
  <2>4. ASSUME outbox'[i].status = "PENDING", InActivity(e)'
        PROVE  \E o \in Publishers : i \in handler'[o].batch /\ PastActivity(o, i)'
    <3>1. CASE e = Writing(h)
      <4>1. i = k
        BY <1>2, <2>1, <3>1 DEF StagedInv
      <4>2. PastActivity(h, i)'
        BY <1>3, <4>1 DEF PastActivity
      <4> QED
        BY <1>2, <1>3, <4>1, <4>2
    <3>2. CASE e # Writing(h)
      <4>1. InActivity(e) /\ outbox[i].status = "PENDING"
        BY <1>5, <2>4, <3>2
      <4> QED
        BY <1>3, <1>4, <1>6, <2>1, <4>1 DEF OnceOK
    <3> QED
      BY <3>1, <3>2
  <2> HIDE DEF k
  <2> QED
    BY <2>1, <2>2, <2>3, <2>4 DEF OnceOK, InTrail, InActivity
<1>7. ASSUME cut = {}, Writing(h) \notin shared PROVE ~InActivity(Writing(h))
  <2>1. OnceOK(k)
    BY <1>2, <1>7 DEF OnceInv
  <2>2. SUFFICES ASSUME InActivity(outbox[k].event) PROVE FALSE
    BY <1>2
  <2>3. PICK o \in Publishers : k \in handler[o].batch /\ PastActivity(o, k)
    BY <1>2, <2>1, <2>2 DEF OnceOK
  <2>4. o = h
    BY <1>1, <1>7, <2>3, SoleHolder
  <2> QED
    BY <1>1, <2>3, <2>4 DEF PastActivity
<1>8. ASSUME cut = {}, NEW e \in Events \ shared, ~Repeated(e)
      PROVE  ~Repeated(e)'
  <2> HIDE DEF k
  <2> QED
    BY <1>5, <1>7, <1>8
<1> HIDE DEF k
<1> QED
  BY <1>3, <1>5, <1>6, <1>8 DEF OnceInv

(* The entry leaves the one handler that had it, and is pending no more.   *)
LEMMA MarkOnce ==
  ASSUME TypeInv, OnceInv, NEW h \in Publishers,
         MarkPublished(h) \/ MarkFailed(h)
  PROVE  OnceInv'
<1>0. PICK k : k = Entry(h)
  OBVIOUS
<1>1. handler[h].batch # {}
  BY HandlerType DEF MarkPublished, MarkFailed, HoldsOK
<1>2. k \in handler[h].batch /\ k \in DOMAIN outbox
      /\ Writing(h) = outbox[k].event
  BY <1>0, <1>1, EntryInBatch
<1>3. /\ \A o \in Publishers : o # h => handler'[o] = handler[o]
      /\ handler'[h].batch = handler[h].batch \ {k}
  BY <1>0 DEF MarkPublished, MarkFailed, NextEntry, TypeInv, HandlerTypeOK, Handler
<1>4. /\ log' = log /\ activity' = activity /\ cut' = cut /\ shared' = shared
      /\ DOMAIN outbox' = DOMAIN outbox
      /\ \A i \in DOMAIN outbox : outbox'[i].event = outbox[i].event
      /\ \A i \in DOMAIN outbox : i # k => outbox'[i].status = outbox[i].status
      /\ outbox'[k].status # "PENDING"
  BY <1>0, <1>1, <1>2, SetStatusKeeps DEF MarkPublished, MarkFailed, StagedKept
<1>5. \A e \in Events : /\ InTrail(e)' <=> InTrail(e)
                        /\ InActivity(e)' <=> InActivity(e)
                        /\ Repeated(e)' <=> Repeated(e)
  BY <1>4, SameRecords
<1>6. \A o \in Publishers : \A i \in DOMAIN outbox : i # k =>
        /\ PastTrail(o, i) => PastTrail(o, i)'
        /\ PastActivity(o, i) => PastActivity(o, i)'
        /\ PastTrail(o, i) \/ PastActivity(o, i) => o # h
  BY <1>0, <1>3 DEF PastTrail, PastActivity, Entry
<1>7. ASSUME NEW i \in DOMAIN outbox, i # k, OnceOK(i) PROVE OnceOK(i)'
  <2>1. PICK e \in Events : e = outbox[i].event /\ e = outbox'[i].event
    BY <1>4, OutboxElement
  <2>2. \A o \in Publishers : i \in handler'[o].batch => outbox'[i].status = "PENDING"
    BY <1>3, <1>4, <1>7 DEF OnceOK
  <2>3. ASSUME outbox'[i].status = "PENDING", InTrail(e)'
        PROVE  \E o \in Publishers : i \in handler'[o].batch /\ PastTrail(o, i)'
    <3>1. PICK o \in Publishers : i \in handler[o].batch /\ PastTrail(o, i)
      BY <1>4, <1>5, <1>7, <2>1, <2>3 DEF OnceOK
    <3> QED
      BY <1>3, <1>6, <1>7, <3>1
  <2>4. ASSUME outbox'[i].status = "PENDING", InActivity(e)'
        PROVE  \E o \in Publishers : i \in handler'[o].batch /\ PastActivity(o, i)'
    <3>1. PICK o \in Publishers : i \in handler[o].batch /\ PastActivity(o, i)
      BY <1>4, <1>5, <1>7, <2>1, <2>4 DEF OnceOK
    <3> QED
      BY <1>3, <1>6, <1>7, <3>1
  <2> QED
    BY <2>1, <2>2, <2>3, <2>4 DEF OnceOK, InTrail, InActivity
<1>8. Writing(h) \in shared \/ OnceOK(k)'
  <2>1. ASSUME NEW o \in Publishers, k \in handler'[o].batch
        PROVE  Writing(h) \in shared
    BY <1>0, <1>1, <1>3, <2>1, SoleHolder
  <2> QED
    BY <1>4, <2>1 DEF OnceOK
<1>9. ASSUME NEW o \in Publishers, NEW q \in Publishers,
             NEW i \in handler'[o].batch \cap handler'[q].batch
      PROVE  o = q \/ outbox'[i].event \in shared'
  <2>1. i \in handler[o].batch \cap handler[q].batch /\ i \in DOMAIN outbox
    BY <1>3, HandlerType
  <2> QED
    BY <1>4, <2>1 DEF OnceInv
<1>10. ASSUME cut' = {}, NEW i \in DOMAIN outbox
       PROVE  outbox'[i].event \in shared' \/ OnceOK(i)'
  <2>1. outbox[i].event \in shared \/ OnceOK(i)
    BY <1>4, <1>10 DEF OnceInv
  <2> QED
    BY <1>2, <1>4, <1>7, <1>8, <2>1
<1> QED
  BY <1>4, <1>5, <1>9, <1>10 DEF OnceInv

(* What another publish has in hand at the claim is shared from then on.   *)
LEMMA ClaimOnce ==
  ASSUME TypeInv, OnceInv, NEW h \in Publishers, Claim(h)
  PROVE  OnceInv'
<1>1. /\ handler[h].pc = "claim" /\ handler[h].batch = {}
      /\ \A o \in Publishers : o # h => handler'[o] = handler[o]
      /\ handler'[h].batch = Oldest(Limit)
      /\ outbox' = outbox /\ log' = log /\ activity' = activity /\ cut' = cut
      /\ shared' = shared \cup {outbox[i].event : i \in Held(h) \cap Oldest(Limit)}
  BY HandlerType DEF Claim, HoldsOK, TypeInv, HandlerTypeOK, Handler
<1>2. ASSUME NEW o \in Publishers, o # h,
             NEW i \in handler[o].batch \cap Oldest(Limit)
      PROVE  outbox[i].event \in shared'
  <2>1. i \in Held(h)
    BY <1>2 DEF Held
  <2> QED
    BY <1>1, <2>1
<1>3. \A o \in Publishers : \A i \in DOMAIN outbox :
        i \in handler[o].batch => o # h /\ i \in handler'[o].batch
  BY <1>1
<1>4. \A o \in Publishers : \A i \in DOMAIN outbox : o # h =>
        /\ PastTrail(o, i) => PastTrail(o, i)'
        /\ PastActivity(o, i) => PastActivity(o, i)'
  BY <1>1 DEF PastTrail, PastActivity, Entry
<1>5. ASSUME NEW i \in DOMAIN outbox, OnceOK(i) PROVE OnceOK(i)'
  <2>1. \A o \in Publishers : i \in handler'[o].batch => outbox'[i].status = "PENDING"
    BY <1>1, <1>5, OldestStaged DEF OnceOK
  <2>2. InTrail(outbox[i].event)' <=> InTrail(outbox[i].event)
    BY <1>1 DEF InTrail
  <2>3. InActivity(outbox[i].event)' <=> InActivity(outbox[i].event)
    BY <1>1 DEF InActivity
  <2> QED
    BY <1>1, <1>3, <1>4, <1>5, <2>1, <2>2, <2>3 DEF OnceOK
<1>6. \A e \in Events : Repeated(e)' <=> Repeated(e)
  BY <1>1, SameRecords
<1>7. \A o, q \in Publishers : \A i \in handler'[o].batch \cap handler'[q].batch :
        o = q \/ outbox'[i].event \in shared'
  BY <1>1, <1>2 DEF OnceInv
<1> QED
  BY <1>1, <1>5, <1>6, <1>7 DEF OnceInv

(* A new entry is held by nobody, and its event is recorded nowhere.       *)
LEMMA EnqueueOnce ==
  ASSUME TypeInv, StagedInv, OnceInv, NEW h \in Publishers, NEW e \in Events,
         Enqueue(h, e)
  PROVE  OnceInv'
<1>1. /\ \A o \in Publishers : handler'[o].batch = handler[o].batch
                            /\ Entry(o)' = Entry(o)
      /\ \A o \in Publishers : o # h => handler'[o] = handler[o]
      /\ handler[h].batch = {}
      /\ log' = log /\ activity' = activity /\ cut' = cut /\ shared' = shared
      /\ e \in todo
  BY HandlerType DEF Enqueue, HoldsOK, Entry, TypeInv, HandlerTypeOK, Handler
<1>2. PICK n : /\ DOMAIN outbox' = DOMAIN outbox \cup {n}
               /\ n \notin DOMAIN outbox
               /\ outbox'[n] = [event |-> e, status |-> "PENDING"]
               /\ \A i \in DOMAIN outbox : outbox'[i] = outbox[i]
  BY EnqueueKeepsStaged
<1>3. \A o \in Publishers : handler[o].batch \subseteq DOMAIN outbox
  BY HandlerType
<1>4. \A x \in Events : /\ InTrail(x)' <=> InTrail(x)
                        /\ InActivity(x)' <=> InActivity(x)
                        /\ Repeated(x)' <=> Repeated(x)
  BY <1>1, SameRecords
<1>5. ASSUME NEW i \in DOMAIN outbox, OnceOK(i) PROVE OnceOK(i)'
  <2>1. PICK x \in Events : x = outbox[i].event /\ x = outbox'[i].event
    BY <1>2, OutboxElement
  <2>2. outbox'[i].status = outbox[i].status
    BY <1>2
  <2>3. \A o \in Publishers : i \in handler[o].batch =>
          /\ PastTrail(o, i) => PastTrail(o, i)'
          /\ PastActivity(o, i) => PastActivity(o, i)'
    BY <1>1 DEF PastTrail, PastActivity
  <2>4. InTrail(outbox[i].event)' <=> InTrail(outbox[i].event)
    BY <1>1, <2>1 DEF InTrail
  <2>5. InActivity(outbox[i].event)' <=> InActivity(outbox[i].event)
    BY <1>1, <2>1 DEF InActivity
  <2> QED
    BY <1>1, <1>5, <2>2, <2>3, <2>4, <2>5 DEF OnceOK
<1>6. OnceOK(n)'
  <2>1. ~InTrail(e) /\ ~InActivity(e)
    BY <1>1 DEF StagedInv
  <2>2. \A o \in Publishers : n \notin handler'[o].batch
    BY <1>1, <1>2, <1>3
  <2> QED
    BY <1>2, <1>4, <2>1, <2>2 DEF OnceOK, InTrail, InActivity
<1>7. ASSUME NEW o \in Publishers, NEW q \in Publishers,
             NEW i \in handler'[o].batch \cap handler'[q].batch
      PROVE  o = q \/ outbox'[i].event \in shared'
  <2>1. i \in handler[o].batch \cap handler[q].batch /\ i \in DOMAIN outbox
    BY <1>1, <1>3
  <2> QED
    BY <1>1, <1>2, <2>1 DEF OnceInv
<1>8. ASSUME cut' = {}, NEW i \in DOMAIN outbox'
      PROVE  outbox'[i].event \in shared' \/ OnceOK(i)'
  BY <1>1, <1>2, <1>5, <1>6, <1>8 DEF OnceInv
<1> QED
  BY <1>1, <1>4, <1>7, <1>8 DEF OnceInv

(* A restart that cuts nothing short found every handler idle.             *)
LEMMA EndOnce ==
  ASSUME TypeInv, OnceInv,
         \/ Restart
         \/ \E h \in Publishers : MarkFailedFails(h)
         \/ \E h \in Publishers, e \in Events : EnqueueFails(h, e)
         \/ UNCHANGED auditVars
  PROVE  OnceInv'
<1>1. /\ outbox' = outbox /\ log' = log /\ activity' = activity
      /\ shared' = shared
      /\ \A h \in Publishers : handler'[h] = handler[h] \/ handler'[h] = Rest
  BY DEF Restart, MarkFailedFails, EnqueueFails, auditVars, TypeInv, HandlerTypeOK
<1>2. Rest.batch = {} /\ Rest.pc = "idle"
  BY DEF Rest
<1>3. ASSUME cut' = {}
      PROVE  /\ cut = {}
             /\ \A h \in Publishers :
                  handler'[h] = handler[h] \/ handler[h].pc = "idle"
  <2>1. CASE Restart
    <3>1. cut' = cut \cup ({handler[h].event : h \in Publishers} \ {None})
      BY <2>1 DEF Restart
    <3>2. \A h \in Publishers : handler[h].event \in Events => handler[h].event # None
      BY PipelineAssumption
    <3>3. \A h \in Publishers : handler[h].pc = "idle"
      BY <1>3, <3>1, <3>2, HandlerType DEF HoldsOK
    <3> QED
      BY <1>3, <3>1, <3>3
  <2>2. ASSUME NEW h \in Publishers, MarkFailedFails(h) PROVE FALSE
    BY <1>3, <2>2 DEF MarkFailedFails
  <2>3. ASSUME NEW h \in Publishers, NEW e \in Events, EnqueueFails(h, e) PROVE FALSE
    BY <1>3, <2>3 DEF EnqueueFails
  <2>4. CASE UNCHANGED auditVars
    BY <1>3, <2>4 DEF auditVars
  <2> QED
    BY <2>1, <2>2, <2>3, <2>4
<1>4. \A h, o \in Publishers : \A i \in handler'[h].batch \cap handler'[o].batch :
        h = o \/ outbox'[i].event \in shared'
  BY <1>1, <1>2 DEF OnceInv
<1>5. \A e \in Events : Repeated(e)' <=> Repeated(e)
  BY <1>1, SameRecords
<1>6. ASSUME cut' = {}, NEW i \in DOMAIN outbox, OnceOK(i) PROVE OnceOK(i)'
  <2>1. \A h \in Publishers :
          /\ i \in handler'[h].batch => i \in handler[h].batch
          /\ i \in handler[h].batch => i \in handler'[h].batch
          /\ i \in handler[h].batch /\ PastTrail(h, i) => PastTrail(h, i)'
          /\ i \in handler[h].batch /\ PastActivity(h, i) => PastActivity(h, i)'
    BY <1>1, <1>2, <1>3, <1>6, HandlerType
    DEF PastTrail, PastActivity, Entry, HoldsOK
  <2>2. InTrail(outbox[i].event)' <=> InTrail(outbox[i].event)
    BY <1>1 DEF InTrail
  <2>3. InActivity(outbox[i].event)' <=> InActivity(outbox[i].event)
    BY <1>1 DEF InActivity
  <2> QED
    BY <1>1, <1>6, <2>1, <2>2, <2>3 DEF OnceOK
<1> QED
  BY <1>1, <1>3, <1>4, <1>5, <1>6 DEF OnceInv

LEMMA NextOnce ==
  ASSUME TypeInv, StagedInv, OnceInv, LatestExists, [AuditNext]_auditVars
  PROVE  OnceInv'
<1>1. \A h \in Publishers : handler[h] \in Handler /\ HoldsOK(h)
  BY HandlerType
<1>2. ASSUME NEW h \in Publishers, Step(h) PROVE OnceInv'
  <2>1. CASE Finish(h)
    BY <2>1, FinishMoves, PlaceOnce DEF Finish, Rest
  <2>2. CASE ReadLatest(h)
    <3> DEFINE j == [handler[h] EXCEPT !.pc = "stamp", !.prev = Latest]
    <3>1. Moves(h, j) /\ j.batch = handler[h].batch /\ handler[h].pc = "write"
      BY <2>2, <1>1, ReadLatestMoves DEF Handler, ReadLatest
    <3> HIDE DEF j
    <3> QED
      BY <2>2, <3>1, PlaceOnce DEF ReadLatest
  <2>3. CASE Stamp(h)
    <3> DEFINE j == [handler[h] EXCEPT !.pc = "insert", !.at = clock]
    <3>1. Moves(h, j) /\ j.batch = handler[h].batch /\ handler[h].pc = "stamp"
      BY <2>3, <1>1, StampMoves DEF Handler, Stamp
    <3> HIDE DEF j
    <3> QED
      BY <2>3, <3>1, PlaceOnce DEF Stamp
  <2>4. CASE SkipAudit(h)
    <3>1. WithPc(h, "activity").batch = handler[h].batch
          /\ handler[h].pc = "write" /\ Moves(h, WithPc(h, "activity"))
      BY <2>4, <1>1, SkipAuditMoves DEF Handler, WithPc, SkipAudit
    <3> QED
      BY <2>4, <3>1, PlaceOnce DEF SkipAudit
  <2> QED
    BY <1>2, <2>1, <2>2, <2>3, <2>4, ClaimOnce, InsertOnce, InsertActivityOnce,
       MarkOnce DEF Step
<1>3. ASSUME NEW h \in Publishers, WriteFails(h) PROVE OnceInv'
  <2> DEFINE j == WithPc(h, "fail")
  <2>1. j.batch = handler[h].batch /\ j.pc = "fail" /\ Moves(h, j)
    BY <1>3, <1>1, WriteFailsMoves DEF Handler, WithPc
  <2> HIDE DEF j
  <2> QED
    BY <1>3, <2>1, PlaceOnce DEF WriteFails
<1> QED
  BY <1>2, <1>3, EnqueueOnce, EndOnce DEF AuditNext

----------------------------------------------------------------------------
LEMMA InitIInv == ASSUME AuditInit PROVE IInv
<1>1. /\ outbox = <<>> /\ log = {} /\ activity = <<>> /\ clock = 1
      /\ handler = [h \in Publishers |-> Rest]
      /\ cut = {} /\ forked = FALSE /\ shared = {} /\ faults = 0
      /\ todo \subseteq Events
  BY DEF AuditInit
<1>2. DOMAIN outbox = {} /\ DOMAIN activity = {}
  BY <1>1
<1>3. \A h \in Publishers : handler[h] = Rest
  BY <1>1
<1>4. /\ Rest.pc = "idle" /\ Rest.batch = {}
  BY DEF Rest
<1>5. TypeInv
  <2>1. LogTypeOK
    <3>1. activity \in Seq(Events)
      BY <1>1, EmptySeq
    <3>2. faults \in 0 .. MaxFaults
      BY <1>1, PipelineAssumption
    <3> QED
      BY <1>1, <3>1, <3>2 DEF LogTypeOK
  <2>2. OutboxTypeOK
    BY <1>1, EmptySeq DEF OutboxTypeOK
  <2>3. HandlerTypeOK /\ \A h \in Publishers : HoldsOK(h)
    BY <1>1, <1>3, <1>4, IdleType DEF HandlerTypeOK, HoldsOK
  <2> QED
    BY <2>1, <2>2, <2>3 DEF TypeInv
<1>6. ChainInv
  BY <1>1, <1>3, <1>4
  DEF ChainInv, LatestExists, ChainIntact, AppendingHere, AppendOK
<1>7. StagedInv
  BY <1>1, <1>2 DEF StagedInv, InTrail, InActivity
<1>8. PublishedInv
  BY <1>2, <1>3, <1>4 DEF PublishedInv, ReachedOK
<1>9. OnceInv
  BY <1>1, <1>2, <1>3, <1>4 DEF OnceInv, Repeated
<1> QED
  BY <1>5, <1>6, <1>7, <1>8, <1>9 DEF IInv

(* The inductive invariant of the pipeline.                                *)
THEOREM PipelineInvariant == AuditSpec => []IInv
<1>1. AuditInit => IInv
  BY InitIInv
<1>2. IInv /\ [AuditNext]_auditVars => IInv'
  BY NextTyped, NextChain, NextStaged, NextPublished, NextOnce
  DEF IInv, ChainInv
<1> QED
  BY <1>1, <1>2, PTL DEF AuditSpec

(* The state of the pipeline keeps its type: a claimed entry is in the     *)
(* outbox (audit-publisher.js, outbox.repository.js).                      *)
THEOREM AuditTypeCorrect == AuditSpec => []AuditTypeOK
<1>1. IInv => AuditTypeOK
  BY DEF IInv, TypeInv, LogTypeOK, OutboxTypeOK, HandlerTypeOK, AuditTypeOK
<1> QED
  BY <1>1, PipelineInvariant, PTL

(* The hash chain of the audit trail verifies, whatever fails or restarts, *)
(* as long as no append begins while another is under way                  *)
(* (audit-event.repository.js append).                                     *)
THEOREM ChainVerifies == AuditSpec => []ChainValid
<1>1. IInv => ChainValid
  BY DEF IInv, ChainInv, ChainValid, TypeInv, LogTypeOK
<1> QED
  BY <1>1, PipelineInvariant, PTL

(* A published entry reached all its surfaces, and no event is recorded    *)
(* twice unless two publishes had claimed its entry at once or a publish   *)
(* was cut short (audit-publisher.js dispatchPending).                     *)
THEOREM RecordedOnce == AuditSpec => []PublishedOnce
<1>1. IInv => PublishedOnce
  BY DEF IInv, PublishedInv, OnceInv, PublishedOnce
<1> QED
  BY <1>1, PipelineInvariant, PTL
=============================================================================
