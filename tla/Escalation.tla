------------------------------ MODULE Escalation ------------------------------
(***************************************************************************)
(* Escalating one request: ApprovalService.escalate with                   *)
(* EscalationService.recordEscalation, and the sweep.  Calls interleave at *)
(* their database calls; the clock counts in a unit of which the window    *)
(* has a few.  Who may escalate, and the texts, are left out; nobody       *)
(* subscribes to request.escalated.                                        *)
(***************************************************************************)
EXTENDS Naturals, Sequences, FiniteSets

CONSTANTS
  Escalators,           \* calls
  Window,               \* escalationRateLimit.windowMs
  MaxRecent,            \* escalationRateLimit.max
  MaxPending,           \* escalationConfig.maxPendingDays
  MaxTime, MaxCalls     \* bounds: the clock, and calls and sweeps made

ASSUME EscalationAssumption ==
  {Window, MaxRecent, MaxPending, MaxTime, MaxCalls} \subseteq Nat

VARIABLES
  clock,
  pending,       \* is the request pending?  It was submitted at the start
  escalating,    \* escalating[c]: the call under way
  escalations,   \* rows: when, and whether others were under way
  told,          \* ESCALATED entries of the request's history
  swept,         \* ESCALATION.TRIGGERED entries
  made           \* calls and sweeps made

escalationVars == <<clock, pending, escalating, escalations, told, swept, made>>

NoEscalation == [pc |-> "none", now |-> 0, raced |-> FALSE]

EscalationInit ==
  /\ clock = 0 /\ pending = TRUE
  /\ escalating = [c \in Escalators |-> NoEscalation]
  /\ escalations = <<>> /\ told = 0 /\ swept = 0 /\ made = 0

UnderWay == {c \in Escalators : escalating[c].pc \in {"count", "create"}}

(* The request is read, and only a pending one is escalated; now is the    *)
(* time of this moment.                                                    *)
Escalate(c) ==
  /\ escalating[c].pc = "none" /\ pending /\ made < MaxCalls
  /\ escalating' = [d \in Escalators |->
       IF d = c THEN [pc |-> "count", now |-> clock, raced |-> UnderWay # {}]
       ELSE [escalating[d] EXCEPT !.raced = @ \/ d \in UnderWay]]
  /\ made' = made + 1
  /\ UNCHANGED <<clock, pending, escalations, told, swept>>

CountByRequestSince(now) ==
  Cardinality({i \in DOMAIN escalations : escalations[i].at + Window >= now})

(* Mutant of WithinLimit: the limit is compared one too late.              *)
WithinOrAtLimit(now) == CountByRequestSince(now) <= MaxRecent

WithinLimit(now) == CountByRequestSince(now) < MaxRecent

CheckLimit(c) ==
  /\ escalating[c].pc = "count"
  /\ escalating' = [escalating EXCEPT ![c] =
       IF WithinLimit(@.now) THEN [@ EXCEPT !.pc = "create"] ELSE NoEscalation]
  /\ UNCHANGED <<clock, pending, escalations, told, swept, made>>

CreateRow(c) ==
  /\ escalating[c].pc = "create"
  /\ escalations' = Append(escalations, [at |-> clock, raced |-> escalating[c].raced])
  /\ escalating' = [escalating EXCEPT ![c].pc = "history"]
  /\ UNCHANGED <<clock, pending, told, swept, made>>

(* The history entry; the audit entry and the event follow.                *)
AppendHistory(c) ==
  /\ escalating[c].pc = "history"
  /\ told' = told + 1
  /\ escalating' = [escalating EXCEPT ![c] = NoEscalation]
  /\ UNCHANGED <<clock, pending, escalations, swept, made>>

EscalationFails(c) ==
  /\ escalating[c].pc # "none"
  /\ escalating' = [escalating EXCEPT ![c] = NoEscalation]
  /\ UNCHANGED <<clock, pending, escalations, told, swept, made>>

(* checkPendingRequests, for this request: an entry each time it is asked  *)
(* for, whatever was written before.                                       *)
CheckPendingRequests ==
  /\ pending /\ clock >= MaxPending /\ made < MaxCalls
  /\ swept' = swept + 1 /\ made' = made + 1
  /\ UNCHANGED <<clock, pending, escalating, escalations, told>>

RequestEnds ==
  /\ pending /\ pending' = FALSE
  /\ UNCHANGED <<clock, escalating, escalations, told, swept, made>>

Tick ==
  /\ clock < MaxTime /\ clock' = clock + 1
  /\ UNCHANGED <<pending, escalating, escalations, told, swept, made>>

EscalationNext ==
  \/ \E c \in Escalators :
       Escalate(c) \/ CheckLimit(c) \/ CreateRow(c) \/ AppendHistory(c) \/ EscalationFails(c)
  \/ CheckPendingRequests \/ RequestEnds \/ Tick

EscalationSpec == EscalationInit /\ [][EscalationNext]_escalationVars

----------------------------------------------------------------------------
(* An escalation whose call met no other one finds fewer than the limit in *)
(* the window that ends with it, however long the call takes; and no       *)
(* history entry is without its row.                                       *)
EscalationsLimited ==
  /\ told <= Len(escalations)
  /\ \A i \in DOMAIN escalations : ~escalations[i].raced =>
       Cardinality({j \in 1 .. i : escalations[j].at + Window >= escalations[i].at}) <= MaxRecent
=============================================================================
