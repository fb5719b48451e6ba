------------------------------ MODULE DeskProofs ------------------------------
(***************************************************************************)
(* Proofs about what the pages of one person meet: how often a request is  *)
(* escalated, what the clock panel holds on to and sends, who is told of   *)
(* an event, and whether what the shell shows is served; for any numbers   *)
(* of calls, visits, events and changes.                                   *)
(***************************************************************************)
EXTENDS Escalation, ClockPanel, Notices, Screens, FiniteSetTheorems, SequenceTheorems,
        TLAPS

----------------------------------------------------------------------------
(* Escalation                                                              *)

EscalationCall == [pc : {"none", "count", "create", "history"}, now : Nat, raced : BOOLEAN]
EscalationRow == [at : Nat, raced : BOOLEAN]

EscalationType ==
  /\ clock \in Nat /\ pending \in BOOLEAN
  /\ escalating \in [Escalators -> EscalationCall]
  /\ escalations \in Seq(EscalationRow)
  /\ told \in Nat /\ swept \in Nat /\ made \in Nat

(* Every entry, and every one that is still to be written, has its row.    *)
ToTell == {c \in Escalators : escalating[c].pc = "history"}
EntriesFit == IsFiniteSet(ToTell) /\ told + Cardinality(ToTell) <= Len(escalations)

(* A call that has met no other is alone, and what it counted still holds. *)
AloneFits(c) ==
  /\ escalating[c].now <= clock
  /\ c \in UnderWay /\ ~escalating[c].raced =>
       /\ \A d \in UnderWay : d = c
       /\ escalating[c].pc = "create" => WithinLimit(escalating[c].now)

(* The rows in the window that ends with one, the row itself among them.   *)
RowsBefore(i) == {j \in 1 .. i : escalations[j].at + Window >= escalations[i].at}
RowsFit ==
  \A i \in DOMAIN escalations :
    ~escalations[i].raced => Cardinality(RowsBefore(i)) <= MaxRecent

EscalationInv ==
  EscalationType /\ EntriesFit /\ (\A c \in Escalators : AloneFits(c)) /\ RowsFit

(* Who counts within a window, counts no more of the same rows in a later  *)
(* one.                                                                    *)
InWindow(t) == {i \in DOMAIN escalations : escalations[i].at + Window >= t}
LEMMA WindowShrinks ==
  ASSUME EscalationType, NEW a \in Nat, NEW b \in Nat, a <= b
  PROVE  /\ IsFiniteSet(InWindow(a)) /\ IsFiniteSet(InWindow(b))
         /\ Cardinality(InWindow(b)) <= Cardinality(InWindow(a))
         /\ Cardinality(InWindow(a)) \in Nat /\ Cardinality(InWindow(b)) \in Nat
<1>1. DOMAIN escalations = 1 .. Len(escalations) /\ Len(escalations) \in Nat
  BY DEF EscalationType
<1>2. IsFiniteSet(1 .. Len(escalations))
  BY <1>1, FS_Interval
<1>3. IsFiniteSet(InWindow(a)) /\ IsFiniteSet(InWindow(b))
  BY <1>1, <1>2, FS_Subset DEF InWindow
<1>4. \A i \in DOMAIN escalations : escalations[i].at \in Nat
  <2>1. \A i \in DOMAIN escalations : escalations[i] \in EscalationRow
    BY DEF EscalationType
  <2> QED
    BY <2>1 DEF EscalationRow
<1>5. InWindow(b) \subseteq InWindow(a)
  BY <1>4, EscalationAssumption DEF InWindow
<1> QED
  BY <1>3, <1>5, FS_Subset, FS_CardinalityType

(* A step that leaves the rows and the entries as they are.                *)
LEMMA RowsStay ==
  ASSUME EscalationInv, UNCHANGED escalations
  PROVE  RowsFit' /\ \A t : InWindow(t)' = InWindow(t)
BY DEF EscalationInv, RowsFit, RowsBefore, InWindow

LEMMA EscalateKeeps ==
  ASSUME EscalationInv, NEW c \in Escalators, Escalate(c)
  PROVE  EscalationInv'
<1>1. /\ escalating[c].pc = "none"
      /\ escalating' = [d \in Escalators |->
           IF d = c THEN [pc |-> "count", now |-> clock, raced |-> UnderWay # {}]
           ELSE [escalating[d] EXCEPT !.raced = @ \/ d \in UnderWay]]
      /\ made' = made + 1 /\ UNCHANGED <<clock, pending, escalations, told, swept>>
  BY DEF Escalate
<1>2. \A d \in Escalators : escalating[d] \in EscalationCall
  BY DEF EscalationInv, EscalationType
<1>3. \A d \in Escalators \ {c} :
        /\ escalating'[d] \in EscalationCall
        /\ escalating'[d].pc = escalating[d].pc /\ escalating'[d].now = escalating[d].now
        /\ ~escalating'[d].raced => ~escalating[d].raced /\ d \notin UnderWay
  BY <1>1, <1>2 DEF EscalationCall
<1>4. /\ escalating'[c] \in EscalationCall
      /\ escalating'[c].pc = "count" /\ escalating'[c].now = clock
      /\ ~escalating'[c].raced => UnderWay = {}
  BY <1>1 DEF EscalationCall, EscalationInv, EscalationType
<1>5. EscalationType'
  <2>1. escalating' \in [Escalators -> EscalationCall]
    BY <1>1, <1>3, <1>4
  <2> QED
    BY <1>1, <2>1 DEF EscalationInv, EscalationType
<1>6. EntriesFit'
  <2>1. ToTell' = ToTell
    BY <1>1, <1>3, <1>4 DEF ToTell
  <2> QED
    BY <1>1, <2>1 DEF EscalationInv, EntriesFit
<1>7. UnderWay' = UnderWay \cup {c}
  BY <1>3, <1>4 DEF UnderWay
<1>8. ASSUME NEW d \in Escalators
      PROVE  AloneFits(d)'
  <2>1. CASE d = c
    BY <1>1, <1>4, <1>7, <2>1 DEF AloneFits, EscalationInv, EscalationType
  <2>2. CASE d # c
    BY <1>1, <1>3, <1>7, <2>2 DEF AloneFits, EscalationInv
  <2> QED
    BY <2>1, <2>2
<1> QED
  BY <1>1, <1>5, <1>6, <1>8, RowsStay DEF EscalationInv

(* A call that ends, whatever it was at.                                   *)
LEMMA CallEndsKeeps ==
  ASSUME EscalationInv, NEW c \in Escalators, escalating[c].pc # "none",
         escalating' = [escalating EXCEPT ![c] = NoEscalation],
         UNCHANGED <<clock, pending, escalations, swept, made>>,
         \/ UNCHANGED told
         \/ escalating[c].pc = "history" /\ told' = told + 1
  PROVE  EscalationInv'
<1>1. /\ NoEscalation \in EscalationCall /\ NoEscalation.pc = "none" /\ NoEscalation.now = 0
  BY DEF NoEscalation, EscalationCall
<1>2. \A d \in Escalators : escalating'[d] = IF d = c THEN NoEscalation ELSE escalating[d]
  BY DEF EscalationInv, EscalationType
<1>3. EscalationType'
  <2>1. told' \in Nat
    BY DEF EscalationInv, EscalationType
  <2> QED
    BY <1>1, <2>1 DEF EscalationInv, EscalationType
<1>4. EntriesFit'
  <2>1. ToTell' = ToTell \ {c} /\ IsFiniteSet(ToTell)
    BY <1>1, <1>2 DEF ToTell, EscalationInv, EntriesFit
  <2>2. /\ IsFiniteSet(ToTell') /\ Cardinality(ToTell) \in Nat /\ Cardinality(ToTell') \in Nat
        /\ Cardinality(ToTell') = IF c \in ToTell THEN Cardinality(ToTell) - 1
                                  ELSE Cardinality(ToTell)
    BY <2>1, FS_RemoveElement, FS_CardinalityType
  <2>3. /\ told \in Nat /\ told' \in Nat /\ Len(escalations) \in Nat
        /\ told + Cardinality(ToTell) <= Len(escalations)
    BY <1>3 DEF EscalationInv, EscalationType, EntriesFit
  <2>4. told' = told \/ (c \in ToTell /\ told' = told + 1)
    BY DEF ToTell
  <2>5. told' + Cardinality(ToTell') <= Len(escalations)
    BY <2>2, <2>3, <2>4
  <2> QED
    BY <2>2, <2>5 DEF EntriesFit
<1>5. UnderWay' = UnderWay \ {c}
  BY <1>1, <1>2 DEF UnderWay
<1>6. ASSUME NEW d \in Escalators
      PROVE  AloneFits(d)'
  <2>1. CASE d = c
    BY <1>1, <1>2, <1>5, <2>1 DEF AloneFits, EscalationInv, EscalationType
  <2>2. CASE d # c
    BY <1>2, <1>5, <2>2, ZenonT(60) DEF AloneFits, EscalationInv, WithinLimit, CountByRequestSince
  <2> QED
    BY <2>1, <2>2
<1> QED
  BY <1>3, <1>4, <1>6, RowsStay DEF EscalationInv

LEMMA CheckLimitKeeps ==
  ASSUME EscalationInv, NEW c \in Escalators, CheckLimit(c)
  PROVE  EscalationInv'
<1>1. CASE ~WithinLimit(escalating[c].now)
  <2>1. escalating' = [escalating EXCEPT ![c] = NoEscalation] /\ escalating[c].pc # "none"
    BY <1>1 DEF CheckLimit
  <2> QED
    BY <2>1, CallEndsKeeps DEF CheckLimit
<1>2. CASE WithinLimit(escalating[c].now)
  <2>1. PICK k \in EscalationCall : k = escalating[c]
    BY DEF EscalationInv, EscalationType
  <2>2. PICK j : j = [k EXCEPT !.pc = "create"]
    OBVIOUS
  <2>3. /\ j \in EscalationCall /\ j.pc = "create" /\ j.now = k.now /\ j.raced = k.raced
    BY <2>1, <2>2 DEF EscalationCall
  <2>4. /\ k.pc = "count" /\ escalating' = [escalating EXCEPT ![c] = j]
        /\ UNCHANGED <<clock, pending, escalations, told, swept, made>>
    BY <1>2, <2>1, <2>2 DEF CheckLimit
  <2>5. \A d \in Escalators : escalating'[d] = IF d = c THEN j ELSE escalating[d]
    BY <2>4 DEF EscalationInv, EscalationType
  <2>6. EscalationType'
    BY <2>3, <2>4 DEF EscalationInv, EscalationType
  <2>7. ToTell' = ToTell /\ UnderWay' = UnderWay
    BY <2>1, <2>3, <2>4, <2>5 DEF ToTell, UnderWay
  <2>8. EntriesFit'
    BY <2>4, <2>7 DEF EscalationInv, EntriesFit
  <2>9. \A t : WithinLimit(t)' <=> WithinLimit(t)
    BY <2>4 DEF WithinLimit, CountByRequestSince
  <2>10. ASSUME NEW d \in Escalators
         PROVE  AloneFits(d)'
    <3>1. CASE d = c
      <4>1. AloneFits(c) /\ WithinLimit(k.now)
        BY <1>2, <2>1 DEF EscalationInv
      <4>2. k.now <= clock' /\ escalating'[c] = j
        BY <2>1, <2>4, <2>5, <4>1 DEF AloneFits
      <4>3. c \in UnderWay /\ ~k.raced => \A e \in UnderWay : e = c
        BY <2>1, <4>1 DEF AloneFits
      <4> QED
        BY <2>3, <2>7, <2>9, <3>1, <4>1, <4>2, <4>3 DEF AloneFits
    <3>2. CASE d # c
      BY <2>4, <2>5, <2>7, <2>9, <3>2 DEF AloneFits, EscalationInv
    <3> QED
      BY <3>1, <3>2
  <2> QED
    BY <2>4, <2>6, <2>8, <2>10, RowsStay DEF EscalationInv
<1> QED
  BY <1>1, <1>2

LEMMA CreateRowKeeps ==
  ASSUME EscalationInv, NEW c \in Escalators, CreateRow(c)
  PROVE  EscalationInv'
<1>1. PICK k \in EscalationCall : k = escalating[c]
  BY DEF EscalationInv, EscalationType
<1>2. PICK j : j = [k EXCEPT !.pc = "history"]
  OBVIOUS
<1>3. j \in EscalationCall /\ j.pc = "history" /\ j.now = k.now
  BY <1>1, <1>2 DEF EscalationCall
<1>4. PICK r : r = [at |-> clock, raced |-> k.raced]
  OBVIOUS
<1>5. r \in EscalationRow /\ r.at = clock /\ r.raced = k.raced
  BY <1>1, <1>4 DEF EscalationRow, EscalationCall, EscalationInv, EscalationType
<1>6. /\ k.pc = "create" /\ escalating' = [escalating EXCEPT ![c] = j]
      /\ escalations' = Append(escalations, r)
      /\ UNCHANGED <<clock, pending, told, swept, made>>
  BY <1>1, <1>2, <1>4 DEF CreateRow
<1>7. \A d \in Escalators : escalating'[d] = IF d = c THEN j ELSE escalating[d]
  BY <1>6 DEF EscalationInv, EscalationType
<1>8. EscalationType'
  BY <1>3, <1>5, <1>6 DEF EscalationInv, EscalationType
<1>9. PICK n \in Nat : n = Len(escalations)
  BY DEF EscalationInv, EscalationType
<1>10. /\ Len(escalations') = n + 1 /\ escalations'[n + 1] = r
       /\ DOMAIN escalations' = 1 .. n + 1 /\ DOMAIN escalations = 1 .. n
       /\ \A i \in 1 .. n : escalations'[i] = escalations[i]
  BY <1>5, <1>6, <1>9 DEF EscalationInv, EscalationType
<1>11. EntriesFit'
  <2>1. ToTell' = ToTell \cup {c} /\ c \notin ToTell /\ IsFiniteSet(ToTell)
    BY <1>1, <1>3, <1>6, <1>7 DEF ToTell, EscalationInv, EntriesFit
  <2>2. /\ IsFiniteSet(ToTell') /\ Cardinality(ToTell) \in Nat
        /\ Cardinality(ToTell') = Cardinality(ToTell) + 1
    BY <2>1, FS_AddElement, FS_CardinalityType
  <2>3. told \in Nat /\ told' = told /\ told + Cardinality(ToTell) <= n
    BY <1>6, <1>9 DEF EscalationInv, EscalationType, EntriesFit
  <2>4. told' + Cardinality(ToTell') <= n + 1
    BY <2>2, <2>3
  <2> QED
    BY <1>10, <2>2, <2>4 DEF EntriesFit
<1>12. c \in UnderWay /\ UnderWay' = UnderWay \ {c}
  BY <1>1, <1>3, <1>6, <1>7 DEF UnderWay
<1>13. ASSUME NEW d \in Escalators
       PROVE  AloneFits(d)'
  <2>1. AloneFits(d) /\ AloneFits(c)
    BY DEF EscalationInv
  <2>2. escalating'[d].now <= clock'
    BY <1>1, <1>3, <1>6, <1>7, <2>1 DEF AloneFits
  <2>3. CASE d = c
    BY <1>12, <2>2, <2>3 DEF AloneFits
  <2>4. CASE d # c
    BY <1>7, <1>12, <2>1, <2>2, <2>4 DEF AloneFits
  <2> QED
    BY <2>3, <2>4
<1>14. RowsFit'
  <2> SUFFICES ASSUME NEW i \in DOMAIN escalations', ~escalations'[i].raced
               PROVE  Cardinality(RowsBefore(i)') <= MaxRecent
    BY DEF RowsFit
  <2>1. CASE i \in 1 .. n
    <3>1. RowsBefore(i)' = RowsBefore(i)
      BY <1>9, <1>10, <2>1 DEF RowsBefore
    <3> QED
      BY <1>10, <2>1, <3>1 DEF EscalationInv, RowsFit
  <2>2. CASE i = n + 1
    <3>1. k.now \in Nat /\ clock \in Nat /\ k.now <= clock /\ ~k.raced
      BY <1>1, <1>5, <1>10, <2>2 DEF EscalationCall, AloneFits, EscalationInv, EscalationType
    <3>2. Cardinality(InWindow(k.now)) < MaxRecent
      BY <1>1, <1>6, <1>12, <3>1
      DEF EscalationInv, AloneFits, WithinLimit, CountByRequestSince, InWindow
    <3>3. /\ IsFiniteSet(InWindow(clock)) /\ Cardinality(InWindow(clock)) \in Nat
          /\ Cardinality(InWindow(k.now)) \in Nat
          /\ Cardinality(InWindow(clock)) <= Cardinality(InWindow(k.now))
      BY <3>1, WindowShrinks DEF EscalationInv
    <3>4. RowsBefore(n + 1)' = InWindow(clock) \cup {n + 1} /\ n + 1 \notin InWindow(clock)
      <4>1. clock + Window >= clock
        BY <3>1, EscalationAssumption
      <4>2. \A m \in 1 .. n + 1 : m \in 1 .. n \/ m = n + 1
        BY <1>9
      <4> QED
        BY <1>5, <1>9, <1>10, <4>1, <4>2 DEF RowsBefore, InWindow
    <3>5. Cardinality(RowsBefore(n + 1)') = Cardinality(InWindow(clock)) + 1
      BY <3>3, <3>4, FS_AddElement
    <3> QED
      BY <2>2, <3>2, <3>3, <3>5, EscalationAssumption
  <2> QED
    BY <1>9, <1>10, <2>1, <2>2
<1> QED
  BY <1>8, <1>11, <1>13, <1>14 DEF EscalationInv

(* Steps of nobody's call.                                                 *)
LEMMA AsideKeeps ==
  ASSUME EscalationInv, UNCHANGED <<escalating, escalations, told>>,
         clock' \in Nat, clock <= clock', pending' \in BOOLEAN, swept' \in Nat, made' \in Nat
  PROVE  EscalationInv'
<1>1. EscalationType'
  BY DEF EscalationInv, EscalationType
<1>2. EntriesFit'
  BY DEF EscalationInv, EntriesFit, ToTell
<1>3. ASSUME NEW c \in Escalators
      PROVE  AloneFits(c)'
  <2>1. escalating[c].now \in Nat /\ clock \in Nat /\ AloneFits(c)
    BY DEF EscalationInv, EscalationType, EscalationCall
  <2>2. escalating'[c].now <= clock'
    BY <2>1 DEF AloneFits
  <2> QED
    BY <2>1, <2>2 DEF AloneFits, UnderWay, WithinLimit, CountByRequestSince
<1> QED
  BY <1>1, <1>2, <1>3, RowsStay DEF EscalationInv

(* The inductive invariant: a call that has met no other counted what is   *)
(* still there (approval.service.js escalate, escalation.service.js).      *)
THEOREM EscalationInvariant == EscalationSpec => []EscalationInv
<1>1. EscalationInit => EscalationInv
  <2> SUFFICES ASSUME EscalationInit
               PROVE  EscalationInv
    OBVIOUS
  <2>1. EscalationType
    BY DEF EscalationInit, EscalationType, NoEscalation, EscalationCall
  <2>2. ToTell = {} /\ UnderWay = {}
    BY DEF EscalationInit, ToTell, UnderWay, NoEscalation
  <2>3. EntriesFit
    BY <2>2, FS_EmptySet DEF EscalationInit, EntriesFit
  <2>4. \A c \in Escalators : AloneFits(c)
    BY <2>2 DEF AloneFits, EscalationInit, NoEscalation
  <2>5. RowsFit
    BY DEF RowsFit, EscalationInit
  <2> QED
    BY <2>1, <2>3, <2>4, <2>5 DEF EscalationInv
<1>2. EscalationInv /\ [EscalationNext]_escalationVars => EscalationInv'
  <2> SUFFICES ASSUME EscalationInv, [EscalationNext]_escalationVars
               PROVE  EscalationInv'
    OBVIOUS
  <2>1. ASSUME NEW c \in Escalators,
               Escalate(c) \/ CheckLimit(c) \/ CreateRow(c) \/ AppendHistory(c) \/ EscalationFails(c)
        PROVE  EscalationInv'
    <3>1. CASE AppendHistory(c) \/ EscalationFails(c)
      BY <3>1, CallEndsKeeps DEF AppendHistory, EscalationFails
    <3> QED
      BY <2>1, <3>1, EscalateKeeps, CheckLimitKeeps, CreateRowKeeps
  <2>2. CASE CheckPendingRequests \/ RequestEnds \/ Tick \/ UNCHANGED escalationVars
    <3>1. UNCHANGED <<escalating, escalations, told>>
      BY <2>2 DEF CheckPendingRequests, RequestEnds, Tick, escalationVars
    <3>2. clock' \in Nat /\ clock <= clock'
      BY <2>2 DEF CheckPendingRequests, RequestEnds, Tick, escalationVars, EscalationInv,
        EscalationType
    <3>3. swept' \in Nat /\ made' \in Nat
      BY <2>2 DEF CheckPendingRequests, RequestEnds, Tick, escalationVars, EscalationInv,
        EscalationType
    <3>4. pending' \in BOOLEAN
      <4>1. pending' = pending \/ pending' = FALSE
        BY <2>2 DEF CheckPendingRequests, RequestEnds, Tick, escalationVars
      <4> QED
        BY <4>1, Zenon DEF EscalationInv, EscalationType
    <3> QED
      BY <3>1, <3>2, <3>3, <3>4, AsideKeeps
  <2> QED
    BY <2>1, <2>2 DEF EscalationNext
<1> QED
  BY <1>1, <1>2, PTL DEF EscalationSpec

(* However long a call takes and whatever runs beside it, one that met no  *)
(* other keeps to the limit of the window, and no entry is without its row *)
(* (escalation.service.js recordEscalation).                               *)
THEOREM EscalationsKeepLimit == EscalationSpec => []EscalationsLimited
<1>1. EscalationInv => EscalationsLimited
  <2> SUFFICES ASSUME EscalationInv
               PROVE  EscalationsLimited
    OBVIOUS
  <2>1. told \in Nat /\ Len(escalations) \in Nat /\ Cardinality(ToTell) \in Nat
    BY FS_CardinalityType DEF EscalationInv, EscalationType, EntriesFit
  <2>2. told <= Len(escalations)
    BY <2>1 DEF EscalationInv, EntriesFit
  <2> QED
    BY <2>2 DEF EscalationInv, RowsFit, RowsBefore, EscalationsLimited
<1> QED
  BY <1>1, EscalationInvariant, PTL

----------------------------------------------------------------------------
(* The clock panel                                                         *)

CameraState == {"left", "idle", "requesting", "active", "captured", "refused"}
PlaceState == {"idle", "requesting", "found", "failed", "timeout"}
Fix == Nat \X Nat
Panel == [camera : CameraState, stream : Fix \cup {None}, photo : Fix \cup {None}, shots : Nat,
          place : PlaceState, spot : Fix \cup {None}, asked : Nat, timer : Nat,
          media : Fix \cup {None}, submitting : BOOLEAN]
ClockCall == [visit : Nat, kind : {"in", "out"}, photo : Fix, spot : Fix,
              media : Fix \cup {None}]
Evidence == [by : Nat, media : Fix, capturedAt : Fix, spot : Fix]

PanelType ==
  /\ visit \in Nat /\ panel \in Panel
  /\ lit \subseteq Fix /\ late \subseteq Fix
  /\ prompts \subseteq Nat /\ asks \subseteq Nat /\ timers \subseteq Nat
  /\ calls \subseteq ClockCall
  /\ DOMAIN clocked = {"in", "out"} /\ clocked = [f \in {"in", "out"} |-> clocked[f]]
  /\ clocked.in \in Evidence \cup {None}

(* What a panel shows and holds is of its own visit.                       *)
PanelFits(p, v) ==
  /\ p.camera = "active" => p.stream \in Fix /\ p.stream[1] = v
  /\ p.photo # None => p.photo = <<v, p.shots>>
  /\ p.media # None => p.media \in Fix /\ p.media[1] = v /\ p.media[2] <= p.shots
  /\ p.place = "found" => p.spot \in Fix /\ p.spot[1] = v

(* Who is asked for the camera waits for it; what was granted too late is  *)
(* of an earlier visit.                                                    *)
CameraFits ==
  /\ lit \ late = IF panel.camera = "active" THEN {panel.stream} ELSE {}
  /\ \A v \in prompts : v <= visit
  /\ Shows /\ visit \in prompts => panel.camera = "requesting"
  /\ \A s \in late : s[1] <= visit /\ (Shows => s[1] # visit)

(* Unless requests have crossed, one is open at most, with its timer.      *)
PositionFits ==
  /\ ~Shows => asks = {} /\ timers = {} /\ panel.place = "idle"
  /\ ~crossed => /\ timers \subseteq asks /\ asks \subseteq {panel.timer}
                 /\ panel.place = "requesting" => asks # {}

(* What a submission sends is of the visit that made it.                   *)
SentFits(c) ==
  /\ c.visit <= visit
  /\ c.photo[1] = c.visit /\ c.spot[1] = c.visit
  /\ c.media # None => c.media \in Fix /\ c.media[1] = c.visit /\ c.media[2] <= c.photo[2]
  /\ Shows /\ c.visit = visit => c.photo[2] <= panel.shots

PanelInv ==
  /\ PanelType /\ PanelFits(panel, visit) /\ CameraFits /\ PositionFits
  /\ (\A c \in calls : SentFits(c)) /\ EvidenceOfVisit

LEMMA LeftIs ==
  /\ Left \in Panel /\ Left.camera = "left" /\ Left.shots = 0 /\ Left.place = "idle"
  /\ Left.photo = None /\ Left.media = None /\ Left.timer = 0
  /\ InitialState \in Panel /\ InitialState.camera = "idle" /\ InitialState.shots = 0
  /\ InitialState.place = "idle" /\ InitialState.photo = None /\ InitialState.media = None
  /\ InitialState.timer = 0
<1>1. /\ Left \in Panel /\ Left.camera = "left" /\ Left.shots = 0 /\ Left.place = "idle"
      /\ Left.photo = None /\ Left.media = None /\ Left.timer = 0
  BY DEF Left, Panel, CameraState, PlaceState
<1>2. PICK l \in Panel : l = Left
  BY <1>1
<1>3. PICK q : q = [l EXCEPT !.camera = "idle"]
  OBVIOUS
<1>4. /\ q \in Panel /\ q.camera = "idle" /\ q.shots = l.shots /\ q.place = l.place
      /\ q.photo = l.photo /\ q.media = l.media /\ q.timer = l.timer
  BY <1>3 DEF Panel, CameraState
<1>5. q = InitialState
  BY <1>2, <1>3 DEF InitialState
<1> QED
  BY <1>1, <1>2, <1>4, <1>5

(* What a step leaves alone keeps what it fits.                            *)
LEMMA CameraStays ==
  ASSUME PanelInv, UNCHANGED <<visit, lit, late, prompts>>,
         panel'.camera = panel.camera, panel'.stream = panel.stream
  PROVE  CameraFits'
BY DEF PanelInv, CameraFits, Shows

LEMMA PositionStays ==
  ASSUME PanelInv, UNCHANGED <<asks, timers, crossed>>,
         panel'.place = panel.place, panel'.timer = panel.timer, Shows' <=> Shows
  PROVE  PositionFits'
BY DEF PanelInv, PositionFits

LEMMA SentStays ==
  ASSUME PanelInv, UNCHANGED <<visit, calls, clocked>>,
         panel'.shots = panel.shots \/ panel'.shots = panel.shots + 1 \/ ~Shows', Shows' => Shows
  PROVE  (\A c \in calls' : SentFits(c)') /\ EvidenceOfVisit'
<1>1. \A c \in calls : c \in ClockCall /\ SentFits(c)
  BY DEF PanelInv, PanelType
<1>2. panel.shots \in Nat /\ visit \in Nat
  BY DEF PanelInv, PanelType, Panel
<1>3. ASSUME NEW c \in calls
      PROVE  SentFits(c)'
  <2>1. c.photo[2] \in Nat
    BY <1>1, <1>3 DEF ClockCall, Fix
  <2> QED
    BY <1>1, <1>2, <1>3, <2>1 DEF SentFits
<1>4. EvidenceOfVisit'
  BY DEF PanelInv, EvidenceOfVisit
<1> QED
  BY <1>3, <1>4

LEMMA OpenKeeps ==
  ASSUME PanelInv, Open
  PROVE  PanelInv'
<1>1. /\ ~Shows /\ visit' = visit + 1 /\ panel' = InitialState /\ visit \in Nat
      /\ UNCHANGED <<lit, late, prompts, asks, timers, crossed, today, calls, clocked>>
  BY DEF Open, deviceVars, positionVars, dayVars, PanelInv, PanelType
<1>2. PanelType'
  BY <1>1, LeftIs DEF PanelInv, PanelType
<1>3. PanelFits(panel, visit)'
  BY <1>1, LeftIs DEF PanelFits
<1>4. CameraFits'
  <2>1. lit \ late = {} /\ (\A v \in prompts : v \in Nat /\ v <= visit)
        /\ (\A s \in late : s \in Fix /\ s[1] <= visit)
    BY <1>1 DEF PanelInv, CameraFits, Shows, PanelType
  <2>2. \A s \in late : s[1] \in Nat
    BY <2>1 DEF Fix
  <2> QED
    BY <1>1, <2>1, <2>2, LeftIs DEF CameraFits
<1>5. PositionFits'
  BY <1>1, LeftIs DEF PanelInv, PositionFits, Shows
<1>6. ASSUME NEW c \in calls'
      PROVE  SentFits(c)'
  <2>1. SentFits(c) /\ c.visit \in Nat /\ c.visit <= visit
    BY <1>1, <1>6 DEF PanelInv, SentFits, PanelType, ClockCall
  <2> QED
    BY <1>1, <2>1 DEF SentFits
<1>7. EvidenceOfVisit'
  BY <1>1 DEF PanelInv, EvidenceOfVisit
<1> QED
  BY <1>2, <1>3, <1>4, <1>5, <1>6, <1>7 DEF PanelInv

LEMMA UnmountKeeps ==
  ASSUME PanelInv, Unmount
  PROVE  PanelInv'
<1>1. /\ Shows /\ lit' = lit \ {panel.stream} /\ panel' = Left /\ asks' = {} /\ timers' = {}
      /\ UNCHANGED <<visit, late, prompts, today, calls, clocked>>
  BY DEF Unmount, StopCamera, dayVars
<1>2. PanelType'
  BY <1>1, LeftIs DEF PanelInv, PanelType
<1>3. PanelFits(panel, visit)'
  BY <1>1, LeftIs DEF PanelFits
<1>4. CameraFits'
  BY <1>1, LeftIs DEF PanelInv, CameraFits, Shows
<1>5. PositionFits'
  BY <1>1, LeftIs DEF PositionFits
<1>6. (\A c \in calls' : SentFits(c)') /\ EvidenceOfVisit'
  BY <1>1, LeftIs, SentStays DEF Shows
<1> QED
  BY <1>2, <1>3, <1>4, <1>5, <1>6 DEF PanelInv

LEMMA FetchTodayKeeps ==
  ASSUME PanelInv, FetchToday \/ UNCHANGED panelVars
  PROVE  PanelInv'
<1>1. UNCHANGED <<visit, panel, lit, late, prompts, asks, timers, crossed, calls, clocked>>
  BY DEF FetchToday, deviceVars, positionVars, panelVars
<1>2. PanelType' /\ PanelFits(panel, visit)'
  BY <1>1 DEF PanelInv, PanelType, PanelFits
<1>3. CameraFits' /\ PositionFits'
  BY <1>1, CameraStays, PositionStays DEF Shows
<1>4. (\A c \in calls' : SentFits(c)') /\ EvidenceOfVisit'
  BY <1>1, SentStays DEF Shows
<1> QED
  BY <1>2, <1>3, <1>4 DEF PanelInv

(* A step of the camera.                                                   *)
LEMMA CameraMoves ==
  ASSUME PanelInv, UNCHANGED <<visit, asks, timers, crossed, today, calls, clocked>>,
         NEW q \in Panel, panel' = q, q.place = panel.place, q.timer = panel.timer,
         q.spot = panel.spot, q.media = panel.media, Shows, q.camera # "left",
         q.shots = panel.shots \/ q.shots = panel.shots + 1,
         q.photo = None \/ q.photo = <<visit, q.shots>>,
         q.camera = "active" => q.stream \in Fix /\ q.stream[1] = visit,
         lit' \subseteq Fix, late' \subseteq Fix, prompts' \subseteq Nat, CameraFits'
  PROVE  PanelInv'
<1>1. PanelType'
  BY DEF PanelInv, PanelType
<1>2. PanelFits(panel, visit)'
  <2>1. PanelFits(panel, visit) /\ panel.shots \in Nat
    BY DEF PanelInv, PanelType, Panel
  <2>2. q.media # None => q.media \in Fix /\ q.media[1] = visit /\ q.media[2] <= q.shots
    <3>1. q.media # None => q.media \in Fix /\ q.media[1] = visit /\ q.media[2] <= panel.shots
      BY <2>1 DEF PanelFits
    <3>2. q.media \in Fix => q.media[2] \in Nat
      BY DEF Fix
    <3> QED
      BY <2>1, <3>1, <3>2
  <2>3. q.place = "found" => q.spot \in Fix /\ q.spot[1] = visit
    BY <2>1 DEF PanelFits
  <2> QED
    BY <2>2, <2>3 DEF PanelFits
<1>3. PositionFits'
  BY PositionStays DEF Shows
<1>4. (\A c \in calls' : SentFits(c)') /\ EvidenceOfVisit'
  BY SentStays
<1> QED
  BY <1>1, <1>2, <1>3, <1>4 DEF PanelInv

LEMMA StartCameraKeeps ==
  ASSUME PanelInv, StartCamera
  PROVE  PanelInv'
<1>1. PICK p \in Panel : p = panel
  BY DEF PanelInv, PanelType
<1>2. PICK q : q = [p EXCEPT !.camera = "requesting", !.stream = None]
  OBVIOUS
<1>3. /\ q \in Panel /\ q.camera = "requesting" /\ q.shots = p.shots /\ q.place = p.place
      /\ q.photo = p.photo /\ q.media = p.media /\ q.timer = p.timer /\ q.spot = p.spot
  BY <1>2 DEF Panel, CameraState
<1>4. /\ p.camera \in {"idle", "refused"} /\ panel' = q /\ lit' = lit \ {p.stream}
      /\ prompts' = prompts \cup {visit}
      /\ UNCHANGED <<visit, late, asks, timers, crossed, today, calls, clocked>>
  BY <1>1, <1>2 DEF StartCamera, StopCamera, positionVars, dayVars
<1>5. CameraFits' /\ Shows
  BY <1>1, <1>3, <1>4 DEF PanelInv, PanelType, CameraFits, Shows
<1>6. q.photo = None \/ q.photo = <<visit, q.shots>>
  BY <1>1, <1>3 DEF PanelInv, PanelFits
<1>7. lit' \subseteq Fix /\ late' \subseteq Fix /\ prompts' \subseteq Nat
  BY <1>4 DEF PanelInv, PanelType
<1> QED
  BY <1>1, <1>3, <1>4, <1>5, <1>6, <1>7, CameraMoves

LEMMA CameraGrantedKeeps ==
  ASSUME PanelInv, NEW v \in prompts, CameraGranted(v)
  PROVE  PanelInv'
<1>1. PICK p \in Panel : p = panel
  BY DEF PanelInv, PanelType
<1>2. v \in Nat /\ visit \in Nat /\ v <= visit /\ p.shots \in Nat
  BY <1>1 DEF PanelInv, PanelType, CameraFits, Panel
<1>3. CASE Shows /\ v = visit
  <2>1. PICK s : s = <<visit, p.shots + 1>>
    OBVIOUS
  <2>2. s \in Fix /\ s[1] = visit
    BY <1>2, <2>1 DEF Fix
  <2>3. PICK q : q = [p EXCEPT !.camera = "active", !.stream = s, !.photo = None]
    OBVIOUS
  <2>4. /\ q \in Panel /\ q.camera = "active" /\ q.shots = p.shots /\ q.place = p.place
        /\ q.photo = None /\ q.media = p.media /\ q.timer = p.timer /\ q.spot = p.spot
        /\ q.stream = s
    BY <2>2, <2>3 DEF Panel, CameraState
  <2>5. /\ panel' = q /\ lit' = lit \cup {s} /\ prompts' = prompts \ {v}
        /\ UNCHANGED <<visit, late, asks, timers, crossed, today, calls, clocked>>
    BY <1>1, <1>3, <2>1, <2>3 DEF CameraGranted, positionVars, dayVars
  <2>6. s \notin late /\ lit \ late = {}
    BY <1>1, <1>3, <2>2 DEF PanelInv, CameraFits
  <2>7. CameraFits'
    BY <1>3, <2>4, <2>5, <2>6 DEF PanelInv, CameraFits, Shows
  <2>8. lit' \subseteq Fix /\ late' \subseteq Fix /\ prompts' \subseteq Nat
    BY <2>2, <2>5 DEF PanelInv, PanelType
  <2> QED
    BY <1>1, <1>3, <2>2, <2>4, <2>5, <2>7, <2>8, CameraMoves
<1>4. CASE ~(Shows /\ v = visit)
  <2>1. PICK s : s = <<v, MaxShots + 1>>
    OBVIOUS
  <2>2. s \in Fix /\ s[1] = v
    BY <1>2, <2>1, ClockPanelAssumption DEF Fix
  <2>3. /\ lit' = lit \cup {s} /\ late' = late \cup {s} /\ prompts' = prompts \ {v}
        /\ UNCHANGED <<visit, panel, asks, timers, crossed, today, calls, clocked>>
    BY <1>4, <2>1 DEF CameraGranted, positionVars, dayVars
  <2>4. PanelType' /\ PanelFits(panel, visit)'
    BY <2>2, <2>3 DEF PanelInv, PanelType, PanelFits
  <2>5. CameraFits'
    <3>1. s \notin lit \ late
      BY <1>4, <2>2 DEF PanelInv, CameraFits, PanelFits, Shows
    <3>2. lit' \ late' = lit \ late
      BY <2>3, <3>1
    <3>3. (\A t \in late' : t[1] <= visit /\ (Shows => t[1] # visit))
      BY <1>2, <1>4, <2>2, <2>3 DEF PanelInv, CameraFits
    <3> QED
      BY <2>3, <3>2, <3>3 DEF PanelInv, CameraFits, Shows
  <2>6. PositionFits' /\ (\A c \in calls' : SentFits(c)') /\ EvidenceOfVisit'
    BY <2>3, PositionStays, SentStays DEF Shows
  <2> QED
    BY <2>4, <2>5, <2>6 DEF PanelInv
<1> QED
  BY <1>3, <1>4

LEMMA CameraRefusedKeeps ==
  ASSUME PanelInv, NEW v \in prompts, CameraRefused(v)
  PROVE  PanelInv'
<1>1. PICK p \in Panel : p = panel
  BY DEF PanelInv, PanelType
<1>2. /\ prompts' = prompts \ {v}
      /\ UNCHANGED <<visit, lit, late, asks, timers, crossed, today, calls, clocked>>
  BY DEF CameraRefused, positionVars, dayVars
<1>3. lit' \subseteq Fix /\ late' \subseteq Fix /\ prompts' \subseteq Nat
  BY <1>2 DEF PanelInv, PanelType
<1>4. CASE Shows /\ v = visit
  <2>1. PICK q : q = [p EXCEPT !.camera = "refused"]
    OBVIOUS
  <2>2. /\ q \in Panel /\ q.camera = "refused" /\ q.shots = p.shots /\ q.place = p.place
        /\ q.photo = p.photo /\ q.media = p.media /\ q.timer = p.timer /\ q.spot = p.spot
    BY <2>1 DEF Panel, CameraState
  <2>3. panel' = q
    BY <1>1, <1>4, <2>1 DEF CameraRefused
  <2>4. CameraFits'
    BY <1>1, <1>2, <1>4, <2>2, <2>3 DEF PanelInv, CameraFits, Shows
  <2>5. q.photo = None \/ q.photo = <<visit, q.shots>>
    BY <1>1, <2>2 DEF PanelInv, PanelFits
  <2> QED
    BY <1>1, <1>2, <1>3, <1>4, <2>2, <2>3, <2>4, <2>5, CameraMoves
<1>5. CASE ~(Shows /\ v = visit)
  <2>1. UNCHANGED panel
    BY <1>5 DEF CameraRefused
  <2>2. PanelType' /\ PanelFits(panel, visit)' /\ CameraFits'
    BY <1>2, <2>1 DEF PanelInv, PanelType, PanelFits, CameraFits, Shows
  <2>3. PositionFits' /\ (\A c \in calls' : SentFits(c)') /\ EvidenceOfVisit'
    BY <1>2, <2>1, PositionStays, SentStays DEF Shows
  <2> QED
    BY <2>2, <2>3 DEF PanelInv
<1> QED
  BY <1>4, <1>5

LEMMA CaptureKeeps ==
  ASSUME PanelInv, Capture \/ Retake
  PROVE  PanelInv'
<1>1. PICK p \in Panel : p = panel
  BY DEF PanelInv, PanelType
<1>2. p.shots \in Nat /\ visit \in Nat
  BY <1>1 DEF PanelInv, PanelType, Panel
<1>3. PICK q \in Panel :
        /\ panel' = q /\ q.camera \in {"captured", "idle"} /\ q.place = p.place
        /\ q.media = p.media /\ q.timer = p.timer /\ q.spot = p.spot
        /\ q.shots = p.shots \/ q.shots = p.shots + 1
        /\ q.photo = None \/ q.photo = <<visit, q.shots>>
  <2>1. CASE Capture
    <3>1. PICK q : q = [p EXCEPT !.camera = "captured", !.stream = None,
                                 !.photo = <<visit, p.shots + 1>>, !.shots = p.shots + 1]
      OBVIOUS
    <3>2. panel' = q
      BY <1>1, <2>1, <3>1 DEF Capture, Of
    <3>3. <<visit, p.shots + 1>> \in Fix /\ p.shots + 1 \in Nat
      BY <1>2 DEF Fix
    <3>4. /\ q \in Panel /\ q.camera = "captured" /\ q.shots = p.shots + 1 /\ q.place = p.place
          /\ q.photo = <<visit, p.shots + 1>> /\ q.media = p.media /\ q.timer = p.timer
          /\ q.spot = p.spot
      BY <3>1, <3>3 DEF Panel, CameraState
    <3> QED
      BY <3>2, <3>4
  <2>2. CASE Retake
    <3>1. PICK q : q = [p EXCEPT !.camera = "idle", !.stream = None, !.photo = None]
      OBVIOUS
    <3>2. panel' = q
      BY <1>1, <2>2, <3>1 DEF Retake
    <3>3. /\ q \in Panel /\ q.camera = "idle" /\ q.shots = p.shots /\ q.place = p.place
          /\ q.photo = None /\ q.media = p.media /\ q.timer = p.timer /\ q.spot = p.spot
      BY <3>1 DEF Panel, CameraState
    <3> QED
      BY <3>2, <3>3
  <2> QED
    BY <2>1, <2>2
<1>4. /\ lit' = lit \ {p.stream} /\ p.camera \in {"active", "captured"}
      /\ UNCHANGED <<visit, late, prompts, asks, timers, crossed, today, calls, clocked>>
  BY <1>1 DEF Capture, Retake, StopCamera, positionVars, dayVars
<1>5. CameraFits' /\ Shows
  BY <1>1, <1>3, <1>4 DEF PanelInv, CameraFits, Shows
<1>6. lit' \subseteq Fix /\ late' \subseteq Fix /\ prompts' \subseteq Nat
  BY <1>4 DEF PanelInv, PanelType
<1> QED
  BY <1>1, <1>3, <1>4, <1>5, <1>6, CameraMoves

(* A step of the position.                                                 *)
LEMMA PositionMoves ==
  ASSUME PanelInv, UNCHANGED <<visit, lit, late, prompts, today, calls, clocked>>,
         NEW q \in Panel, panel' = q, q.camera = panel.camera, q.stream = panel.stream,
         q.photo = panel.photo, q.shots = panel.shots, q.media = panel.media,
         q.place = "found" => q.spot \in Fix /\ q.spot[1] = visit,
         asks' \subseteq Nat, timers' \subseteq Nat, PositionFits'
  PROVE  PanelInv'
<1>1. PanelType'
  BY DEF PanelInv, PanelType
<1>2. PanelFits(panel, visit)'
  BY DEF PanelFits, PanelInv
<1>3. CameraFits'
  BY CameraStays
<1>4. (\A c \in calls' : SentFits(c)') /\ EvidenceOfVisit'
  BY SentStays DEF Shows
<1> QED
  BY <1>1, <1>2, <1>3, <1>4 DEF PanelInv

LEMMA RequestLocationKeeps ==
  ASSUME PanelInv, RequestLocation
  PROVE  PanelInv'
<1>1. PICK p \in Panel : p = panel
  BY DEF PanelInv, PanelType
<1>2. PICK n \in Nat : n = p.asked + 1
  BY DEF Panel
<1>3. PICK q : q = [p EXCEPT !.place = "requesting", !.asked = n, !.timer = n]
  OBVIOUS
<1>4. /\ q \in Panel /\ q.camera = p.camera /\ q.stream = p.stream /\ q.photo = p.photo
      /\ q.shots = p.shots /\ q.media = p.media /\ q.place = "requesting" /\ q.timer = n
  BY <1>3 DEF Panel, PlaceState
<1>5. /\ Shows /\ panel' = q /\ asks' = asks \cup {n} /\ timers' = timers \cup {n}
      /\ crossed' = (crossed \/ asks # {})
      /\ UNCHANGED <<visit, lit, late, prompts, today, calls, clocked>>
  BY <1>1, <1>2, <1>3 DEF RequestLocation, Controls, deviceVars, dayVars
<1>6. PositionFits'
  BY <1>1, <1>4, <1>5 DEF PositionFits, PanelInv, Shows
<1>7. asks' \subseteq Nat /\ timers' \subseteq Nat
  BY <1>5 DEF PanelInv, PanelType
<1> QED
  BY <1>1, <1>4, <1>5, <1>6, <1>7, PositionMoves

LEMMA PositionAnsweredKeeps ==
  ASSUME PanelInv, NEW n \in asks, LocationFound(n) \/ LocationFails(n)
  PROVE  PanelInv'
<1>1. PICK p \in Panel : p = panel
  BY DEF PanelInv, PanelType
<1>2. n \in Nat /\ visit \in Nat /\ <<visit, n>> \in Fix /\ 0 \in Nat
  BY DEF PanelInv, PanelType, Fix
<1>3. /\ asks' = asks \ {n} /\ timers' = timers \ {p.timer}
      /\ UNCHANGED <<visit, crossed, lit, late, prompts, today, calls, clocked>>
  BY <1>1 DEF LocationFound, LocationFails, PositionAnswered, deviceVars, dayVars
<1>4. PICK q \in Panel :
        /\ panel' = q /\ q.camera = p.camera /\ q.stream = p.stream /\ q.photo = p.photo
        /\ q.shots = p.shots /\ q.media = p.media /\ q.place \in {"found", "failed"}
        /\ q.place = "found" => q.spot = <<visit, n>>
  <2>1. CASE LocationFound(n)
    <3>1. PICK m : m = [p EXCEPT !.place = "found", !.spot = <<visit, n>>]
      OBVIOUS
    <3>2. PICK q : q = [m EXCEPT !.timer = 0]
      OBVIOUS
    <3>3. panel' = q
      BY <1>1, <2>1, <3>1, <3>2 DEF LocationFound, PositionAnswered, Of
    <3>4. /\ m \in Panel /\ m.camera = p.camera /\ m.stream = p.stream /\ m.photo = p.photo
          /\ m.shots = p.shots /\ m.media = p.media /\ m.place = "found" /\ m.spot = <<visit, n>>
      BY <1>2, <3>1 DEF Panel, PlaceState
    <3>5. /\ q \in Panel /\ q.camera = p.camera /\ q.stream = p.stream /\ q.photo = p.photo
          /\ q.shots = p.shots /\ q.media = p.media /\ q.place = "found" /\ q.spot = <<visit, n>>
      BY <3>2, <3>4 DEF Panel
    <3> QED
      BY <3>3, <3>5
  <2>2. CASE LocationFails(n)
    <3>1. PICK m : m = [p EXCEPT !.place = "failed"]
      OBVIOUS
    <3>2. PICK q : q = [m EXCEPT !.timer = 0]
      OBVIOUS
    <3>3. panel' = q
      BY <1>1, <2>2, <3>1, <3>2 DEF LocationFails, PositionAnswered
    <3>4. /\ m \in Panel /\ m.camera = p.camera /\ m.stream = p.stream /\ m.photo = p.photo
          /\ m.shots = p.shots /\ m.media = p.media /\ m.place = "failed"
      BY <3>1 DEF Panel, PlaceState
    <3>5. /\ q \in Panel /\ q.camera = p.camera /\ q.stream = p.stream /\ q.photo = p.photo
          /\ q.shots = p.shots /\ q.media = p.media /\ q.place = "failed"
      BY <3>2, <3>4 DEF Panel
    <3> QED
      BY <3>3, <3>5
  <2> QED
    BY <2>1, <2>2
<1>5. Shows
  BY DEF PanelInv, PositionFits
<1>6. ~crossed => asks' = {} /\ timers' = {}
  BY <1>1, <1>3 DEF PanelInv, PositionFits
<1>7. PositionFits'
  BY <1>1, <1>3, <1>4, <1>5, <1>6 DEF PositionFits, Shows
<1>8. asks' \subseteq Nat /\ timers' \subseteq Nat
  BY <1>3 DEF PanelInv, PanelType
<1>9. q.place = "found" => q.spot \in Fix /\ q.spot[1] = visit
  BY <1>2, <1>4
<1> QED
  BY <1>1, <1>3, <1>4, <1>7, <1>8, <1>9, PositionMoves

LEMMA LocationTimesOutKeeps ==
  ASSUME PanelInv, NEW n \in timers, LocationTimesOut(n)
  PROVE  PanelInv'
<1>1. PICK p \in Panel : p = panel
  BY DEF PanelInv, PanelType
<1>2. PICK q : q = [p EXCEPT !.place = "timeout"]
  OBVIOUS
<1>3. /\ q \in Panel /\ q.camera = p.camera /\ q.stream = p.stream /\ q.photo = p.photo
      /\ q.shots = p.shots /\ q.media = p.media /\ q.place = "timeout" /\ q.timer = p.timer
  BY <1>2 DEF Panel, PlaceState
<1>4. /\ panel' = q /\ timers' = timers \ {n}
      /\ UNCHANGED <<visit, asks, crossed, lit, late, prompts, today, calls, clocked>>
  BY <1>1, <1>2 DEF LocationTimesOut, deviceVars, dayVars
<1>5. PositionFits'
  BY <1>1, <1>3, <1>4 DEF PositionFits, PanelInv, Shows
<1>6. asks' \subseteq Nat /\ timers' \subseteq Nat
  BY <1>4 DEF PanelInv, PanelType
<1> QED
  BY <1>1, <1>3, <1>4, <1>5, <1>6, PositionMoves

(* A step of a submission.                                                 *)
LEMMA SubmissionMoves ==
  ASSUME PanelInv, UNCHANGED <<visit, lit, late, prompts, asks, timers, crossed, today>>,
         NEW q \in Panel, panel' = q, q.camera = panel.camera, q.stream = panel.stream,
         q.photo = panel.photo, q.shots = panel.shots, q.place = panel.place,
         q.timer = panel.timer, q.spot = panel.spot,
         q.media # None => q.media \in Fix /\ q.media[1] = visit /\ q.media[2] <= q.shots,
         \A c \in calls' : c \in ClockCall /\ (c \notin calls => SentFits(c)),
         DOMAIN clocked' = {"in", "out"}, clocked' = [f \in {"in", "out"} |-> clocked'[f]],
         clocked'.in \in Evidence \cup {None}, EvidenceOfVisit'
  PROVE  PanelInv'
<1>1. PanelType'
  BY DEF PanelInv, PanelType
<1>2. PanelFits(panel, visit)'
  BY DEF PanelFits, PanelInv
<1>3. CameraFits' /\ PositionFits'
  BY CameraStays, PositionStays DEF Shows
<1>4. \A c \in calls' : SentFits(c)
  BY DEF PanelInv
<1>5. \A c \in calls' : SentFits(c)'
  BY <1>4 DEF SentFits, Shows
<1> QED
  BY <1>1, <1>2, <1>3, <1>5 DEF PanelInv

LEMMA SubmitClockKeeps ==
  ASSUME PanelInv, NEW kind \in {"in", "out"}, SubmitClock(kind)
  PROVE  PanelInv'
<1>1. PICK p \in Panel : p = panel
  BY DEF PanelInv, PanelType
<1>2. PICK q : q = [p EXCEPT !.submitting = TRUE]
  OBVIOUS
<1>3. /\ q \in Panel /\ q.camera = p.camera /\ q.stream = p.stream /\ q.photo = p.photo
      /\ q.shots = p.shots /\ q.media = p.media /\ q.place = p.place /\ q.timer = p.timer
      /\ q.spot = p.spot
  BY <1>2 DEF Panel
<1>4. PICK c : c = [visit |-> visit, kind |-> kind, photo |-> p.photo, spot |-> p.spot,
                    media |-> p.media]
  OBVIOUS
<1>5. /\ panel' = q /\ calls' = calls \cup {c} /\ p.photo # None /\ p.place = "found"
      /\ UNCHANGED <<visit, lit, late, prompts, asks, timers, crossed, today, clocked>>
  BY <1>1, <1>2, <1>4 DEF SubmitClock, Complete, deviceVars, positionVars
<1>6. /\ p.photo = <<visit, p.shots>> /\ p.spot \in Fix /\ p.spot[1] = visit
      /\ p.media # None => p.media \in Fix /\ p.media[1] = visit /\ p.media[2] <= p.shots
  BY <1>1, <1>5 DEF PanelInv, PanelFits
<1>7. visit \in Nat /\ p.shots \in Nat /\ p.photo \in Fix /\ p.media \in Fix \cup {None}
  BY <1>6 DEF PanelInv, PanelType, Panel, Fix
<1>8. /\ c \in ClockCall /\ c.visit = visit /\ c.photo = p.photo /\ c.spot = p.spot
      /\ c.media = p.media
  BY <1>4, <1>6, <1>7 DEF ClockCall
<1>9. SentFits(c)
  <2>1. c.photo[1] = visit /\ c.photo[2] = p.shots
    BY <1>6, <1>8
  <2> QED
    BY <1>1, <1>6, <1>7, <1>8, <2>1 DEF SentFits
<1>10. \A d \in calls' : d \in ClockCall /\ (d \notin calls => SentFits(d))
  BY <1>5, <1>8, <1>9 DEF PanelInv, PanelType
<1>11. /\ DOMAIN clocked' = {"in", "out"} /\ clocked' = [f \in {"in", "out"} |-> clocked'[f]]
       /\ clocked'.in \in Evidence \cup {None} /\ EvidenceOfVisit'
  BY <1>5 DEF PanelInv, PanelType, EvidenceOfVisit
<1> QED
  BY <1>1, <1>3, <1>5, <1>6, <1>10, <1>11, SubmissionMoves

LEMMA UploadMediaKeeps ==
  ASSUME PanelInv, NEW c \in calls, UploadMedia(c)
  PROVE  PanelInv'
<1>1. PICK p \in Panel : p = panel
  BY DEF PanelInv, PanelType
<1>2. /\ c \in ClockCall /\ SentFits(c) /\ c.photo \in Fix /\ c.photo[2] \in Nat
  BY DEF PanelInv, PanelType, ClockCall, Fix
<1>3. PICK d : d = [c EXCEPT !.media = c.photo]
  OBVIOUS
<1>4. /\ d \in ClockCall /\ d.visit = c.visit /\ d.photo = c.photo /\ d.spot = c.spot
      /\ d.media = c.photo
  BY <1>2, <1>3 DEF ClockCall
<1>5. PICK q \in Panel :
        /\ panel' = q /\ q.camera = p.camera /\ q.stream = p.stream /\ q.photo = p.photo
        /\ q.shots = p.shots /\ q.place = p.place /\ q.timer = p.timer /\ q.spot = p.spot
        /\ q.media = p.media \/ (Shows /\ c.visit = visit /\ q.media = c.photo)
  <2>1. CASE Shows /\ c.visit = visit
    <3>1. PICK q : q = [p EXCEPT !.media = c.photo]
      OBVIOUS
    <3>2. panel' = q
      BY <1>1, <2>1, <3>1 DEF UploadMedia
    <3>3. /\ q \in Panel /\ q.camera = p.camera /\ q.stream = p.stream /\ q.photo = p.photo
          /\ q.shots = p.shots /\ q.place = p.place /\ q.timer = p.timer /\ q.spot = p.spot
          /\ q.media = c.photo
      BY <1>2, <3>1 DEF Panel
    <3> QED
      BY <2>1, <3>2, <3>3
  <2>2. CASE ~(Shows /\ c.visit = visit)
    BY <1>1, <2>2 DEF UploadMedia
  <2> QED
    BY <2>1, <2>2
<1>6. /\ calls' = (calls \ {c}) \cup {d}
      /\ UNCHANGED <<visit, lit, late, prompts, asks, timers, crossed, today, clocked>>
  BY <1>3 DEF UploadMedia, deviceVars, positionVars
<1>7. SentFits(d)
  BY <1>2, <1>4 DEF SentFits
<1>8. \A e \in calls' : e \in ClockCall /\ (e \notin calls => SentFits(e))
  BY <1>4, <1>6, <1>7 DEF PanelInv, PanelType
<1>9. q.media # None => q.media \in Fix /\ q.media[1] = visit /\ q.media[2] <= q.shots
  <2>1. CASE q.media = p.media
    BY <1>1, <1>5, <2>1 DEF PanelInv, PanelFits
  <2>2. CASE Shows /\ c.visit = visit /\ q.media = c.photo
    BY <1>1, <1>2, <1>5, <2>2 DEF SentFits
  <2> QED
    BY <1>5, <2>1, <2>2
<1>10. /\ DOMAIN clocked' = {"in", "out"} /\ clocked' = [f \in {"in", "out"} |-> clocked'[f]]
       /\ clocked'.in \in Evidence \cup {None} /\ EvidenceOfVisit'
  BY <1>6 DEF PanelInv, PanelType, EvidenceOfVisit
<1> QED
  BY <1>1, <1>5, <1>6, <1>8, <1>9, <1>10, SubmissionMoves

LEMMA ClockKeeps ==
  ASSUME PanelInv, NEW c \in calls, Clock(c) \/ SubmitFails(c)
  PROVE  PanelInv'
<1>1. PICK p \in Panel : p = panel
  BY DEF PanelInv, PanelType
<1>2. c \in ClockCall /\ SentFits(c)
  BY DEF PanelInv, PanelType
<1>3. EndCall(c)
  BY DEF Clock, SubmitFails
<1>4. PICK q \in Panel :
        /\ panel' = q /\ q.camera = p.camera /\ q.stream = p.stream /\ q.photo = p.photo
        /\ q.shots = p.shots /\ q.place = p.place /\ q.timer = p.timer /\ q.spot = p.spot
        /\ q.media = p.media
  <2>1. CASE Shows /\ c.visit = visit
    <3>1. PICK q : q = [p EXCEPT !.submitting = FALSE]
      OBVIOUS
    <3>2. panel' = q
      BY <1>1, <1>3, <2>1, <3>1 DEF EndCall
    <3>3. /\ q \in Panel /\ q.camera = p.camera /\ q.stream = p.stream /\ q.photo = p.photo
          /\ q.shots = p.shots /\ q.place = p.place /\ q.timer = p.timer /\ q.spot = p.spot
          /\ q.media = p.media
      BY <3>1 DEF Panel
    <3> QED
      BY <3>2, <3>3
  <2>2. CASE ~(Shows /\ c.visit = visit)
    BY <1>1, <1>3, <2>2 DEF EndCall
  <2> QED
    BY <2>1, <2>2
<1>5. /\ calls' = calls \ {c}
      /\ UNCHANGED <<visit, lit, late, prompts, asks, timers, crossed, today>>
  BY <1>3 DEF EndCall, deviceVars, positionVars
<1>6. \A e \in calls' : e \in ClockCall /\ (e \notin calls => SentFits(e))
  BY <1>5 DEF PanelInv, PanelType
<1>7. q.media # None => q.media \in Fix /\ q.media[1] = visit /\ q.media[2] <= q.shots
  BY <1>1, <1>4 DEF PanelInv, PanelFits
<1>8. /\ DOMAIN clocked' = {"in", "out"} /\ clocked' = [f \in {"in", "out"} |-> clocked'[f]]
      /\ clocked'.in \in Evidence \cup {None} /\ EvidenceOfVisit'
  <2>1. PICK d : d = clocked
    OBVIOUS
  <2>2. /\ DOMAIN d = {"in", "out"} /\ d = [f \in {"in", "out"} |-> d[f]]
        /\ d.in \in Evidence \cup {None}
    BY <2>1 DEF PanelInv, PanelType
  <2>3. CASE clocked' = d
    BY <2>1, <2>2, <2>3 DEF PanelInv, EvidenceOfVisit
  <2>4. CASE /\ c.media # None
             /\ clocked' = [d EXCEPT !.in = [by |-> c.visit, media |-> c.media,
                                             capturedAt |-> c.photo, spot |-> c.spot]]
    <3>1. PICK e : e = [by |-> c.visit, media |-> c.media, capturedAt |-> c.photo,
                        spot |-> c.spot]
      OBVIOUS
    <3>2. e \in Evidence /\ e.by = c.visit /\ e.media = c.media /\ e.capturedAt = c.photo
          /\ e.spot = c.spot
      BY <1>2, <2>4, <3>1 DEF ClockCall, Evidence, SentFits
    <3>3. clocked' = [d EXCEPT !.in = e]
      BY <2>4, <3>1
    <3>4. /\ DOMAIN clocked' = {"in", "out"} /\ clocked' = [f \in {"in", "out"} |-> clocked'[f]]
          /\ clocked'.in = e
      BY <2>2, <3>3
    <3> QED
      BY <1>2, <2>4, <3>2, <3>4 DEF EvidenceOfVisit, SentFits
  <2>5. CASE \E x : clocked' = [d EXCEPT !.out = x]
    <3>1. PICK x : clocked' = [d EXCEPT !.out = x]
      BY <2>5
    <3>2. /\ DOMAIN clocked' = {"in", "out"} /\ clocked' = [f \in {"in", "out"} |-> clocked'[f]]
          /\ clocked'.in = d.in
      BY <2>2, <3>1
    <3> QED
      BY <2>1, <2>2, <3>2 DEF PanelInv, EvidenceOfVisit
  <2> QED
    BY <2>1, <2>3, <2>4, <2>5 DEF Clock, SubmitFails
<1> QED
  BY <1>1, <1>4, <1>5, <1>6, <1>7, <1>8, SubmissionMoves

(* The inductive invariant: what the panel holds, what is asked of the     *)
(* browser and what is sent are of one visit                               *)
(* (useAttendanceVerification, AttendanceVerificationPanel).               *)
THEOREM PanelInvariant == ClockPanelSpec => []PanelInv
<1>1. ClockPanelInit => PanelInv
  <2> SUFFICES ASSUME ClockPanelInit
               PROVE  PanelInv
    OBVIOUS
  <2>1. /\ visit = 0 /\ panel = Left /\ lit = {} /\ late = {} /\ prompts = {}
        /\ asks = {} /\ timers = {} /\ calls = {} /\ clocked = NotClocked
    BY DEF ClockPanelInit
  <2>2. /\ DOMAIN NotClocked = {"in", "out"} /\ NotClocked.in = None
        /\ NotClocked = [f \in {"in", "out"} |-> NotClocked[f]]
    BY DEF NotClocked
  <2>3. PanelType
    BY <2>1, <2>2, LeftIs DEF PanelType
  <2>4. PanelFits(panel, visit) /\ CameraFits
    BY <2>1, LeftIs DEF PanelFits, CameraFits
  <2>5. PositionFits
    BY <2>1, LeftIs DEF PositionFits
  <2>6. EvidenceOfVisit
    BY <2>1, <2>2 DEF EvidenceOfVisit
  <2> QED
    BY <2>1, <2>3, <2>4, <2>5, <2>6 DEF PanelInv
<1>2. PanelInv /\ [ClockPanelNext]_panelVars => PanelInv'
  <2> SUFFICES ASSUME PanelInv, [ClockPanelNext]_panelVars
               PROVE  PanelInv'
    OBVIOUS
  <2>1. CASE UNCHANGED panelVars \/ Open \/ Unmount \/ FetchToday
    BY <2>1, OpenKeeps, UnmountKeeps, FetchTodayKeeps
  <2>2. CASE StartCamera \/ Capture \/ Retake \/ RequestLocation
    BY <2>2, StartCameraKeeps, CaptureKeeps, RequestLocationKeeps
  <2>3. ASSUME NEW v \in prompts, CameraGranted(v) \/ CameraRefused(v)
        PROVE  PanelInv'
    BY <2>3, CameraGrantedKeeps, CameraRefusedKeeps
  <2>4. ASSUME NEW n \in asks, LocationFound(n) \/ LocationFails(n)
        PROVE  PanelInv'
    BY <2>4, PositionAnsweredKeeps
  <2>5. ASSUME NEW n \in timers, LocationTimesOut(n)
        PROVE  PanelInv'
    BY <2>5, LocationTimesOutKeeps
  <2>6. ASSUME NEW kind \in {"in", "out"}, SubmitClock(kind)
        PROVE  PanelInv'
    BY <2>6, SubmitClockKeeps
  <2>7. ASSUME NEW c \in calls, UploadMedia(c) \/ Clock(c) \/ SubmitFails(c)
        PROVE  PanelInv'
    BY <2>7, UploadMediaKeeps, ClockKeeps
  <2> QED
    BY <2>1, <2>2, <2>3, <2>4, <2>5, <2>6, <2>7 DEF ClockPanelNext
<1> QED
  BY <1>1, <1>2, PTL DEF ClockPanelSpec

(* Whenever the browser answers, a camera runs only behind its preview but *)
(* for one that was granted too late, no timer undoes what was found, and  *)
(* the evidence of a clock-in is of one visit.                             *)
THEOREM PanelKeepsHold == ClockPanelSpec => []PanelHolds
<1>1. PanelInv => PanelHolds
  <2> SUFFICES ASSUME PanelInv
               PROVE  PanelHolds
    OBVIOUS
  <2>1. CameraReleased
    BY DEF PanelInv, CameraFits, CameraReleased
  <2>2. LocationSettles
    BY DEF PanelInv, PositionFits, LocationSettles
  <2> QED
    BY <2>1, <2>2 DEF PanelInv, PanelHolds
<1> QED
  BY <1>1, PanelInvariant, PTL

----------------------------------------------------------------------------
(* Notices                                                                 *)

Events == DOMAIN TRIGGER_CATALOG
TypeOf(event) == TRIGGER_CATALOG[event].type
Wants(type, u) == ShouldDeliver(type, optOut[u])

Delivery ==
  [op : {"idle"}] \cup [op : {"resolve"}, no : Nat]
  \cup [op : {"next"}, no : Nat, to : SUBSET People]
  \cup [op : {"insert"}, no : Nat, to : SUBSET People, u : People]
Published == [event : Events, due : SUBSET People,
              state : {"open", "disturbed", "delivered", "failed"}]

NoticesType ==
  /\ approver \in {Boss, Nobody} /\ manager \in {Boss, Nobody}
  /\ published \in Seq(Published)
  /\ sending \in [Senders -> Delivery]

(* Who has a row of an event.                                              *)
Rowed(no) == {u \in People : RowsOf(no, u) # {}}

(* Nobody has two rows of one.                                             *)
InboxFits ==
  /\ \A n \in inbox : /\ DOMAIN n = {"to", "no", "read", "order"}
                      /\ n.to \in People /\ n.no \in DOMAIN published
  /\ \A m, n \in inbox : m.no = n.no /\ m.to = n.to => m = n

(* A delivery knows who has still to get a row, and while nothing has      *)
(* disturbed it these and those who have one are the ones it was due to.   *)
DeliveryFits(d) ==
  /\ d.op # "idle" =>
       d.no \in DOMAIN published /\ published[d.no].state \in {"open", "disturbed"}
  /\ d.op = "resolve" => Rowed(d.no) = {}
  /\ d.op \in {"next", "insert"} => d.to \cap Rowed(d.no) = {}
  /\ d.op = "insert" => d.u \notin d.to \cup Rowed(d.no)
  /\ d.op # "idle" /\ published[d.no].state = "open" =>
       LET e == published[d.no]
           later == {u \in d.to : Wants(TypeOf(e.event), u)}
       IN  /\ e.due = Due(e.event)
           /\ d.op = "next" => e.due = Rowed(d.no) \cup later
           /\ d.op = "insert" => e.due = Rowed(d.no) \cup later \cup {d.u}

(* One delivery works on an event.                                         *)
DeliveriesApart ==
  \A a, b \in Senders :
    sending[a].op # "idle" /\ sending[b].op # "idle" /\ sending[a].no = sending[b].no => a = b

EndsFit(i) ==
  /\ published[i].state = "delivered" => published[i].due = Rowed(i)
  /\ published[i].state = "failed" => Rowed(i) \subseteq published[i].due

NoticesInv ==
  /\ NoticesType /\ InboxFits /\ (\A c \in Senders : DeliveryFits(sending[c]))
  /\ DeliveriesApart /\ (\A i \in DOMAIN published : EndsFit(i))

----------------------------------------------------------------------------
LEMMA TargetsArePeople ==
  ASSUME NoticesType, NEW event \in Events
  PROVE  /\ Targets(TRIGGER_CATALOG[event].recipients, Requester, manager) \subseteq People
         /\ Due(event) \subseteq People
         /\ Due(event) = {u \in Targets(TRIGGER_CATALOG[event].recipients, Requester, manager) :
                            Wants(TypeOf(event), u)}
<1>1. PICK targets : targets = TRIGGER_CATALOG[event].recipients
  OBVIOUS
<1>2. \A i \in DOMAIN targets : targets[i] \in {"approver", "manager", "requester"}
  BY <1>1 DEF Events, TRIGGER_CATALOG
<1>3. Targets(targets, Requester, manager) \subseteq People
  BY <1>2 DEF Targets, People, NoticesType
<1>4. Due(event) = {u \in Targets(TRIGGER_CATALOG[event].recipients, Requester, manager) :
                      Wants(TypeOf(event), u)}
  BY DEF Due, Wants, TypeOf
<1> QED
  BY <1>1, <1>3, <1>4

LEMMA SenderIs ==
  ASSUME NoticesInv, NEW c \in Senders
  PROVE  sending[c] \in Delivery /\ DeliveryFits(sending[c])
BY DEF NoticesInv, NoticesType

(* The shapes of a delivery.                                               *)
LEMMA IsIdle ==
  Idle \in Delivery /\ Idle.op = "idle" /\ \A d \in Delivery : d.op = "idle" => d = Idle
BY DEF Idle, Delivery

(* What is not touched is as it was.                                       *)
LEMMA DeliveryStays ==
  ASSUME NEW d, DeliveryFits(d), UNCHANGED <<approver, manager, optOut>>,
         d.op # "idle" => /\ d.no \in DOMAIN published' /\ published'[d.no] = published[d.no]
                          /\ Rowed(d.no)' = Rowed(d.no)
  PROVE  DeliveryFits(d)'
<1>1. \A e : Due(e)' = Due(e)
  BY DEF Due, Targets, ShouldDeliver
<1>2. \A t, u : Wants(t, u)' <=> Wants(t, u)
  BY DEF Wants
<1> QED
  BY <1>1, <1>2 DEF DeliveryFits

LEMMA RowsUntouched ==
  ASSUME UNCHANGED inbox
  PROVE  \A i : Rowed(i)' = Rowed(i)
BY DEF Rowed, RowsOf

(* A call moves on with its delivery, and publishes nothing.               *)
LEMMA DeliveryMoves ==
  ASSUME NoticesInv, NEW c \in Senders, NEW d \in Delivery, sending' = [sending EXCEPT ![c] = d],
         sending[c].op # "idle", d.op = "idle" \/ d.no = sending[c].no,
         UNCHANGED <<approver, manager, optOut, published>>, InboxFits',
         \A i : i # sending[c].no => Rowed(i)' = Rowed(i),
         DeliveryFits(d)'
  PROVE  NoticesInv'
<1>1. \A o \in Senders : sending'[o] = IF o = c THEN d ELSE sending[o]
  BY DEF NoticesInv, NoticesType
<1>2. NoticesType'
  BY DEF NoticesInv, NoticesType
<1>3. \A o \in Senders \ {c} : sending[o].op # "idle" => sending[o].no # sending[c].no
  BY DEF NoticesInv, DeliveriesApart
<1>4. ASSUME NEW o \in Senders
      PROVE  DeliveryFits(sending[o])'
  <2>1. CASE o = c
    <3>1. PICK k : k = sending'[o]
      OBVIOUS
    <3> QED
      BY <1>1, <2>1, <3>1
  <2>2. CASE o # c
    <3>1. PICK k : k = sending[o]
      OBVIOUS
    <3>2. DeliveryFits(k) /\ (k.op # "idle" => k.no # sending[c].no)
      BY <1>3, <2>2, <3>1, SenderIs
    <3>3. k.op # "idle" => k.no \in DOMAIN published
      BY <3>2 DEF DeliveryFits
    <3>4. DeliveryFits(k)'
      BY <3>2, <3>3, DeliveryStays
    <3>5. sending'[o] = k
      BY <1>1, <2>2, <3>1
    <3> QED
      BY <3>4, <3>5
  <2> QED
    BY <2>1, <2>2
<1>5. DeliveriesApart'
  BY <1>1, <1>3 DEF NoticesInv, DeliveriesApart
<1>6. ASSUME NEW i \in DOMAIN published'
      PROVE  EndsFit(i)'
  <2>1. EndsFit(i) /\ i \in DOMAIN published
    BY <1>6 DEF NoticesInv
  <2>2. CASE i = sending[c].no
    <3>1. published[i].state \in {"open", "disturbed"}
      BY <2>2, SenderIs DEF DeliveryFits
    <3> QED
      BY <3>1 DEF EndsFit
  <2>3. CASE i # sending[c].no
    BY <2>1, <2>3 DEF EndsFit
  <2> QED
    BY <2>2, <2>3
<1> QED
  BY <1>2, <1>4, <1>5, <1>6 DEF NoticesInv

LEMMA PublishKeeps ==
  ASSUME NoticesInv, NEW c \in Senders, NEW event \in Events, Publish(c, event),
         UNCHANGED <<approver, manager, optOut, inbox>>
  PROVE  NoticesInv'
<1>1. PICK n \in Nat : n = Len(published)
  BY DEF NoticesInv, NoticesType
<1>2. PICK e : e = [event |-> event, due |-> Due(event), state |-> "open"]
  OBVIOUS
<1>3. e \in Published /\ e.event = event /\ e.due = Due(event) /\ e.state = "open"
  BY <1>2, TargetsArePeople DEF Published, NoticesInv
<1>4. PICK d : d = [op |-> "resolve", no |-> n + 1]
  OBVIOUS
<1>5. d \in Delivery /\ d.op = "resolve" /\ d.no = n + 1
  BY <1>1, <1>4 DEF Delivery
<1>6. /\ sending[c] = Idle /\ published' = Append(published, e)
      /\ sending' = [sending EXCEPT ![c] = d]
  BY <1>1, <1>2, <1>4 DEF Publish
<1>7. NoticesType'
  BY <1>3, <1>5, <1>6 DEF NoticesInv, NoticesType
<1>8. /\ DOMAIN published = 1 .. n /\ DOMAIN published' = 1 .. n + 1 /\ published'[n + 1] = e
      /\ \A i \in 1 .. n : published'[i] = published[i]
  BY <1>1, <1>3, <1>6 DEF NoticesInv, NoticesType
<1>9. \A i : Rowed(i)' = Rowed(i)
  BY RowsUntouched
<1>10. \A o \in Senders : sending'[o] = IF o = c THEN d ELSE sending[o]
  BY <1>6 DEF NoticesInv, NoticesType
<1>11. InboxFits'
  BY <1>8 DEF NoticesInv, InboxFits
<1>12. Rowed(n + 1) = {}
  BY <1>1, <1>8 DEF NoticesInv, InboxFits, Rowed, RowsOf
<1>13. ASSUME NEW o \in Senders
       PROVE  DeliveryFits(sending[o])'
  <2>1. CASE o = c
    <3>1. Due(event)' = Due(event)
      BY DEF Due, Targets, ShouldDeliver
    <3>2. DeliveryFits(d)'
      BY <1>1, <1>3, <1>5, <1>8, <1>9, <1>12, <3>1 DEF DeliveryFits
    <3>3. sending'[o] = d
      BY <1>10, <2>1
    <3> QED
      BY <3>2, <3>3
  <2>2. CASE o # c
    <3>1. PICK k : k = sending[o]
      OBVIOUS
    <3>2. DeliveryFits(k) /\ sending'[o] = k
      BY <1>10, <2>2, <3>1, SenderIs
    <3>3. k.op # "idle" => k.no \in DOMAIN published
      BY <3>2 DEF DeliveryFits
    <3>4. k.op # "idle" => k.no \in DOMAIN published' /\ published'[k.no] = published[k.no]
      BY <1>1, <1>8, <3>3
    <3>5. DeliveryFits(k)'
      BY <1>9, <3>2, <3>4, DeliveryStays
    <3> QED
      BY <3>2, <3>5
  <2> QED
    BY <2>1, <2>2
<1>14. DeliveriesApart'
  <2>1. \A o \in Senders \ {c} : sending[o].op # "idle" => sending[o].no # n + 1
    <3>1. \A o \in Senders : sending[o].op # "idle" => sending[o].no \in DOMAIN published
      BY SenderIs DEF DeliveryFits
    <3> QED
      BY <1>1, <1>8, <3>1
  <2> QED
    BY <1>5, <1>10, <2>1 DEF NoticesInv, DeliveriesApart
<1>15. ASSUME NEW i \in DOMAIN published'
       PROVE  EndsFit(i)'
  <2>1. CASE i = n + 1
    BY <1>3, <1>8, <2>1 DEF EndsFit
  <2>2. CASE i # n + 1
    BY <1>1, <1>8, <1>9, <1>15, <2>2 DEF NoticesInv, EndsFit
  <2> QED
    BY <2>1, <2>2
<1> QED
  BY <1>7, <1>11, <1>13, <1>14, <1>15 DEF NoticesInv

LEMMA OnEventKeeps ==
  ASSUME NoticesInv, NEW c \in Senders, OnEvent(c)
  PROVE  NoticesInv'
<1>1. PICK k \in Delivery : k = sending[c]
  BY SenderIs
<1>2. PICK e : e = published[k.no]
  OBVIOUS
<1>3. PICK to : to = Targets(TRIGGER_CATALOG[e.event].recipients, Requester, manager)
  OBVIOUS
<1>4. PICK d : d = [op |-> "next", no |-> k.no, to |-> to]
  OBVIOUS
<1>5. /\ k.op = "resolve" /\ sending' = [sending EXCEPT ![c] = d]
      /\ UNCHANGED <<approver, manager, optOut, inbox, published>>
  BY <1>1, <1>2, <1>3, <1>4 DEF OnEvent, requestVars, preferenceVars
<1>6. k.no \in Nat /\ k.no \in DOMAIN published /\ DeliveryFits(k)
  BY <1>1, <1>5, SenderIs DEF Delivery, DeliveryFits
<1>7. e \in Published /\ e.event \in Events
  <2>1. e \in Published
    BY <1>2, <1>6 DEF NoticesInv, NoticesType
  <2> QED
    BY <2>1 DEF Published
<1>8. /\ to \subseteq People
      /\ Due(e.event) = {u \in to : Wants(TypeOf(e.event), u)}
  BY <1>3, <1>7, TargetsArePeople DEF NoticesInv
<1>9. d \in Delivery /\ d.op = "next" /\ d.no = k.no /\ d.to = to
  BY <1>4, <1>6, <1>8 DEF Delivery
<1>10. DeliveryFits(d)
  BY <1>2, <1>5, <1>6, <1>8, <1>9 DEF DeliveryFits
<1>11. \A i : Rowed(i)' = Rowed(i)
  BY <1>5, RowsUntouched
<1>12. DeliveryFits(d)'
  BY <1>5, <1>6, <1>9, <1>10, <1>11, DeliveryStays
<1>13. InboxFits'
  BY <1>5 DEF NoticesInv, InboxFits
<1> QED
  BY <1>1, <1>5, <1>9, <1>11, <1>12, <1>13, DeliveryMoves

LEMMA ReadPreferencesKeeps ==
  ASSUME NoticesInv, NEW c \in Senders, NEW u \in People, ReadPreferences(c, u)
  PROVE  NoticesInv'
<1>1. PICK k \in Delivery : k = sending[c]
  BY SenderIs
<1>2. PICK e : e = published[k.no]
  OBVIOUS
<1>3. /\ k.op = "next" /\ u \in k.to
      /\ UNCHANGED <<approver, manager, optOut, inbox, published>>
  BY <1>1 DEF ReadPreferences, requestVars, preferenceVars
<1>4. /\ k.no \in Nat /\ k.to \subseteq People /\ DOMAIN k = {"op", "no", "to"}
      /\ DeliveryFits(k)
  BY <1>1, <1>3, SenderIs DEF Delivery
<1>5. PICK d \in Delivery :
        /\ sending' = [sending EXCEPT ![c] = d] /\ d.no = k.no /\ d.to = k.to \ {u}
        /\ \/ d.op = "insert" /\ d.u = u /\ Wants(TypeOf(e.event), u)
           \/ d.op = "next" /\ ~Wants(TypeOf(e.event), u)
  <2>1. CASE Wants(TypeOf(e.event), u)
    <3>1. PICK d : d = [op |-> "insert", no |-> k.no, to |-> k.to \ {u}, u |-> u]
      OBVIOUS
    <3>2. sending' = [sending EXCEPT ![c] = d]
      BY <1>1, <1>2, <2>1, <3>1 DEF ReadPreferences, Wants, TypeOf
    <3>3. /\ d \in Delivery /\ d.op = "insert" /\ d.no = k.no /\ d.to = k.to \ {u} /\ d.u = u
      BY <1>4, <3>1 DEF Delivery
    <3> QED
      BY <2>1, <3>2, <3>3
  <2>2. CASE ~Wants(TypeOf(e.event), u)
    <3>1. PICK d : d = [k EXCEPT !.to = k.to \ {u}]
      OBVIOUS
    <3>2. sending' = [sending EXCEPT ![c] = d]
      BY <1>1, <1>2, <2>2, <3>1 DEF ReadPreferences, Wants, TypeOf
    <3>3. k \in [op : {"next"}, no : Nat, to : SUBSET People]
      BY <1>3 DEF Delivery
    <3>4. /\ d \in [op : {"next"}, no : Nat, to : SUBSET People]
          /\ d.op = "next" /\ d.no = k.no /\ d.to = k.to \ {u}
      BY <1>4, <3>1, <3>3
    <3> QED
      BY <2>2, <3>2, <3>4 DEF Delivery
  <2> QED
    BY <2>1, <2>2
<1>6. DeliveryFits(d)
  <2>1. /\ d.no \in DOMAIN published /\ published[d.no].state \in {"open", "disturbed"}
        /\ d.to \cap Rowed(d.no) = {} /\ u \notin Rowed(d.no)
    BY <1>3, <1>4, <1>5 DEF DeliveryFits
  <2>2. ASSUME published[d.no].state = "open"
        PROVE  /\ e.due = Due(e.event)
               /\ e.due = Rowed(d.no) \cup {w \in k.to : Wants(TypeOf(e.event), w)}
    BY <1>2, <1>3, <1>4, <1>5, <2>2 DEF DeliveryFits
  <2> QED
    BY <1>2, <1>3, <1>5, <2>1, <2>2 DEF DeliveryFits
<1>7. \A i : Rowed(i)' = Rowed(i)
  BY <1>3, RowsUntouched
<1>8. d.no \in DOMAIN published
  BY <1>5, <1>6 DEF DeliveryFits
<1>9. DeliveryFits(d)'
  BY <1>3, <1>6, <1>7, <1>8, DeliveryStays
<1>10. InboxFits'
  BY <1>3 DEF NoticesInv, InboxFits
<1> QED
  BY <1>1, <1>3, <1>5, <1>7, <1>9, <1>10, DeliveryMoves

LEMMA InsertKeeps ==
  ASSUME NoticesInv, NEW c \in Senders, Insert(c)
  PROVE  NoticesInv'
<1>1. PICK k \in Delivery : k = sending[c]
  BY SenderIs
<1>2. PICK n : n = [to |-> k.u, no |-> k.no, read |-> FALSE, order |-> Cardinality(inbox) + 1]
  OBVIOUS
<1>3. PICK d : d = [op |-> "next", no |-> k.no, to |-> k.to]
  OBVIOUS
<1>4. /\ k.op = "insert" /\ inbox' = inbox \cup {n} /\ sending' = [sending EXCEPT ![c] = d]
      /\ UNCHANGED <<approver, manager, optOut, published>>
  <2>1. k.op = "insert" /\ UNCHANGED <<approver, manager, optOut, published>>
    BY <1>1 DEF Insert, requestVars, preferenceVars
  <2>2. inbox' = inbox \cup {n}
    BY <1>1, <1>2 DEF Insert
  <2>3. sending' = [sending EXCEPT ![c] = d]
    BY <1>1, <1>3 DEF Insert
  <2> QED
    BY <2>1, <2>2, <2>3
<1>5. k.no \in Nat /\ k.to \subseteq People /\ k.u \in People /\ DeliveryFits(k)
  BY <1>1, <1>4, SenderIs DEF Delivery
<1>6. d \in Delivery /\ d.op = "next" /\ d.no = k.no /\ d.to = k.to
  BY <1>3, <1>5 DEF Delivery
<1>7. n.to = k.u /\ n.no = k.no /\ DOMAIN n = {"to", "no", "read", "order"}
  BY <1>2
<1>8. k.no \in DOMAIN published /\ k.u \notin k.to /\ k.u \notin Rowed(k.no)
      /\ k.to \cap Rowed(k.no) = {}
  BY <1>4, <1>5 DEF DeliveryFits
<1>9. InboxFits'
  <2>1. \A m \in inbox : ~(m.no = k.no /\ m.to = k.u)
    BY <1>5, <1>8 DEF Rowed, RowsOf
  <2> QED
    BY <1>4, <1>5, <1>7, <1>8, <2>1 DEF NoticesInv, InboxFits
<1>10. /\ \A i : i # k.no => Rowed(i)' = Rowed(i)
       /\ Rowed(k.no)' = Rowed(k.no) \cup {k.u}
  BY <1>4, <1>5, <1>7 DEF Rowed, RowsOf
<1>11. DeliveryFits(d)'
  <2>1. \A e : Due(e)' = Due(e)
    BY <1>4 DEF Due, Targets, ShouldDeliver
  <2>2. \A t, w : Wants(t, w)' <=> Wants(t, w)
    BY <1>4 DEF Wants
  <2>3. published[d.no].state \in {"open", "disturbed"} /\ d.to \cap Rowed(d.no)' = {}
    BY <1>4, <1>5, <1>6, <1>8, <1>10 DEF DeliveryFits
  <2>4. PICK e : e = published[k.no]
    OBVIOUS
  <2>5. ASSUME e.state = "open"
        PROVE  /\ e.due = Due(e.event)
               /\ e.due = Rowed(k.no)' \cup {w \in k.to : Wants(TypeOf(e.event), w)}
    BY <1>4, <1>5, <1>10, <2>4, <2>5 DEF DeliveryFits
  <2> QED
    BY <1>4, <1>6, <1>8, <2>1, <2>2, <2>3, <2>4, <2>5 DEF DeliveryFits
<1> QED
  BY <1>1, <1>4, <1>6, <1>9, <1>10, <1>11, DeliveryMoves

LEMMA EndDeliveryKeeps ==
  ASSUME NoticesInv, NEW c \in Senders, Delivered(c) \/ DeliveryFails(c)
  PROVE  NoticesInv'
<1>1. PICK k \in Delivery : k = sending[c]
  BY SenderIs
<1>2. PICK state \in {"delivered", "failed"} :
        /\ EndDelivery(c, state) /\ k.op \in {"resolve", "next", "insert"}
        /\ state = "delivered" => k.op = "next" /\ k.to = {}
  BY <1>1 DEF Delivered, DeliveryFails
<1>3. k.no \in DOMAIN published /\ DeliveryFits(k)
  BY <1>1, <1>2, SenderIs DEF DeliveryFits
<1>4. PICK e \in Published : e = published[k.no]
  BY <1>3 DEF NoticesInv, NoticesType
<1>5. PICK s \in {"disturbed", "delivered", "failed"} :
        s = IF e.state = "disturbed" THEN e.state ELSE state
  BY <1>2
<1>6. PICK f : f = [e EXCEPT !.state = s]
  OBVIOUS
<1>7. f \in Published /\ f.state = s /\ f.due = e.due
  BY <1>5, <1>6 DEF Published
<1>8. /\ published' = [published EXCEPT ![k.no] = f] /\ sending' = [sending EXCEPT ![c] = Idle]
      /\ UNCHANGED <<approver, manager, optOut, inbox>>
  <2>1. published' = [published EXCEPT ![k.no] = f]
    BY <1>1, <1>2, <1>4, <1>5, <1>6 DEF EndDelivery
  <2> QED
    BY <1>2, <2>1 DEF EndDelivery, requestVars, preferenceVars
<1>9. /\ published' \in Seq(Published) /\ DOMAIN published' = DOMAIN published
      /\ \A i \in DOMAIN published : published'[i] = IF i = k.no THEN f ELSE published[i]
  BY <1>3, <1>7, <1>8 DEF NoticesInv, NoticesType
<1>10. NoticesType'
  BY <1>8, <1>9, IsIdle DEF NoticesInv, NoticesType
<1>11. \A o \in Senders : sending'[o] = IF o = c THEN Idle ELSE sending[o]
  BY <1>8 DEF NoticesInv, NoticesType
<1>12. \A i : Rowed(i)' = Rowed(i)
  BY <1>8, RowsUntouched
<1>13. InboxFits'
  BY <1>8, <1>9 DEF NoticesInv, InboxFits
<1>14. ASSUME NEW o \in Senders
       PROVE  DeliveryFits(sending[o])'
  <2>1. CASE o = c
    <3>1. DeliveryFits(Idle)'
      BY IsIdle DEF DeliveryFits
    <3>2. sending'[o] = Idle
      BY <1>11, <2>1
    <3> QED
      BY <3>1, <3>2
  <2>2. CASE o # c
    <3>1. PICK j : j = sending[o]
      OBVIOUS
    <3>2. DeliveryFits(j) /\ sending'[o] = j /\ (j.op # "idle" => j.no # k.no)
      BY <1>1, <1>2, <1>11, <2>2, <3>1, SenderIs DEF NoticesInv, DeliveriesApart
    <3>3. j.op # "idle" => j.no \in DOMAIN published
      BY <3>2 DEF DeliveryFits
    <3>4. DeliveryFits(j)'
      BY <1>8, <1>9, <1>12, <3>2, <3>3, DeliveryStays
    <3> QED
      BY <3>2, <3>4
  <2> QED
    BY <2>1, <2>2
<1>15. DeliveriesApart'
  BY <1>11, IsIdle DEF NoticesInv, DeliveriesApart
<1>16. ASSUME NEW i \in DOMAIN published'
       PROVE  EndsFit(i)'
  <2>1. CASE i # k.no
    BY <1>9, <1>12, <1>16, <2>1 DEF NoticesInv, EndsFit
  <2>2. CASE i = k.no
    <3>1. published'[i] = f
      BY <1>3, <1>9, <2>2
    <3>2. CASE s = "delivered"
      <4>1. e.state = "open" /\ k.op = "next" /\ k.to = {}
        BY <1>2, <1>3, <1>4, <1>5, <3>2 DEF DeliveryFits
      <4>2. e.due = Rowed(k.no)
        BY <1>3, <1>4, <4>1 DEF DeliveryFits
      <4> QED
        BY <1>7, <1>12, <2>2, <3>1, <3>2, <4>2 DEF EndsFit
    <3>3. CASE s = "failed"
      <4>1. e.state = "open"
        BY <1>2, <1>3, <1>4, <1>5, <3>3 DEF DeliveryFits
      <4>2. Rowed(k.no) \subseteq e.due
        BY <1>2, <1>3, <1>4, <4>1 DEF DeliveryFits
      <4> QED
        BY <1>7, <1>12, <2>2, <3>1, <3>3, <4>2 DEF EndsFit
    <3>4. CASE s = "disturbed"
      BY <1>7, <3>1, <3>4 DEF EndsFit
    <3> QED
      BY <1>5, <3>2, <3>3, <3>4
  <2> QED
    BY <2>1, <2>2
<1> QED
  BY <1>10, <1>13, <1>14, <1>15, <1>16 DEF NoticesInv

(* What was due may change: nothing is open any more.                      *)
LEMMA DisturbKeeps ==
  ASSUME NoticesInv, Disturb, UNCHANGED <<inbox, sending>>,
         approver' \in {Boss, Nobody}, manager' \in {Boss, Nobody}
  PROVE  NoticesInv'
<1>1. PICK n \in Nat : n = Len(published) /\ DOMAIN published = 1 .. n
  BY DEF NoticesInv, NoticesType
<1>2. \A i \in 1 .. n : published[i] \in Published
  BY <1>1 DEF NoticesInv, NoticesType
<1>3. DOMAIN published' = 1 .. n
  BY <1>1 DEF Disturb
<1>4. ASSUME NEW i \in 1 .. n
      PROVE  /\ published'[i] \in Published /\ published'[i].due = published[i].due
             /\ published'[i].state =
                  IF published[i].state = "open" THEN "disturbed" ELSE published[i].state
  <2>1. PICK e \in Published : e = published[i]
    BY <1>2
  <2>2. published'[i] = IF e.state = "open" THEN [e EXCEPT !.state = "disturbed"] ELSE e
    BY <1>1, <2>1 DEF Disturb
  <2>3. PICK f : f = [e EXCEPT !.state = "disturbed"]
    OBVIOUS
  <2>4. f \in Published /\ f.due = e.due /\ f.state = "disturbed"
    BY <2>3 DEF Published
  <2> QED
    BY <2>1, <2>2, <2>3, <2>4
<1>5. published' \in Seq(Published)
  <2>1. published' = [i \in 1 .. n |-> published'[i]]
    BY <1>1 DEF Disturb
  <2>2. published' \in [1 .. n -> Published]
    BY <1>4, <2>1
  <2> QED
    BY <2>2, SeqDef
<1>6. NoticesType'
  BY <1>5 DEF NoticesInv, NoticesType
<1>7. \A i : Rowed(i)' = Rowed(i)
  BY RowsUntouched
<1>8. InboxFits'
  BY <1>1, <1>3 DEF NoticesInv, InboxFits
<1>9. ASSUME NEW o \in Senders
      PROVE  DeliveryFits(sending[o])'
  <2>1. PICK k : k = sending[o]
    OBVIOUS
  <2>2. DeliveryFits(k) /\ sending'[o] = k
    BY <2>1, SenderIs
  <2>3. k.op # "idle" =>
          /\ k.no \in DOMAIN published' /\ published'[k.no].state = "disturbed"
    BY <1>1, <1>3, <1>4, <2>2 DEF DeliveryFits
  <2>4. DeliveryFits(k)'
    BY <1>7, <2>2, <2>3 DEF DeliveryFits
  <2> QED
    BY <2>2, <2>4
<1>10. DeliveriesApart'
  BY DEF NoticesInv, DeliveriesApart
<1>11. \A i \in DOMAIN published' : EndsFit(i)'
  BY <1>1, <1>3, <1>4, <1>7 DEF NoticesInv, EndsFit
<1> QED
  BY <1>6, <1>8, <1>9, <1>10, <1>11 DEF NoticesInv

(* Rows that are read, and what concerns no delivery.                      *)
LEMMA ReadingKeeps ==
  ASSUME NoticesInv, UNCHANGED <<approver, manager, optOut, published, sending>>, InboxFits',
         \A i : Rowed(i)' = Rowed(i)
  PROVE  NoticesInv'
<1>1. NoticesType' /\ DeliveriesApart'
  BY DEF NoticesInv, NoticesType, DeliveriesApart
<1>2. ASSUME NEW o \in Senders
      PROVE  DeliveryFits(sending[o])'
  <2>1. PICK k : k = sending[o]
    OBVIOUS
  <2>2. DeliveryFits(k) /\ sending'[o] = k
    BY <2>1, SenderIs
  <2>3. k.op # "idle" => k.no \in DOMAIN published
    BY <2>2 DEF DeliveryFits
  <2>4. DeliveryFits(k)'
    BY <2>2, <2>3, DeliveryStays
  <2> QED
    BY <2>2, <2>4
<1>3. \A i \in DOMAIN published' : EndsFit(i)'
  BY DEF NoticesInv, EndsFit
<1> QED
  BY <1>1, <1>2, <1>3 DEF NoticesInv

(* A row that is marked is still the row of its event and its person.      *)
LEMMA MarkedIs ==
  ASSUME InboxFits, UNCHANGED published, NEW Marked,
         inbox' = {IF r \in Marked THEN [r EXCEPT !.read = TRUE] ELSE r : r \in inbox}
  PROVE  InboxFits' /\ \A i : Rowed(i)' = Rowed(i)
<1> DEFINE M(r) == IF r \in Marked THEN [r EXCEPT !.read = TRUE] ELSE r
<1>1. ASSUME NEW r \in inbox
      PROVE  /\ M(r) \in inbox' /\ M(r).no = r.no /\ M(r).to = r.to
             /\ DOMAIN M(r) = {"to", "no", "read", "order"}
  BY <1>1 DEF InboxFits
<1>2. \A n \in inbox' : \E r \in inbox : n = M(r)
  OBVIOUS
<1> HIDE DEF M
<1>3. InboxFits'
  <2>1. \A n \in inbox' : /\ DOMAIN n = {"to", "no", "read", "order"}
                          /\ n.to \in People /\ n.no \in DOMAIN published
    BY <1>1, <1>2 DEF InboxFits
  <2>2. ASSUME NEW m \in inbox', NEW n \in inbox', m.no = n.no, m.to = n.to
        PROVE  m = n
    <3>1. PICK a \in inbox : m = M(a)
      BY <1>2
    <3>2. PICK b \in inbox : n = M(b)
      BY <1>2
    <3>3. a = b
      BY <1>1, <2>2, <3>1, <3>2 DEF InboxFits
    <3> QED
      BY <3>1, <3>2, <3>3
  <2> QED
    BY <2>1, <2>2 DEF InboxFits
<1>4. ASSUME NEW i, NEW u
      PROVE  (\E n \in inbox' : n.no = i /\ n.to = u) <=> (\E n \in inbox : n.no = i /\ n.to = u)
  <2>1. ASSUME NEW n \in inbox', n.no = i, n.to = u
        PROVE  \E m \in inbox : m.no = i /\ m.to = u
    <3>1. PICK r \in inbox : n = M(r)
      BY <1>2
    <3>2. r.no = n.no /\ r.to = n.to
      BY <1>1, <3>1
    <3> QED
      BY <2>1, <3>2
  <2>2. ASSUME NEW n \in inbox, n.no = i, n.to = u
        PROVE  \E m \in inbox' : m.no = i /\ m.to = u
    BY <1>1, <2>2
  <2> QED
    BY <2>1, <2>2
<1>5. \A i : Rowed(i)' = Rowed(i)
  BY <1>4 DEF Rowed, RowsOf
<1> QED
  BY <1>3, <1>5

LEMMA MarkReadKeeps ==
  ASSUME NoticesInv, NEW u \in People, MarkAllRead(u) \/ \E n \in inbox : MarkRead(u, n)
  PROVE  NoticesInv'
<1>1. InboxFits' /\ \A i : Rowed(i)' = Rowed(i)
  <2>1. InboxFits /\ UNCHANGED published
    BY DEF NoticesInv, MarkAllRead, MarkRead
  <2>2. CASE MarkAllRead(u)
    <3>1. PICK marked : marked = {r \in inbox : r.to = u}
      OBVIOUS
    <3>2. inbox' = {IF r \in marked THEN [r EXCEPT !.read = TRUE] ELSE r : r \in inbox}
      BY <2>2, <3>1 DEF MarkAllRead
    <3> QED
      BY <2>1, <3>2, MarkedIs
  <2>3. ASSUME NEW n \in inbox, MarkRead(u, n)
        PROVE  InboxFits' /\ \A i : Rowed(i)' = Rowed(i)
    <3>1. PICK marked : marked = {r \in inbox : r.order = n.order /\ r.to = u}
      OBVIOUS
    <3>2. inbox' = {IF r \in marked THEN [r EXCEPT !.read = TRUE] ELSE r : r \in inbox}
      BY <2>3, <3>1 DEF MarkRead
    <3> QED
      BY <2>1, <3>2, MarkedIs
  <2> QED
    BY <2>2, <2>3
<1>2. UNCHANGED <<approver, manager, optOut, published, sending>>
  BY DEF MarkAllRead, MarkRead, requestVars, preferenceVars
<1> QED
  BY <1>1, <1>2, ReadingKeeps

(* The inductive invariant: while nothing disturbs a delivery, who has a   *)
(* row and who has still to get one are those it was due to                *)
(* (notification.service.js onEvent, create).                              *)
THEOREM NoticesInvariant == NoticesSpec => []NoticesInv
<1>1. NoticesInit => NoticesInv
  <2> SUFFICES ASSUME NoticesInit
               PROVE  NoticesInv
    OBVIOUS
  <2>1. NoticesType
    BY IsIdle DEF NoticesInit, NoticesType
  <2>2. \A c \in Senders : sending[c] = Idle
    BY DEF NoticesInit
  <2>3. \A c \in Senders : DeliveryFits(sending[c])
    BY <2>2, IsIdle DEF DeliveryFits
  <2>4. DeliveriesApart
    BY <2>2, IsIdle DEF DeliveriesApart
  <2>5. InboxFits /\ \A i \in DOMAIN published : EndsFit(i)
    BY DEF NoticesInit, InboxFits
  <2> QED
    BY <2>1, <2>3, <2>4, <2>5 DEF NoticesInv
<1>2. NoticesInv /\ [NoticesNext]_noticeVars => NoticesInv'
  <2> SUFFICES ASSUME NoticesInv, [NoticesNext]_noticeVars
               PROVE  NoticesInv'
    OBVIOUS
  <2>1. approver \in {Boss, Nobody} /\ manager \in {Boss, Nobody}
    BY DEF NoticesInv, NoticesType
  <2>2. ASSUME NEW c \in Senders,
               \/ AnnounceSubmission(c)
               \/ \E e \in DOMAIN TRIGGER_CATALOG : AnnounceEnd(c, e) \/ PublishDirect(c, e)
        PROVE  NoticesInv'
    <3>1. PICK event \in Events : Publish(c, event)
      BY <2>2 DEF AnnounceSubmission, AnnounceEnd, PublishDirect, Events, TRIGGER_CATALOG
    <3>2. UNCHANGED <<approver, manager, optOut, inbox>>
      BY <2>2 DEF AnnounceSubmission, AnnounceEnd, PublishDirect, requestVars, preferenceVars
    <3> QED
      BY <3>1, <3>2, PublishKeeps
  <2>3. ASSUME NEW c \in Senders,
               \/ OnEvent(c) \/ Insert(c) \/ Delivered(c) \/ DeliveryFails(c)
               \/ \E u \in People : ReadPreferences(c, u)
        PROVE  NoticesInv'
    BY <2>3, OnEventKeeps, InsertKeeps, EndDeliveryKeeps, ReadPreferencesKeeps
  <2>4. CASE \/ \E boss \in {Boss, Nobody} : ChangeManager(boss)
             \/ Claim \/ \E u \in People, type \in Types : ToggleOptOut(u, type)
    <3>1. Disturb /\ UNCHANGED <<inbox, sending>>
      BY <2>4 DEF ChangeManager, Claim, ToggleOptOut
    <3>2. approver' \in {Boss, Nobody} /\ manager' \in {Boss, Nobody}
      BY <2>1, <2>4 DEF ChangeManager, Claim, ToggleOptOut, requestVars
    <3> QED
      BY <3>1, <3>2, DisturbKeeps
  <2>5. CASE \/ \E u \in People : LoadPage(u)
             \/ UNCHANGED noticeVars
    <3>1. UNCHANGED <<approver, manager, optOut, published, sending, inbox>>
      BY <2>5 DEF LoadPage, requestVars, noticeVars
    <3>2. InboxFits'
      BY <3>1 DEF NoticesInv, InboxFits
    <3> QED
      BY <3>1, <3>2, RowsUntouched, ReadingKeeps
  <2>6. ASSUME NEW u \in People, MarkAllRead(u) \/ \E n \in inbox : MarkRead(u, n)
        PROVE  NoticesInv'
    BY <2>6, MarkReadKeeps
  <2> QED
    BY <2>2, <2>3, <2>4, <2>5, <2>6 DEF NoticesNext
<1> QED
  BY <1>1, <1>2, PTL DEF NoticesSpec

(* A delivery that nothing disturbed gives everyone who was due one row    *)
(* and nobody else any, and nobody is ever told twice, whatever fails and  *)
(* whatever is published beside it.                                        *)
THEOREM EveryoneToldOnce == NoticesSpec => []ToldOnce
<1>1. NoticesInv => ToldOnce
  <2> SUFFICES ASSUME NoticesInv, NEW i \in DOMAIN published
               PROVE  /\ published[i].state = "delivered" =>
                           published[i].due = {u \in People : RowsOf(i, u) # {}}
                      /\ published[i].state = "failed" =>
                           {u \in People : RowsOf(i, u) # {}} \subseteq published[i].due
                      /\ \A u \in People : Cardinality(RowsOf(i, u)) <= 1
    BY DEF ToldOnce
  <2>1. EndsFit(i)
    BY DEF NoticesInv
  <2>2. ASSUME NEW u \in People
        PROVE  Cardinality(RowsOf(i, u)) <= 1
    <3>1. PICK A : A = RowsOf(i, u)
      OBVIOUS
    <3>2. A = {} \/ \E n : A = {n}
      BY <3>1, ZenonT(60) DEF NoticesInv, InboxFits, RowsOf
    <3> QED
      BY <3>1, <3>2, FS_EmptySet, FS_Singleton
  <2> QED
    BY <2>1, <2>2 DEF EndsFit, Rowed
<1> QED
  BY <1>1, NoticesInvariant, PTL

----------------------------------------------------------------------------
(* Pages and the shell, where the tables agree.                            *)

(* A call the shell's rights allow, and the gate where it has to.          *)
Fits(c, roles, must) ==
  /\ c = "attendance.correct" \/ Authorized(c, Rights(roles))
  /\ must => c \in FIRST_SIGN_IN_GATE_EXEMPT \cup {"passwordPolicy.get"}

RightPage(s, p) ==
  p = "changePassword" \/ (~s.mustChange /\ p \in RequirePermission(Rights(s.roles)) \cup {"forbidden"})

Known(m) == m = NoMenu \/ \E roles \in RoleSets : m = NavigationFor(Rights(roles))

(* The four copies of a person's rights, as long as nothing was changed    *)
(* since the shell was filled: they are one.                               *)
CopiesAgree ==
  shell # SignedOut /\ ~stale =>
    /\ held = shell.roles /\ (mustChange => shell.mustChange)
    /\ superseded \/ token = held
    /\ menu = NoMenu \/ menu = NavigationFor(Rights(held))

ShellFits ==
  /\ held \in RoleSets
  /\ IF shell = SignedOut THEN doing = <<>> /\ page = "login"
     ELSE shell.roles \in RoleSets /\ RightPage(shell, page)
  /\ Known(menu)

DoingFits ==
  doing \in Seq(STRING) /\ \A c \in Range(doing) : Fits(c, shell.roles, shell.mustChange)

ScreensInv ==
  /\ ShellFits /\ DoingFits /\ CopiesAgree /\ ServedAsShown /\ misled = {}

LEMMA RolesAre ==
  ASSUME NEW roles \in RoleSets
  PROVE  roles \in (SUBSET DOMAIN ROLE_SEED) \ {{}} /\ roles # {} /\ roles \in Held
BY ScreensAssumption DEF Held

LEMMA TailIs ==
  ASSUME NEW s \in Seq(STRING), s # <<>>
  PROVE  /\ Head(s) \in Range(s) /\ Tail(s) \in Seq(STRING) /\ Range(Tail(s)) \subseteq Range(s)
<1>1. /\ Len(s) \in Nat \ {0} /\ Head(s) = s[1] /\ DOMAIN s = 1 .. Len(s)
      /\ Tail(s) \in Seq(STRING) /\ Len(Tail(s)) = Len(s) - 1
      /\ DOMAIN Tail(s) = 1 .. Len(s) - 1 /\ \A i \in 1 .. Len(s) - 1 : Tail(s)[i] = s[i + 1]
  BY EmptySeq, HeadTailProperties
<1>2. Head(s) \in Range(s)
  BY <1>1 DEF Range
<1>3. \A i \in DOMAIN Tail(s) : i + 1 \in DOMAIN s /\ Tail(s)[i] = s[i + 1]
  BY <1>1
<1> QED
  BY <1>1, <1>2, <1>3 DEF Range

LEMMA TablesOf ==
  ASSUME TablesAgree, NEW roles \in RoleSets
  PROVE  /\ NavigationFor(Rights(roles)) = RequirePermission(Rights(roles))
         /\ FilterSidebarItems(Rights(roles)) \subseteq RequirePermission(Rights(roles))
         /\ \A p \in PagesOf(roles) :
              LET screen == MainLayout(p, Rights(roles)) IN
              /\ screen.links \subseteq RequirePermission(Rights(roles))
              /\ screen.offers \subseteq Seq(STRING) \ {<<>>}
              /\ \A c \in Sends(screen) \ {"attendance.correct"} : Authorized(c, Rights(roles))
         /\ Sends(MainLayout("changePassword", Rights(roles)))
              \subseteq FIRST_SIGN_IN_GATE_EXEMPT \cup {"passwordPolicy.get"}
         /\ RouterPages \cap {"forbidden", "changePassword", "login"} = {}
BY RolesAre DEF TablesAgree

LEMMA AdmittedAre ==
  ASSUME NEW r
  PROVE  RequirePermission(r) \subseteq RouterPages
BY DEF RequirePermission, Visible, RouterPages

(* What is shown is for the shell's roles.                                 *)
LEMMA ShownFits ==
  ASSUME TablesAgree, ScreensInv, shell # SignedOut
  PROVE  /\ \A c \in Sends(Shown) : Fits(c, shell.roles, shell.mustChange)
         /\ Shown.links \subseteq RequirePermission(Rights(shell.roles))
         /\ Shown.offers \subseteq Seq(STRING) \ {<<>>}
<1>1. PICK roles \in RoleSets : roles = shell.roles /\ roles \in Held
  BY RolesAre DEF ScreensInv, ShellFits
<1>2. page \in PagesOf(roles) /\ page \in RouterPages \cup {"forbidden", "changePassword", "login"}
  BY <1>1, AdmittedAre DEF ScreensInv, ShellFits, RightPage, PagesOf
<1>3. PICK screen : screen = MainLayout(page, Rights(roles)) /\ Shown = screen
  BY <1>1, <1>2 DEF Shown, Layout
<1>4. /\ screen.links \subseteq RequirePermission(Rights(roles))
      /\ screen.offers \subseteq Seq(STRING) \ {<<>>}
      /\ \A c \in Sends(screen) \ {"attendance.correct"} : Authorized(c, Rights(roles))
  BY <1>2, <1>3, TablesOf
<1>5. shell.mustChange => Sends(screen) \subseteq FIRST_SIGN_IN_GATE_EXEMPT \cup {"passwordPolicy.get"}
  BY <1>1, <1>3, TablesOf DEF ScreensInv, ShellFits, RightPage
<1> QED
  BY <1>1, <1>3, <1>4, <1>5 DEF Fits

(* A call that is refused while nothing was changed is one of the two.     *)
LEMMA RefusedIsAllowed ==
  ASSUME ScreensInv, Current, ~stale, NEW c, Fits(c, shell.roles, shell.mustChange), ~Served(c)
  PROVE  c \in {"attendance.correct"} \cup (IF EnforceGate THEN {"passwordPolicy.get"} ELSE {})
<1>1. held = shell.roles /\ (mustChange => shell.mustChange) /\ token = held
  BY DEF ScreensInv, CopiesAgree, Current
<1>2. CASE ~Authorized(c, Rights(token))
  BY <1>1, <1>2 DEF Fits
<1>3. CASE EnforceGate /\ mustChange /\ c \notin FIRST_SIGN_IN_GATE_EXEMPT
  BY <1>1, <1>3 DEF Fits
<1> QED
  BY <1>2, <1>3 DEF Served

LEMMA DashboardIsThere == "dashboard" \in RouterPages
<1>1. Leaf("dashboard", {"dashboard:view"}) \in AppRouter
  BY DEF AppRouter, EmployeePages
<1>2. Leaf("dashboard", {"dashboard:view"}).page = "dashboard"
  BY DEF Leaf
<1> QED
  BY <1>1, <1>2 DEF RouterPages

LEMMA ResultStays ==
  ASSUME ScreensInv, UNCHANGED <<refused, misled>>
  PROVE  ServedAsShown' /\ misled' = {}
BY DEF ScreensInv, ServedAsShown

LEMMA GuardFits ==
  ASSUME NEW s, NEW roles \in RoleSets, s.roles = roles, s.mustChange \in BOOLEAN, NEW p \in RouterPages
  PROVE  RightPage(s, RequirePasswordChange(s, p))
<1>1. Admitted[roles] = RequirePermission(Rights(roles))
  BY RolesAre DEF Admitted
<1>2. CASE s.mustChange
  <2>1. RequirePasswordChange(s, p) = "changePassword"
    BY <1>2 DEF RequirePasswordChange
  <2> QED
    BY <2>1 DEF RightPage
<1>3. CASE ~s.mustChange
  <2>1. \/ RequirePasswordChange(s, p) = "forbidden"
        \/ p \in Admitted[roles] /\ RequirePasswordChange(s, p) = p
    BY <1>3 DEF RequirePasswordChange
  <2> QED
    BY <1>1, <1>3, <2>1 DEF RightPage
<1> QED
  BY <1>2, <1>3

(* The shell is filled, and everything else begins anew.                   *)
LEMMA FillShellKeeps ==
  ASSUME ScreensInv, mustChange \in BOOLEAN, NEW p \in RouterPages, IssueToken, FillShell(p),
         menu' = NoMenu, doing' = <<>>, UNCHANGED <<held, mustChange, refused, misled>>
  PROVE  ScreensInv'
<1>1. held \in RoleSets /\ held # {}
  BY RolesAre DEF ScreensInv, ShellFits
<1>2. shell'.roles = held /\ shell'.mustChange = mustChange /\ stale' = FALSE
  BY DEF FillShell, Fresh
<1>3. shell' # SignedOut
  BY <1>1, <1>2 DEF SignedOut
<1>4. PICK s : s = Fresh
  OBVIOUS
<1>5. s.roles = held /\ s.mustChange = mustChange /\ shell' = s /\ page' = RequirePasswordChange(s, p)
  BY <1>4 DEF FillShell, Fresh
<1>6. RightPage(s, page')
  BY <1>1, <1>5, GuardFits
<1>7. ShellFits'
  BY <1>1, <1>2, <1>3, <1>5, <1>6 DEF ShellFits, Known
<1>8. DoingFits'
  BY EmptySeq DEF DoingFits, Range
<1>9. CopiesAgree'
  BY <1>2 DEF CopiesAgree, IssueToken
<1> QED
  BY <1>7, <1>8, <1>9, ResultStays DEF ScreensInv

(* Nothing of the shell moves but what is under way.                       *)
LEMMA DoingMoves ==
  ASSUME ScreensInv, UNCHANGED <<held, mustChange, token, superseded, shell, stale, menu, page, misled>>,
         DoingFits', ServedAsShown', shell # SignedOut
  PROVE  ScreensInv'
<1>1. ShellFits' /\ CopiesAgree'
  BY DEF ScreensInv, ShellFits, CopiesAgree
<1> QED
  BY <1>1 DEF ScreensInv

(* The administrator changes something: the copies may part.               *)
LEMMA Changed ==
  ASSUME ScreensInv, stale' = TRUE, held' \in RoleSets,
         UNCHANGED <<shell, menu, page, doing, refused, misled>>
  PROVE  ScreensInv'
<1>1. ShellFits' /\ DoingFits' /\ CopiesAgree'
  BY DEF ScreensInv, ShellFits, DoingFits, CopiesAgree, Known
<1> QED
  BY <1>1, ResultStays DEF ScreensInv

LEMMA TokenMoves ==
  ASSUME ScreensInv, superseded' = TRUE \/ IssueToken,
         UNCHANGED <<held, mustChange, shell, stale, menu, page, doing, refused, misled>>
  PROVE  ScreensInv'
<1>1. ShellFits' /\ DoingFits'
  BY DEF ScreensInv, ShellFits, DoingFits, Known
<1>2. CopiesAgree'
  BY DEF ScreensInv, CopiesAgree, IssueToken
<1> QED
  BY <1>1, <1>2, ResultStays DEF ScreensInv

LEMMA SignOutKeeps ==
  ASSUME ScreensInv, SignOut
  PROVE  ScreensInv'
<1>1. /\ shell' = SignedOut /\ menu' = NoMenu /\ page' = "login" /\ doing' = <<>>
      /\ UNCHANGED <<held, refused, misled>>
  BY DEF SignOut, personVars
<1>2. ShellFits' /\ CopiesAgree'
  BY <1>1 DEF ScreensInv, ShellFits, CopiesAgree, Known
<1>3. DoingFits'
  BY <1>1, EmptySeq DEF DoingFits, Range
<1> QED
  BY <1>1, <1>2, <1>3, ResultStays DEF ScreensInv

LEMMA NavigationKeeps ==
  ASSUME ScreensInv, Navigation
  PROVE  ScreensInv'
<1>1. /\ menu' = Catalog[held] /\ shell # SignedOut
      /\ UNCHANGED <<held, mustChange, token, superseded, shell, stale, page, doing, refused, misled>>
  BY DEF Navigation, Current, personVars, tokenVars
<1>2. held \in RoleSets /\ menu' = NavigationFor(Rights(held))
  BY <1>1, RolesAre DEF Catalog, ScreensInv, ShellFits
<1>3. ShellFits' /\ DoingFits' /\ CopiesAgree'
  BY <1>1, <1>2 DEF ScreensInv, ShellFits, DoingFits, CopiesAgree, Known
<1> QED
  BY <1>1, <1>3, ResultStays DEF ScreensInv

LEMMA FollowKeeps ==
  ASSUME TablesAgree, ScreensInv, shell.mustChange \in BOOLEAN, Follow
  PROVE  ScreensInv'
<1>1. PICK p \in Sidebar \cup Shown.links :
        /\ page' = RequirePasswordChange(shell, p)
        /\ misled' = IF page' = "forbidden" /\ ~stale THEN misled \cup {p} ELSE misled
  BY DEF Follow
<1>2. /\ shell # SignedOut /\ doing' = <<>>
      /\ UNCHANGED <<held, mustChange, token, superseded, shell, stale, menu, refused>>
  BY DEF Follow, personVars, tokenVars
<1>3. PICK roles \in RoleSets : roles = shell.roles /\ roles \in Held
  BY <1>2, RolesAre DEF ScreensInv, ShellFits
<1>4. Fallback[roles] = FilterSidebarItems(Rights(roles)) /\ Admitted[roles] = RequirePermission(Rights(roles))
  BY <1>3 DEF Fallback, Admitted
<1>5. Shown.links \subseteq RequirePermission(Rights(roles))
  BY <1>2, <1>3, ShownFits
<1>6. Fallback[roles] \subseteq RequirePermission(Rights(roles))
  BY <1>4, TablesOf
<1>7. p \in RouterPages
  <2>1. menu # NoMenu => \E r \in RoleSets : menu = RequirePermission(Rights(r))
    BY TablesOf DEF ScreensInv, ShellFits, Known
  <2>2. Sidebar \subseteq RouterPages
    BY <1>3, <1>6, <2>1, AdmittedAre DEF Sidebar
  <2> QED
    BY <1>1, <1>5, <2>2, AdmittedAre
<1>8. RightPage(shell, page')
  BY <1>1, <1>3, <1>7, GuardFits
<1>9. ~stale => p \in RequirePermission(Rights(roles))
  <2>1. ~stale /\ menu # NoMenu => menu = RequirePermission(Rights(roles))
    BY <1>2, <1>3, TablesOf DEF ScreensInv, CopiesAgree
  <2> QED
    BY <1>1, <1>3, <1>5, <1>6, <2>1 DEF Sidebar
<1>10. ~stale => page' # "forbidden"
  <2>1. p # "forbidden"
    BY <1>7, TablesOf
  <2> QED
    BY <1>1, <1>3, <1>4, <1>9, <2>1 DEF RequirePasswordChange
<1>11. misled' = {}
  BY <1>1, <1>10 DEF ScreensInv
<1>12. ShellFits' /\ CopiesAgree'
  BY <1>2, <1>8 DEF ScreensInv, ShellFits, CopiesAgree, Known
<1>13. DoingFits'
  BY <1>2, EmptySeq DEF DoingFits, Range
<1>14. ServedAsShown'
  BY <1>2 DEF ScreensInv, ServedAsShown
<1> QED
  BY <1>11, <1>12, <1>13, <1>14 DEF ScreensInv

(* Calls that fit are answered, and what is left of them fits.             *)
LEMMA AnswerKeeps ==
  ASSUME ScreensInv, Current, NEW sequence \in Seq(STRING), sequence # <<>>,
         \A c \in Range(sequence) : Fits(c, shell.roles, shell.mustChange),
         Answer(Head(sequence), Tail(sequence)),
         UNCHANGED <<held, mustChange, token, superseded, shell, stale, menu, page, misled>>
  PROVE  ScreensInv'
<1>1. PICK c, rest : c = Head(sequence) /\ rest = Tail(sequence)
  OBVIOUS
<1>2. /\ c \in Range(sequence) /\ rest \in Seq(STRING) /\ Range(rest) \subseteq Range(sequence)
      /\ Fits(c, shell.roles, shell.mustChange)
  BY <1>1, TailIs
<1>3. CASE Served(c)
  <2>1. doing' = rest /\ UNCHANGED refused
    BY <1>1, <1>3 DEF Answer
  <2>2. DoingFits'
    BY <1>2, <2>1 DEF DoingFits
  <2>3. ServedAsShown'
    BY <2>1 DEF ScreensInv, ServedAsShown
  <2> QED
    BY <2>2, <2>3, DoingMoves DEF Current
<1>4. CASE ~Served(c)
  <2>1. doing' = <<>> /\ refused' = IF stale THEN refused ELSE refused \cup {c}
    BY <1>1, <1>4 DEF Answer
  <2>2. DoingFits'
    BY <2>1, EmptySeq DEF DoingFits, Range
  <2>3. ~stale => c \in {"attendance.correct"} \cup (IF EnforceGate THEN {"passwordPolicy.get"} ELSE {})
    BY <1>2, <1>4, RefusedIsAllowed
  <2>4. ServedAsShown'
    BY <2>1, <2>3 DEF ScreensInv, ServedAsShown
  <2> QED
    BY <2>2, <2>4, DoingMoves DEF Current
<1> QED
  BY <1>3, <1>4

LEMMA StartKeeps ==
  ASSUME TablesAgree, ScreensInv, Start
  PROVE  ScreensInv'
<1>1. /\ Current
      /\ UNCHANGED <<held, mustChange, token, superseded, shell, stale, menu, page, misled>>
  BY DEF Start, personVars, tokenVars
<1>2. PICK sequence \in Shown.offers : Answer(Head(sequence), Tail(sequence))
  BY DEF Start
<1>3. sequence \in Seq(STRING) /\ sequence # <<>>
  BY <1>1, ShownFits DEF Current
<1>4. \A c \in Range(sequence) : c \in Sends(Shown)
  BY DEF Sends
<1>5. \A c \in Range(sequence) : Fits(c, shell.roles, shell.mustChange)
  BY <1>1, <1>4, ShownFits DEF Current
<1> QED
  BY <1>1, <1>2, <1>3, <1>5, AnswerKeeps

LEMMA ContinueKeeps ==
  ASSUME ScreensInv, Continue
  PROVE  ScreensInv'
<1>1. /\ Current /\ doing # <<>> /\ Answer(Head(doing), Tail(doing))
      /\ UNCHANGED <<held, mustChange, token, superseded, shell, stale, menu, page, misled>>
  BY DEF Continue, personVars, tokenVars
<1>2. doing \in Seq(STRING) /\ \A c \in Range(doing) : Fits(c, shell.roles, shell.mustChange)
  BY DEF ScreensInv, DoingFits
<1>3. PICK sequence : sequence = doing
  OBVIOUS
<1>4. /\ sequence \in Seq(STRING) /\ sequence # <<>> /\ Answer(Head(sequence), Tail(sequence))
      /\ \A c \in Range(sequence) : Fits(c, shell.roles, shell.mustChange)
  BY <1>1, <1>2, <1>3
<1> QED
  BY <1>1, <1>4, AnswerKeeps

LEMMA QueryKeeps ==
  ASSUME TablesAgree, ScreensInv, Query
  PROVE  ScreensInv'
<1>1. /\ Current /\ refused' = IF stale THEN refused ELSE refused \cup {c \in Shown.opens : ~Served(c)}
      /\ UNCHANGED <<held, mustChange, token, superseded, shell, stale, menu, page, doing, misled>>
  BY DEF Query, personVars, tokenVars
<1>2. \A c \in Shown.opens : Fits(c, shell.roles, shell.mustChange)
  BY <1>1, ShownFits DEF Sends, Current
<1>3. ~stale => \A c \in Shown.opens : ~Served(c) =>
        c \in {"attendance.correct"} \cup (IF EnforceGate THEN {"passwordPolicy.get"} ELSE {})
  BY <1>1, <1>2, RefusedIsAllowed
<1>4. ServedAsShown'
  BY <1>1, <1>3 DEF ScreensInv, ServedAsShown
<1>5. DoingFits'
  BY <1>1 DEF ScreensInv, DoingFits
<1> QED
  BY <1>1, <1>4, <1>5, DoingMoves DEF Current

LEMMA ChangePasswordKeeps ==
  ASSUME TablesAgree, ScreensInv, ChangePassword
  PROVE  ScreensInv'
<1>1. /\ Current /\ mustChange' = FALSE /\ superseded' = TRUE /\ doing' = <<"auth.getSession">>
      /\ <<"auth.changePassword", "auth.getSession">> \in Shown.offers
      /\ UNCHANGED <<held, shell, stale, menu, page, refused, misled>>
  BY DEF ChangePassword
<1>2. "auth.getSession" \in Sends(Shown)
  <2>1. PICK sequence : sequence = <<"auth.changePassword", "auth.getSession">>
    OBVIOUS
  <2>2. "auth.getSession" \in Range(sequence)
    BY <2>1 DEF Range
  <2> QED
    BY <1>1, <2>1, <2>2 DEF Sends
<1>3. Fits("auth.getSession", shell.roles, shell.mustChange)
  BY <1>1, <1>2, ShownFits DEF Current
<1>4. doing' \in Seq(STRING) /\ \A c \in Range(doing') : c = "auth.getSession"
  <2>1. PICK d, x : d = <<x>> /\ x = "auth.getSession"
    OBVIOUS
  <2>2. x \in STRING
    <3>1. PICK sequence \in Seq(STRING) : sequence = <<"auth.changePassword", x>>
      BY <1>1, <2>1, ShownFits DEF Current
    <3>2. Len(sequence) = 2 /\ sequence[2] = x
      BY <3>1
    <3> QED
      BY <3>1, <3>2, ElementOfSeq
  <2>3. d \in Seq(STRING)
    BY <2>1, <2>2
  <2>4. DOMAIN d = {1} /\ d[1] = "auth.getSession"
    BY <2>1
  <2>5. \A c \in Range(d) : c = "auth.getSession"
    BY <2>4 DEF Range
  <2> QED
    BY <1>1, <2>1, <2>3, <2>5
<1>5. DoingFits'
  BY <1>1, <1>3, <1>4 DEF DoingFits
<1>6. ShellFits' /\ CopiesAgree'
  BY <1>1 DEF ScreensInv, ShellFits, CopiesAgree, Current, Known
<1> QED
  BY <1>1, <1>5, <1>6, ResultStays DEF ScreensInv

(* What the flags are.                                                     *)
FlagsInv ==
  mustChange \in BOOLEAN /\ shell.mustChange \in BOOLEAN

LEMMA FlagsInit == ScreensInit => FlagsInv
BY DEF ScreensInit, FlagsInv, SignedOut

LEMMA FlagsStep == FlagsInv /\ [ScreensNext]_screenVars => FlagsInv'
<1> SUFFICES ASSUME FlagsInv, [ScreensNext]_screenVars PROVE FlagsInv'
  OBVIOUS
<1>1. mustChange' \in BOOLEAN
  BY DEF FlagsInv, ScreensNext, screenVars, personVars, AssignRoles, BumpVersion, ResetPassword,
         SignIn, SignOut, RefreshAccessToken, Navigation, Load, Follow, Query, Start, Continue,
         ChangePassword, RefreshSession
<1>2. \/ UNCHANGED shell \/ shell' = Fresh \/ shell' = SignedOut
  BY DEF ScreensNext, screenVars, AssignRoles, BumpVersion, ResetPassword, FillShell,
         SignIn, SignOut, RefreshAccessToken, Navigation, Load, Follow, Query, Start, Continue,
         ChangePassword, RefreshSession
<1>3. Fresh.mustChange = mustChange /\ SignedOut.mustChange = FALSE
  BY DEF Fresh, SignedOut
<1>4. shell'.mustChange \in BOOLEAN
  BY <1>2, <1>3 DEF FlagsInv
<1> QED
  BY <1>1, <1>4 DEF FlagsInv

LEMMA ScreensInvInit == ScreensInit => ScreensInv
<1> SUFFICES ASSUME ScreensInit PROVE ScreensInv
  OBVIOUS
<1>1. ShellFits /\ CopiesAgree /\ ServedAsShown /\ misled = {}
  BY DEF ScreensInit, ShellFits, CopiesAgree, ServedAsShown, Known
<1>2. DoingFits
  BY EmptySeq DEF ScreensInit, DoingFits, Range
<1> QED
  BY <1>1, <1>2 DEF ScreensInv

LEMMA ScreensInvStep ==
  ASSUME TablesAgree
  PROVE  ScreensInv /\ FlagsInv /\ [ScreensNext]_screenVars => ScreensInv'
<1> SUFFICES ASSUME ScreensInv, FlagsInv, [ScreensNext]_screenVars PROVE ScreensInv'
  OBVIOUS
<1>1. ASSUME NEW roles \in RoleSets, AssignRoles(roles)
      PROVE  ScreensInv'
  BY <1>1, Changed DEF AssignRoles
<1>2. CASE BumpVersion
  BY <1>2, TokenMoves DEF BumpVersion
<1>3. CASE ResetPassword
  BY <1>3, Changed DEF ResetPassword, ScreensInv, ShellFits
<1>4. CASE SignIn
  <2>1. doing' = <<>> /\ UNCHANGED <<held, mustChange, refused, misled>>
    BY <1>4 DEF SignIn, personVars, ScreensInv, ShellFits
  <2> QED
    BY <1>4, <2>1, DashboardIsThere, FillShellKeeps DEF SignIn, FlagsInv
<1>5. CASE SignOut
  BY <1>5, SignOutKeeps
<1>6. CASE RefreshAccessToken
  BY <1>6, TokenMoves DEF RefreshAccessToken, personVars
<1>7. CASE Navigation
  BY <1>7, NavigationKeeps
<1>8. ASSUME NEW p \in RouterPages, Load(p)
      PROVE  ScreensInv'
  BY <1>8, FillShellKeeps DEF Load, personVars, FlagsInv
<1>9. CASE Follow
  BY <1>9, FollowKeeps DEF FlagsInv
<1>10. CASE Query \/ Start \/ Continue \/ ChangePassword
  BY <1>10, QueryKeeps, StartKeeps, ContinueKeeps, ChangePasswordKeeps
<1>11. CASE RefreshSession
  BY <1>11, DashboardIsThere, FillShellKeeps DEF RefreshSession, personVars, FlagsInv
<1>12. CASE UNCHANGED screenVars
  BY <1>12 DEF screenVars, personVars, tokenVars, ScreensInv, ShellFits, DoingFits, CopiesAgree,
               ServedAsShown, Known
<1> QED
  BY <1>1, <1>2, <1>3, <1>4, <1>5, <1>6, <1>7, <1>8, <1>9, <1>10, <1>11, <1>12 DEF ScreensNext

(* The inductive invariant of the shell: the page shown is one its rights  *)
(* admit, what is under way is allowed by them, and while nothing was      *)
(* changed since it was filled, the stored roles, the token's, the shell's *)
(* and the menu's are the same (AuthProvider.tsx, axios.ts, authorize).    *)
THEOREM ScreensInvariant ==
  ASSUME TablesAgree
  PROVE  ScreensSpec => [](ScreensInv /\ FlagsInv)
<1>1. ScreensInit => ScreensInv /\ FlagsInv
  BY ScreensInvInit, FlagsInit
<1>2. (ScreensInv /\ FlagsInv) /\ [ScreensNext]_screenVars => (ScreensInv /\ FlagsInv)'
  BY ScreensInvStep, FlagsStep
<1> QED
  BY <1>1, <1>2, PTL DEF ScreensSpec

(* Tables that agree are enough: in whatever order tokens are refreshed,   *)
(* pages loaded, roles assigned and passwords reset, no call of what is    *)
(* shown is refused while the shell is up to date, but for the two.        *)
THEOREM ShownIsServed ==
  ASSUME TablesAgree
  PROVE  ScreensSpec => []ServedAsShown
<1>1. ScreensInv => ServedAsShown
  BY DEF ScreensInv
<1> QED
  BY <1>1, ScreensInvariant, PTL

(* ... no link misleads, and the server's menu shows what the router       *)
(* admits (navigation.service.js buildNavigationFor, AppRouter.tsx).       *)
THEOREM MenuLeadsRight ==
  ASSUME TablesAgree
  PROVE  ScreensSpec => []MenuIsRouter
<1>1. ScreensInv => MenuIsRouter
  <2> SUFFICES ASSUME ScreensInv, shell # SignedOut, ~stale, menu # NoMenu
               PROVE  menu = Admitted[shell.roles]
    BY DEF ScreensInv, MenuIsRouter
  <2>1. held = shell.roles /\ held \in RoleSets /\ menu = NavigationFor(Rights(held))
    BY DEF ScreensInv, CopiesAgree, ShellFits
  <2>2. Admitted[held] = RequirePermission(Rights(held))
    BY <2>1, RolesAre DEF Admitted
  <2> QED
    BY <2>1, <2>2, TablesOf
<1> QED
  BY <1>1, ScreensInvariant, PTL
=============================================================================
