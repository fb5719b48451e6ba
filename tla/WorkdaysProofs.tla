---------------------------- MODULE WorkdaysProofs ----------------------------
(***************************************************************************)
(* Proofs about the two records of a working day: the attendance record    *)
(* that clock-ins, clock-outs and corrections write, and the balances      *)
(* leave is taken from; for any numbers of handlers and requests.          *)
(***************************************************************************)
EXTENDS Attendance, LeaveFlow, FiniteSetTheorems, SequenceTheorems, TLAPS

----------------------------------------------------------------------------
(* The attendance record.                                                  *)

LedgerRow == [field : Field, old : Instant \cup {Unset}, new : Instant \cup {Unset}]

(* A record's clock-in is an instant the clock or a correction gave.       *)
RecordFits(r) == r \in Record /\ r.clockInAt \in Time \cup {Unset}

WorkType ==
  /\ now \in Time /\ leave \in BOOLEAN /\ shiftOverlap \in BOOLEAN
  /\ record # Unset => RecordFits(record)
  /\ shiftJob \in [Handlers -> ShiftJob]
  /\ ledger \in Seq(LedgerRow)

(* What a call read, against the record r there is: a clock-in changes     *)
(* only with the version.                                                  *)
ShiftFits(j, r) ==
  /\ j.op = "out" => j.pc = "write" /\ r # Unset /\ j.seen \in Record /\ j.new \in Instant
  /\ j.op = "correct" =>
       /\ r # Unset /\ j.seen \in Record
       /\ j.field \in Field /\ j.new \in Time \cup {Unset}
       /\ j.pc = "write" =>
            /\ j.old = j.seen[j.field]
            /\ j.seen.version < MaxVersion /\ j.seen.version <= r.version
            /\ j.seen.version = r.version => j.seen.clockInAt = r.clockInAt
ShiftsFit == \A h \in Handlers : ShiftFits(shiftJob[h], record)

(* The corrections that are in the record and not yet in the ledger.       *)
Applied ==
  {h \in Handlers : shiftJob[h].op = "correct" /\ shiftJob[h].pc \in {"refresh", "ledger"}}
CountFits ==
  /\ IsFiniteSet(Applied)
  /\ Len(ledger) + Cardinality(Applied) = IF record = Unset THEN 0 ELSE record.version - 1

(* The corrections of the clock-in, written down or not yet.               *)
RowKeys == {i \in DOMAIN ledger : ledger[i].field = "clockInAt"}
CallKeys == {h \in Applied : shiftJob[h].field = "clockInAt"}
ChainKeys == {<<"row", i>> : i \in RowKeys} \cup {<<"call", h>> : h \in CallKeys}
ChainOld(k) == IF k[1] = "row" THEN ledger[k[2]].old ELSE shiftJob[k[2]].old
ChainNew(k) == IF k[1] = "row" THEN ledger[k[2]].new ELSE shiftJob[k[2]].new

(* Of the entries K, with their old and new values, at most one starts     *)
(* from a value that no other set.                                         *)
FromElsewhere(K, old, new, k) == \A l \in K : l # k => new[l] # old[k]
OneSource(K, old, new) ==
  \A k, l \in K :
    FromElsewhere(K, old, new, k) /\ FromElsewhere(K, old, new, l) => k = l
Olds == [k \in ChainKeys |-> ChainOld(k)]
News == [k \in ChainKeys |-> ChainNew(k)]
ChainFits ==
  /\ OneSource(ChainKeys, Olds, News)
  /\ ChainKeys # {} => record # Unset /\ \E k \in ChainKeys : News[k] = record.clockInAt

(* While no two calls have overlapped, the one under way saw the record as *)
(* it is, and between a correction and its second save alone may a closed  *)
(* record have other exceptions than those its instants imply.             *)
Consistent(r) == r.exceptions = Exceptions(r) /\ r.status = StatusOf(r.exceptions)
ExceptFits ==
  ~shiftOverlap =>
    /\ \A g, h \in Handlers :
         shiftJob[g] # NoShiftJob /\ shiftJob[h] # NoShiftJob => g = h
    /\ \A h \in Handlers :
         ShiftAt(h, "out", "write") \/ ShiftAt(h, "correct", "write")
         \/ ShiftAt(h, "correct", "refresh") => shiftJob[h].seen = record
    /\ /\ record # Unset /\ record.clockOutAt # Unset
       /\ \A h \in Handlers : ~ShiftAt(h, "correct", "refresh")
       => Consistent(record)

WorkInv == WorkType /\ ShiftsFit /\ CountFits /\ ChainFits /\ ExceptFits

(* How a step may change the record: it stays, its clock-in and version    *)
(* with it, or a correction gives it the next version.                     *)
Advances(r, q) ==
  /\ q # Unset => RecordFits(q)
  /\ r # Unset =>
       /\ q # Unset
       /\ \/ q.version = r.version /\ q.clockInAt = r.clockInAt
          \/ q.version = r.version + 1

LEMMA AdvancedFits ==
  ASSUME NEW j \in ShiftJob, NEW r, NEW q, r # Unset => RecordFits(r),
         ShiftFits(j, r), Advances(r, q)
  PROVE  ShiftFits(j, q)
<1>1. j.seen \in Record => j.seen.version \in Int
  BY AttendanceAssumption DEF Record
<1>2. r # Unset => r.version \in Int /\ q.version \in Int
  BY AttendanceAssumption DEF Record, RecordFits, Advances
<1> QED
  BY <1>1, <1>2 DEF ShiftFits, Advances

(* The document a save leaves: of three records, one.                      *)
LEMMA SavedIsRecord ==
  ASSUME NEW seen \in Record, NEW fresh \in Record, record \in Record
  PROVE  /\ Saved(seen, fresh) \in Record
         /\ \A f \in {"clockInAt", "clockOutAt", "status", "exceptions", "version"} :
              Saved(seen, fresh)[f] = IF fresh[f] = seen[f] THEN record[f] ELSE fresh[f]
         /\ seen = record => Saved(seen, fresh) = fresh
<1> DEFINE fields == {"clockInAt", "clockOutAt", "status", "exceptions", "version"}
           m(f) == IF fresh[f] = seen[f] THEN record[f] ELSE fresh[f]
<1>1. DOMAIN record = fields /\ DOMAIN fresh = fields
  BY DEF Record
<1>2. Saved(seen, fresh) = [f \in fields |-> m(f)]
  BY <1>1 DEF Saved
<1>3. [f \in fields |-> m(f)] =
        [clockInAt |-> m("clockInAt"), clockOutAt |-> m("clockOutAt"),
         status |-> m("status"), exceptions |-> m("exceptions"), version |-> m("version")]
  OBVIOUS
<1>4. /\ m("clockInAt") \in Instant \cup {Unset} /\ m("clockOutAt") \in Instant \cup {Unset}
      /\ m("status") \in {"NORMAL", "EXCEPTION", "LEAVE"}
      /\ m("exceptions") \in SUBSET Exception /\ m("version") \in 1 .. MaxVersion
  BY DEF Record
<1>5. Saved(seen, fresh) \in Record
  BY <1>2, <1>3, <1>4 DEF Record
<1>6. \A f \in fields : Saved(seen, fresh)[f] = m(f)
  BY <1>2
<1>7. ASSUME seen = record
      PROVE  Saved(seen, fresh) = fresh
  <2>1. \A f \in fields : m(f) = fresh[f]
    BY <1>7
  <2>2. fresh = [f \in fields |-> fresh[f]]
    BY <1>1 DEF Record
  <2> QED
    BY <1>2, <2>1, <2>2
<1> QED
  BY <1>5, <1>6, <1>7

(* Refreshing changes the exceptions and the status only.                  *)
LEMMA RefreshedIsRecord ==
  ASSUME NEW r \in Record
  PROVE  /\ Refreshed(r) \in Record
         /\ Refreshed(r).clockInAt = r.clockInAt /\ Refreshed(r).clockOutAt = r.clockOutAt
         /\ Refreshed(r).version = r.version
         /\ Consistent(Refreshed(r))
<1>1. Exceptions(r) \in SUBSET Exception
  BY DEF Exceptions
<1>2. StatusOf(Exceptions(r)) \in {"NORMAL", "EXCEPTION", "LEAVE"}
  BY DEF StatusOf
<1>3. /\ Refreshed(r) \in Record
      /\ Refreshed(r).clockInAt = r.clockInAt /\ Refreshed(r).clockOutAt = r.clockOutAt
      /\ Refreshed(r).version = r.version
      /\ Refreshed(r).exceptions = Exceptions(r)
      /\ Refreshed(r).status = StatusOf(Exceptions(r))
  BY <1>1, <1>2 DEF Refreshed, Record
<1>4. Exceptions(Refreshed(r)) = Exceptions(r)
  BY <1>3 DEF Exceptions
<1> QED
  BY <1>3, <1>4 DEF Consistent

(* The exceptions of a closed record do not depend on the clock.           *)
LEMMA ClosedKeepsExceptions ==
  ASSUME NEW r, r.clockOutAt # Unset
  PROVE  Consistent(r)' <=> Consistent(r)
<1>1. Exceptions(r)' = Exceptions(r)
  BY DEF Exceptions
<1> QED
  BY <1>1 DEF Consistent

(* An entry more whose old value another entry set, or the first one.      *)
LEMMA OneEntryMore ==
  ASSUME NEW K, NEW old, NEW new, NEW oldp, NEW newp, NEW x,
         OneSource(K, old, new), x \notin K,
         \A k \in K : oldp[k] = old[k] /\ newp[k] = new[k],
         K = {} \/ \E k \in K : new[k] = oldp[x]
  PROVE  OneSource(K \cup {x}, oldp, newp)
<1> SUFFICES ASSUME NEW k \in K \cup {x}, NEW l \in K \cup {x},
                    FromElsewhere(K \cup {x}, oldp, newp, k),
                    FromElsewhere(K \cup {x}, oldp, newp, l)
             PROVE  k = l
  BY DEF OneSource
<1>1. \A m \in K : FromElsewhere(K \cup {x}, oldp, newp, m) => FromElsewhere(K, old, new, m)
  BY DEF FromElsewhere
<1>2. FromElsewhere(K \cup {x}, oldp, newp, x) => K = {}
  BY DEF FromElsewhere
<1>3. CASE k = x \/ l = x
  BY <1>2, <1>3
<1>4. CASE k # x /\ l # x
  BY <1>1, <1>4 DEF OneSource
<1> QED
  BY <1>3, <1>4

(* The same entries under other names.                                     *)
LEMMA EntriesRenamed ==
  ASSUME NEW K, NEW old, NEW new, NEW oldp, NEW newp, NEW f,
         OneSource(K, old, new),
         \A k, l \in K : f[k] = f[l] => k = l,
         \A k \in K : oldp[f[k]] = old[k] /\ newp[f[k]] = new[k]
  PROVE  OneSource({f[k] : k \in K}, oldp, newp)
<1> DEFINE M == {f[k] : k \in K}
<1>1. ASSUME NEW k \in K, FromElsewhere(M, oldp, newp, f[k])
      PROVE  FromElsewhere(K, old, new, k)
  BY <1>1 DEF FromElsewhere
<1> QED
  BY <1>1 DEF OneSource

(* A call is set to j.                                                     *)
LEMMA JobSet ==
  ASSUME WorkInv, NEW h \in Handlers, NEW j \in ShiftJob,
         shiftJob' = [shiftJob EXCEPT ![h] = j],
         Advances(record, record'), ShiftFits(j, record')
  PROVE  shiftJob' \in [Handlers -> ShiftJob] /\ ShiftsFit'
<1>1. /\ shiftJob' \in [Handlers -> ShiftJob]
      /\ \A g \in Handlers : shiftJob'[g] = IF g = h THEN j ELSE shiftJob[g]
  BY DEF WorkInv, WorkType
<1>2. \A g \in Handlers : shiftJob[g] \in ShiftJob /\ ShiftFits(shiftJob[g], record)
  BY DEF WorkInv, WorkType, ShiftsFit
<1>3. record # Unset => RecordFits(record)
  BY DEF WorkInv, WorkType
<1>4. \A g \in Handlers : ShiftFits(shiftJob[g], record')
  BY <1>2, <1>3, AdvancedFits
<1>5. \A g \in Handlers : ShiftFits(shiftJob'[g], record')
  BY <1>1, <1>4
<1> QED
  BY <1>1, <1>5 DEF ShiftsFit

(* A step that is none of a correction's leaves the count and the chain.   *)
LEMMA CountStays ==
  ASSUME WorkInv, UNCHANGED ledger, Applied' = Applied,
         \A h \in Applied : shiftJob'[h] = shiftJob[h]
                            \/ /\ shiftJob'[h].field = shiftJob[h].field
                               /\ shiftJob'[h].old = shiftJob[h].old
                               /\ shiftJob'[h].new = shiftJob[h].new,
         \/ record # Unset /\ record' # Unset /\ record'.version = record.version
            /\ record'.clockInAt = record.clockInAt
         \/ record = Unset /\ (record' = Unset \/ record'.version = 1)
  PROVE  CountFits' /\ ChainFits'
<1>1. /\ Applied' = Applied
      /\ \A h \in Applied : /\ shiftJob'[h].field = shiftJob[h].field
                            /\ shiftJob'[h].old = shiftJob[h].old
                            /\ shiftJob'[h].new = shiftJob[h].new
  OBVIOUS
<1>2. RowKeys' = RowKeys /\ CallKeys' = CallKeys
  BY <1>1 DEF RowKeys, CallKeys
<1>3. ChainKeys' = ChainKeys
  BY <1>2 DEF ChainKeys
<1>4. \A k \in ChainKeys : ChainOld(k)' = ChainOld(k) /\ ChainNew(k)' = ChainNew(k)
  BY <1>1 DEF ChainKeys, CallKeys, ChainOld, ChainNew
<1>5. Olds' = Olds /\ News' = News
  BY <1>3, <1>4 DEF Olds, News
<1>6. CountFits'
  <2>1. IsFiniteSet(Applied)' /\ Cardinality(Applied)' = Cardinality(Applied)
        /\ Len(ledger)' = Len(ledger)
    BY DEF WorkInv, CountFits
  <2>2. (IF record' = Unset THEN 0 ELSE record'.version - 1)
          = (IF record = Unset THEN 0 ELSE record.version - 1)
    OBVIOUS
  <2> QED
    BY <2>1, <2>2 DEF WorkInv, CountFits
<1>7. ChainFits'
  <2>1. OneSource(ChainKeys', Olds', News')
    BY <1>3, <1>5 DEF WorkInv, ChainFits
  <2>2. ChainKeys # {} => record # Unset /\ \E k \in ChainKeys : News[k] = record.clockInAt
    BY DEF WorkInv, ChainFits
  <2>3. ChainKeys' # {} => record' # Unset /\ \E k \in ChainKeys' : News'[k] = record'.clockInAt
    BY <1>3, <1>5, <2>2
  <2> QED
    BY <2>1, <2>3 DEF ChainFits
<1> QED
  BY <1>6, <1>7

----------------------------------------------------------------------------
(* What each step does to the record and the calls.                        *)

LEMMA NoShiftJobFits ==
  NoShiftJob \in ShiftJob /\ \A r : ShiftFits(NoShiftJob, r)
BY DEF NoShiftJob, ShiftJob, ShiftFits

(* A call begins: nothing but the call, which has seen the record there is.*)
LEMMA BeginKeeps ==
  ASSUME WorkInv, NEW h \in Handlers, NEW j \in ShiftJob, StartShiftCall(h, j),
         UNCHANGED <<now, record, leave, ledger>>,
         j.pc = "write", j.op \in {"out", "correct"} => j.seen = record,
         ShiftFits(j, record)
  PROVE  WorkInv'
<1>1. /\ shiftJob[h] = NoShiftJob /\ shiftJob' = [shiftJob EXCEPT ![h] = j]
      /\ shiftOverlap' = (shiftOverlap \/ ~ShiftQuiet)
  BY DEF StartShiftCall
<1>2. Advances(record, record')
  BY DEF Advances, WorkInv, WorkType
<1>3. shiftJob' \in [Handlers -> ShiftJob] /\ ShiftsFit'
  BY <1>1, <1>2, JobSet
<1>4. \A g \in Handlers : shiftJob'[g] = IF g = h THEN j ELSE shiftJob[g]
  BY <1>1 DEF WorkInv, WorkType
<1>5. Applied' = Applied
  BY <1>1, <1>4 DEF Applied, NoShiftJob
<1>6. \A g \in Applied : shiftJob'[g] = shiftJob[g]
  BY <1>1, <1>4 DEF Applied, NoShiftJob
<1>7. CountFits' /\ ChainFits'
  BY <1>5, <1>6, CountStays
<1>8. ShiftQuiet \in BOOLEAN /\ shiftOverlap' \in BOOLEAN
  BY <1>1 DEF ShiftQuiet, WorkInv, WorkType
<1>9. ExceptFits'
  <2> SUFFICES ASSUME ~shiftOverlap'
               PROVE  ExceptFits'
    BY DEF ExceptFits
  <2>1. ~shiftOverlap /\ \A g \in Handlers : shiftJob[g] = NoShiftJob
    BY <1>1 DEF ShiftQuiet
  <2>2. \A g \in Handlers : g # h => shiftJob'[g] = NoShiftJob
    BY <1>4, <2>1
  <2>3. \A g \in Handlers : ~ShiftAt(g, "correct", "refresh")
    BY <2>1 DEF ShiftAt, NoShiftJob
  <2>4. record # Unset /\ record.clockOutAt # Unset => Consistent(record)
    BY <2>1, <2>3 DEF WorkInv, ExceptFits
  <2>5. record # Unset /\ record.clockOutAt # Unset => Consistent(record)'
    BY <2>4, ClosedKeepsExceptions
  <2>6. \A g \in Handlers : (ShiftAt(g, "out", "write") \/ ShiftAt(g, "correct", "write")
                             \/ ShiftAt(g, "correct", "refresh"))'
                            => shiftJob'[g].seen = record'
    BY <1>4, <2>2 DEF ShiftAt, NoShiftJob
  <2> QED
    BY <2>2, <2>5, <2>6 DEF ExceptFits
<1> QED
  BY <1>3, <1>7, <1>8, <1>9 DEF WorkInv, WorkType

(* A call that is not in the ledger's debt ends, the record changed or not.*)
LEMMA EndKeeps ==
  ASSUME WorkInv, NEW h \in Handlers, EndShiftCall(h), h \notin Applied,
         shiftJob[h] # NoShiftJob,
         UNCHANGED <<now, leave, ledger, shiftOverlap>>,
         record' # Unset => RecordFits(record)',
         \/ record # Unset /\ record' # Unset /\ record'.version = record.version
            /\ record'.clockInAt = record.clockInAt
         \/ record = Unset /\ (record' = Unset \/ record'.version = 1),
         ~shiftOverlap /\ record' # Unset /\ record'.clockOutAt # Unset => Consistent(record)'
  PROVE  WorkInv'
<1>1. shiftJob' = [shiftJob EXCEPT ![h] = NoShiftJob]
  BY DEF EndShiftCall
<1>2. Advances(record, record')
  BY DEF Advances, RecordFits
<1>3. shiftJob' \in [Handlers -> ShiftJob] /\ ShiftsFit'
  BY <1>1, <1>2, JobSet, NoShiftJobFits
<1>4. \A g \in Handlers : shiftJob'[g] = IF g = h THEN NoShiftJob ELSE shiftJob[g]
  BY <1>1 DEF WorkInv, WorkType
<1>5. Applied' = Applied /\ \A g \in Applied : shiftJob'[g] = shiftJob[g]
  BY <1>4 DEF Applied, NoShiftJob
<1>6. CountFits' /\ ChainFits'
  BY <1>5, CountStays
<1>7. ExceptFits'
  <2> SUFFICES ASSUME ~shiftOverlap
               PROVE  ExceptFits'
    BY DEF ExceptFits
  <2>1. \A g \in Handlers : shiftJob'[g] = NoShiftJob
    BY <1>4 DEF WorkInv, ExceptFits
  <2>2. \A g \in Handlers : (shiftJob'[g] # NoShiftJob) = FALSE
    BY <2>1
  <2>3. \A g \in Handlers : shiftJob'[g].op = "none"
    BY <2>1 DEF NoShiftJob
  <2>4. \A g \in Handlers : ~(ShiftAt(g, "out", "write") \/ ShiftAt(g, "correct", "write")
                              \/ ShiftAt(g, "correct", "refresh"))'
    BY <2>3 DEF ShiftAt
  <2> QED
    BY <2>2, <2>4 DEF ExceptFits
<1> QED
  BY <1>3, <1>6, <1>7 DEF WorkInv, WorkType

LEMMA BeginClockInKeeps ==
  ASSUME WorkInv, NEW h \in Handlers, BeginClockIn(h)
  PROVE  WorkInv'
<1> DEFINE j == [NoShiftJob EXCEPT !.op = "in", !.pc = "write"]
<1>1. j \in ShiftJob /\ j.pc = "write" /\ j.op = "in"
  BY DEF NoShiftJob, ShiftJob
<1>2. ShiftFits(j, record)
  BY <1>1 DEF ShiftFits
<1>3. StartShiftCall(h, j) /\ UNCHANGED <<now, record, leave, ledger>>
  BY DEF BeginClockIn
<1> HIDE DEF j
<1> QED
  BY <1>1, <1>2, <1>3, BeginKeeps

LEMMA BeginClockOutKeeps ==
  ASSUME WorkInv, NEW h \in Handlers, BeginClockOut(h)
  PROVE  WorkInv'
<1> DEFINE at == IF now > record.clockInAt THEN now ELSE record.clockInAt + 1
           j == [NoShiftJob EXCEPT !.op = "out", !.pc = "write", !.seen = record, !.new = at]
<1>1. record # Unset /\ RecordFits(record) /\ record.clockInAt # Unset /\ now \in Time
  BY DEF BeginClockOut, WorkInv, WorkType
<1>2. record.clockInAt \in Time
  BY <1>1 DEF RecordFits
<1>3. at \in Instant
  BY <1>1, <1>2, AttendanceAssumption DEF Time, Instant
<1>4. record \in Record
  BY <1>1 DEF RecordFits
<1>5. StartShiftCall(h, j) /\ UNCHANGED <<now, record, leave, ledger>>
  BY DEF BeginClockOut
<1> HIDE DEF at
<1>6. /\ j \in ShiftJob /\ j.pc = "write" /\ j.op = "out" /\ j.seen = record
      /\ j.new = at
  BY <1>3, <1>4 DEF NoShiftJob, ShiftJob
<1> HIDE DEF j
<1>7. ShiftFits(j, record)
  BY <1>1, <1>3, <1>4, <1>6 DEF ShiftFits
<1> QED
  BY <1>5, <1>6, <1>7, BeginKeeps

LEMMA BeginCorrectKeeps ==
  ASSUME WorkInv, NEW h \in Handlers, NEW field \in Field, NEW new \in Corrected,
         BeginCorrect(h, field, new)
  PROVE  WorkInv'
<1> DEFINE j == [op |-> "correct", pc |-> "write", seen |-> record,
                 field |-> field, old |-> record[field], new |-> new]
<1>1. record # Unset /\ RecordFits(record) /\ record.version < MaxVersion
  BY DEF BeginCorrect, WorkInv, WorkType
<1>2. record \in Record
  BY <1>1 DEF RecordFits
<1>3. record[field] \in Instant \cup {Unset}
  BY <1>2 DEF Record, Field
<1>4. new \in Time \cup {Unset} /\ new \in Instant \cup {Unset}
  BY AttendanceAssumption DEF Time, Instant
<1>5. StartShiftCall(h, j) /\ UNCHANGED <<now, record, leave, ledger>>
  BY DEF BeginCorrect
<1>6. j \in ShiftJob /\ j.pc = "write" /\ j.op = "correct" /\ j.seen = record
      /\ j.field = field /\ j.new = new /\ j.old = j.seen[j.field]
  BY <1>2, <1>3, <1>4 DEF ShiftJob
<1> HIDE DEF j
<1>7. record.version \in Int
  BY <1>2, AttendanceAssumption DEF Record
<1>8. ShiftFits(j, record)
  BY <1>1, <1>2, <1>4, <1>6, <1>7 DEF ShiftFits
<1> QED
  BY <1>5, <1>6, <1>8, BeginKeeps

LEMMA NewRecordFits ==
  ASSUME NEW t \in Time,
         NEW r \in {[NewRecord EXCEPT !.clockInAt = t], [NewRecord EXCEPT !.status = "LEAVE"]}
  PROVE  RecordFits(r) /\ r.version = 1 /\ r.clockOutAt = Unset /\ r # Unset
<1>1. t \in Instant /\ 1 \in 1 .. MaxVersion
  BY AttendanceAssumption DEF Time, Instant
<1> QED
  BY <1>1, AttendanceNoRecord DEF NewRecord, Record, RecordFits

LEMMA CreateRecordKeeps ==
  ASSUME WorkInv, NEW h \in Handlers, CreateRecord(h)
  PROVE  WorkInv' /\ Advances(record, record')
<1>1. shiftJob[h].op = "in" /\ EndShiftCall(h) /\ UNCHANGED <<now, leave, ledger, shiftOverlap>>
  BY DEF CreateRecord, ShiftAt
<1>2. h \notin Applied /\ shiftJob[h] # NoShiftJob
  BY <1>1 DEF Applied, NoShiftJob
<1>3. record # Unset => RecordFits(record)
  BY DEF WorkInv, WorkType
<1>4. CASE record = Unset
  <2>1. record' = [NewRecord EXCEPT !.clockInAt = now]
    BY <1>4 DEF CreateRecord
  <2>2. now \in Time
    BY DEF WorkInv, WorkType
  <2>3. RecordFits(record)' /\ record'.version = 1 /\ record'.clockOutAt = Unset
    BY <2>1, <2>2, NewRecordFits DEF RecordFits
  <2> QED
    BY <1>1, <1>2, <1>4, <2>3, EndKeeps DEF Advances, RecordFits
<1>5. CASE record # Unset
  <2>1. record' = record
    BY <1>5 DEF CreateRecord
  <2>2. ~shiftOverlap /\ record.clockOutAt # Unset => Consistent(record)
    <3> SUFFICES ASSUME ~shiftOverlap, record.clockOutAt # Unset
                 PROVE  Consistent(record)
      OBVIOUS
    <3>1. \A g \in Handlers : ~ShiftAt(g, "correct", "refresh")
      BY <1>1, <1>2 DEF WorkInv, ExceptFits, ShiftAt, NoShiftJob
    <3> QED
      BY <1>5, <3>1 DEF WorkInv, ExceptFits
  <2>3. ~shiftOverlap /\ record.clockOutAt # Unset => Consistent(record)'
    BY <2>1, <2>2, ClosedKeepsExceptions
  <2>4. RecordFits(record)'
    BY <1>3, <1>5, <2>1 DEF RecordFits
  <2> QED
    BY <1>1, <1>2, <1>5, <2>1, <2>3, <2>4, EndKeeps DEF Advances, RecordFits
<1> QED
  BY <1>4, <1>5

LEMMA SaveClockOutKeeps ==
  ASSUME WorkInv, NEW h \in Handlers, SaveClockOut(h)
  PROVE  WorkInv' /\ Advances(record, record')
<1> DEFINE seen == shiftJob[h].seen
           closed == [seen EXCEPT !.clockOutAt = shiftJob[h].new]
<1>1. /\ shiftJob[h].op = "out" /\ ShiftAt(h, "out", "write")
      /\ EndShiftCall(h) /\ UNCHANGED <<now, leave, ledger, shiftOverlap>>
      /\ record' = Saved(seen, Refreshed(closed))
  BY DEF SaveClockOut, ShiftAt
<1>2. h \notin Applied /\ shiftJob[h] # NoShiftJob
  BY <1>1 DEF Applied, NoShiftJob
<1>3. record # Unset /\ RecordFits(record) /\ seen \in Record /\ shiftJob[h].new \in Instant
  BY <1>1 DEF WorkInv, WorkType, ShiftsFit, ShiftFits
<1>4. /\ closed \in Record /\ closed.version = seen.version
      /\ closed.clockInAt = seen.clockInAt
  BY <1>3 DEF Record
<1>5. record \in Record
  BY <1>3 DEF RecordFits
<1> HIDE DEF seen, closed
<1>6. /\ Refreshed(closed) \in Record
      /\ Refreshed(closed).version = seen.version
      /\ Refreshed(closed).clockInAt = seen.clockInAt
      /\ Consistent(Refreshed(closed))
  BY <1>4, RefreshedIsRecord
<1>7. /\ record' \in Record /\ record'.version = record.version
      /\ record'.clockInAt = record.clockInAt
      /\ seen = record => record' = Refreshed(closed)
  BY <1>1, <1>3, <1>5, <1>6, SavedIsRecord
<1>8. RecordFits(record)' /\ record' # Unset
  BY <1>3, <1>7, AttendanceNoRecord DEF RecordFits
<1>9. ASSUME ~shiftOverlap, record'.clockOutAt # Unset
      PROVE  Consistent(record)'
  <2>1. seen = record
    BY <1>1, <1>9 DEF WorkInv, ExceptFits, seen
  <2>2. PICK r : r = Refreshed(closed)
    OBVIOUS
  <2>3. Consistent(r) /\ record' = r
    BY <1>6, <1>7, <2>1, <2>2
  <2>4. Consistent(r)'
    BY <1>9, <2>3, ClosedKeepsExceptions
  <2> QED
    BY <2>3, <2>4 DEF Consistent, Exceptions
<1>10. WorkInv'
  BY <1>1, <1>2, <1>3, <1>7, <1>8, <1>9, EndKeeps
<1> QED
  BY <1>7, <1>8, <1>10 DEF Advances, RecordFits

(* A correction is taken: the record has its next version, the call is in  *)
(* the ledger's debt, and its old value is the clock-in that was there.    *)
LEMMA AppliedKeeps ==
  ASSUME WorkInv, NEW h \in Handlers, ApplyCorrection(h),
         record.version = shiftJob[h].seen.version
  PROVE  WorkInv' /\ Advances(record, record')
<1> DEFINE k == shiftJob[h]
<1>0. /\ record' = [record EXCEPT ![k.field] = k.new, !.version = @ + 1]
      /\ shiftJob' = [shiftJob EXCEPT ![h].pc = "refresh", ![h].seen = record']
  BY DEF ApplyCorrection
<1>1. /\ shiftJob[h].op = "correct" /\ shiftJob[h].pc = "write"
      /\ UNCHANGED <<now, leave, ledger, shiftOverlap>>
  BY DEF ApplyCorrection, ShiftAt
<1>2. /\ record # Unset /\ RecordFits(record) /\ k \in ShiftJob
      /\ k.field \in Field /\ k.new \in Time \cup {Unset} /\ k.old = k.seen[k.field]
      /\ k.seen \in Record /\ k.seen.version < MaxVersion /\ k.seen.clockInAt = record.clockInAt
  BY <1>1 DEF WorkInv, WorkType, ShiftsFit, ShiftFits
<1>3. PICK n \in Time \cup {Unset} : n = k.new
  BY <1>2
<1>4. record.version \in 1 .. MaxVersion /\ record.version + 1 \in 1 .. MaxVersion
      /\ n \in Instant \cup {Unset}
  BY <1>2, AttendanceAssumption DEF Record, RecordFits, Time, Instant
<1>5. /\ record' \in Record /\ record'.version = record.version + 1
      /\ record'.clockInAt = IF k.field = "clockInAt" THEN n ELSE record.clockInAt
  <2>1. CASE k.field = "clockInAt"
    BY <1>0, <1>2, <1>3, <1>4, <2>1 DEF Record, RecordFits
  <2>2. CASE k.field = "clockOutAt"
    BY <1>0, <1>2, <1>3, <1>4, <2>2 DEF Record, RecordFits
  <2> QED
    BY <1>2, <2>1, <2>2 DEF Field
<1>6. RecordFits(record)' /\ record' # Unset
  BY <1>2, <1>5, AttendanceNoRecord DEF RecordFits
<1>7. Advances(record, record')
  BY <1>5, <1>6 DEF Advances, RecordFits
<1>8. PICK j : j = [k EXCEPT !.pc = "refresh", !.seen = record']
  OBVIOUS
<1>9. /\ j \in ShiftJob /\ j.op = "correct" /\ j.pc = "refresh" /\ j.seen = record'
      /\ j.field = k.field /\ j.old = k.old /\ j.new = k.new
  BY <1>1, <1>2, <1>5, <1>8 DEF ShiftJob
<1>10. shiftJob' = [shiftJob EXCEPT ![h] = j]
  BY <1>0, <1>8 DEF WorkInv, WorkType
<1>11. ShiftFits(j, record')
  BY <1>2, <1>5, <1>6, <1>9 DEF ShiftFits
<1>12. shiftJob' \in [Handlers -> ShiftJob] /\ ShiftsFit'
  BY <1>7, <1>9, <1>10, <1>11, JobSet
<1>13. \A g \in Handlers : shiftJob'[g] = IF g = h THEN j ELSE shiftJob[g]
  BY <1>10 DEF WorkInv, WorkType
<1>14. h \notin Applied /\ Applied' = Applied \cup {h}
  <2>1. h \notin Applied /\ h \in Applied'
    BY <1>1, <1>9, <1>13 DEF Applied
  <2>2. \A g \in Handlers : g # h => (g \in Applied' <=> g \in Applied)
    BY <1>13 DEF Applied
  <2>3. Applied \subseteq Handlers /\ Applied' \subseteq Handlers
    BY DEF Applied
  <2> QED
    BY <2>1, <2>2, <2>3
<1>15. CountFits'
  <2>1. IsFiniteSet(Applied') /\ Cardinality(Applied') = Cardinality(Applied) + 1
    BY <1>14, FS_AddElement DEF WorkInv, CountFits
  <2>2. Len(ledger) \in Nat /\ Cardinality(Applied) \in Nat
    BY FS_CardinalityType DEF WorkInv, WorkType, CountFits
  <2>3. Len(ledger) + Cardinality(Applied) = record.version - 1
    BY <1>2 DEF WorkInv, CountFits
  <2>4. Len(ledger') + Cardinality(Applied') = record'.version - 1
    BY <1>1, <1>4, <1>5, <2>1, <2>2, <2>3, SMTT(40)
  <2> QED
    BY <1>6, <2>1, <2>4 DEF CountFits
<1>16. ChainFits'
  <2>1. RowKeys' = RowKeys
    BY <1>1 DEF RowKeys
  <2>2. ASSUME NEW l \in ChainKeys
        PROVE  ChainOld(l)' = ChainOld(l) /\ ChainNew(l)' = ChainNew(l)
    <3>1. CASE \E i \in RowKeys : l = <<"row", i>>
      BY <1>1, <3>1 DEF ChainOld, ChainNew
    <3>2. CASE \E g \in CallKeys : l = <<"call", g>>
      BY <1>13, <1>14, <3>2 DEF ChainOld, ChainNew, CallKeys, Applied
    <3> QED
      BY <3>1, <3>2 DEF ChainKeys
  <2>3. CASE k.field = "clockInAt"
    <3> DEFINE x == <<"call", h>>
    <3>1. CallKeys' = CallKeys \cup {h} /\ h \notin CallKeys
      BY <1>9, <1>13, <1>14, <2>3 DEF CallKeys, Applied
    <3>2. ChainKeys' = ChainKeys \cup {x} /\ x \notin ChainKeys
      BY <2>1, <3>1 DEF ChainKeys
    <3>3. \A l \in ChainKeys : Olds'[l] = Olds[l] /\ News'[l] = News[l]
      BY <2>2, <3>2 DEF Olds, News
    <3>4. Olds'[x] = k.old /\ News'[x] = k.new
      <4>1. ChainOld(x)' = k.old /\ ChainNew(x)' = k.new
        BY <1>9, <1>13 DEF ChainOld, ChainNew
      <4> QED
        BY <3>2, <4>1 DEF Olds, News
    <3>5. k.old = record.clockInAt
      BY <1>2, <2>3
    <3>6. ChainKeys = {} \/ \E l \in ChainKeys : News[l] = Olds'[x]
      BY <3>4, <3>5 DEF WorkInv, ChainFits
    <3>7. OneSource(ChainKeys, Olds, News)
      BY DEF WorkInv, ChainFits
    <3>8. OneSource(ChainKeys \cup {x}, Olds', News')
      BY <3>2, <3>3, <3>6, <3>7, OneEntryMore
    <3>9. News'[x] = record'.clockInAt
      BY <1>3, <1>5, <2>3, <3>4
    <3> QED
      BY <1>6, <3>2, <3>8, <3>9 DEF ChainFits
  <2>4. CASE k.field # "clockInAt"
    <3>1. CallKeys' = CallKeys
      BY <1>9, <1>13, <1>14, <2>4 DEF CallKeys, Applied
    <3>2. ChainKeys' = ChainKeys
      BY <2>1, <3>1 DEF ChainKeys
    <3>3. Olds' = Olds /\ News' = News
      BY <2>2, <3>2 DEF Olds, News
    <3>4. record'.clockInAt = record.clockInAt
      BY <1>5, <2>4
    <3>5. OneSource(ChainKeys', Olds', News')
      BY <3>2, <3>3 DEF WorkInv, ChainFits
    <3> QED
      BY <1>6, <3>2, <3>3, <3>4, <3>5 DEF WorkInv, ChainFits
  <2> QED
    BY <2>3, <2>4
<1>17. ExceptFits'
  <2> SUFFICES ASSUME ~shiftOverlap
               PROVE  ExceptFits'
    BY <1>1 DEF ExceptFits
  <2>0. shiftJob[h] # NoShiftJob
    BY <1>1 DEF NoShiftJob
  <2>1. \A g \in Handlers : g # h => shiftJob[g] = NoShiftJob
    BY <2>0 DEF WorkInv, ExceptFits
  <2>2. \A g \in Handlers : g # h => shiftJob'[g] = NoShiftJob
    BY <1>13, <2>1
  <2>3. \A g \in Handlers : g # h => shiftJob'[g].op = "none"
    BY <2>2 DEF NoShiftJob
  <2>4. ShiftAt(h, "correct", "refresh")' /\ shiftJob'[h].seen = record'
    BY <1>9, <1>13 DEF ShiftAt
  <2>5. \A g \in Handlers : (ShiftAt(g, "out", "write") \/ ShiftAt(g, "correct", "write")
                             \/ ShiftAt(g, "correct", "refresh"))'
                            => shiftJob'[g].seen = record'
    BY <2>3, <2>4 DEF ShiftAt
  <2> QED
    BY <2>2, <2>4, <2>5 DEF ExceptFits
<1> QED
  BY <1>1, <1>6, <1>7, <1>12, <1>15, <1>16, <1>17 DEF WorkInv, WorkType

(* A correction is refused: the version has moved on.                      *)
LEMMA RefusedKeeps ==
  ASSUME WorkInv, NEW h \in Handlers, ApplyCorrection(h),
         record.version # shiftJob[h].seen.version
  PROVE  WorkInv' /\ Advances(record, record')
<1>1. /\ shiftJob[h].op = "correct" /\ shiftJob[h].pc = "write" /\ EndShiftCall(h)
      /\ UNCHANGED <<now, record, leave, ledger, shiftOverlap>>
  BY DEF ApplyCorrection, ShiftAt
<1>2. h \notin Applied /\ shiftJob[h] # NoShiftJob
  BY <1>1 DEF Applied, NoShiftJob
<1>3. record # Unset /\ RecordFits(record)
  BY <1>1 DEF WorkInv, WorkType, ShiftsFit, ShiftFits
<1>4. ASSUME ~shiftOverlap, record.clockOutAt # Unset
      PROVE  Consistent(record)'
  <2>1. \A g \in Handlers : ~ShiftAt(g, "correct", "refresh")
    BY <1>1, <1>2, <1>4 DEF WorkInv, ExceptFits, ShiftAt, NoShiftJob
  <2>2. Consistent(record)
    BY <1>3, <1>4, <2>1 DEF WorkInv, ExceptFits
  <2> QED
    BY <1>1, <1>4, <2>2, ClosedKeepsExceptions
<1>5. RecordFits(record)'
  BY <1>1, <1>3 DEF RecordFits
<1> QED
  BY <1>1, <1>2, <1>3, <1>4, <1>5, EndKeeps DEF Advances, RecordFits

(* The second save of a correction.                                        *)
LEMMA RefreshKeeps ==
  ASSUME WorkInv, NEW h \in Handlers, RefreshExceptions(h)
  PROVE  WorkInv' /\ Advances(record, record')
<1> DEFINE seen == shiftJob[h].seen
<1>1. /\ shiftJob[h].op = "correct" /\ shiftJob[h].pc = "refresh"
      /\ UNCHANGED <<now, leave, ledger, shiftOverlap>>
  BY DEF RefreshExceptions, ShiftAt
<1>2. /\ record' = Saved(seen, Refreshed(seen))
      /\ shiftJob' = [shiftJob EXCEPT ![h].pc = "ledger"]
  BY DEF RefreshExceptions
<1>3. /\ record # Unset /\ RecordFits(record) /\ seen \in Record
      /\ shiftJob[h] \in ShiftJob /\ ShiftFits(shiftJob[h], record)
  BY <1>1 DEF WorkInv, WorkType, ShiftsFit, ShiftFits
<1>4. record \in Record
  BY <1>3 DEF RecordFits
<1>5. PICK r \in Record : r = Refreshed(seen) /\ Consistent(r)
                         /\ r.version = seen.version /\ r.clockInAt = seen.clockInAt
  BY <1>3, RefreshedIsRecord
<1>6. /\ record' \in Record /\ record'.version = record.version
      /\ record'.clockInAt = record.clockInAt
      /\ seen = record => record' = r
  BY <1>2, <1>3, <1>4, <1>5, SavedIsRecord
<1>7. RecordFits(record)' /\ record' # Unset
  BY <1>3, <1>6, AttendanceNoRecord DEF RecordFits
<1>8. Advances(record, record')
  BY <1>6, <1>7 DEF Advances, RecordFits
<1>9. PICK j : j = [shiftJob[h] EXCEPT !.pc = "ledger"]
  OBVIOUS
<1>10. /\ j \in ShiftJob /\ j.op = "correct" /\ j.pc = "ledger" /\ j.seen = seen
       /\ j.field = shiftJob[h].field /\ j.old = shiftJob[h].old /\ j.new = shiftJob[h].new
  BY <1>1, <1>3, <1>9 DEF ShiftJob
<1>11. shiftJob' = [shiftJob EXCEPT ![h] = j]
  BY <1>2, <1>9 DEF WorkInv, WorkType
<1>12. ShiftFits(j, record')
  BY <1>1, <1>3, <1>7, <1>10 DEF ShiftFits
<1>13. shiftJob' \in [Handlers -> ShiftJob] /\ ShiftsFit'
  BY <1>8, <1>10, <1>11, <1>12, JobSet
<1>14. \A g \in Handlers : shiftJob'[g] = IF g = h THEN j ELSE shiftJob[g]
  BY <1>11 DEF WorkInv, WorkType
<1>15. Applied' = Applied
  <2>1. h \in Applied /\ h \in Applied'
    BY <1>1, <1>10, <1>14 DEF Applied
  <2>2. \A g \in Handlers : g # h => (g \in Applied' <=> g \in Applied)
    BY <1>14 DEF Applied
  <2>3. Applied \subseteq Handlers /\ Applied' \subseteq Handlers
    BY DEF Applied
  <2> QED
    BY <2>1, <2>2, <2>3
<1>16. CountFits' /\ ChainFits'
  <2>1. \A g \in Applied : /\ shiftJob'[g].field = shiftJob[g].field
                           /\ shiftJob'[g].old = shiftJob[g].old
                           /\ shiftJob'[g].new = shiftJob[g].new
    BY <1>10, <1>14 DEF Applied
  <2> QED
    BY <1>1, <1>3, <1>6, <1>7, <1>15, <2>1, CountStays
<1>17. ExceptFits'
  <2> SUFFICES ASSUME ~shiftOverlap
               PROVE  ExceptFits'
    BY <1>1 DEF ExceptFits
  <2>1. shiftJob[h] # NoShiftJob
    BY <1>1 DEF NoShiftJob
  <2>2. \A g \in Handlers : g # h => shiftJob'[g] = NoShiftJob
    BY <1>14, <2>1 DEF WorkInv, ExceptFits
  <2>3. \A g \in Handlers : g # h => shiftJob'[g].op = "none"
    BY <2>2 DEF NoShiftJob
  <2>4. \A g \in Handlers : ~(ShiftAt(g, "out", "write") \/ ShiftAt(g, "correct", "write")
                              \/ ShiftAt(g, "correct", "refresh"))'
    BY <1>10, <1>14, <2>3 DEF ShiftAt
  <2>5. seen = record
    BY <1>1 DEF WorkInv, ExceptFits, ShiftAt
  <2>6. record'.clockOutAt # Unset => Consistent(r)'
    BY <1>5, <1>6, <2>5, ClosedKeepsExceptions
  <2>7. record'.clockOutAt # Unset => Consistent(record)'
    BY <1>6, <2>5, <2>6 DEF Consistent, Exceptions
  <2> QED
    BY <2>2, <2>4, <2>7 DEF ExceptFits
<1> QED
  BY <1>1, <1>7, <1>8, <1>13, <1>16, <1>17 DEF WorkInv, WorkType

(* A correction is written down: its entry is a row now.                   *)
LEMMA RecordCorrectionKeeps ==
  ASSUME WorkInv, NEW h \in Handlers, RecordCorrection(h)
  PROVE  WorkInv' /\ Advances(record, record')
<1> DEFINE new == [field |-> shiftJob[h].field, old |-> shiftJob[h].old,
                   new |-> shiftJob[h].new]
<1>1. /\ shiftJob[h].op = "correct" /\ shiftJob[h].pc = "ledger"
      /\ ledger' = Append(ledger, new)
      /\ shiftJob' = [shiftJob EXCEPT ![h] = NoShiftJob]
      /\ UNCHANGED <<now, record, leave, shiftOverlap>>
  BY DEF RecordCorrection, ShiftAt, EndShiftCall
<1>2. /\ record # Unset /\ RecordFits(record) /\ shiftJob[h] \in ShiftJob
      /\ shiftJob[h].field \in Field
  BY <1>1 DEF WorkInv, WorkType, ShiftsFit, ShiftFits
<1>3. new \in LedgerRow
  BY <1>2 DEF ShiftJob, LedgerRow
<1>4. PICK x \in LedgerRow : x = new /\ x.field = shiftJob[h].field
                            /\ x.old = shiftJob[h].old /\ x.new = shiftJob[h].new
  BY <1>3
<1>5. PICK n \in Nat : n = Len(ledger) /\ ledger \in Seq(LedgerRow) /\ DOMAIN ledger = 1 .. n
  BY DEF WorkInv, WorkType
<1>6. /\ ledger' \in Seq(LedgerRow) /\ Len(ledger') = n + 1 /\ DOMAIN ledger' = 1 .. n + 1
      /\ \A i \in 1 .. n : ledger'[i] = ledger[i]
      /\ ledger'[n + 1] = x
  BY <1>1, <1>4, <1>5
<1> HIDE DEF new
<1>7. Advances(record, record') /\ RecordFits(record)'
  BY <1>1, <1>2 DEF Advances, RecordFits
<1>8. shiftJob' \in [Handlers -> ShiftJob] /\ ShiftsFit'
  BY <1>1, <1>7, JobSet, NoShiftJobFits
<1>9. \A g \in Handlers : shiftJob'[g] = IF g = h THEN NoShiftJob ELSE shiftJob[g]
  BY <1>1 DEF WorkInv, WorkType
<1>10. h \in Applied /\ Applied' = Applied \ {h}
  <2>1. h \in Applied /\ h \notin Applied'
    BY <1>1, <1>9 DEF Applied, NoShiftJob
  <2>2. \A g \in Handlers : g # h => (g \in Applied' <=> g \in Applied)
    BY <1>9 DEF Applied
  <2>3. Applied \subseteq Handlers /\ Applied' \subseteq Handlers
    BY DEF Applied
  <2> QED
    BY <2>1, <2>2, <2>3
<1>11. CountFits'
  <2>1. IsFiniteSet(Applied') /\ Cardinality(Applied') = Cardinality(Applied) - 1
    BY <1>10, FS_RemoveElement DEF WorkInv, CountFits
  <2>2. Cardinality(Applied) \in Nat
    BY FS_CardinalityType DEF WorkInv, CountFits
  <2>3. n + Cardinality(Applied) = record.version - 1
    BY <1>2, <1>5 DEF WorkInv, CountFits
  <2>4. Len(ledger') + Cardinality(Applied') = record.version - 1
    BY <1>5, <1>6, <2>1, <2>2, <2>3
  <2> QED
    BY <1>1, <1>2, <2>1, <2>4 DEF CountFits
<1>12. ChainFits'
  <2>1. \A i \in 1 .. n : i \in RowKeys' <=> i \in RowKeys
    BY <1>5, <1>6 DEF RowKeys
  <2>2. RowKeys \subseteq 1 .. n /\ RowKeys' \subseteq 1 .. n + 1
    BY <1>5, <1>6 DEF RowKeys
  <2>3. n + 1 \in RowKeys' <=> shiftJob[h].field = "clockInAt"
    BY <1>4, <1>5, <1>6 DEF RowKeys
  <2>8. 1 .. n + 1 = (1 .. n) \cup {n + 1} /\ n + 1 \notin 1 .. n
    BY <1>5
  <2>4. \A g \in CallKeys \ {h} : shiftJob'[g] = shiftJob[g]
    BY <1>9, <1>10 DEF CallKeys, Applied
  <2>5. CallKeys' = CallKeys \ {h} /\ (h \in CallKeys <=> shiftJob[h].field = "clockInAt")
    <3>1. \A g \in Applied' : shiftJob'[g] = shiftJob[g]
      BY <1>9, <1>10 DEF Applied
    <3> QED
      BY <1>10, <3>1 DEF CallKeys
  <2>6. CASE shiftJob[h].field = "clockInAt"
    <3> DEFINE a == <<"call", h>>
               b == <<"row", n + 1>>
               f == [k \in ChainKeys |-> IF k = a THEN b ELSE k]
    <3>1. RowKeys' = RowKeys \cup {n + 1} /\ n + 1 \notin RowKeys
      <4>1. \A i \in (1 .. n) \cup {n + 1} : i \in RowKeys' <=> i \in RowKeys \cup {n + 1}
        BY <2>1, <2>3, <2>6
      <4> QED
        BY <2>2, <2>8, <4>1, Zenon
    <3>2. ChainKeys' = (ChainKeys \ {a}) \cup {b} /\ a \in ChainKeys /\ b \notin ChainKeys
      <4>1. a \in ChainKeys
        BY <2>5, <2>6 DEF ChainKeys
      <4>2. b \notin ChainKeys
        BY <3>1 DEF ChainKeys
      <4>3. ChainKeys' = {<<"row", i>> : i \in RowKeys \cup {n + 1}}
                         \cup {<<"call", g>> : g \in CallKeys \ {h}}
        BY <2>5, <3>1 DEF ChainKeys
      <4>4. {<<"row", i>> : i \in RowKeys \cup {n + 1}} = {<<"row", i>> : i \in RowKeys} \cup {b}
        OBVIOUS
      <4>5. {<<"call", g>> : g \in CallKeys \ {h}} = {<<"call", g>> : g \in CallKeys} \ {a}
        OBVIOUS
      <4>6. a \notin {<<"row", i>> : i \in RowKeys} /\ a # b
        OBVIOUS
      <4> QED
        BY <4>1, <4>2, <4>3, <4>4, <4>5, <4>6 DEF ChainKeys
    <3>3. {f[k] : k \in ChainKeys} = ChainKeys'
      BY <3>2
    <3>4. \A k, l \in ChainKeys : f[k] = f[l] => k = l
      BY <3>2
    <3>5. ASSUME NEW k \in ChainKeys, k # a
          PROVE  ChainOld(k)' = ChainOld(k) /\ ChainNew(k)' = ChainNew(k)
      <4>1. CASE \E i \in RowKeys : k = <<"row", i>>
        <5>1. PICK i \in 1 .. n : k = <<"row", i>>
          BY <2>2, <4>1
        <5>2. k[1] = "row" /\ k[2] = i /\ ledger'[i] = ledger[i]
          BY <1>6, <5>1
        <5> QED
          BY <5>2 DEF ChainOld, ChainNew
      <4>2. CASE \E g \in CallKeys : k = <<"call", g>>
        BY <2>4, <3>5, <4>2 DEF ChainOld, ChainNew
      <4> QED
        BY <4>1, <4>2 DEF ChainKeys
    <3>6. /\ ChainOld(b)' = x.old /\ ChainNew(b)' = x.new
          /\ ChainOld(a) = x.old /\ ChainNew(a) = x.new
      <4>0. b[1] = "row" /\ b[2] = n + 1 /\ ledger'[n + 1] = x
        BY <1>6
      <4>1. ChainOld(b)' = x.old /\ ChainNew(b)' = x.new
          BY <4>0 DEF ChainOld, ChainNew
      <4>2. ChainOld(a) = x.old /\ ChainNew(a) = x.new
        BY <1>4 DEF ChainOld, ChainNew
      <4> QED
        BY <4>1, <4>2
    <3>7. \A k \in ChainKeys : Olds'[f[k]] = Olds[k] /\ News'[f[k]] = News[k]
      <4>1. ASSUME NEW k \in ChainKeys, k = a
            PROVE  Olds'[f[k]] = Olds[k] /\ News'[f[k]] = News[k]
        <5>1. f[k] = b /\ b \in ChainKeys' /\ a \in ChainKeys
          BY <3>2, <4>1
        <5> HIDE DEF b
        <5>2. Olds'[b] = x.old /\ News'[b] = x.new
          BY <3>6, <5>1 DEF Olds, News
        <5>3. Olds[a] = x.old /\ News[a] = x.new
          BY <3>6, <5>1 DEF Olds, News
        <5> QED
          BY <4>1, <5>1, <5>2, <5>3
      <4>2. ASSUME NEW k \in ChainKeys, k # a
            PROVE  Olds'[f[k]] = Olds[k] /\ News'[f[k]] = News[k]
        <5>1. f[k] = k /\ k \in ChainKeys'
          BY <3>2, <4>2
        <5> QED
          BY <3>5, <4>2, <5>1 DEF Olds, News
      <4> QED
        BY <4>1, <4>2
    <3>8. OneSource(ChainKeys, Olds, News)
      BY DEF WorkInv, ChainFits
    <3> HIDE DEF f
    <3>9. OneSource({f[k] : k \in ChainKeys}, Olds', News')
      BY <3>4, <3>7, <3>8, EntriesRenamed
    <3>10. PICK k \in ChainKeys : News[k] = record.clockInAt
      BY <3>2 DEF WorkInv, ChainFits
    <3>11. f[k] \in ChainKeys' /\ News'[f[k]] = record'.clockInAt
      BY <1>1, <3>3, <3>7, <3>10
    <3> QED
      BY <1>1, <1>2, <3>3, <3>9, <3>11 DEF ChainFits
  <2>7. CASE shiftJob[h].field # "clockInAt"
    <3>1. RowKeys' = RowKeys /\ CallKeys' = CallKeys
      <4>1. \A i \in (1 .. n) \cup {n + 1} : i \in RowKeys' <=> i \in RowKeys
        BY <2>1, <2>2, <2>3, <2>7, <2>8
      <4>2. RowKeys' = RowKeys
        BY <2>2, <2>8, <4>1, Zenon
      <4> QED
        BY <2>5, <2>7, <4>2
    <3>2. ChainKeys' = ChainKeys
      BY <3>1 DEF ChainKeys
    <3>3. ASSUME NEW k \in ChainKeys
          PROVE  ChainOld(k)' = ChainOld(k) /\ ChainNew(k)' = ChainNew(k)
      <4>1. CASE \E i \in RowKeys : k = <<"row", i>>
        <5>1. PICK i \in 1 .. n : k = <<"row", i>>
          BY <2>2, <4>1
        <5>2. k[1] = "row" /\ k[2] = i /\ ledger'[i] = ledger[i]
          BY <1>6, <5>1
        <5> QED
          BY <5>2 DEF ChainOld, ChainNew
      <4>2. CASE \E g \in CallKeys : k = <<"call", g>>
        BY <2>4, <2>5, <2>7, <4>2 DEF ChainOld, ChainNew
      <4> QED
        BY <4>1, <4>2 DEF ChainKeys
    <3>4. Olds' = Olds /\ News' = News
      BY <3>2, <3>3 DEF Olds, News
    <3>5. OneSource(ChainKeys', Olds', News')
      BY <3>2, <3>4 DEF WorkInv, ChainFits
    <3> QED
      BY <1>1, <1>2, <3>2, <3>4, <3>5 DEF WorkInv, ChainFits
  <2> QED
    BY <2>6, <2>7
<1>13. ExceptFits'
  <2> SUFFICES ASSUME ~shiftOverlap
               PROVE  ExceptFits'
    BY <1>1 DEF ExceptFits
  <2>1. shiftJob[h] # NoShiftJob
    BY <1>1 DEF NoShiftJob
  <2>2. \A g \in Handlers : g # h => shiftJob[g] = NoShiftJob
    BY <2>1 DEF WorkInv, ExceptFits
  <2>3. \A g \in Handlers : shiftJob'[g] = NoShiftJob
    BY <1>9, <2>2
  <2>4. \A g \in Handlers : shiftJob'[g].op = "none" /\ ~(shiftJob'[g] # NoShiftJob)
    BY <2>3 DEF NoShiftJob
  <2>5. \A g \in Handlers : ~ShiftAt(g, "correct", "refresh")
    BY <1>1, <2>2 DEF ShiftAt, NoShiftJob
  <2>6. record.clockOutAt # Unset => Consistent(record)
    BY <1>2, <2>5 DEF WorkInv, ExceptFits
  <2>7. record.clockOutAt # Unset => Consistent(record)'
    BY <1>1, <2>6, ClosedKeepsExceptions
  <2>8. \A g \in Handlers : ~(ShiftAt(g, "out", "write") \/ ShiftAt(g, "correct", "write")
                              \/ ShiftAt(g, "correct", "refresh"))'
    BY <2>4 DEF ShiftAt
  <2> QED
    BY <1>1, <2>4, <2>7, <2>8 DEF ExceptFits
<1> QED
  BY <1>1, <1>6, <1>7, <1>8, <1>11, <1>12, <1>13 DEF WorkInv, WorkType

(* The clock, and the leave that is approved for the day.                  *)
LEMMA DayMovesKeep ==
  ASSUME WorkInv, Tick \/ ApproveLeave
  PROVE  WorkInv' /\ Advances(record, record')
<1>1. /\ UNCHANGED <<record, shiftJob, ledger, shiftOverlap>>
      /\ now' \in Time /\ leave' \in BOOLEAN
  <2>1. now \in Time /\ leave \in BOOLEAN
    BY DEF WorkInv, WorkType
  <2>2. CASE Tick
    BY <2>1, <2>2, AttendanceAssumption DEF Tick, Time
  <2>3. CASE ApproveLeave
    BY <2>1, <2>3 DEF ApproveLeave
  <2> QED
    BY <2>2, <2>3
<1>2. Advances(record, record')
  BY <1>1 DEF Advances, WorkInv, WorkType
<1>3. WorkType'
  BY <1>1 DEF WorkInv, WorkType, RecordFits
<1>4. ShiftsFit'
  BY <1>1 DEF WorkInv, ShiftsFit
<1>5. CountFits' /\ ChainFits'
  BY <1>1 DEF WorkInv, CountFits, ChainFits, Applied, ChainKeys, RowKeys, CallKeys,
              Olds, News, ChainOld, ChainNew
<1>6. record.clockOutAt # Unset => (Consistent(record)' <=> Consistent(record))
  BY <1>1, ClosedKeepsExceptions
<1>7. ExceptFits'
  BY <1>1, <1>6 DEF WorkInv, ExceptFits, ShiftAt
<1> QED
  BY <1>2, <1>3, <1>4, <1>5, <1>7 DEF WorkInv

LEMMA SyncLeaveKeeps ==
  ASSUME WorkInv, SyncLeave
  PROVE  WorkInv' /\ Advances(record, record')
<1>1. record = Unset /\ UNCHANGED <<now, leave, shiftJob, ledger, shiftOverlap>>
  BY DEF SyncLeave
<1>2. RecordFits(record)' /\ record'.version = 1 /\ record'.clockOutAt = Unset /\ record' # Unset
  <2>1. record' = [NewRecord EXCEPT !.status = "LEAVE"] /\ 0 \in Time
    BY AttendanceAssumption DEF SyncLeave, Time
  <2> QED
    BY <2>1, NewRecordFits DEF RecordFits
<1>3. Advances(record, record')
  BY <1>1, <1>2 DEF Advances, RecordFits
<1>4. ShiftsFit'
  <2>1. \A h \in Handlers : shiftJob[h] \in ShiftJob /\ ShiftFits(shiftJob[h], record)
    BY DEF WorkInv, WorkType, ShiftsFit
  <2>2. \A h \in Handlers : ShiftFits(shiftJob[h], record')
    BY <1>1, <1>3, <2>1, AdvancedFits
  <2> QED
    BY <1>1, <2>2 DEF ShiftsFit
<1>5. CountFits' /\ ChainFits'
  <2>1. Applied' = Applied
    BY <1>1 DEF Applied
  <2> QED
    BY <1>1, <1>2, <2>1, CountStays
<1>6. ExceptFits'
  <2>1. \A h \in Handlers : shiftJob[h].op # "out" /\ shiftJob[h].op # "correct"
    BY <1>1 DEF WorkInv, ShiftsFit, ShiftFits
  <2>2. \A h \in Handlers : ~(ShiftAt(h, "out", "write") \/ ShiftAt(h, "correct", "write")
                              \/ ShiftAt(h, "correct", "refresh"))'
    BY <1>1, <2>1 DEF ShiftAt
  <2> QED
    BY <1>1, <1>2, <2>2 DEF WorkInv, ExceptFits
<1> QED
  BY <1>1, <1>2, <1>3, <1>4, <1>5, <1>6 DEF WorkInv, WorkType

LEMMA WorkInvInit == AttendanceInit => WorkInv
<1> SUFFICES ASSUME AttendanceInit
             PROVE  WorkInv
  OBVIOUS
<1>1. \A h \in Handlers : shiftJob[h] = NoShiftJob
  BY DEF AttendanceInit
<1>2. WorkType
  <2>1. now \in Time
    BY AttendanceAssumption DEF AttendanceInit, Time
  <2>2. shiftJob \in [Handlers -> ShiftJob] /\ ledger \in Seq(LedgerRow)
    BY NoShiftJobFits DEF AttendanceInit
  <2> QED
    BY <2>1, <2>2 DEF AttendanceInit, WorkType
<1>3. ShiftsFit
  BY <1>1, NoShiftJobFits DEF ShiftsFit
<1>4. Applied = {}
  BY <1>1 DEF Applied, NoShiftJob
<1>5. CountFits
  BY <1>4, FS_EmptySet DEF CountFits, AttendanceInit
<1>6. ChainFits
  <2>1. ChainKeys = {}
    BY <1>4 DEF ChainKeys, RowKeys, CallKeys, AttendanceInit
  <2> QED
    BY <2>1 DEF ChainFits, OneSource
<1>7. ExceptFits
  BY <1>1 DEF ExceptFits, ShiftAt, NoShiftJob, AttendanceInit
<1> QED
  BY <1>2, <1>3, <1>5, <1>6, <1>7 DEF WorkInv

LEMMA WorkInvStep ==
  ASSUME WorkInv, [AttendanceNext]_attendanceVars
  PROVE  WorkInv' /\ Advances(record, record')
<1>1. CASE Tick \/ ApproveLeave
  BY <1>1, DayMovesKeep
<1>2. CASE SyncLeave
  BY <1>2, SyncLeaveKeeps
<1>3. ASSUME NEW h \in Handlers, Step(h)
      PROVE  WorkInv' /\ Advances(record, record')
  <2>1. CASE CreateRecord(h)
    BY <2>1, CreateRecordKeeps
  <2>2. CASE SaveClockOut(h)
    BY <2>2, SaveClockOutKeeps
  <2>3. CASE ApplyCorrection(h)
    BY <2>3, AppliedKeeps, RefusedKeeps
  <2>4. CASE RefreshExceptions(h)
    BY <2>4, RefreshKeeps
  <2>5. CASE RecordCorrection(h)
    BY <2>5, RecordCorrectionKeeps
  <2> QED
    BY <1>3, <2>1, <2>2, <2>3, <2>4, <2>5 DEF Step
<1>4. ASSUME UNCHANGED record
      PROVE  Advances(record, record')
  BY <1>4 DEF WorkInv, WorkType, Advances
<1>5. ASSUME NEW h \in Handlers, BeginClockIn(h) \/ BeginClockOut(h)
      PROVE  WorkInv' /\ Advances(record, record')
  <2>1. UNCHANGED record
    BY <1>5 DEF BeginClockIn, BeginClockOut
  <2> QED
    BY <1>4, <1>5, <2>1, BeginClockInKeeps, BeginClockOutKeeps
<1>6. ASSUME NEW h \in Handlers, NEW field \in Field, NEW new \in Corrected,
             BeginCorrect(h, field, new)
      PROVE  WorkInv' /\ Advances(record, record')
  <2>1. UNCHANGED record
    BY <1>6 DEF BeginCorrect
  <2> QED
    BY <1>4, <1>6, <2>1, BeginCorrectKeeps
<1>7. CASE UNCHANGED attendanceVars
  <2>1. UNCHANGED <<now, record, leave, shiftJob, ledger, shiftOverlap>>
    BY <1>7 DEF attendanceVars
  <2>2. WorkType' /\ ShiftsFit'
    BY <2>1 DEF WorkInv, WorkType, RecordFits, ShiftsFit
  <2>3. CountFits' /\ ChainFits'
    BY <2>1 DEF WorkInv, CountFits, ChainFits, Applied, ChainKeys, RowKeys, CallKeys,
                Olds, News, ChainOld, ChainNew
  <2>4. ExceptFits'
    BY <2>1 DEF WorkInv, ExceptFits, ShiftAt, Consistent, Exceptions
  <2> QED
    BY <1>4, <2>1, <2>2, <2>3, <2>4 DEF WorkInv
<1> QED
  BY <1>1, <1>2, <1>3, <1>5, <1>6, <1>7 DEF AttendanceNext

(* The inductive invariant of the attendance record: the types, what a     *)
(* call under way may rely on, the corrections counted by the version and  *)
(* chained by their values, and the exceptions while calls do not overlap  *)
(* (attendance.service.js clockIn, clockOut, correct).                     *)
THEOREM WorkInvariant == AttendanceSpec => []WorkInv
<1>1. WorkInv /\ [AttendanceNext]_attendanceVars => WorkInv'
  BY WorkInvStep
<1> QED
  BY <1>1, WorkInvInit, PTL DEF AttendanceSpec

(* The variables of the attendance record keep their types, for any number *)
(* of handlers and corrections (attendance.model.js).                      *)
THEOREM AttendanceTypeCorrect == AttendanceSpec => []AttendanceTypeOK
<1>1. WorkInv => AttendanceTypeOK
  BY DEF WorkInv, WorkType, RecordFits, AttendanceTypeOK, LedgerRow
<1> QED
  BY <1>1, WorkInvariant, PTL

(* However many calls race: a day that has a record keeps one, and its     *)
(* clock-in changes with its version only (attendance.service.js clockIn,  *)
(* attendance.model.js unique index).                                      *)
THEOREM OneWorkPeriodHolds == AttendanceSpec => OneWorkPeriod
<1>1. WorkInv /\ [AttendanceNext]_attendanceVars =>
        [record # Unset =>
           /\ record' # Unset
           /\ \/ record'.clockInAt = record.clockInAt
              \/ record'.version = record.version + 1]_attendanceVars
  BY WorkInvStep DEF Advances
<1> QED
  BY <1>1, WorkInvariant, PTL DEF AttendanceSpec, OneWorkPeriod

(* Of a day whose calls did not overlap, the exceptions of a closed period *)
(* are those its instants imply (attendance.service.js refreshExceptions). *)
THEOREM ExceptionsCorrect == AttendanceSpec => []ExceptionsFollow
<1>1. WorkInv => ExceptionsFollow
  <2> SUFFICES ASSUME WorkInv, ~shiftOverlap, ShiftQuiet, record # Unset,
                      record.clockOutAt # Unset
               PROVE  Consistent(record)
    BY DEF ExceptionsFollow, Consistent
  <2>1. \A h \in Handlers : ~ShiftAt(h, "correct", "refresh")
    BY DEF ShiftQuiet, ShiftAt, NoShiftJob
  <2> QED
    BY <2>1 DEF WorkInv, ExceptFits
<1> QED
  BY <1>1, WorkInvariant, PTL

(* However corrections race, once they are done every version of the       *)
(* record has its ledger entry and those of the clock-in form one chain    *)
(* that ends in the record (attendance.service.js correct,                 *)
(* attendance.repository.js applyCorrection).                              *)
THEOREM CorrectionsAccountedFor == AttendanceSpec => []LedgerAccounts
<1>1. WorkInv => LedgerAccounts
  <2> DEFINE Source(i) == \A k \in RowKeys : k # i => ledger[k].new # ledger[i].old
             sources == {i \in RowKeys : Source(i)}
  <2> SUFFICES ASSUME WorkInv, ShiftQuiet, record # Unset
               PROVE  /\ Len(ledger) = record.version - 1
                      /\ RowKeys # {} => \E i \in RowKeys : ledger[i].new = record.clockInAt
                      /\ Cardinality(sources) <= 1
    BY DEF LedgerAccounts, RowKeys
  <2>1. Applied = {}
    BY DEF ShiftQuiet, Applied, NoShiftJob
  <2>2. Len(ledger) = record.version - 1
    <3>1. Len(ledger) \in Nat /\ Len(ledger) + Cardinality(Applied) = record.version - 1
      BY DEF WorkInv, WorkType, CountFits
    <3> QED
      BY <2>1, <3>1, FS_EmptySet
  <2>3. ChainKeys = {<<"row", i>> : i \in RowKeys}
    BY <2>1 DEF ChainKeys, CallKeys
  <2>4. \A i \in RowKeys : /\ <<"row", i>> \in ChainKeys
                           /\ Olds[<<"row", i>>] = ledger[i].old
                           /\ News[<<"row", i>>] = ledger[i].new
    BY <2>3 DEF Olds, News, ChainOld, ChainNew
  <2>5. RowKeys # {} => \E i \in RowKeys : ledger[i].new = record.clockInAt
    <3> SUFFICES ASSUME RowKeys # {}
                 PROVE  \E i \in RowKeys : ledger[i].new = record.clockInAt
      OBVIOUS
    <3>1. ChainKeys # {}
      BY <2>3
    <3>2. PICK k \in ChainKeys : News[k] = record.clockInAt
      BY <3>1 DEF WorkInv, ChainFits
    <3>3. PICK i \in RowKeys : k = <<"row", i>>
      BY <2>3
    <3> QED
      BY <2>4, <3>2, <3>3
  <2>6. \A i \in sources : FromElsewhere(ChainKeys, Olds, News, <<"row", i>>)
    BY <2>3, <2>4 DEF FromElsewhere
  <2>7. \A i, k \in sources : i = k
    BY <2>4, <2>6 DEF WorkInv, ChainFits, OneSource
  <2>8. Cardinality(sources) <= 1
    <3> HIDE DEF sources
    <3>1. sources = {} \/ \E i \in sources : sources = {i}
      BY <2>7
    <3>2. sources = {} => Cardinality(sources) = 0
      BY FS_EmptySet
    <3>3. \A i \in sources : sources = {i} => Cardinality(sources) = 1
      BY FS_Singleton
    <3> QED
      BY <3>1, <3>2, <3>3
  <2> QED
    BY <2>2, <2>5, <2>8
<1> QED
  BY <1>1, WorkInvariant, PTL

----------------------------------------------------------------------------
(* The leave balances.                                                     *)

LeaveStatus == {"NONE", "PENDING", "APPROVED", "REJECTED", "CANCELLED"}
LeaveRequest == [status : LeaveStatus, payload : Payloads \cup {NoPayload}]

LeaveType ==
  /\ req \in [Requests -> LeaveRequest]
  /\ row \in [Bucket -> Row \cup {Null}]
  /\ used \in [Types -> Nat]
  /\ att \in [Dates -> {"none", "leave", "worked"}]
  /\ job \in [Jobs -> Job] /\ overlap \in BOOLEAN

(* A request that has been submitted has one of the payloads, and a bucket *)
(* that was granted days has its row.                                      *)
RequestsFit == \A r \in Requests : req[r].status # "NONE" => req[r].payload \in Payloads
RowsThere == \A b \in Bucket : Granted[b] # Null => row[b] # Null

(* What a handler k under way may rely on, of the requests q.              *)
LeaveJobFits(k, q) ==
  /\ k.op = "none" => k.pc = "none"
  /\ k.op = "submit" =>
       /\ k.pc \in {"create", "event"} /\ k.request \in Requests /\ k.payload \in Payloads
       /\ k.pc = "create" => q[k.request].status = "NONE"
  /\ k.op = "cancel" =>
       k.pc = "event" /\ k.request \in Requests /\ q[k.request].status = "CANCELLED"
  /\ k.op = "decide" =>
       /\ k.pc \in {"event", "sync", "insert", "mirror"} /\ k.request \in Requests
       /\ q[k.request].status \in {"APPROVED", "REJECTED"}
  /\ k.op = "quota" =>
       /\ k.pc = "write" /\ k.bucket \in Bucket
       /\ k.bucket[1] \in BalanceBased /\ k.bucket[2] = ThisYear
       /\ k.quota \in Quotas
       /\ k.seen = Null => Granted[k.bucket] = Null
LeaveJobsFit == \A j \in Jobs : LeaveJobFits(job[j], req)

(* One handler at most is about to create a request.                       *)
Creating(j, r) == job[j].op = "submit" /\ job[j].pc = "create" /\ job[j].request = r
CreatesApart ==
  \A r \in Requests, i, j \in Jobs : Creating(i, r) /\ Creating(j, r) => i = j

LeaveInv == LeaveType /\ RequestsFit /\ RowsThere /\ LeaveJobsFit /\ CreatesApart

LEMMA PayloadFacts ==
  ASSUME NEW p \in Payloads
  PROVE  /\ p.type \in Types /\ BucketOf(p) \in Bucket /\ BucketOf(p) = <<p.type, p.year>>
         /\ p.dates \subseteq Dates /\ IsFiniteSet(p.dates) /\ Days(p) \in Nat
<1>1. p.type \in Types /\ p.year \in Years /\ IsFiniteSet(p.dates)
  BY LeaveAssumption
<1>2. Days(p) \in Nat
  BY <1>1, FS_CardinalityType DEF Days
<1> QED
  BY <1>1, <1>2 DEF BucketOf, Bucket, Dates

LEMMA AdjustedIs ==
  ASSUME NEW x \in Row \cup {Null}, NEW e \in Int, NEW r \in Int, NEW c \in Nat
  PROVE  /\ Adjusted(x, e, r, c) \in Row /\ Adjusted(x, e, r, c) # Null
         /\ Available(Adjusted(x, e, r, c)) = Available(x) + e - r - c
         /\ LET old == IF x = Null THEN Zero ELSE x IN
            /\ Adjusted(x, e, r, c).entitlement = old.entitlement + e
            /\ Adjusted(x, e, r, c).reserved = old.reserved + r
            /\ Adjusted(x, e, r, c).consumed = old.consumed + c
<1> DEFINE old == IF x = Null THEN Zero ELSE x
<1>1. old \in Row
  BY DEF Row, Zero
<1>2. Available(x) = old.entitlement + old.adjustment - old.consumed - old.reserved
  BY DEF Available, Zero
<1> HIDE DEF old
<1>3. PICK y : y = [old EXCEPT !.entitlement = @ + e, !.reserved = @ + r, !.consumed = @ + c]
  OBVIOUS
<1>4. /\ y \in Row /\ y.entitlement = old.entitlement + e /\ y.reserved = old.reserved + r
      /\ y.consumed = old.consumed + c /\ y.adjustment = old.adjustment
  <2>1. PICK o \in Row : o = old
    BY <1>1
  <2>2. /\ o.entitlement + e \in Int /\ o.reserved + r \in Int /\ o.consumed + c \in Nat
        /\ o.adjustment \in Int
    BY DEF Row
  <2>3. y = [o EXCEPT !.entitlement = @ + e, !.reserved = @ + r, !.consumed = @ + c]
    BY <1>3, <2>1
  <2>4. y = [entitlement |-> o.entitlement + e, adjustment |-> o.adjustment,
             consumed |-> o.consumed + c, reserved |-> o.reserved + r]
    BY <2>3 DEF Row
  <2> QED
    BY <2>1, <2>2, <2>4 DEF Row
<1>5. y # Null
  BY <1>4, LeaveNoRow
<1>6. /\ old.entitlement \in Int /\ old.adjustment \in Int /\ old.reserved \in Int
      /\ old.consumed \in Nat
  BY <1>1 DEF Row
<1>7. Available(y) = Available(x) + e - r - c
  BY <1>2, <1>4, <1>5, <1>6 DEF Available
<1>8. y = Adjusted(x, e, r, c)
  BY <1>3 DEF Adjusted, old
<1> QED
  BY <1>4, <1>5, <1>7, <1>8 DEF old

LEMMA NewRowIs ==
  ASSUME NEW n \in Nat
  PROVE  NewRow(n) \in Row /\ NewRow(n) # Null /\ Available(NewRow(n)) = n
         /\ NewRow(n).entitlement = n
<1>1. /\ NewRow(n) \in Row /\ NewRow(n).entitlement = n /\ NewRow(n).reserved = 0
      /\ NewRow(n).consumed = 0 /\ NewRow(n).adjustment = 0
  BY DEF NewRow, Zero, Row
<1>2. NewRow(n) # Null
  BY <1>1, LeaveNoRow
<1> QED
  BY <1>1, <1>2 DEF Available

LEMMA IdleFits == Idle \in Job /\ \A q : LeaveJobFits(Idle, q)
BY DEF Idle, Job, LeaveJobFits

(* Job j changes the status of the request it creates or of a pending one; *)
(* a request that k is to create is in no other hands.                     *)
StatusMoves(j) ==
  \A r \in Requests :
    \/ req'[r].status = req[r].status
    \/ req[r].status = "PENDING"
    \/ req[r].status = "NONE" /\ Creating(j, r)
OnlyItsOwn(k) ==
  k.op = "submit" /\ k.pc = "create" => \A i \in Jobs : job[i].request # k.request

(* A job is set to k, and no other job loses what it relies on.            *)
LEMMA LeaveJobSet ==
  ASSUME LeaveInv, NEW j \in Jobs, NEW k \in Job, job' = [job EXCEPT ![j] = k],
         LeaveJobFits(k, req'), StatusMoves(j), OnlyItsOwn(k)
  PROVE  job' \in [Jobs -> Job] /\ LeaveJobsFit' /\ CreatesApart'
<1>1. /\ job' \in [Jobs -> Job]
      /\ \A i \in Jobs : job'[i] = IF i = j THEN k ELSE job[i]
  BY DEF LeaveInv, LeaveType
<1>2. ASSUME NEW i \in Jobs, i # j
      PROVE  LeaveJobFits(job[i], req')
  <2>1. job'[i] = job[i] /\ LeaveJobFits(job[i], req)
    BY <1>1, <1>2 DEF LeaveInv, LeaveJobsFit
  <2>2. \A r \in Requests : Creating(i, r) /\ Creating(j, r) => FALSE
    BY <1>2 DEF LeaveInv, CreatesApart
  <2>3. ASSUME job[i].request \in Requests
        PROVE  /\ req[job[i].request].status \in {"CANCELLED", "APPROVED", "REJECTED"} =>
                    req'[job[i].request].status = req[job[i].request].status
               /\ Creating(i, job[i].request) /\ req[job[i].request].status = "NONE" =>
                    req'[job[i].request].status = "NONE"
    BY <2>2, <2>3 DEF StatusMoves
  <2> QED
    BY <2>1, <2>3 DEF LeaveJobFits, Creating
<1>3. LeaveJobsFit'
  BY <1>1, <1>2 DEF LeaveJobsFit, LeaveJobFits
<1>4. CreatesApart'
  <2> SUFFICES ASSUME NEW r \in Requests, NEW h \in Jobs, NEW i \in Jobs,
                      Creating(h, r)', Creating(i, r)'
               PROVE  h = i
    BY DEF CreatesApart
  <2>1. \A l \in Jobs : l # j /\ Creating(l, r)' => Creating(l, r)
    BY <1>1 DEF Creating
  <2>2. Creating(j, r)' => \A l \in Jobs : l # j => ~Creating(l, r)'
    BY <1>1 DEF Creating, OnlyItsOwn
  <2>3. CASE h # j /\ i # j
    BY <2>1, <2>3 DEF LeaveInv, CreatesApart
  <2> QED
    BY <2>2, <2>3
<1> QED
  BY <1>1, <1>3, <1>4

(* A row is set to x.                                                      *)
LEMMA RowSet ==
  ASSUME LeaveInv, NEW b \in Bucket, NEW x \in Row, row' = [row EXCEPT ![b] = x]
  PROVE  /\ row' \in [Bucket -> Row \cup {Null}] /\ RowsThere'
         /\ \A c \in Bucket : row'[c] = IF c = b THEN x ELSE row[c]
BY LeaveNoRow DEF LeaveInv, LeaveType, RowsThere

(* The balance of bucket b moves by $inc.                                  *)
LEMMA RowAdjusted ==
  ASSUME LeaveInv, NEW b \in Bucket, NEW e \in Int, NEW r \in Int, NEW c \in Nat,
         NEW x, x = Adjusted(row[b], e, r, c), row' = [row EXCEPT ![b] = x]
  PROVE  /\ row' \in [Bucket -> Row \cup {Null}] /\ RowsThere'
         /\ \A d \in Bucket : d # b => row'[d] = row[d]
         /\ row'[b] # Null /\ row'[b] = Adjusted(row[b], e, r, c)
<1>1. row[b] \in Row \cup {Null}
  BY DEF LeaveInv, LeaveType
<1>2. x \in Row /\ x # Null
  BY <1>1, AdjustedIs
<1> QED
  BY <1>2, RowSet

LEMMA BeginSubmitKeeps ==
  ASSUME LeaveInv, NEW j \in Jobs, NEW r \in Requests, NEW p \in Payloads,
         BeginSubmit(j, r, p)
  PROVE  LeaveInv'
<1>1. /\ req[r].status = "NONE" /\ ~Busy(r)
      /\ job' = [job EXCEPT ![j] = [Idle EXCEPT !.op = "submit", !.pc = "create",
                                     !.request = r, !.payload = p]]
      /\ overlap' \in BOOLEAN /\ UNCHANGED <<req, row, used, att>>
  BY DEF BeginSubmit, Start, CheckThenWrite, LeaveInv, LeaveType
<1>0. PICK k : k = [Idle EXCEPT !.op = "submit", !.pc = "create", !.request = r, !.payload = p]
  OBVIOUS
<1>2. /\ k \in Job /\ k.op = "submit" /\ k.pc = "create" /\ k.request = r /\ k.payload = p
      /\ job' = [job EXCEPT ![j] = k]
  BY <1>0, <1>1 DEF Idle, Job
<1>3. LeaveJobFits(k, req')
  BY <1>1, <1>2 DEF LeaveJobFits
<1>4. \A i \in Jobs : job[i].request # r
  BY <1>1 DEF Busy
<1>5. job' \in [Jobs -> Job] /\ LeaveJobsFit' /\ CreatesApart'
  <2>1. StatusMoves(j) /\ OnlyItsOwn(k)
    BY <1>1, <1>2, <1>4 DEF StatusMoves, OnlyItsOwn
  <2> QED
    BY <1>2, <1>3, <2>1, LeaveJobSet
<1> QED
  BY <1>1, <1>5 DEF LeaveInv, LeaveType, RequestsFit, RowsThere

LEMMA CreateKeeps ==
  ASSUME LeaveInv, NEW j \in Jobs, Create(j)
  PROVE  LeaveInv'
<1> DEFINE r == job[j].request
<1>1. /\ job[j].op = "submit" /\ job[j].pc = "create"
      /\ req' = [req EXCEPT ![r] = [status |-> "PENDING", payload |-> job[j].payload]]
      /\ job' = [job EXCEPT ![j].pc = "event"]
      /\ UNCHANGED <<row, used, att, overlap>>
  BY DEF Create, At
<1>2. /\ job[j] \in Job /\ r \in Requests /\ job[j].payload \in Payloads
      /\ req[r].status = "NONE"
  BY <1>1 DEF LeaveInv, LeaveType, LeaveJobsFit, LeaveJobFits
<1>0. PICK k, q : /\ k = [job[j] EXCEPT !.pc = "event"]
                  /\ q = [status |-> "PENDING", payload |-> job[j].payload]
  OBVIOUS
<1>3. k \in Job /\ k.op = "submit" /\ k.pc = "event" /\ k.request = r
      /\ k.payload = job[j].payload
  BY <1>0, <1>1, <1>2 DEF Job
<1>4. job' = [job EXCEPT ![j] = k]
  BY <1>0, <1>1 DEF LeaveInv, LeaveType
<1>5. q \in LeaveRequest /\ q.status = "PENDING" /\ q.payload \in Payloads
  BY <1>0, <1>2 DEF LeaveRequest, LeaveStatus
<1>6. /\ req' \in [Requests -> LeaveRequest]
      /\ \A s \in Requests : req'[s] = IF s = r THEN q ELSE req[s]
  BY <1>0, <1>1, <1>2, <1>5 DEF LeaveInv, LeaveType
<1>7. RequestsFit'
  BY <1>5, <1>6 DEF LeaveInv, RequestsFit
<1>8. LeaveJobFits(k, req')
  BY <1>2, <1>3 DEF LeaveJobFits
<1>9. Creating(j, r)
  BY <1>1 DEF Creating
<1>10. job' \in [Jobs -> Job] /\ LeaveJobsFit' /\ CreatesApart'
  <2>1. StatusMoves(j) /\ OnlyItsOwn(k)
    BY <1>2, <1>3, <1>6, <1>9 DEF StatusMoves, OnlyItsOwn
  <2> QED
    BY <1>3, <1>4, <1>8, <2>1, LeaveJobSet
<1> QED
  BY <1>1, <1>6, <1>7, <1>10 DEF LeaveInv, LeaveType, RowsThere

LEMMA EditKeeps ==
  ASSUME LeaveInv, NEW r \in Requests, NEW p \in Payloads, Edit(r, p)
  PROVE  LeaveInv'
<1>1. /\ req[r].status = "PENDING" /\ req' = [req EXCEPT ![r].payload = p]
      /\ UNCHANGED <<row, used, att, job, overlap>>
  BY DEF Edit
<1>2. /\ req' \in [Requests -> LeaveRequest]
      /\ \A s \in Requests : /\ req'[s].status = req[s].status
                             /\ req'[s].payload = IF s = r THEN p ELSE req[s].payload
  BY <1>1 DEF LeaveInv, LeaveType, LeaveRequest
<1>3. RequestsFit'
  BY <1>2 DEF LeaveInv, RequestsFit
<1>4. LeaveJobsFit' /\ CreatesApart'
  BY <1>1, <1>2 DEF LeaveInv, LeaveJobsFit, LeaveJobFits, CreatesApart, Creating
<1> QED
  BY <1>1, <1>2, <1>3, <1>4 DEF LeaveInv, LeaveType, RowsThere

(* A pending request gets the status that it has as q.                     *)
LEMMA PendingEnds ==
  ASSUME LeaveInv, NEW r \in Requests, NEW q \in LeaveRequest,
         req[r].status = "PENDING", q.payload = req[r].payload,
         req' = [req EXCEPT ![r] = q]
  PROVE  /\ req' \in [Requests -> LeaveRequest] /\ RequestsFit'
         /\ \A s \in Requests : req'[s] = IF s = r THEN q ELSE req[s]
<1>1. /\ req' \in [Requests -> LeaveRequest]
      /\ \A s \in Requests : req'[s] = IF s = r THEN q ELSE req[s]
  BY DEF LeaveInv, LeaveType
<1>2. RequestsFit'
  BY <1>1 DEF LeaveInv, RequestsFit
<1> QED
  BY <1>1, <1>2

(* A step of job j that leaves the requests alone.                         *)
LEMMA JobMoves ==
  ASSUME LeaveInv, NEW j \in Jobs, NEW k \in Job, job' = [job EXCEPT ![j] = k],
         UNCHANGED <<req, used>>, LeaveJobFits(k, req), ~(k.op = "submit" /\ k.pc = "create"),
         row' \in [Bucket -> Row \cup {Null}] /\ RowsThere',
         att' \in [Dates -> {"none", "leave", "worked"}], overlap' \in BOOLEAN
  PROVE  LeaveInv' /\ \A i \in Jobs : job'[i] = IF i = j THEN k ELSE job[i]
<1>1. LeaveJobFits(k, req')
  BY DEF LeaveJobFits
<1>2. job' \in [Jobs -> Job] /\ LeaveJobsFit' /\ CreatesApart'
  <2>1. StatusMoves(j) /\ OnlyItsOwn(k)
    BY DEF StatusMoves, OnlyItsOwn
  <2> QED
    BY <1>1, <2>1, LeaveJobSet
<1>3. \A i \in Jobs : job'[i] = IF i = j THEN k ELSE job[i]
  BY DEF LeaveInv, LeaveType
<1> QED
  BY <1>2, <1>3 DEF LeaveInv, LeaveType, RequestsFit

LEMMA ReserveKeeps ==
  ASSUME LeaveInv, NEW j \in Jobs, Reserve(j)
  PROVE  /\ LeaveInv' /\ UNCHANGED <<req, overlap>>
         /\ \A i \in Jobs : job'[i] = IF i = j THEN Idle ELSE job[i]
         /\ job[j].op = "submit" /\ job[j].pc = "event" /\ job[j].payload \in Payloads
         /\ row' = [row EXCEPT ![BucketOf(job[j].payload)] =
                      Adjusted(@, 0, Days(job[j].payload), 0)]
<1>1. /\ job[j].op = "submit" /\ job[j].pc = "event"
      /\ row' = [row EXCEPT ![BucketOf(job[j].payload)] =
                   Adjusted(@, 0, Days(job[j].payload), 0)]
      /\ job' = [job EXCEPT ![j] = Idle] /\ UNCHANGED <<req, used, att, overlap>>
  BY DEF Reserve, At, Finish
<1>2. PICK p \in Payloads : p = job[j].payload
  BY <1>1 DEF LeaveInv, LeaveJobsFit, LeaveJobFits
<1>3. row' \in [Bucket -> Row \cup {Null}] /\ RowsThere'
  <2>1. PICK b \in Bucket, n \in Int : b = BucketOf(p) /\ n = Days(p) /\ 0 \in Nat
    BY PayloadFacts
  <2>2. PICK x : x = Adjusted(row[b], 0, n, 0)
    OBVIOUS
  <2>3. row' = [row EXCEPT ![b] = x]
    BY <1>1, <1>2, <2>1, <2>2
  <2>4. 0 \in Int /\ 0 \in Nat
    OBVIOUS
  <2> QED
    BY <2>1, <2>2, <2>3, <2>4, RowAdjusted
<1>4. LeaveInv' /\ \A i \in Jobs : job'[i] = IF i = j THEN Idle ELSE job[i]
  <2>1. att' \in [Dates -> {"none", "leave", "worked"}] /\ overlap' \in BOOLEAN
    BY <1>1 DEF LeaveInv, LeaveType
  <2>2. Idle.op = "none"
    BY DEF Idle
  <2> QED
    BY <1>1, <1>3, <2>1, <2>2, IdleFits, JobMoves
<1> QED
  BY <1>1, <1>2, <1>4

LEMMA ReleaseKeeps ==
  ASSUME LeaveInv, NEW j \in Jobs, Release(j)
  PROVE  /\ LeaveInv' /\ UNCHANGED <<req, overlap>>
         /\ \A i \in Jobs : job'[i] = IF i = j THEN Idle ELSE job[i]
         /\ job[j].op = "cancel" /\ job[j].pc = "event" /\ job[j].request \in Requests
         /\ req[job[j].request].status = "CANCELLED"
         /\ req[job[j].request].payload \in Payloads
         /\ row' = [row EXCEPT ![BucketOf(req[job[j].request].payload)] =
                      Adjusted(@, 0, -Days(req[job[j].request].payload), 0)]
<1>1. /\ job[j].op = "cancel" /\ job[j].pc = "event"
      /\ row' = [row EXCEPT ![BucketOf(req[job[j].request].payload)] =
                   Adjusted(@, 0, -Days(req[job[j].request].payload), 0)]
      /\ job' = [job EXCEPT ![j] = Idle] /\ UNCHANGED <<req, used, att, overlap>>
  BY DEF Release, At, Finish
<1>2. job[j].request \in Requests /\ req[job[j].request].status = "CANCELLED"
  BY <1>1 DEF LeaveInv, LeaveJobsFit, LeaveJobFits
<1>3. PICK p \in Payloads : p = req[job[j].request].payload
  BY <1>2 DEF LeaveInv, RequestsFit
<1>5. row' \in [Bucket -> Row \cup {Null}] /\ RowsThere'
  <2>1. PICK b \in Bucket, n \in Int : b = BucketOf(p) /\ n = -Days(p) /\ 0 \in Nat
    BY PayloadFacts
  <2>2. PICK x : x = Adjusted(row[b], 0, n, 0)
    OBVIOUS
  <2>3. row' = [row EXCEPT ![b] = x]
    BY <1>1, <1>3, <2>1, <2>2
  <2>4. 0 \in Int /\ 0 \in Nat
    OBVIOUS
  <2> QED
    BY <2>1, <2>2, <2>3, <2>4, RowAdjusted
<1>6. LeaveInv' /\ \A i \in Jobs : job'[i] = IF i = j THEN Idle ELSE job[i]
  <2>1. att' \in [Dates -> {"none", "leave", "worked"}] /\ overlap' \in BOOLEAN
    BY <1>1 DEF LeaveInv, LeaveType
  <2>2. Idle.op = "none"
    BY DEF Idle
  <2> QED
    BY <1>1, <1>5, <2>1, <2>2, IdleFits, JobMoves
<1> QED
  BY <1>1, <1>2, <1>3, <1>6

(* An approval moves the days, and the job goes on; a rejection gives them *)
(* back.                                                                   *)
LEMMA SettleKeeps ==
  ASSUME LeaveInv, NEW j \in Jobs, Settle(j)
  PROVE  /\ LeaveInv' /\ UNCHANGED <<req, overlap>>
         /\ \A i \in Jobs \ {j} : job'[i] = job[i]
         /\ job'[j].pc # "event" /\ job'[j].op \in {"none", "decide"}
         /\ job[j].op = "decide" /\ job[j].pc = "event" /\ job[j].request \in Requests
         /\ req[job[j].request].status \in {"APPROVED", "REJECTED"}
         /\ req[job[j].request].payload \in Payloads
         /\ row' = [row EXCEPT ![BucketOf(req[job[j].request].payload)] =
                      Adjusted(@, 0, -Days(req[job[j].request].payload),
                               IF req[job[j].request].status = "APPROVED"
                               THEN Days(req[job[j].request].payload) ELSE 0)]
<1> DEFINE r == job[j].request
<1>1. job[j].op = "decide" /\ job[j].pc = "event" /\ UNCHANGED <<req, used, att, overlap>>
  BY DEF Settle, At
<1>2. r \in Requests /\ req[r].status \in {"APPROVED", "REJECTED"} /\ job[j] \in Job
  BY <1>1 DEF LeaveInv, LeaveType, LeaveJobsFit, LeaveJobFits
<1>3. PICK p \in Payloads : p = req[r].payload
  BY <1>2 DEF LeaveInv, RequestsFit
<1>4. PICK days \in Nat : days = Days(p) /\ -days \in Int /\ 0 \in Nat
  BY PayloadFacts
<1>5. PICK taken \in Nat : taken = IF req[r].status = "APPROVED" THEN days ELSE 0
  BY <1>4
<1>6. row' = [row EXCEPT ![BucketOf(p)] = Adjusted(@, 0, -days, taken)]
  BY <1>3, <1>4, <1>5 DEF Settle
<1>7. row' \in [Bucket -> Row \cup {Null}] /\ RowsThere'
  <2>1. PICK b \in Bucket, n \in Int : b = BucketOf(p) /\ n = -days
    BY <1>4, PayloadFacts
  <2>2. PICK x : x = Adjusted(row[b], 0, n, taken)
    OBVIOUS
  <2>3. row' = [row EXCEPT ![b] = x]
    BY <1>6, <2>1, <2>2
  <2>4. 0 \in Int /\ 0 \in Nat
    OBVIOUS
  <2> QED
    BY <2>1, <2>2, <2>3, <2>4, RowAdjusted
<1>8. att' \in [Dates -> {"none", "leave", "worked"}] /\ overlap' \in BOOLEAN
  BY <1>1 DEF LeaveInv, LeaveType
<1>9. PICK k \in Job : /\ job' = [job EXCEPT ![j] = k]
                       /\ k.pc # "event" /\ k.op \in {"none", "decide"}
                       /\ LeaveJobFits(k, req)
  <2>1. CASE req[r].status = "APPROVED"
    <3>1. PICK k : k = [job[j] EXCEPT !.pc = "sync", !.left = p.dates]
      OBVIOUS
    <3>2. k \in Job /\ k.op = "decide" /\ k.pc = "sync" /\ k.request = r
      BY <1>1, <1>2, <3>1, PayloadFacts DEF Job
    <3>3. job' = [job EXCEPT ![j] = k]
      BY <1>3, <2>1, <3>1 DEF Settle, LeaveInv, LeaveType
    <3>4. LeaveJobFits(k, req)
      BY <1>2, <3>2 DEF LeaveJobFits
    <3> QED
      BY <3>2, <3>3, <3>4
  <2>2. CASE req[r].status # "APPROVED"
    <3>1. job' = [job EXCEPT ![j] = Idle]
      BY <2>2 DEF Settle, Finish
    <3>2. Idle.op = "none" /\ Idle.pc = "none"
      BY DEF Idle
    <3> QED
      BY <3>1, <3>2, IdleFits
  <2> QED
    BY <2>1, <2>2
<1>10. LeaveInv' /\ \A i \in Jobs : job'[i] = IF i = j THEN k ELSE job[i]
  BY <1>1, <1>7, <1>8, <1>9, JobMoves
<1> QED
  BY <1>1, <1>2, <1>3, <1>4, <1>5, <1>6, <1>9, <1>10

(* The sync of the attendance and the quota mirror: the job goes on.       *)
LEMMA SyncKeeps ==
  ASSUME LeaveInv, NEW j \in Jobs, FindRecord(j) \/ InsertRecord(j) \/ CountQuota(j)
  PROVE  /\ LeaveInv' /\ UNCHANGED <<req, row, overlap>>
         /\ \A i \in Jobs \ {j} : job'[i] = job[i]
         /\ job[j].op = "decide" /\ job[j].pc # "event"
         /\ job'[j].op \in {"none", "decide"} /\ job'[j].pc # "event"
         /\ \A d \in Dates : att[d] # "none" => att'[d] = att[d]
<1>1. /\ job[j].op = "decide" /\ job[j].pc \in {"sync", "insert", "mirror"}
      /\ UNCHANGED <<req, row, overlap>>
  BY DEF FindRecord, InsertRecord, CountQuota, At
<1>2. PICK o \in Job : o = job[j] /\ o.request \in Requests /\ LeaveJobFits(o, req)
  BY <1>1 DEF LeaveInv, LeaveType, LeaveJobsFit, LeaveJobFits
<1>3. o.left \subseteq Dates /\ req[o.request].status \in {"APPROVED", "REJECTED"}
  BY <1>1, <1>2 DEF Job, LeaveJobFits
<1>4. UNCHANGED used
  <2>1. NoPayload.type = Null
    BY DEF NoPayload
  <2> QED
    BY <2>1 DEF FindRecord, InsertRecord, CountQuota, PayloadOfEvent
<1>5. \A pc \in {"sync", "insert", "mirror"}, left \in SUBSET Dates : \A k :
        k = [o EXCEPT !.pc = pc, !.left = left] =>
          /\ k \in Job /\ k.op = "decide" /\ k.pc = pc /\ LeaveJobFits(k, req)
          /\ k = [o EXCEPT !.left = left, !.pc = pc]
  <2> TAKE pc \in {"sync", "insert", "mirror"}, left \in SUBSET Dates
  <2> TAKE k
  <2> HAVE k = [o EXCEPT !.pc = pc, !.left = left]
  <2>1. /\ k \in Job /\ k.op = "decide" /\ k.pc = pc /\ k.request = o.request
        /\ k = [o EXCEPT !.left = left, !.pc = pc]
    BY <1>1, <1>2 DEF Job
  <2> QED
    BY <1>2, <1>3, <2>1 DEF LeaveJobFits
<1>6. PICK k \in Job : /\ job' = [job EXCEPT ![j] = k]
                       /\ k.op \in {"none", "decide"} /\ k.pc # "event"
                       /\ LeaveJobFits(k, req)
  <2>1. ASSUME NEW pc \in {"sync", "insert", "mirror"}, NEW left \in SUBSET Dates,
               job' = [job EXCEPT ![j] = [o EXCEPT !.pc = pc, !.left = left]]
        PROVE  \E k \in Job : /\ job' = [job EXCEPT ![j] = k]
                              /\ k.op \in {"none", "decide"} /\ k.pc # "event"
                              /\ LeaveJobFits(k, req)
    <3>1. PICK k : k = [o EXCEPT !.pc = pc, !.left = left]
      OBVIOUS
    <3> QED
      BY <1>5, <2>1, <3>1, ZenonT(60)
  <2>2. CASE FindRecord(j)
    <3>1. o.left \ {Min(o.left)} \in SUBSET Dates /\ o.left \in SUBSET Dates
      BY <1>3
    <3>2. \/ job' = [job EXCEPT ![j].pc = "mirror"]
          \/ job' = [job EXCEPT ![j].left = @ \ {Min(@)}]
          \/ job' = [job EXCEPT ![j].pc = "insert"]
      BY <2>2 DEF FindRecord
    <3>3. job[j].pc = "sync"
      BY <2>2 DEF FindRecord, At
    <3>4. \/ job' = [job EXCEPT ![j] = [o EXCEPT !.pc = "mirror", !.left = o.left]]
          \/ job' = [job EXCEPT ![j] = [o EXCEPT !.pc = "sync", !.left = o.left \ {Min(o.left)}]]
          \/ job' = [job EXCEPT ![j] = [o EXCEPT !.pc = "insert", !.left = o.left]]
      <4>1. PICK q : q = [o EXCEPT !.pc = "mirror"]
        OBVIOUS
      <4>2. PICK i : i = [o EXCEPT !.pc = "insert"]
        OBVIOUS
      <4>3. PICK m : m = [o EXCEPT !.left = o.left \ {Min(o.left)}]
        OBVIOUS
      <4>4. /\ q = [o EXCEPT !.pc = "mirror", !.left = o.left]
            /\ i = [o EXCEPT !.pc = "insert", !.left = o.left]
        BY <1>2, <4>1, <4>2 DEF Job
      <4>5. PICK n : n = o.left \ {Min(o.left)}
        OBVIOUS
      <4>6. m = [o EXCEPT !.pc = "sync", !.left = n]
        BY <1>2, <3>3, <4>3, <4>5 DEF Job
      <4>7. \/ job' = [job EXCEPT ![j] = q] \/ job' = [job EXCEPT ![j] = m]
            \/ job' = [job EXCEPT ![j] = i]
        BY <1>2, <3>2, <4>1, <4>2, <4>3 DEF LeaveInv, LeaveType
      <4> QED
        BY <4>4, <4>5, <4>6, <4>7
    <3> QED
      BY <2>1, <3>1, <3>4
  <2>3. CASE InsertRecord(j)
    <3> DEFINE d == Min(o.left)
    <3>1. o.left \ {d} \in SUBSET Dates /\ {} \in SUBSET Dates
      BY <1>3
    <3>2. \/ job' = [job EXCEPT ![j].pc = "sync", ![j].left = @ \ {d}]
          \/ job' = [job EXCEPT ![j].pc = "mirror", ![j].left = {}]
      BY <1>2, <2>3 DEF InsertRecord
    <3> HIDE DEF d
    <3>3. \/ job' = [job EXCEPT ![j] = [o EXCEPT !.pc = "sync", !.left = o.left \ {d}]]
          \/ job' = [job EXCEPT ![j] = [o EXCEPT !.pc = "mirror", !.left = {}]]
      BY <1>2, <3>2 DEF LeaveInv, LeaveType, Job
    <3> QED
      BY <2>1, <3>1, <3>3
  <2>4. CASE CountQuota(j)
    <3>1. job' = [job EXCEPT ![j] = Idle] /\ Idle.op = "none" /\ Idle.pc = "none"
      BY <2>4 DEF CountQuota, Finish, Idle
    <3> QED
      BY <3>1, IdleFits
  <2> QED
    BY <2>2, <2>3, <2>4
<1>7. /\ att' \in [Dates -> {"none", "leave", "worked"}]
      /\ \A d \in Dates : att[d] # "none" => att'[d] = att[d]
  <2>1. \/ UNCHANGED att
        \/ att[Min(job[j].left)] = "none" /\ att' = [att EXCEPT ![Min(job[j].left)] = "leave"]
    BY DEF FindRecord, InsertRecord, CountQuota
  <2> QED
    BY <2>1 DEF LeaveInv, LeaveType
<1>8. LeaveInv' /\ \A i \in Jobs : job'[i] = IF i = j THEN k ELSE job[i]
  <2>1. row' \in [Bucket -> Row \cup {Null}] /\ RowsThere' /\ overlap' \in BOOLEAN
    BY <1>1 DEF LeaveInv, LeaveType, RowsThere
  <2>2. ~(k.op = "submit" /\ k.pc = "create")
    BY <1>6
  <2> QED
    BY <1>1, <1>4, <1>6, <1>7, <2>1, <2>2, JobMoves
<1> QED
  BY <1>1, <1>6, <1>7, <1>8

LEMMA BeginSetEntitlementKeeps ==
  ASSUME LeaveInv, NEW j \in Jobs, NEW b \in Bucket, NEW n \in Quotas,
         BeginSetEntitlement(j, b, n)
  PROVE  /\ LeaveInv' /\ UNCHANGED <<req, row>>
         /\ \A i \in Jobs \ {j} : job'[i] = job[i]
         /\ job[j] = Idle /\ job'[j].op = "quota" /\ job'[j].pc = "write"
         /\ job'[j].bucket = b /\ job'[j].seen = row[b] /\ job'[j].quota = n
<1>0. PICK k : k = [Idle EXCEPT !.op = "quota", !.pc = "write", !.bucket = b,
                                !.seen = row[b], !.quota = n]
  OBVIOUS
<1>1. /\ job[j] = Idle /\ job' = [job EXCEPT ![j] = k] /\ overlap' \in BOOLEAN
      /\ UNCHANGED <<req, row, used, att>> /\ b[1] \in BalanceBased /\ b[2] = ThisYear
  BY <1>0 DEF BeginSetEntitlement, Start, CheckThenWrite, LeaveInv, LeaveType
<1>2. row[b] \in Row \cup {Null} /\ row[b] = Null => Granted[b] = Null
  BY DEF LeaveInv, LeaveType, RowsThere
<1>3. /\ k \in Job /\ k.op = "quota" /\ k.pc = "write" /\ k.bucket = b
      /\ k.seen = row[b] /\ k.quota = n
  BY <1>0, <1>2, LeaveAssumption DEF Idle, Job, LeaveInv, LeaveType
<1>4. LeaveJobFits(k, req)
  BY <1>1, <1>2, <1>3 DEF LeaveJobFits
<1>5. /\ row' \in [Bucket -> Row \cup {Null}] /\ RowsThere'
      /\ att' \in [Dates -> {"none", "leave", "worked"}]
  BY <1>1 DEF LeaveInv, LeaveType, RowsThere
<1>6. LeaveInv' /\ \A i \in Jobs : job'[i] = IF i = j THEN k ELSE job[i]
  BY <1>1, <1>3, <1>4, <1>5, JobMoves
<1> QED
  BY <1>1, <1>3, <1>6

LEMMA SetEntitlementKeeps ==
  ASSUME LeaveInv, NEW j \in Jobs, SetEntitlement(j)
  PROVE  /\ LeaveInv' /\ UNCHANGED <<req, overlap>>
         /\ \A i \in Jobs : job'[i] = IF i = j THEN Idle ELSE job[i]
         /\ job[j].op = "quota" /\ job[j].bucket \in Bucket /\ job[j].quota \in Nat
         /\ job[j].seen \in Row \cup {Null}
         /\ \A c \in Bucket : c # job[j].bucket => row'[c] = row[c]
         /\ row'[job[j].bucket] = Written(j)
<1>1. /\ job[j].op = "quota" /\ row' = [row EXCEPT ![job[j].bucket] = Written(j)]
      /\ job' = [job EXCEPT ![j] = Idle] /\ UNCHANGED <<req, used, att, overlap>>
  BY DEF SetEntitlement, At, Finish
<1>2. /\ job[j] \in Job /\ job[j].bucket \in Bucket /\ job[j].quota \in Quotas
  BY <1>1 DEF LeaveInv, LeaveType, LeaveJobsFit, LeaveJobFits
<1>3. PICK n \in Nat : n = job[j].quota
  BY <1>2, LeaveAssumption
<1>4. PICK seen \in Row \cup {Null} : seen = job[j].seen
  BY <1>2 DEF Job
<1>5. PICK b \in Bucket : b = job[j].bucket /\ row[b] \in Row \cup {Null}
  BY <1>2 DEF LeaveInv, LeaveType
<1>6. PICK x : x = Written(j)
  OBVIOUS
<1>7. x \in Row
  <2>1. CASE seen = Null
    BY <1>3, <1>4, <1>6, <2>1, NewRowIs DEF Written
  <2>2. CASE seen # Null
    <3>1. PICK e \in Int : e = n - seen.entitlement
      BY <1>4, <2>2 DEF Row
    <3>2. x = Adjusted(row[b], e, 0, 0) /\ 0 \in Int /\ 0 \in Nat
      BY <1>3, <1>4, <1>5, <1>6, <2>2, <3>1 DEF Written
    <3> QED
      BY <1>5, <3>2, AdjustedIs
  <2> QED
    BY <2>1, <2>2
<1>8. row' = [row EXCEPT ![b] = x]
  BY <1>1, <1>5, <1>6
<1>9. /\ row' \in [Bucket -> Row \cup {Null}] /\ RowsThere'
      /\ \A c \in Bucket : row'[c] = IF c = b THEN x ELSE row[c]
  BY <1>7, <1>8, RowSet
<1>10. LeaveInv' /\ \A i \in Jobs : job'[i] = IF i = j THEN Idle ELSE job[i]
  <2>1. att' \in [Dates -> {"none", "leave", "worked"}] /\ overlap' \in BOOLEAN
    BY <1>1 DEF LeaveInv, LeaveType
  <2>2. Idle.op = "none"
    BY DEF Idle
  <2> QED
    BY <1>1, <1>9, <2>1, <2>2, IdleFits, JobMoves
<1> QED
  BY <1>1, <1>2, <1>3, <1>4, <1>5, <1>6, <1>9, <1>10

LEMMA CancelKeeps ==
  ASSUME LeaveInv, NEW j \in Jobs, NEW r \in Requests, Cancel(j, r)
  PROVE  /\ LeaveInv' /\ UNCHANGED <<row, overlap>>
         /\ \A s \in Requests : /\ req'[s].status = IF s = r THEN "CANCELLED" ELSE req[s].status
                                /\ req'[s].payload = req[s].payload
         /\ \A i \in Jobs \ {j} : job'[i] = job[i]
         /\ job[j] = Idle /\ req[r].status = "PENDING"
         /\ job'[j].op = "cancel" /\ job'[j].pc = "event" /\ job'[j].request = r
<1>1. /\ req[r].status = "PENDING" /\ req' = [req EXCEPT ![r].status = "CANCELLED"]
      /\ Start(j, [Idle EXCEPT !.op = "cancel", !.pc = "event", !.request = r])
      /\ UNCHANGED <<row, used, att, overlap>>
  BY DEF Cancel
<1>2. PICK k, q : /\ k = [Idle EXCEPT !.op = "cancel", !.pc = "event", !.request = r]
                  /\ q = [req[r] EXCEPT !.status = "CANCELLED"]
  OBVIOUS
<1>3. k \in Job /\ k.op = "cancel" /\ k.pc = "event" /\ k.request = r
  BY <1>2 DEF Idle, Job
<1>4. q \in LeaveRequest /\ q.status = "CANCELLED" /\ q.payload = req[r].payload
  BY <1>2 DEF LeaveInv, LeaveType, LeaveRequest, LeaveStatus
<1>5. req' = [req EXCEPT ![r] = q] /\ job' = [job EXCEPT ![j] = k] /\ job[j] = Idle
  BY <1>1, <1>2 DEF Start, LeaveInv, LeaveType
<1>6. req'[r].status = "CANCELLED"
  BY <1>4, <1>5 DEF LeaveInv, LeaveType
<1>7. LeaveJobFits(k, req')
  BY <1>3, <1>6 DEF LeaveJobFits
<1>8. k.op # "submit" /\ req[r].status = "PENDING" /\ UNCHANGED <<row, used, att, overlap>>
  BY <1>1, <1>3
<1>9. /\ LeaveInv'
      /\ \A s \in Requests : req'[s] = IF s = r THEN q ELSE req[s]
      /\ \A i \in Jobs : job'[i] = IF i = j THEN k ELSE job[i]
  <2>1. /\ req' \in [Requests -> LeaveRequest] /\ RequestsFit'
        /\ \A s \in Requests : req'[s] = IF s = r THEN q ELSE req[s]
    BY <1>4, <1>5, <1>8, PendingEnds
  <2>2. StatusMoves(j) /\ OnlyItsOwn(k)
    BY <1>8, <2>1 DEF StatusMoves, OnlyItsOwn
  <2>3. job' \in [Jobs -> Job] /\ LeaveJobsFit' /\ CreatesApart'
    BY <1>3, <1>5, <1>7, <2>2, LeaveJobSet
  <2>4. \A i \in Jobs : job'[i] = IF i = j THEN k ELSE job[i]
    BY <1>5 DEF LeaveInv, LeaveType
  <2> QED
    BY <1>8, <2>1, <2>3, <2>4 DEF LeaveInv, LeaveType, RowsThere
<1> QED
  BY <1>1, <1>3, <1>4, <1>5, <1>9

LEMMA DecideKeeps ==
  ASSUME LeaveInv, NEW j \in Jobs, NEW r \in Requests, NEW to \in {"APPROVED", "REJECTED"},
         Decide(j, r, to)
  PROVE  /\ LeaveInv' /\ UNCHANGED <<row, overlap>>
         /\ \A s \in Requests : /\ req'[s].status = IF s = r THEN to ELSE req[s].status
                                /\ req'[s].payload = req[s].payload
         /\ \A i \in Jobs \ {j} : job'[i] = job[i]
         /\ job[j] = Idle /\ req[r].status = "PENDING"
         /\ job'[j].op = "decide" /\ job'[j].pc = "event" /\ job'[j].request = r
<1>1. /\ req[r].status = "PENDING" /\ req' = [req EXCEPT ![r].status = to]
      /\ Start(j, [Idle EXCEPT !.op = "decide", !.pc = "event", !.request = r])
      /\ UNCHANGED <<row, used, att, overlap>>
  BY DEF Decide
<1>2. PICK k, q : /\ k = [Idle EXCEPT !.op = "decide", !.pc = "event", !.request = r]
                  /\ q = [req[r] EXCEPT !.status = to]
  OBVIOUS
<1>3. k \in Job /\ k.op = "decide" /\ k.pc = "event" /\ k.request = r
  BY <1>2 DEF Idle, Job
<1>4. q \in LeaveRequest /\ q.status = to /\ q.payload = req[r].payload
  BY <1>2 DEF LeaveInv, LeaveType, LeaveRequest, LeaveStatus
<1>5. req' = [req EXCEPT ![r] = q] /\ job' = [job EXCEPT ![j] = k] /\ job[j] = Idle
  BY <1>1, <1>2 DEF Start, LeaveInv, LeaveType
<1>6. req'[r].status = to
  BY <1>4, <1>5 DEF LeaveInv, LeaveType
<1>7. LeaveJobFits(k, req')
  BY <1>3, <1>6 DEF LeaveJobFits
<1>8. k.op # "submit" /\ req[r].status = "PENDING" /\ UNCHANGED <<row, used, att, overlap>>
  BY <1>1, <1>3
<1>9. /\ LeaveInv'
      /\ \A s \in Requests : req'[s] = IF s = r THEN q ELSE req[s]
      /\ \A i \in Jobs : job'[i] = IF i = j THEN k ELSE job[i]
  <2>1. /\ req' \in [Requests -> LeaveRequest] /\ RequestsFit'
        /\ \A s \in Requests : req'[s] = IF s = r THEN q ELSE req[s]
    BY <1>4, <1>5, <1>8, PendingEnds
  <2>2. StatusMoves(j) /\ OnlyItsOwn(k)
    BY <1>8, <2>1 DEF StatusMoves, OnlyItsOwn
  <2>3. job' \in [Jobs -> Job] /\ LeaveJobsFit' /\ CreatesApart'
    BY <1>3, <1>5, <1>7, <2>2, LeaveJobSet
  <2>4. \A i \in Jobs : job'[i] = IF i = j THEN k ELSE job[i]
    BY <1>5 DEF LeaveInv, LeaveType
  <2> QED
    BY <1>8, <2>1, <2>3, <2>4 DEF LeaveInv, LeaveType, RowsThere
<1> QED
  BY <1>1, <1>3, <1>4, <1>5, <1>9

LEMMA ClockInKeeps ==
  ASSUME LeaveInv, NEW d \in Dates, ClockIn(d)
  PROVE  LeaveInv' /\ \A e \in Dates : att[e] # "none" => att'[e] = att[e]
<1>1. UNCHANGED <<req, row, used, job, overlap>>
  BY DEF ClockIn
<1>2. /\ att' \in [Dates -> {"none", "leave", "worked"}]
      /\ \A e \in Dates : att[e] # "none" => att'[e] = att[e]
  BY DEF ClockIn, LeaveInv, LeaveType
<1>3. LeaveJobsFit' /\ CreatesApart' /\ RequestsFit' /\ RowsThere'
  BY <1>1 DEF LeaveInv, LeaveJobsFit, LeaveJobFits, CreatesApart, Creating, RequestsFit, RowsThere
<1> QED
  BY <1>1, <1>2, <1>3 DEF LeaveInv, LeaveType

LEMMA LeaveInvInit == LeaveInit => LeaveInv
<1> SUFFICES ASSUME LeaveInit
             PROVE  LeaveInv
  OBVIOUS
<1>1. \A j \in Jobs : job[j] = Idle
  BY DEF LeaveInit
<1>2. [status |-> "NONE", payload |-> NoPayload] \in LeaveRequest
  BY DEF LeaveRequest, LeaveStatus
<1>3. \A b \in Bucket : /\ row[b] = IF Granted[b] = Null THEN Null ELSE NewRow(Granted[b])
                        /\ Granted[b] # Null => row[b] \in Row /\ row[b] # Null
  BY NewRowIs, LeaveAssumption DEF LeaveInit
<1>4. row \in [Bucket -> Row \cup {Null}] /\ RowsThere
  BY <1>3 DEF LeaveInit, RowsThere
<1>5. LeaveType
  BY <1>2, <1>4, IdleFits DEF LeaveInit, LeaveType
<1>6. RequestsFit
  BY DEF LeaveInit, RequestsFit
<1>7. LeaveJobsFit
  BY <1>1, IdleFits DEF LeaveJobsFit
<1>8. CreatesApart
  BY <1>1 DEF CreatesApart, Creating, Idle
<1> QED
  BY <1>4, <1>5, <1>6, <1>7, <1>8 DEF LeaveInv

LEMMA LeaveInvStep ==
  ASSUME LeaveInv, [LeaveNext]_leaveVars
  PROVE  LeaveInv' /\ \A d \in Dates : att[d] # "none" => att'[d] = att[d]
<1>1. ASSUME UNCHANGED att
      PROVE  \A d \in Dates : att[d] # "none" => att'[d] = att[d]
  BY <1>1
<1>2. ASSUME NEW j \in Jobs, JobStep(j)
      PROVE  LeaveInv' /\ \A d \in Dates : att[d] # "none" => att'[d] = att[d]
  <2>1. CASE FindRecord(j) \/ InsertRecord(j) \/ CountQuota(j)
    BY <2>1, SyncKeeps
  <2>2. CASE Create(j) \/ Reserve(j) \/ Release(j) \/ Settle(j) \/ SetEntitlement(j)
    <3>1. UNCHANGED att
      BY <2>2 DEF Create, Reserve, Release, Settle, SetEntitlement
    <3> QED
      BY <1>1, <2>2, <3>1, CreateKeeps, ReserveKeeps, ReleaseKeeps, SettleKeeps,
         SetEntitlementKeeps
  <2> QED
    BY <1>2, <2>1, <2>2 DEF JobStep
<1>3. ASSUME NEW j \in Jobs, NEW r \in Requests, NEW p \in Payloads, BeginSubmit(j, r, p)
      PROVE  LeaveInv' /\ UNCHANGED att
  BY <1>3, BeginSubmitKeeps DEF BeginSubmit
<1>4. ASSUME NEW j \in Jobs, NEW r \in Requests, Cancel(j, r)
      PROVE  LeaveInv' /\ UNCHANGED att
  BY <1>4, CancelKeeps DEF Cancel
<1>5. ASSUME NEW j \in Jobs, NEW r \in Requests, NEW to \in {"APPROVED", "REJECTED"},
             Decide(j, r, to)
      PROVE  LeaveInv' /\ UNCHANGED att
  BY <1>5, DecideKeeps DEF Decide
<1>6. ASSUME NEW j \in Jobs, NEW b \in Bucket, NEW n \in Quotas, BeginSetEntitlement(j, b, n)
      PROVE  LeaveInv' /\ UNCHANGED att
  BY <1>6, BeginSetEntitlementKeeps DEF BeginSetEntitlement
<1>7. ASSUME NEW r \in Requests, NEW p \in Payloads, Edit(r, p)
      PROVE  LeaveInv' /\ UNCHANGED att
  BY <1>7, EditKeeps DEF Edit
<1>8. ASSUME NEW d \in Dates, ClockIn(d)
      PROVE  LeaveInv' /\ \A e \in Dates : att[e] # "none" => att'[e] = att[e]
  BY <1>8, ClockInKeeps
<1>9. CASE UNCHANGED leaveVars
  <2>1. UNCHANGED <<req, row, used, att, job, overlap>>
    BY <1>9 DEF leaveVars
  <2> QED
    BY <1>1, <2>1 DEF LeaveInv, LeaveType, RequestsFit, RowsThere, LeaveJobsFit, LeaveJobFits,
                      CreatesApart, Creating
<1> QED
  BY <1>1, <1>2, <1>3, <1>4, <1>5, <1>6, <1>7, <1>8, <1>9 DEF LeaveNext

(* The inductive invariant of the leave of one employee: the types, and    *)
(* what each handler under way may rely on (leave.service.js submit,       *)
(* leave-balance.service.js).                                              *)
THEOREM LeaveInvariant == LeaveSpec => []LeaveInv
<1>1. LeaveInv /\ [LeaveNext]_leaveVars => LeaveInv'
  BY LeaveInvStep
<1> QED
  BY <1>1, LeaveInvInit, PTL DEF LeaveSpec

(* What the observers count is a number of days.                           *)
Observed == highest \in [Bucket -> Nat] /\ unchecked \in [Bucket -> Nat]

LEMMA MaxOfTwo ==
  ASSUME NEW m \in Nat, NEW n \in Nat
  PROVE  Max({m, n}) \in Nat /\ Max({m, n}) >= m /\ Max({m, n}) >= n
<1>1. \E x \in {m, n} : \A y \in {m, n} : x >= y
  <2>1. CASE m >= n
    BY <2>1
  <2>2. CASE n >= m
    BY <2>2
  <2> QED
    BY <2>1, <2>2
<1>2. Max({m, n}) \in {m, n} /\ \A y \in {m, n} : Max({m, n}) >= y
  BY <1>1, Zenon DEF Max
<1> QED
  BY <1>2

LEMMA ObservedInit ==
  ASSUME LeaveInit
  PROVE  Observed
<1>1. \A b \in Bucket : (IF Granted[b] = Null THEN 0 ELSE Granted[b]) \in Nat
  BY LeaveAssumption
<1> QED
  BY <1>1 DEF LeaveInit, Observed

(* What HR's write observes.                                               *)
LEMMA GrantObserved ==
  ASSUME LeaveInv, Observed, NEW j \in Jobs, SetEntitlement(j)
  PROVE  /\ Observed' /\ UNCHANGED unchecked
         /\ \A c \in Bucket : highest'[c] >= highest[c]
         /\ highest'[job[j].bucket] >= job[j].quota
<1>1. job[j].bucket \in Bucket /\ job[j].quota \in Nat
  BY SetEntitlementKeeps
<1>2. PICK b \in Bucket, q \in Nat : b = job[j].bucket /\ q = job[j].quota
  BY <1>1
<1>3. PICK m \in Nat : m = highest[b]
  BY DEF Observed
<1>4. PICK n : n = Max({m, q})
  OBVIOUS
<1>5. n \in Nat /\ n >= m /\ n >= q
  BY <1>4, MaxOfTwo
<1>6. highest' = [highest EXCEPT ![b] = n] /\ UNCHANGED unchecked
  BY <1>2, <1>3, <1>4 DEF SetEntitlement
<1>7. highest' \in [Bucket -> Nat] /\ \A c \in Bucket : highest'[c] = IF c = b THEN n ELSE highest[c]
  BY <1>5, <1>6 DEF Observed
<1>8. \A c \in Bucket : highest[c] \in Nat
  BY DEF Observed
<1> QED
  BY <1>2, <1>3, <1>5, <1>6, <1>7, <1>8 DEF Observed

(* What a reservation observes.                                            *)
LEMMA ReserveObserved ==
  ASSUME LeaveInv, Observed, NEW j \in Jobs, Reserve(j),
         NEW p \in Payloads, p = job[j].payload
  PROVE  /\ Observed' /\ UNCHANGED highest
         /\ \A c \in Bucket : unchecked'[c] =
              IF c = BucketOf(p) /\ ~Looks(p) THEN unchecked[c] + Days(p) ELSE unchecked[c]
<1>1. PICK b \in Bucket, n \in Nat : b = BucketOf(p) /\ n = Days(p)
  BY PayloadFacts
<1>2. PICK m \in Nat : m = IF Looks(p) THEN unchecked[b] ELSE unchecked[b] + n
  BY DEF Observed
<1>3. unchecked' = [unchecked EXCEPT ![b] = m] /\ UNCHANGED highest
  BY <1>1, <1>2 DEF Reserve, Observed
<1>4. unchecked' \in [Bucket -> Nat] /\ \A c \in Bucket : unchecked'[c] = IF c = b THEN m ELSE unchecked[c]
  BY <1>3 DEF Observed
<1> QED
  BY <1>1, <1>2, <1>3, <1>4 DEF Observed

LEMMA ObservedStep ==
  ASSUME LeaveInv, Observed, [LeaveNext]_leaveVars
  PROVE  Observed'
<1>1. CASE UNCHANGED granting
  BY <1>1 DEF granting, Observed
<1>2. CASE \E j \in Jobs : SetEntitlement(j)
  BY <1>2, GrantObserved
<1>3. CASE \E j \in Jobs : Reserve(j)
  BY <1>3, ReserveKeeps, ReserveObserved
<1>4. \/ UNCHANGED granting
      \/ \E j \in Jobs : SetEntitlement(j)
      \/ \E j \in Jobs : Reserve(j)
  BY DEF LeaveNext, JobStep, leaveVars, granting, Create, Release, Settle, FindRecord, InsertRecord,
         CountQuota, BeginSubmit, Cancel, Decide, BeginSetEntitlement, Edit, ClockIn
<1> QED
  BY <1>1, <1>2, <1>3, <1>4

(* The variables of the leave flow keep their types, for any numbers of    *)
(* requests, handlers, leave types and years (leave-balance.model.js).     *)
THEOREM LeaveTypeCorrect == LeaveSpec => []LeaveTypeOK
<1>1. LeaveInit => Observed
  BY ObservedInit
<1>2. LeaveInv /\ Observed /\ [LeaveNext]_leaveVars => Observed'
  BY ObservedStep
<1>3. LeaveInv /\ Observed => LeaveTypeOK
  BY DEF LeaveInv, LeaveType, LeaveRequest, LeaveStatus, LeaveTypeOK, Observed
<1> QED
  BY <1>1, <1>2, <1>3, LeaveInvariant, PTL DEF LeaveSpec

(* The leave sync never touches a record that is there, whoever wrote it   *)
(* and whenever (attendance-leave-sync.service.js, createLeaveIfAbsent).   *)
THEOREM SyncKeepsAttendance == LeaveSpec => AttendanceKept
<1>1. LeaveInv /\ [LeaveNext]_leaveVars =>
        [\A d \in Dates : att[d] # "none" => att'[d] = att[d]]_leaveVars
  BY LeaveInvStep
<1> QED
  BY <1>1, LeaveInvariant, PTL DEF LeaveSpec, AttendanceKept

----------------------------------------------------------------------------
(* A quota is not over-booked.                                             *)

Cap == [b \in Bucket |-> highest[b] + unchecked[b]]

(* What a submission has checked, of the rows x and the caps m, and what   *)
(* HR has seen of the rows x.                                              *)
RoomFor(k, x, m) ==
  k.op = "submit" /\ Looks(k.payload) =>
    Taken(x[BucketOf(k.payload)]) + Days(k.payload) <= m[BucketOf(k.payload)]
SeenHolds(k, x) ==
  k.op = "quota" /\ k.seen # Null =>
    x[k.bucket] # Null /\ x[k.bucket].entitlement = k.seen.entitlement

(* As long as no two of them have met, one call at most is between its     *)
(* check and its write, what it has checked holds, and no bucket holds     *)
(* more than its cap or is entitled to more than it was granted.           *)
QuotaInv ==
  ~overlap =>
    /\ \A i, j \in Jobs : Checks(job[i]) /\ Checks(job[j]) => i = j
    /\ \A j \in Jobs : RoomFor(job[j], row, Cap) /\ SeenHolds(job[j], row)
    /\ \A b \in Bucket : Entitled(row[b]) <= highest[b] /\ Taken(row[b]) <= Cap[b]

(* The entitlement of a bucket stays, and no more days are taken from it   *)
(* than are counted as unchecked.                                          *)
Covered(b) ==
  /\ row[b] # Null => row'[b] # Null
  /\ Entitled(row'[b]) = Entitled(row[b]) /\ highest'[b] = highest[b]
  /\ Taken(row'[b]) - Taken(row[b]) <= unchecked'[b] - unchecked[b]
SameCheck(i) ==
  \/ ~Checks(job'[i])
  \/ /\ job'[i].op = job[i].op /\ job'[i].payload = job[i].payload
     /\ job'[i].bucket = job[i].bucket /\ job'[i].seen = job[i].seen

LEMMA CountersAreInts ==
  ASSUME NEW x \in Row \cup {Null}
  PROVE  Taken(x) \in Int /\ Entitled(x) \in Int /\ Available(x) = Entitled(x) - Taken(x)
BY DEF Taken, Entitled, Available, Row

LEMMA CapIs ==
  ASSUME Observed, NEW b \in Bucket
  PROVE  /\ highest[b] \in Nat /\ unchecked[b] \in Nat /\ Cap[b] \in Nat
         /\ Cap[b] = highest[b] + unchecked[b]
BY DEF Observed, Cap

LEMMA AdjustedTakes ==
  ASSUME NEW x \in Row \cup {Null}, NEW e \in Int, NEW r \in Int, NEW c \in Nat,
         NEW y, y = Adjusted(x, e, r, c)
  PROVE  y \in Row /\ y # Null /\ Taken(y) = Taken(x) + r + c /\ Entitled(y) = Entitled(x) + e
<1>1. y \in Row /\ y # Null /\ Available(y) = Available(x) + e - r - c
  BY AdjustedIs
<1>2. Entitled(y) = Entitled(x) + e
  <2>1. CASE x = Null
    <3>1. y.entitlement = Zero.entitlement + e
      BY <2>1, AdjustedIs
    <3> QED
      BY <1>1, <2>1, <3>1 DEF Entitled, Zero
  <2>2. CASE x # Null
    <3>1. y.entitlement = x.entitlement + e
      BY <2>2, AdjustedIs
    <3> QED
      BY <1>1, <2>2, <3>1 DEF Entitled
  <2> QED
    BY <2>1, <2>2
<1>3. Taken(x) \in Int /\ Entitled(x) \in Int /\ Available(x) = Entitled(x) - Taken(x)
  BY CountersAreInts
<1>4. Taken(y) \in Int /\ Entitled(y) \in Int /\ Available(y) = Entitled(y) - Taken(y)
  BY <1>1, CountersAreInts
<1> QED
  BY <1>1, <1>2, <1>3, <1>4

LEMMA QuotaStays ==
  ASSUME LeaveInv, LeaveInv', Observed, Observed', QuotaInv, overlap' = overlap,
         \A b \in Bucket : Covered(b), \A i \in Jobs : SameCheck(i)
  PROVE  QuotaInv'
<1> SUFFICES ASSUME ~overlap
             PROVE  QuotaInv'
  BY DEF QuotaInv
<1>1. /\ \A i, j \in Jobs : Checks(job[i]) /\ Checks(job[j]) => i = j
      /\ \A j \in Jobs : RoomFor(job[j], row, Cap) /\ SeenHolds(job[j], row)
      /\ \A b \in Bucket : Entitled(row[b]) <= highest[b] /\ Taken(row[b]) <= Cap[b]
  BY DEF QuotaInv
<1>2. ASSUME NEW b \in Bucket
      PROVE  /\ Taken(row[b]) \in Int /\ Taken(row'[b]) \in Int /\ Cap[b] \in Int /\ Cap'[b] \in Int
             /\ Taken(row'[b]) - Taken(row[b]) <= Cap'[b] - Cap[b]
  <2>1. row[b] \in Row \cup {Null} /\ row'[b] \in Row \cup {Null}
    BY DEF LeaveInv, LeaveType
  <2>2. /\ Taken(row[b]) \in Int /\ Taken(row'[b]) \in Int
    BY <2>1, CountersAreInts
  <2>3. /\ highest[b] \in Nat /\ unchecked[b] \in Nat /\ Cap[b] = highest[b] + unchecked[b]
        /\ highest'[b] \in Nat /\ unchecked'[b] \in Nat /\ Cap'[b] = highest'[b] + unchecked'[b]
    BY DEF Observed, Cap
  <2> QED
    BY <2>2, <2>3 DEF Covered
<1>3. \A b \in Bucket : row[b] # Null =>
        row'[b] # Null /\ row'[b].entitlement = row[b].entitlement
  BY DEF Covered, Entitled
<1>4. \A i, j \in Jobs : Checks(job'[i]) /\ Checks(job'[j]) => i = j
  <2>1. \A i \in Jobs : Checks(job'[i]) => Checks(job[i])
    BY DEF Checks, SameCheck
  <2> QED
    BY <1>1, <2>1
<1>5. ASSUME NEW j \in Jobs
      PROVE  RoomFor(job'[j], row', Cap') /\ SeenHolds(job'[j], row')
  <2>1. CASE ~Checks(job'[j])
    BY <2>1 DEF Checks, RoomFor, SeenHolds
  <2>2. CASE Checks(job'[j])
    <3>1. /\ job'[j].op = job[j].op /\ job'[j].payload = job[j].payload
          /\ job'[j].bucket = job[j].bucket /\ job'[j].seen = job[j].seen
      BY <2>2 DEF SameCheck
    <3>2. /\ job[j].op = "submit" => job[j].payload \in Payloads
          /\ job[j].op = "quota" => job[j].bucket \in Bucket
      BY DEF LeaveInv, LeaveJobsFit, LeaveJobFits
    <3>3. RoomFor(job'[j], row', Cap')
      <4> SUFFICES ASSUME job[j].op = "submit", Looks(job[j].payload)
                   PROVE  Taken(row'[BucketOf(job[j].payload)]) + Days(job[j].payload)
                            <= Cap'[BucketOf(job[j].payload)]
        BY <3>1 DEF RoomFor
      <4>1. PICK p \in Payloads : p = job[j].payload
        BY <3>2
      <4>2. PICK b \in Bucket, n \in Nat : b = BucketOf(p) /\ n = Days(p)
        BY PayloadFacts
      <4>3. Taken(row[b]) + n <= Cap[b]
        BY <1>1, <4>1, <4>2 DEF RoomFor
      <4>4. Taken(row'[b]) + n <= Cap'[b]
        BY <1>2, <4>3
      <4> QED
        BY <4>1, <4>2, <4>4
    <3>4. SeenHolds(job'[j], row')
      BY <1>1, <1>3, <3>1, <3>2, ZenonT(60) DEF SeenHolds
    <3> QED
      BY <3>3, <3>4
  <2> QED
    BY <2>1, <2>2
<1>6. \A b \in Bucket : Entitled(row'[b]) <= highest'[b] /\ Taken(row'[b]) <= Cap'[b]
  BY <1>1, <1>2 DEF Covered
<1> QED
  BY <1>4, <1>5, <1>6 DEF QuotaInv

(* The end of a request gives back at least what it takes.                 *)
LEMMA GiveBackKeeps ==
  ASSUME LeaveInv, LeaveInv', Observed, QuotaInv, UNCHANGED <<overlap, granting>>,
         NEW j \in Jobs, ~Checks(job'[j]), \A i \in Jobs \ {j} : job'[i] = job[i],
         NEW p \in Payloads, NEW taken \in {0, Days(p)},
         row' = [row EXCEPT ![BucketOf(p)] = Adjusted(@, 0, -Days(p), taken)]
  PROVE  QuotaInv'
<1>1. PICK n \in Nat : n = Days(p)
  BY PayloadFacts
<1>2. PICK t \in Nat, m \in Int : t = taken /\ t <= n /\ m = -n
  BY <1>1
<1>3. PICK b \in Bucket : b = BucketOf(p) /\ row[b] \in Row \cup {Null}
  BY PayloadFacts DEF LeaveInv, LeaveType
<1>4. PICK y : y = Adjusted(row[b], 0, m, t)
  OBVIOUS
<1>5. row' = [row EXCEPT ![b] = y]
  BY <1>1, <1>2, <1>3, <1>4
<1>6. \A c \in Bucket : row'[c] = IF c = b THEN y ELSE row[c]
  BY <1>5 DEF LeaveInv, LeaveType
<1>7. y # Null /\ Taken(y) = Taken(row[b]) + m + t /\ Entitled(y) = Entitled(row[b]) + 0
  <2>1. PICK x \in Row \cup {Null}, z \in Int : x = row[b] /\ z = 0
    BY <1>3
  <2>2. y = Adjusted(x, z, m, t)
    BY <1>4, <2>1
  <2>3. y # Null /\ Taken(y) = Taken(x) + m + t /\ Entitled(y) = Entitled(x) + z
    BY <1>2, <2>1, <2>2, AdjustedTakes
  <2> QED
    BY <2>1, <2>3
<1>8. ASSUME NEW c \in Bucket
      PROVE  Covered(c)
  <2>1. highest'[c] = highest[c] /\ unchecked'[c] = unchecked[c] /\ unchecked[c] \in Nat
    BY CapIs DEF granting
  <2>2. row[c] \in Row \cup {Null} /\ Taken(row[c]) \in Int /\ Entitled(row[c]) \in Int
    BY CountersAreInts DEF LeaveInv, LeaveType
  <2>3. CASE c = b
    <3>1. row'[c] = y
      BY <1>6, <2>3
    <3> QED
      BY <1>2, <1>7, <2>1, <2>2, <2>3, <3>1 DEF Covered
  <2>4. CASE c # b
    BY <1>6, <2>1, <2>2, <2>4 DEF Covered
  <2> QED
    BY <2>3, <2>4
<1>9. Observed' /\ \A i \in Jobs : SameCheck(i)
  BY DEF SameCheck, Observed, granting
<1> QED
  BY <1>8, <1>9, QuotaStays

(* The days of the one call that checked them are taken; days that no      *)
(* check was made for are counted.                                         *)
LEMMA ReserveKeepsQuota ==
  ASSUME LeaveInv, Observed, QuotaInv, NEW j \in Jobs, Reserve(j)
  PROVE  QuotaInv'
<1> SUFFICES ASSUME ~overlap'
             PROVE  QuotaInv'
  BY DEF QuotaInv
<1>1. /\ LeaveInv' /\ UNCHANGED <<req, overlap>>
      /\ \A i \in Jobs : job'[i] = IF i = j THEN Idle ELSE job[i]
      /\ job[j].op = "submit"
  BY ReserveKeeps
<1>2. PICK p \in Payloads : p = job[j].payload
  BY ReserveKeeps
<1>3. PICK n \in Nat : n = Days(p)
  BY PayloadFacts
<1>4. PICK b \in Bucket : b = BucketOf(p) /\ row[b] \in Row \cup {Null}
  BY PayloadFacts DEF LeaveInv, LeaveType
<1>5. PICK y : y = Adjusted(row[b], 0, n, 0)
  OBVIOUS
<1>6. row' = [row EXCEPT ![b] = y]
  BY <1>2, <1>3, <1>4, <1>5, ReserveKeeps
<1>7. \A c \in Bucket : row'[c] = IF c = b THEN y ELSE row[c]
  BY <1>6 DEF LeaveInv, LeaveType
<1>8. y # Null /\ Taken(y) = Taken(row[b]) + n /\ Entitled(y) = Entitled(row[b])
  <2>1. n \in Int /\ 0 \in Int /\ 0 \in Nat
    OBVIOUS
  <2>2. y # Null /\ Taken(y) = Taken(row[b]) + n + 0 /\ Entitled(y) = Entitled(row[b]) + 0
    BY <1>4, <1>5, <2>1, AdjustedTakes
  <2> QED
    BY <1>4, <2>2, CountersAreInts
<1>9. /\ Observed' /\ UNCHANGED highest
      /\ \A c \in Bucket : unchecked'[c] =
           IF c = b /\ ~Looks(p) THEN unchecked[c] + n ELSE unchecked[c]
  BY <1>2, <1>3, <1>4, ReserveObserved
<1>10. \A c \in Bucket :
         /\ Taken(row[c]) \in Int /\ Entitled(row[c]) \in Int
         /\ highest[c] \in Nat /\ unchecked[c] \in Nat /\ Cap[c] = highest[c] + unchecked[c]
  BY CountersAreInts, CapIs DEF LeaveInv, LeaveType
<1>11. CASE Looks(p)
  <2>1. /\ \A i, k \in Jobs : Checks(job[i]) /\ Checks(job[k]) => i = k
        /\ RoomFor(job[j], row, Cap)
        /\ \A c \in Bucket : Entitled(row[c]) <= highest[c] /\ Taken(row[c]) <= Cap[c]
    BY <1>1 DEF QuotaInv
  <2>2. \A i \in Jobs : ~Checks(job'[i])
    BY <1>1, <1>2, <1>11, <2>1 DEF Checks, Idle
  <2>3. Taken(row[b]) + n <= Cap[b]
    BY <1>1, <1>2, <1>3, <1>4, <1>11, <2>1 DEF RoomFor
  <2>4. \A c \in Bucket : Cap'[c] = Cap[c] /\ highest'[c] = highest[c]
    BY <1>9, <1>11 DEF Cap
  <2>5. \A c \in Bucket : Entitled(row'[c]) <= highest'[c] /\ Taken(row'[c]) <= Cap'[c]
    BY <1>7, <1>8, <2>1, <2>3, <2>4
  <2>6. \A i \in Jobs : RoomFor(job'[i], row', Cap') /\ SeenHolds(job'[i], row')
    BY <2>2 DEF Checks, RoomFor, SeenHolds
  <2> QED
    BY <2>2, <2>5, <2>6 DEF QuotaInv
<1>12. CASE ~Looks(p)
  <2>1. ASSUME NEW c \in Bucket
        PROVE  Covered(c)
    <3>1. CASE c = b
      BY <1>7, <1>8, <1>9, <1>10, <1>12, <3>1 DEF Covered
    <3>2. CASE c # b
      BY <1>7, <1>9, <1>10, <3>2 DEF Covered
    <3> QED
      BY <3>1, <3>2
  <2>2. \A i \in Jobs : SameCheck(i)
    BY <1>1 DEF SameCheck, Checks, Idle
  <2> QED
    BY <1>1, <1>9, <2>1, <2>2, QuotaStays
<1> QED
  BY <1>11, <1>12

(* HR's write is the only one that waits, and what it grants is observed.  *)
LEMMA SetEntitlementKeepsQuota ==
  ASSUME LeaveInv, Observed, QuotaInv, NEW j \in Jobs, SetEntitlement(j)
  PROVE  QuotaInv'
<1> SUFFICES ASSUME ~overlap'
             PROVE  QuotaInv'
  BY DEF QuotaInv
<1>1. /\ LeaveInv' /\ UNCHANGED <<req, overlap>>
      /\ \A i \in Jobs : job'[i] = IF i = j THEN Idle ELSE job[i]
      /\ job[j].op = "quota" /\ job[j].bucket \in Bucket /\ job[j].quota \in Nat
      /\ job[j].seen \in Row \cup {Null}
      /\ \A c \in Bucket : c # job[j].bucket => row'[c] = row[c]
      /\ row'[job[j].bucket] = Written(j)
  BY SetEntitlementKeeps
<1>2. PICK b \in Bucket : b = job[j].bucket /\ row[b] \in Row \cup {Null}
  BY <1>1 DEF LeaveInv, LeaveType
<1>3. PICK q \in Nat : q = job[j].quota
  BY <1>1
<1>4. PICK seen \in Row \cup {Null} : seen = job[j].seen
  BY <1>1
<1>5. /\ \A i, k \in Jobs : Checks(job[i]) /\ Checks(job[k]) => i = k
      /\ SeenHolds(job[j], row)
      /\ \A c \in Bucket : Entitled(row[c]) <= highest[c] /\ Taken(row[c]) <= Cap[c]
  BY <1>1 DEF QuotaInv
<1>6. \A i \in Jobs : ~Checks(job'[i])
  BY <1>1, <1>5 DEF Checks, Idle
<1>7. PICK y : y = Written(j)
  OBVIOUS
<1>8. \A c \in Bucket : row'[c] = IF c = b THEN y ELSE row[c]
  BY <1>1, <1>2, <1>7
<1>9. \A c \in Bucket :
        /\ Taken(row[c]) \in Int /\ Entitled(row[c]) \in Int /\ Cap[c] \in Nat
        /\ highest[c] \in Nat /\ highest'[c] \in Nat /\ highest'[c] >= highest[c]
        /\ Cap'[c] \in Nat /\ Cap'[c] >= Cap[c]
  <2>1. /\ Observed' /\ UNCHANGED unchecked /\ \A c \in Bucket : highest'[c] >= highest[c]
    BY GrantObserved
  <2>2. \A c \in Bucket : Taken(row[c]) \in Int /\ Entitled(row[c]) \in Int
    BY CountersAreInts DEF LeaveInv, LeaveType
  <2>3. ASSUME NEW c \in Bucket
        PROVE  /\ highest[c] \in Nat /\ highest'[c] \in Nat /\ unchecked[c] \in Nat
               /\ Cap[c] = highest[c] + unchecked[c] /\ Cap'[c] = highest'[c] + unchecked[c]
    BY <2>1 DEF Observed, Cap
  <2> QED
    BY <2>1, <2>2, <2>3
<1>10. Entitled(y) = q /\ (Taken(y) = 0 \/ Taken(y) = Taken(row[b]))
  <2>1. CASE seen = Null
    <3>1. y = NewRow(q)
      BY <1>3, <1>4, <1>7, <2>1 DEF Written
    <3>2. y \in Row /\ y # Null /\ Available(y) = q /\ y.entitlement = q
      BY <3>1, NewRowIs
    <3>3. Entitled(y) = q /\ Taken(y) \in Int /\ Available(y) = Entitled(y) - Taken(y)
      BY <3>2, CountersAreInts DEF Entitled
    <3> QED
      BY <3>2, <3>3
  <2>2. CASE seen # Null
    <3>1. row[b] # Null /\ row[b].entitlement = seen.entitlement
      BY <1>1, <1>2, <1>4, <1>5, <2>2 DEF SeenHolds
    <3>2. PICK s \in Int : s = seen.entitlement
      BY <1>4, <2>2 DEF Row
    <3>3. PICK e \in Int : e = q - s
      OBVIOUS
    <3>4. y = Adjusted(row[b], e, 0, 0)
      BY <1>2, <1>3, <1>4, <1>7, <2>2, <3>2, <3>3 DEF Written
    <3>5. Taken(y) = Taken(row[b]) + 0 + 0 /\ Entitled(y) = Entitled(row[b]) + e
      <4>1. PICK x \in Row \cup {Null}, d \in Int, z \in Nat : x = row[b] /\ d = 0 /\ z = 0
        BY <1>2
      <4>2. Taken(y) = Taken(x) + d + z /\ Entitled(y) = Entitled(x) + e
        BY <3>4, <4>1, AdjustedTakes
      <4> QED
        BY <4>1, <4>2
    <3>6. Entitled(row[b]) = s
      BY <3>1, <3>2 DEF Entitled
    <3> QED
      BY <1>9, <3>3, <3>5, <3>6
  <2> QED
    BY <2>1, <2>2
<1>11. q <= highest'[b]
  BY <1>2, <1>3, GrantObserved
<1>12. \A c \in Bucket : Entitled(row'[c]) <= highest'[c] /\ Taken(row'[c]) <= Cap'[c]
  <2>1. Entitled(y) <= highest'[b] /\ Taken(y) <= Cap'[b]
    BY <1>5, <1>9, <1>10, <1>11
  <2> QED
    BY <1>5, <1>8, <1>9, <2>1
<1>13. \A i \in Jobs : RoomFor(job'[i], row', Cap') /\ SeenHolds(job'[i], row')
  BY <1>6 DEF Checks, RoomFor, SeenHolds
<1> QED
  BY <1>6, <1>12, <1>13 DEF QuotaInv

(* A call that checks begins: with no other under way, or it is an overlap.*)
LEMMA CheckBegins ==
  ASSUME LeaveInv, QuotaInv, UNCHANGED <<row, granting>>, CheckThenWrite,
         NEW j \in Jobs, \A i \in Jobs \ {j} : job'[i] = job[i],
         ~overlap => RoomFor(job'[j], row, Cap) /\ SeenHolds(job'[j], row)
  PROVE  QuotaInv'
<1> SUFFICES ASSUME ~overlap'
             PROVE  QuotaInv'
  BY DEF QuotaInv
<1>1. ~overlap /\ \A i \in Jobs : ~Checks(job[i])
  BY DEF CheckThenWrite
<1>2. \A i \in Jobs : i # j => ~Checks(job'[i])
  BY <1>1
<1>3. \A i \in Jobs : i # j => RoomFor(job'[i], row, Cap) /\ SeenHolds(job'[i], row)
  BY <1>2 DEF Checks, RoomFor, SeenHolds
<1>4. UNCHANGED <<highest, Cap>>
  BY DEF granting, Cap
<1>5. \A i \in Jobs : RoomFor(job'[i], row', Cap') /\ SeenHolds(job'[i], row')
  BY <1>1, <1>3, <1>4
<1>6. \A i, k \in Jobs : Checks(job'[i]) /\ Checks(job'[k]) => i = k
  BY <1>2
<1>7. \A b \in Bucket : Entitled(row'[b]) <= highest'[b] /\ Taken(row'[b]) <= Cap'[b]
  BY <1>1, <1>4 DEF QuotaInv
<1> QED
  BY <1>5, <1>6, <1>7 DEF QuotaInv

(* A step that leaves the balances alone, and starts no check.             *)
LEMMA OtherStepsKeepQuota ==
  ASSUME LeaveInv, LeaveInv', Observed, QuotaInv, UNCHANGED <<row, overlap, granting>>,
         \A i \in Jobs : SameCheck(i)
  PROVE  QuotaInv'
<1>1. Observed'
  BY DEF Observed, granting
<1>2. ASSUME NEW b \in Bucket
      PROVE  Covered(b)
  <2>1. Taken(row[b]) \in Int /\ Entitled(row[b]) \in Int
    BY CountersAreInts DEF LeaveInv, LeaveType
  <2>2. unchecked[b] \in Nat
    BY CapIs
  <2> QED
    BY <2>1, <2>2 DEF Covered, granting
<1> QED
  BY <1>1, <1>2, QuotaStays

LEMMA BeginSubmitKeepsQuota ==
  ASSUME LeaveInv, Observed, QuotaInv, NEW j \in Jobs, NEW r \in Requests,
         NEW p \in Payloads, BeginSubmit(j, r, p)
  PROVE  QuotaInv'
<1>1. PICK k : k = [Idle EXCEPT !.op = "submit", !.pc = "create", !.request = r, !.payload = p]
  OBVIOUS
<1>2. k.op = "submit" /\ k.payload = p
  BY <1>1 DEF Idle
<1>3. /\ job' = [job EXCEPT ![j] = k] /\ UNCHANGED <<row, granting>> /\ WithinQuota(p)
      /\ IF Looks(p) THEN CheckThenWrite ELSE UNCHANGED overlap
  BY <1>1 DEF BeginSubmit, Start
<1>4. job'[j] = k /\ \A i \in Jobs \ {j} : job'[i] = job[i]
  BY <1>3 DEF LeaveInv, LeaveType
<1>5. CASE Looks(p)
  <2>1. PICK b \in Bucket, n \in Nat : b = BucketOf(p) /\ n = Days(p)
    BY PayloadFacts
  <2>2. n <= Available(row[b])
    BY <1>3, <1>5, <2>1 DEF WithinQuota, Looks, BucketOf
  <2>3. /\ Taken(row[b]) \in Int /\ Entitled(row[b]) \in Int
        /\ Available(row[b]) = Entitled(row[b]) - Taken(row[b])
    BY CountersAreInts DEF LeaveInv, LeaveType
  <2>4. ~overlap => Taken(row[b]) + n <= Cap[b]
    <3>1. highest[b] \in Nat /\ unchecked[b] \in Nat /\ Cap[b] = highest[b] + unchecked[b]
      BY CapIs
    <3>2. ~overlap => Entitled(row[b]) <= highest[b]
      BY DEF QuotaInv
    <3> QED
      BY <2>2, <2>3, <3>1, <3>2
  <2>5. ~overlap => RoomFor(job'[j], row, Cap) /\ SeenHolds(job'[j], row)
    BY <1>2, <1>4, <2>1, <2>4 DEF RoomFor, SeenHolds
  <2> QED
    BY <1>3, <1>4, <1>5, <2>5, CheckBegins
<1>6. CASE ~Looks(p)
  <2>1. \A i \in Jobs : SameCheck(i)
    BY <1>2, <1>4, <1>6 DEF SameCheck, Checks
  <2> QED
    BY <1>3, <1>6, <2>1, BeginSubmitKeeps, OtherStepsKeepQuota
<1> QED
  BY <1>5, <1>6

LEMMA BeginSetEntitlementKeepsQuota ==
  ASSUME LeaveInv, QuotaInv, NEW j \in Jobs, NEW b \in Bucket, NEW n \in Quotas,
         BeginSetEntitlement(j, b, n)
  PROVE  QuotaInv'
<1>1. /\ UNCHANGED row /\ \A i \in Jobs \ {j} : job'[i] = job[i]
      /\ job'[j].op = "quota" /\ job'[j].bucket = b /\ job'[j].seen = row[b]
  BY BeginSetEntitlementKeeps
<1>2. RoomFor(job'[j], row, Cap) /\ SeenHolds(job'[j], row)
  BY <1>1 DEF RoomFor, SeenHolds
<1>3. CheckThenWrite /\ UNCHANGED granting
  BY DEF BeginSetEntitlement
<1> QED
  BY <1>1, <1>2, <1>3, CheckBegins

(* The end of a request gives back what it held.                           *)
LEMMA EndKeepsQuota ==
  ASSUME LeaveInv, Observed, QuotaInv, NEW j \in Jobs, Release(j) \/ Settle(j)
  PROVE  QuotaInv'
<1>1. UNCHANGED granting
  BY DEF Release, Settle
<1>2. CASE Release(j)
  <2>1. /\ LeaveInv' /\ UNCHANGED overlap
        /\ \A i \in Jobs : job'[i] = IF i = j THEN Idle ELSE job[i]
    BY <1>2, ReleaseKeeps
  <2>2. PICK p \in Payloads : p = req[job[j].request].payload
    BY <1>2, ReleaseKeeps
  <2>3. row' = [row EXCEPT ![BucketOf(p)] = Adjusted(@, 0, -Days(p), 0)]
    BY <1>2, <2>2, ReleaseKeeps
  <2>4. ~Checks(job'[j]) /\ \A i \in Jobs \ {j} : job'[i] = job[i]
    BY <2>1 DEF Checks, Idle
  <2>5. PICK taken \in {0, Days(p)} : taken = 0
    OBVIOUS
  <2>6. row' = [row EXCEPT ![BucketOf(p)] = Adjusted(@, 0, -Days(p), taken)]
    BY <2>3, <2>5
  <2> QED
    BY <1>1, <2>1, <2>4, <2>6, GiveBackKeeps
<1>3. CASE Settle(j)
  <2>1. /\ LeaveInv' /\ UNCHANGED overlap
        /\ \A i \in Jobs \ {j} : job'[i] = job[i]
        /\ job'[j].op \in {"none", "decide"}
    BY <1>3, SettleKeeps
  <2>2. PICK p \in Payloads : p = req[job[j].request].payload
    BY <1>3, SettleKeeps
  <2>3. PICK taken \in {0, Days(p)} :
          taken = IF req[job[j].request].status = "APPROVED" THEN Days(p) ELSE 0
    OBVIOUS
  <2>4. row' = [row EXCEPT ![BucketOf(p)] = Adjusted(@, 0, -Days(p), taken)]
    BY <1>3, <2>2, <2>3, SettleKeeps
  <2>5. ~Checks(job'[j])
    BY <2>1 DEF Checks
  <2> QED
    BY <1>1, <2>1, <2>4, <2>5, GiveBackKeeps
<1> QED
  BY <1>2, <1>3

LEMMA CreateKeepsQuota ==
  ASSUME LeaveInv, Observed, QuotaInv, NEW j \in Jobs, Create(j)
  PROVE  QuotaInv'
<1>1. LeaveInv' /\ UNCHANGED <<row, overlap, granting>>
  BY CreateKeeps DEF Create
<1>2. PICK k \in Job : k = job[j]
  BY DEF LeaveInv, LeaveType
<1>3. PICK n : n = [k EXCEPT !.pc = "event"]
  OBVIOUS
<1>4. n.op = k.op /\ n.payload = k.payload /\ n.bucket = k.bucket /\ n.seen = k.seen
  BY <1>2, <1>3 DEF Job
<1>5. job' = [job EXCEPT ![j] = n]
  BY <1>2, <1>3 DEF Create
<1>6. \A i \in Jobs : job'[i] = IF i = j THEN n ELSE job[i]
  BY <1>5 DEF LeaveInv, LeaveType
<1>7. \A i \in Jobs : SameCheck(i)
  BY <1>2, <1>4, <1>6 DEF SameCheck
<1> QED
  BY <1>1, <1>7, OtherStepsKeepQuota

LEMMA QuotaStep ==
  ASSUME LeaveInv, Observed, QuotaInv, [LeaveNext]_leaveVars
  PROVE  QuotaInv'
<1>1. ASSUME NEW j \in Jobs, JobStep(j)
      PROVE  QuotaInv'
  <2>1. CASE FindRecord(j) \/ InsertRecord(j) \/ CountQuota(j)
    <3>1. /\ LeaveInv' /\ UNCHANGED <<row, overlap>>
          /\ \A i \in Jobs \ {j} : job'[i] = job[i]
          /\ job'[j].op \in {"none", "decide"}
      BY <2>1, SyncKeeps
    <3>2. UNCHANGED granting
      BY <2>1 DEF FindRecord, InsertRecord, CountQuota
    <3>3. \A i \in Jobs : SameCheck(i)
      BY <3>1 DEF SameCheck, Checks
    <3> QED
      BY <3>1, <3>2, <3>3, OtherStepsKeepQuota
  <2> QED
    BY <1>1, <2>1, CreateKeepsQuota, ReserveKeepsQuota, EndKeepsQuota, SetEntitlementKeepsQuota
    DEF JobStep
<1>2. ASSUME NEW j \in Jobs, NEW r \in Requests, NEW p \in Payloads, BeginSubmit(j, r, p)
      PROVE  QuotaInv'
  BY <1>2, BeginSubmitKeepsQuota
<1>3. ASSUME NEW j \in Jobs, NEW r \in Requests, Cancel(j, r)
      PROVE  QuotaInv'
  <2>1. /\ LeaveInv' /\ UNCHANGED <<row, overlap>>
        /\ \A i \in Jobs \ {j} : job'[i] = job[i]
        /\ job'[j].op = "cancel"
    BY <1>3, CancelKeeps
  <2>2. UNCHANGED granting /\ \A i \in Jobs : SameCheck(i)
    BY <1>3, <2>1 DEF SameCheck, Checks, Cancel
  <2> QED
    BY <2>1, <2>2, OtherStepsKeepQuota
<1>4. ASSUME NEW j \in Jobs, NEW r \in Requests, NEW to \in {"APPROVED", "REJECTED"},
             Decide(j, r, to)
      PROVE  QuotaInv'
  <2>1. /\ LeaveInv' /\ UNCHANGED <<row, overlap>>
        /\ \A i \in Jobs \ {j} : job'[i] = job[i]
        /\ job'[j].op = "decide"
    BY <1>4, DecideKeeps
  <2>2. UNCHANGED granting /\ \A i \in Jobs : SameCheck(i)
    BY <1>4, <2>1 DEF SameCheck, Checks, Decide
  <2> QED
    BY <2>1, <2>2, OtherStepsKeepQuota
<1>5. ASSUME NEW j \in Jobs, NEW b \in Bucket, NEW n \in Quotas, BeginSetEntitlement(j, b, n)
      PROVE  QuotaInv'
  BY <1>5, BeginSetEntitlementKeepsQuota
<1>6. ASSUME UNCHANGED <<row, job, overlap, granting>>, LeaveInv'
      PROVE  QuotaInv'
  BY <1>6, OtherStepsKeepQuota DEF SameCheck
<1>7. ASSUME NEW r \in Requests, NEW p \in Payloads, Edit(r, p)
      PROVE  QuotaInv'
  BY <1>6, <1>7, EditKeeps DEF Edit
<1>8. ASSUME NEW d \in Dates, ClockIn(d)
      PROVE  QuotaInv'
  BY <1>6, <1>8, ClockInKeeps DEF ClockIn
<1>9. CASE UNCHANGED leaveVars
  BY <1>6, <1>9, LeaveInvStep DEF leaveVars, granting
<1> QED
  BY <1>1, <1>2, <1>3, <1>4, <1>5, <1>7, <1>8, <1>9 DEF LeaveNext

LEMMA QuotaInit ==
  ASSUME LeaveInit
  PROVE  QuotaInv
<1>1. \A j \in Jobs : job[j] = Idle
  BY DEF LeaveInit
<1>2. \A j \in Jobs :
        ~Checks(job[j]) /\ RoomFor(job[j], row, Cap) /\ SeenHolds(job[j], row)
  BY <1>1 DEF Checks, RoomFor, SeenHolds, Idle
<1>3. ASSUME NEW b \in Bucket
      PROVE  Entitled(row[b]) <= highest[b] /\ Taken(row[b]) <= Cap[b]
  <2>1. /\ row[b] = IF Granted[b] = Null THEN Null ELSE NewRow(Granted[b])
        /\ highest[b] = IF Granted[b] = Null THEN 0 ELSE Granted[b]
    BY DEF LeaveInit
  <2>2. Cap[b] \in Nat
    BY ObservedInit, CapIs
  <2>3. CASE Granted[b] = Null
    BY <2>1, <2>2, <2>3 DEF Taken, Entitled
  <2>4. CASE Granted[b] # Null
    <3>1. PICK n \in Nat : n = Granted[b]
      BY <2>4, LeaveAssumption
    <3>2. PICK y \in Row : y = NewRow(n) /\ y # Null /\ Available(y) = n /\ y.entitlement = n
      BY <3>1, NewRowIs
    <3>3. row[b] = y /\ highest[b] = n
      BY <2>1, <2>4, <3>1, <3>2
    <3>4. Entitled(y) = n /\ Taken(y) \in Int /\ Available(y) = Entitled(y) - Taken(y)
      BY <3>2, CountersAreInts DEF Entitled
    <3> QED
      BY <2>2, <3>2, <3>3, <3>4
  <2> QED
    BY <2>3, <2>4
<1> QED
  BY <1>2, <1>3 DEF QuotaInv

(* Only checks that overlap can over-book: otherwise the days held and     *)
(* taken never exceed the most a bucket was ever granted, but for those    *)
(* that no submission looked at the bucket for, whatever HR grants and     *)
(* whatever decisions, cancellations and edits come in between             *)
(* (leave.service.js submit, domain/leave-balance.js).                     *)
THEOREM OnlyOverlapsOverbook == LeaveSpec => []NoOverbook
<1>1. LeaveInit => Observed /\ QuotaInv
  BY ObservedInit, QuotaInit
<1>2. LeaveInv /\ Observed /\ QuotaInv /\ [LeaveNext]_leaveVars => Observed' /\ QuotaInv'
  BY ObservedStep, QuotaStep
<1>3. Observed /\ QuotaInv => NoOverbook
  BY CapIs DEF QuotaInv, NoOverbook
<1> QED
  BY <1>1, <1>2, <1>3, LeaveInvariant, PTL DEF LeaveSpec

----------------------------------------------------------------------------
(* The counters follow the requests.  Days are counted as pairs: <<k, d>>  *)
(* when k holds the date d.                                                *)

Spread(K, h) == {x \in K \X Dates : x[2] \in h[x[1]]}
Area(K, h) == Cardinality(Spread(K, h))
HoldsDates(K, h) == \A i \in K : h[i] \subseteq Dates /\ IsFiniteSet(h[i])

LEMMA SpreadParts ==
  ASSUME NEW K, NEW h, NEW k \in K, HoldsDates(K, h), IsFiniteSet(Spread(K, h)),
         NEW rest, rest = {x \in Spread(K, h) : x[1] # k}
  PROVE  IsFiniteSet(rest) /\ Area(K, h) = Cardinality(rest) + Cardinality(h[k])
<1> DEFINE slab == {k} \X h[k]
<1>1. IsFiniteSet(rest)
  BY FS_Subset
<1>2. IsFiniteSet(slab) /\ Cardinality(slab) = Cardinality(h[k])
  <2>1. IsFiniteSet({k}) /\ Cardinality({k}) = 1 /\ IsFiniteSet(h[k])
    BY FS_Singleton DEF HoldsDates
  <2>2. IsFiniteSet(slab) /\ Cardinality(slab) = 1 * Cardinality(h[k])
    BY <2>1, FS_Product
  <2>3. Cardinality(h[k]) \in Nat
    BY <2>1, FS_CardinalityType
  <2> QED
    BY <2>2, <2>3
<1>3. rest \cup slab = Spread(K, h)
  <2>1. \A x \in slab : x \in Spread(K, h) /\ x[1] = k
    BY DEF Spread, HoldsDates
  <2>2. \A x \in Spread(K, h) : x[1] = k => x \in slab
    BY DEF Spread
  <2> QED
    BY <2>1, <2>2
<1>4. rest \cap slab = {}
  OBVIOUS
<1> HIDE DEF slab
<1>5. Cardinality(rest \cup slab) = Cardinality(rest) + Cardinality(slab) - Cardinality(rest \cap slab)
  BY <1>1, <1>2, FS_Union
<1>6. Cardinality(rest) \in Nat /\ Cardinality(slab) \in Nat /\ Cardinality(rest \cap slab) = 0
  BY <1>1, <1>2, <1>4, FS_CardinalityType, FS_EmptySet
<1>7. Area(K, h) = Cardinality(rest \cup slab)
  BY <1>3 DEF Area
<1>8. Cardinality(rest \cup slab) = Cardinality(rest) + Cardinality(slab)
  BY <1>5, <1>6
<1> QED
  BY <1>1, <1>2, <1>7, <1>8

LEMMA SpreadMade ==
  ASSUME NEW K, NEW h, NEW k \in K, HoldsDates(K, h),
         IsFiniteSet({x \in Spread(K, h) : x[1] # k})
  PROVE  IsFiniteSet(Spread(K, h))
<1> DEFINE slab == {k} \X h[k]
           rest == {x \in Spread(K, h) : x[1] # k}
<1>1. IsFiniteSet(slab)
  <2>1. IsFiniteSet({k}) /\ IsFiniteSet(h[k])
    BY FS_Singleton DEF HoldsDates
  <2> QED
    BY <2>1, FS_Product
<1>2. rest \cup slab = Spread(K, h)
  <2>1. \A x \in slab : x \in Spread(K, h) /\ x[1] = k
    BY DEF Spread, HoldsDates
  <2>2. \A x \in Spread(K, h) : x[1] = k => x \in slab
    BY DEF Spread
  <2> QED
    BY <2>1, <2>2
<1> HIDE DEF slab
<1>3. IsFiniteSet(rest \cup slab)
  BY <1>1, FS_Union
<1> QED
  BY <1>2, <1>3

(* One of them holds other dates than before: the area changes by as much. *)
LEMMA OneHoldsOthers ==
  ASSUME NEW K, NEW h, NEW g, NEW k \in K, HoldsDates(K, h), HoldsDates(K, g),
         IsFiniteSet(Spread(K, h)), \A i \in K : i # k => g[i] = h[i]
  PROVE  /\ IsFiniteSet(Spread(K, g))
         /\ Area(K, g) = Area(K, h) - Cardinality(h[k]) + Cardinality(g[k])
<1>1. PICK rest : rest = {x \in Spread(K, h) : x[1] # k}
  OBVIOUS
<1>2. rest = {x \in Spread(K, g) : x[1] # k}
  BY <1>1 DEF Spread
<1>3. IsFiniteSet(rest) /\ Area(K, h) = Cardinality(rest) + Cardinality(h[k])
  BY <1>1, SpreadParts
<1>4. IsFiniteSet(Spread(K, g))
  BY <1>2, <1>3, SpreadMade
<1>5. Area(K, g) = Cardinality(rest) + Cardinality(g[k])
  BY <1>2, <1>4, SpreadParts
<1>6. Cardinality(rest) \in Nat /\ Cardinality(h[k]) \in Nat /\ Cardinality(g[k]) \in Nat
  BY <1>3, FS_CardinalityType DEF HoldsDates
<1> QED
  BY <1>3, <1>4, <1>5, <1>6

(* The days of the payload p that count in the bucket b.                   *)
Share(p, b) == IF BucketOf(p) = b THEN p.dates ELSE {}

OfRequest(q, status, b) == IF q.status = status THEN Share(q.payload, b) ELSE {}
Held(status, b) == [r \in Requests |-> OfRequest(req[r], status, b)]

(* What the event that the handler k has not yet applied will reserve, give *)
(* back and consume.                                                       *)
Arriving(k, b) == IF k.op = "submit" /\ k.pc = "event" THEN Share(k.payload, b) ELSE {}
Leaving(k, q, b) ==
  IF k.op \in {"cancel", "decide"} /\ k.pc = "event"
  THEN Share(q[k.request].payload, b) ELSE {}
Approving(k, q, b) ==
  IF k.op = "decide" /\ k.pc = "event"
  THEN OfRequest(q[k.request], "APPROVED", b) ELSE {}
Arrivals(b) == [j \in Jobs |-> Arriving(job[j], b)]
Leavings(b) == [j \in Jobs |-> Leaving(job[j], req, b)]
Approvals(b) == [j \in Jobs |-> Approving(job[j], req, b)]

BalanceIn(b) ==
  /\ IsFiniteSet(Spread(Requests, Held("PENDING", b)))
  /\ IsFiniteSet(Spread(Requests, Held("APPROVED", b)))
  /\ IsFiniteSet(Spread(Jobs, Arrivals(b)))
  /\ IsFiniteSet(Spread(Jobs, Leavings(b)))
  /\ IsFiniteSet(Spread(Jobs, Approvals(b)))
  /\ Counters(b).reserved + Area(Jobs, Arrivals(b)) =
       Area(Requests, Held("PENDING", b)) + Area(Jobs, Leavings(b))
  /\ Counters(b).consumed + Area(Jobs, Approvals(b)) = Area(Requests, Held("APPROVED", b))
(* The counters and the events on their way to them account for the       *)
(* requests.                                                               *)
BalanceInv == \A b \in Bucket : BalanceIn(b)

(* A step that changes a pending request keeps its bucket and its number   *)
(* of days; and HR sets the entitlement of rows that are there.            *)
EditsKeepDays ==
  \A r \in Requests :
    req[r].status = "PENDING" /\ req'[r].status = "PENDING" =>
      /\ BucketOf(req'[r].payload) = BucketOf(req[r].payload)
      /\ Days(req'[r].payload) = Days(req[r].payload)
QuotasGranted ==
  \A b \in Bucket : b[1] \in BalanceBased /\ b[2] = ThisYear => Granted[b] # Null

LEMMA ShareIs ==
  ASSUME NEW p \in Payloads, NEW b
  PROVE  /\ Share(p, b) \subseteq Dates /\ IsFiniteSet(Share(p, b))
         /\ Cardinality(Share(p, b)) \in Nat
         /\ Cardinality(Share(p, b)) = IF BucketOf(p) = b THEN Days(p) ELSE 0
<1>1. p.dates \subseteq Dates /\ IsFiniteSet(p.dates) /\ Days(p) \in Nat
  BY PayloadFacts
<1>2. {} \subseteq Dates /\ IsFiniteSet({}) /\ Cardinality({}) = 0
  BY FS_EmptySet
<1> QED
  BY <1>1, <1>2 DEF Share, Days

LEMMA EmptyShare == {} \subseteq Dates /\ IsFiniteSet({}) /\ Cardinality({}) = 0
BY FS_EmptySet

(* Requests and handlers hold dates, finitely many each.                   *)
LEMMA SharesAreDates ==
  ASSUME LeaveInv, NEW b
  PROVE  /\ \A r \in Requests, status \in {"PENDING", "APPROVED"} :
              /\ OfRequest(req[r], status, b) \subseteq Dates
              /\ IsFiniteSet(OfRequest(req[r], status, b))
         /\ \A j \in Jobs : /\ Arriving(job[j], b) \subseteq Dates
                            /\ IsFiniteSet(Arriving(job[j], b))
                            /\ Leaving(job[j], req, b) \subseteq Dates
                            /\ IsFiniteSet(Leaving(job[j], req, b))
                            /\ Approving(job[j], req, b) \subseteq Dates
                            /\ IsFiniteSet(Approving(job[j], req, b))
<1>1. ASSUME NEW r \in Requests, NEW status \in {"PENDING", "APPROVED"}
      PROVE  /\ OfRequest(req[r], status, b) \subseteq Dates
             /\ IsFiniteSet(OfRequest(req[r], status, b))
  <2>1. CASE req[r].status = status
    <3>1. req[r].payload \in Payloads
      BY <2>1 DEF LeaveInv, RequestsFit
    <3> QED
      BY <2>1, <3>1, ShareIs DEF OfRequest
  <2>2. CASE req[r].status # status
    BY <2>2, EmptyShare DEF OfRequest
  <2> QED
    BY <2>1, <2>2
<1>2. ASSUME NEW j \in Jobs
      PROVE  /\ Arriving(job[j], b) \subseteq Dates /\ IsFiniteSet(Arriving(job[j], b))
  <2>1. CASE job[j].op = "submit"
    <3>1. job[j].payload \in Payloads
      BY <2>1 DEF LeaveInv, LeaveJobsFit, LeaveJobFits
    <3> QED
      BY <3>1, ShareIs, EmptyShare DEF Arriving
  <2>2. CASE job[j].op # "submit"
    BY <2>2, EmptyShare DEF Arriving
  <2> QED
    BY <2>1, <2>2
<1>3. ASSUME NEW j \in Jobs
      PROVE  /\ Leaving(job[j], req, b) \subseteq Dates /\ IsFiniteSet(Leaving(job[j], req, b))
             /\ Approving(job[j], req, b) \subseteq Dates
             /\ IsFiniteSet(Approving(job[j], req, b))
  <2>1. CASE job[j].op \in {"cancel", "decide"}
    <3>1. job[j].request \in Requests /\ req[job[j].request].status # "NONE"
      BY <2>1 DEF LeaveInv, LeaveJobsFit, LeaveJobFits
    <3>2. req[job[j].request].payload \in Payloads
      BY <3>1 DEF LeaveInv, RequestsFit
    <3>3. /\ Share(req[job[j].request].payload, b) \subseteq Dates
          /\ IsFiniteSet(Share(req[job[j].request].payload, b))
      BY <3>2, ShareIs
    <3> QED
      BY <3>3, EmptyShare DEF Leaving, Approving, OfRequest
  <2>2. CASE job[j].op \notin {"cancel", "decide"}
    BY <2>2, EmptyShare DEF Leaving, Approving
  <2> QED
    BY <2>1, <2>2
<1> QED
  BY <1>1, <1>2, <1>3

AllDates ==
  \A b \in Bucket :
    /\ \A status \in {"PENDING", "APPROVED"} : HoldsDates(Requests, Held(status, b))
    /\ HoldsDates(Jobs, Arrivals(b)) /\ HoldsDates(Jobs, Leavings(b))
    /\ HoldsDates(Jobs, Approvals(b))

LEMMA AllHoldDates == LeaveInv => AllDates
BY SharesAreDates DEF AllDates, HoldsDates, Held, Arrivals, Leavings, Approvals

LEMMA AllHoldDatesNext == LeaveInv' => AllDates'
<1>1. LeaveInv => AllDates
  BY AllHoldDates
<1> QED
  BY <1>1, PTL

(* A write to one request, and what the requests hold.                     *)
LEMMA HeldMoves ==
  ASSUME LeaveInv, LeaveInv', NEW b \in Bucket, NEW status \in {"PENDING", "APPROVED"},
         IsFiniteSet(Spread(Requests, Held(status, b))),
         NEW r \in Requests, \A s \in Requests : s # r => req'[s] = req[s]
  PROVE  /\ IsFiniteSet(Spread(Requests, Held(status, b)))'
         /\ Area(Requests, Held(status, b))' =
              Area(Requests, Held(status, b)) - Cardinality(OfRequest(req[r], status, b))
                                              + Cardinality(OfRequest(req'[r], status, b))
<1>1. PICK h : h = Held(status, b)
  OBVIOUS
<1>2. PICK g : g = Held(status, b)'
  OBVIOUS
<1>3. HoldsDates(Requests, h)
  BY <1>1, AllHoldDates DEF AllDates
<1>4. HoldsDates(Requests, Held(status, b))'
  BY AllHoldDatesNext DEF AllDates
<1>5. HoldsDates(Requests, g)
  BY <1>2, <1>4 DEF HoldsDates
<1>6. \A s \in Requests : s # r => g[s] = h[s]
  BY <1>1, <1>2 DEF Held
<1>7. h[r] = OfRequest(req[r], status, b) /\ g[r] = OfRequest(req'[r], status, b)
  BY <1>1, <1>2 DEF Held, OfRequest
<1>8. /\ IsFiniteSet(Spread(Requests, g))
      /\ Area(Requests, g) = Area(Requests, h) - Cardinality(h[r]) + Cardinality(g[r])
  BY <1>1, <1>3, <1>5, <1>6, OneHoldsOthers
<1>9. /\ Spread(Requests, Held(status, b))' = Spread(Requests, g)
      /\ Area(Requests, Held(status, b))' = Area(Requests, g)
  BY <1>2 DEF Spread, Area
<1> QED
  BY <1>1, <1>7, <1>8, <1>9

(* What one handler has yet to apply changes.                              *)
LEMMA ArrivalsMove ==
  ASSUME LeaveInv, LeaveInv', NEW b \in Bucket, IsFiniteSet(Spread(Jobs, Arrivals(b))),
         NEW j \in Jobs, \A i \in Jobs : i # j => Arriving(job'[i], b) = Arriving(job[i], b)
  PROVE  /\ IsFiniteSet(Spread(Jobs, Arrivals(b)))'
         /\ Area(Jobs, Arrivals(b))' = Area(Jobs, Arrivals(b)) - Cardinality(Arriving(job[j], b))
                                  + Cardinality(Arriving(job'[j], b))
<1>1. PICK h : h = Arrivals(b)
  OBVIOUS
<1>2. PICK g : g = Arrivals(b)'
  OBVIOUS
<1>3. HoldsDates(Jobs, h)
  BY <1>1, AllHoldDates DEF AllDates
<1>4. HoldsDates(Jobs, Arrivals(b))'
  BY AllHoldDatesNext DEF AllDates
<1>5. HoldsDates(Jobs, g)
  BY <1>2, <1>4 DEF HoldsDates
<1>6. /\ \A i \in Jobs : i # j => g[i] = h[i]
      /\ h[j] = Arriving(job[j], b) /\ g[j] = Arriving(job'[j], b)
  BY <1>1, <1>2 DEF Arrivals, Arriving
<1>7. /\ IsFiniteSet(Spread(Jobs, g))
      /\ Area(Jobs, g) = Area(Jobs, h) - Cardinality(h[j]) + Cardinality(g[j])
  BY <1>1, <1>3, <1>5, <1>6, OneHoldsOthers
<1>8. /\ Spread(Jobs, Arrivals(b))' = Spread(Jobs, g)
      /\ Area(Jobs, Arrivals(b))' = Area(Jobs, g)
  BY <1>2 DEF Spread, Area
<1> QED
  BY <1>1, <1>6, <1>7, <1>8

LEMMA LeavingsMove ==
  ASSUME LeaveInv, LeaveInv', NEW b \in Bucket, IsFiniteSet(Spread(Jobs, Leavings(b))),
         NEW j \in Jobs, \A i \in Jobs : i # j => Leaving(job'[i], req', b) = Leaving(job[i], req, b)
  PROVE  /\ IsFiniteSet(Spread(Jobs, Leavings(b)))'
         /\ Area(Jobs, Leavings(b))' = Area(Jobs, Leavings(b)) - Cardinality(Leaving(job[j], req, b))
                                  + Cardinality(Leaving(job'[j], req', b))
<1>1. PICK h : h = Leavings(b)
  OBVIOUS
<1>2. PICK g : g = Leavings(b)'
  OBVIOUS
<1>3. HoldsDates(Jobs, h)
  BY <1>1, AllHoldDates DEF AllDates
<1>4. HoldsDates(Jobs, Leavings(b))'
  BY AllHoldDatesNext DEF AllDates
<1>5. HoldsDates(Jobs, g)
  BY <1>2, <1>4 DEF HoldsDates
<1>6. /\ \A i \in Jobs : i # j => g[i] = h[i]
      /\ h[j] = Leaving(job[j], req, b) /\ g[j] = Leaving(job'[j], req', b)
  BY <1>1, <1>2 DEF Leavings, Leaving
<1>7. /\ IsFiniteSet(Spread(Jobs, g))
      /\ Area(Jobs, g) = Area(Jobs, h) - Cardinality(h[j]) + Cardinality(g[j])
  BY <1>1, <1>3, <1>5, <1>6, OneHoldsOthers
<1>8. /\ Spread(Jobs, Leavings(b))' = Spread(Jobs, g)
      /\ Area(Jobs, Leavings(b))' = Area(Jobs, g)
  BY <1>2 DEF Spread, Area
<1> QED
  BY <1>1, <1>6, <1>7, <1>8

LEMMA ApprovalsMove ==
  ASSUME LeaveInv, LeaveInv', NEW b \in Bucket, IsFiniteSet(Spread(Jobs, Approvals(b))),
         NEW j \in Jobs, \A i \in Jobs : i # j => Approving(job'[i], req', b) = Approving(job[i], req, b)
  PROVE  /\ IsFiniteSet(Spread(Jobs, Approvals(b)))'
         /\ Area(Jobs, Approvals(b))' = Area(Jobs, Approvals(b)) - Cardinality(Approving(job[j], req, b))
                                  + Cardinality(Approving(job'[j], req', b))
<1>1. PICK h : h = Approvals(b)
  OBVIOUS
<1>2. PICK g : g = Approvals(b)'
  OBVIOUS
<1>3. HoldsDates(Jobs, h)
  BY <1>1, AllHoldDates DEF AllDates
<1>4. HoldsDates(Jobs, Approvals(b))'
  BY AllHoldDatesNext DEF AllDates
<1>5. HoldsDates(Jobs, g)
  BY <1>2, <1>4 DEF HoldsDates
<1>6. /\ \A i \in Jobs : i # j => g[i] = h[i]
      /\ h[j] = Approving(job[j], req, b) /\ g[j] = Approving(job'[j], req', b)
  BY <1>1, <1>2 DEF Approvals, Approving, OfRequest
<1>7. /\ IsFiniteSet(Spread(Jobs, g))
      /\ Area(Jobs, g) = Area(Jobs, h) - Cardinality(h[j]) + Cardinality(g[j])
  BY <1>1, <1>3, <1>5, <1>6, OneHoldsOthers
<1>8. /\ Spread(Jobs, Approvals(b))' = Spread(Jobs, g)
      /\ Area(Jobs, Approvals(b))' = Area(Jobs, g)
  BY <1>2 DEF Spread, Area
<1> QED
  BY <1>1, <1>6, <1>7, <1>8

LEMMA HeldStays ==
  ASSUME UNCHANGED req, NEW b \in Bucket, BalanceIn(b)
  PROVE  \A status \in {"PENDING", "APPROVED"} :
           /\ IsFiniteSet(Spread(Requests, Held(status, b)))'
           /\ Area(Requests, Held(status, b))' = Area(Requests, Held(status, b))
<1>1. ASSUME NEW status \in {"PENDING", "APPROVED"}
      PROVE  Held(status, b)' = Held(status, b)
  BY DEF Held, OfRequest, Share
<1>2. ASSUME NEW status \in {"PENDING", "APPROVED"}
      PROVE  /\ Spread(Requests, Held(status, b))' = Spread(Requests, Held(status, b))
             /\ Area(Requests, Held(status, b))' = Area(Requests, Held(status, b))
  BY <1>1 DEF Spread, Area
<1>3. ASSUME NEW status \in {"PENDING", "APPROVED"}
      PROVE  IsFiniteSet(Spread(Requests, Held(status, b)))
  BY <1>3 DEF BalanceIn
<1> QED
  BY <1>2, <1>3

LEMMA HandlersStay ==
  ASSUME NEW b \in Bucket, BalanceIn(b),
         \A i \in Jobs : /\ Arriving(job'[i], b) = Arriving(job[i], b)
                         /\ Leaving(job'[i], req', b) = Leaving(job[i], req, b)
                         /\ Approving(job'[i], req', b) = Approving(job[i], req, b)
  PROVE  /\ IsFiniteSet(Spread(Jobs, Arrivals(b)))' /\ IsFiniteSet(Spread(Jobs, Leavings(b)))'
         /\ IsFiniteSet(Spread(Jobs, Approvals(b)))'
         /\ Area(Jobs, Arrivals(b))' = Area(Jobs, Arrivals(b))
         /\ Area(Jobs, Leavings(b))' = Area(Jobs, Leavings(b))
         /\ Area(Jobs, Approvals(b))' = Area(Jobs, Approvals(b))
<1>1. /\ IsFiniteSet(Spread(Jobs, Arrivals(b))) /\ IsFiniteSet(Spread(Jobs, Leavings(b)))
      /\ IsFiniteSet(Spread(Jobs, Approvals(b)))
  BY DEF BalanceIn
<1>2. /\ Arrivals(b)' = Arrivals(b) /\ Leavings(b)' = Leavings(b)
      /\ Approvals(b)' = Approvals(b)
  BY DEF Arrivals, Leavings, Approvals
<1> QED
  BY <1>1, <1>2 DEF Spread, Area

(* A step that brings no event and applies none.                           *)
LEMMA QuietSteps ==
  ASSUME UNCHANGED req, NEW b \in Bucket, BalanceIn(b),
         \A i \in Jobs : job'[i] = job[i] \/ (job[i].pc # "event" /\ job'[i].pc # "event"),
         Counters(b)'.reserved = Counters(b).reserved,
         Counters(b)'.consumed = Counters(b).consumed
  PROVE  BalanceIn(b)'
<1>1. \A i \in Jobs : /\ Arriving(job'[i], b) = Arriving(job[i], b)
                      /\ Leaving(job'[i], req', b) = Leaving(job[i], req, b)
                      /\ Approving(job'[i], req', b) = Approving(job[i], req, b)
  BY DEF Arriving, Leaving, Approving, OfRequest, Share
<1>2. /\ Counters(b).reserved + Area(Jobs, Arrivals(b)) =
           Area(Requests, Held("PENDING", b)) + Area(Jobs, Leavings(b))
      /\ Counters(b).consumed + Area(Jobs, Approvals(b)) = Area(Requests, Held("APPROVED", b))
  BY DEF BalanceIn
<1> QED
  BY <1>1, <1>2, HeldStays, HandlersStay DEF BalanceIn

LEMMA CountersMove ==
  ASSUME LeaveInv, NEW p \in Payloads, NEW e \in Int, NEW c \in Nat,
         row' = [row EXCEPT ![BucketOf(p)] = Adjusted(@, 0, e, c)], NEW b \in Bucket
  PROVE  /\ Counters(b)'.reserved = Counters(b).reserved + IF BucketOf(p) = b THEN e ELSE 0
         /\ Counters(b)'.consumed = Counters(b).consumed + IF BucketOf(p) = b THEN c ELSE 0
<1>1. PICK a \in Bucket : a = BucketOf(p) /\ row[a] \in Row \cup {Null}
  BY PayloadFacts DEF LeaveInv, LeaveType
<1>2. PICK y : y = Adjusted(row[a], 0, e, c)
  OBVIOUS
<1>3. row' = [row EXCEPT ![a] = y]
  BY <1>1, <1>2
<1>4. \A d \in Bucket : row'[d] = IF d = a THEN y ELSE row[d]
  BY <1>3 DEF LeaveInv, LeaveType
<1>5. 0 \in Int
  OBVIOUS
<1>6. PICK x \in Row \cup {Null} : x = row[a]
  BY <1>1
<1>7. /\ Adjusted(x, 0, e, c) # Null
      /\ Adjusted(x, 0, e, c).reserved = (IF x = Null THEN Zero ELSE x).reserved + e
      /\ Adjusted(x, 0, e, c).consumed = (IF x = Null THEN Zero ELSE x).consumed + c
  BY <1>5, AdjustedIs
<1>8. CASE b = a
  <2>1. Counters(b) = (IF x = Null THEN Zero ELSE x) /\ Counters(b)' = y
    BY <1>2, <1>4, <1>6, <1>7, <1>8 DEF Counters
  <2> QED
    BY <1>1, <1>2, <1>6, <1>7, <1>8, <2>1
<1>9. CASE b # a
  <2>1. Counters(b)' = Counters(b)
    BY <1>4, <1>9 DEF Counters
  <2>2. Counters(b).reserved \in Int /\ Counters(b).consumed \in Int
    BY DEF Counters, LeaveInv, LeaveType, Row, Zero
  <2> QED
    BY <1>1, <1>9, <2>1, <2>2
<1> QED
  BY <1>8, <1>9

LEMMA NumbersOf ==
  ASSUME LeaveInv, NEW b \in Bucket, BalanceIn(b)
  PROVE  /\ Counters(b).reserved \in Int /\ Counters(b).consumed \in Int
         /\ \A status \in {"PENDING", "APPROVED"} : Area(Requests, Held(status, b)) \in Nat
         /\ Area(Jobs, Arrivals(b)) \in Nat /\ Area(Jobs, Leavings(b)) \in Nat
         /\ Area(Jobs, Approvals(b)) \in Nat
<1>1. Counters(b).reserved \in Int /\ Counters(b).consumed \in Int
  BY DEF Counters, LeaveInv, LeaveType, Row, Zero
<1> QED
  BY <1>1, FS_CardinalityType DEF Area, BalanceIn

(* A submission's event reserves the days that its request holds.          *)
LEMMA ReserveBalances ==
  ASSUME LeaveInv, NEW j \in Jobs, Reserve(j), NEW b \in Bucket, BalanceIn(b)
  PROVE  BalanceIn(b)'
<1>1. /\ LeaveInv' /\ UNCHANGED req
      /\ \A i \in Jobs : job'[i] = IF i = j THEN Idle ELSE job[i]
      /\ job[j].op = "submit" /\ job[j].pc = "event"
  BY ReserveKeeps
<1>2. PICK p \in Payloads : p = job[j].payload
  BY ReserveKeeps
<1>3. PICK n \in Nat : n = Days(p)
  BY PayloadFacts
<1>4. row' = [row EXCEPT ![BucketOf(p)] = Adjusted(@, 0, n, 0)]
  BY <1>2, <1>3, ReserveKeeps
<1>5. PICK e \in Int : e = n
  OBVIOUS
<1>6. PICK c \in Nat : c = 0
  OBVIOUS
<1>7. row' = [row EXCEPT ![BucketOf(p)] = Adjusted(@, 0, e, c)]
  BY <1>4, <1>5, <1>6
<1>8. /\ Counters(b)'.reserved = Counters(b).reserved + IF BucketOf(p) = b THEN e ELSE 0
      /\ Counters(b)'.consumed = Counters(b).consumed + IF BucketOf(p) = b THEN c ELSE 0
  BY <1>7, CountersMove
<1>9. PICK m \in Nat : m = Cardinality(Share(p, b)) /\ m = IF BucketOf(p) = b THEN n ELSE 0
  BY <1>3, ShareIs
<1>10. /\ Arriving(job[j], b) = Share(p, b) /\ Arriving(job'[j], b) = {}
       /\ Leaving(job[j], req, b) = {} /\ Leaving(job'[j], req', b) = {}
       /\ Approving(job[j], req, b) = {} /\ Approving(job'[j], req', b) = {}
  BY <1>1, <1>2 DEF Arriving, Leaving, Approving, Idle
<1>11. \A i \in Jobs : i # j =>
         /\ Arriving(job'[i], b) = Arriving(job[i], b)
         /\ Leaving(job'[i], req', b) = Leaving(job[i], req, b)
         /\ Approving(job'[i], req', b) = Approving(job[i], req, b)
  BY <1>1 DEF Arriving, Leaving, Approving, OfRequest, Share
<1>12. /\ IsFiniteSet(Spread(Jobs, Arrivals(b)))'
       /\ Area(Jobs, Arrivals(b))' = Area(Jobs, Arrivals(b)) - m + 0
  BY <1>1, <1>9, <1>10, <1>11, ArrivalsMove, EmptyShare DEF BalanceIn
<1>13. /\ IsFiniteSet(Spread(Jobs, Leavings(b)))'
       /\ Area(Jobs, Leavings(b))' = Area(Jobs, Leavings(b)) - 0 + 0
  BY <1>1, <1>10, <1>11, LeavingsMove, EmptyShare DEF BalanceIn
<1>14. /\ IsFiniteSet(Spread(Jobs, Approvals(b)))'
       /\ Area(Jobs, Approvals(b))' = Area(Jobs, Approvals(b)) - 0 + 0
  BY <1>1, <1>10, <1>11, ApprovalsMove, EmptyShare DEF BalanceIn
<1>15. Counters(b)'.reserved = Counters(b).reserved + m /\ Counters(b)'.consumed = Counters(b).consumed
  BY <1>5, <1>6, <1>8, <1>9, NumbersOf
<1>16. /\ Counters(b).reserved + Area(Jobs, Arrivals(b)) =
            Area(Requests, Held("PENDING", b)) + Area(Jobs, Leavings(b))
       /\ Counters(b).consumed + Area(Jobs, Approvals(b)) = Area(Requests, Held("APPROVED", b))
  BY DEF BalanceIn
<1>17. /\ Counters(b)'.reserved + Area(Jobs, Arrivals(b))' =
            Area(Requests, Held("PENDING", b))' + Area(Jobs, Leavings(b))'
       /\ Counters(b)'.consumed + Area(Jobs, Approvals(b))' = Area(Requests, Held("APPROVED", b))'
  BY <1>1, <1>12, <1>13, <1>14, <1>15, <1>16, HeldStays, NumbersOf
<1> QED
  BY <1>1, <1>12, <1>13, <1>14, <1>17, HeldStays DEF BalanceIn

(* The event of a decision or a cancellation gives back the days of its    *)
(* request, and consumes them when it was approved.                        *)
LEMMA EndBalances ==
  ASSUME LeaveInv, LeaveInv', UNCHANGED req, NEW j \in Jobs,
         \A i \in Jobs : i # j => job'[i] = job[i],
         job[j].op \in {"cancel", "decide"}, job[j].pc = "event", job'[j].pc # "event",
         job[j].op = "cancel" => req[job[j].request].status = "CANCELLED",
         NEW p \in Payloads, p = req[job[j].request].payload,
         NEW taken \in Nat,
         taken = IF req[job[j].request].status = "APPROVED" THEN Days(p) ELSE 0,
         NEW e \in Int, e = -Days(p),
         NEW b \in Bucket, BalanceIn(b),
         Counters(b)'.reserved = Counters(b).reserved + IF BucketOf(p) = b THEN e ELSE 0,
         Counters(b)'.consumed = Counters(b).consumed + IF BucketOf(p) = b THEN taken ELSE 0
  PROVE  BalanceIn(b)'
<1>1. PICK n \in Nat : n = Days(p)
  BY PayloadFacts
<1>2. e = -n
  BY <1>1
<1>3. PICK m \in Nat : m = Cardinality(Share(p, b)) /\ m = IF BucketOf(p) = b THEN n ELSE 0
  BY <1>1, ShareIs
<1>4. PICK t \in Nat : t = Cardinality(Approving(job[j], req, b))
                       /\ t = IF BucketOf(p) = b THEN taken ELSE 0
  <2>1. CASE req[job[j].request].status = "APPROVED"
    <3>1. Approving(job[j], req, b) = Share(p, b)
      BY <2>1 DEF Approving, OfRequest
    <3> QED
      BY <1>1, <1>3, <2>1, <3>1
  <2>2. CASE req[job[j].request].status # "APPROVED"
    <3>1. Approving(job[j], req, b) = {}
      BY <2>2 DEF Approving, OfRequest
    <3> QED
      BY <2>2, <3>1, EmptyShare
  <2> QED
    BY <2>1, <2>2
<1>5. /\ Leaving(job[j], req, b) = Share(p, b) /\ Leaving(job'[j], req', b) = {}
      /\ Arriving(job[j], b) = {} /\ Arriving(job'[j], b) = {}
      /\ Approving(job'[j], req', b) = {}
  BY DEF Arriving, Leaving, Approving
<1>6. \A i \in Jobs : i # j =>
        /\ Arriving(job'[i], b) = Arriving(job[i], b)
        /\ Leaving(job'[i], req', b) = Leaving(job[i], req, b)
        /\ Approving(job'[i], req', b) = Approving(job[i], req, b)
  BY DEF Arriving, Leaving, Approving, OfRequest, Share
<1>7. /\ IsFiniteSet(Spread(Jobs, Arrivals(b)))'
      /\ Area(Jobs, Arrivals(b))' = Area(Jobs, Arrivals(b)) - 0 + 0
  BY <1>5, <1>6, ArrivalsMove, EmptyShare DEF BalanceIn
<1>8. /\ IsFiniteSet(Spread(Jobs, Leavings(b)))'
       /\ Area(Jobs, Leavings(b))' = Area(Jobs, Leavings(b)) - m + 0
  BY <1>3, <1>5, <1>6, LeavingsMove, EmptyShare DEF BalanceIn
<1>9. /\ IsFiniteSet(Spread(Jobs, Approvals(b)))'
       /\ Area(Jobs, Approvals(b))' = Area(Jobs, Approvals(b)) - t + 0
  BY <1>4, <1>5, <1>6, ApprovalsMove, EmptyShare DEF BalanceIn
<1>10. Counters(b)'.reserved = Counters(b).reserved - m /\ Counters(b)'.consumed = Counters(b).consumed + t
  BY <1>2, <1>3, <1>4, NumbersOf, SMTT(40)
<1>11. /\ Counters(b).reserved + Area(Jobs, Arrivals(b)) =
            Area(Requests, Held("PENDING", b)) + Area(Jobs, Leavings(b))
       /\ Counters(b).consumed + Area(Jobs, Approvals(b)) = Area(Requests, Held("APPROVED", b))
  BY DEF BalanceIn
<1>12. /\ Counters(b)'.reserved + Area(Jobs, Arrivals(b))' =
            Area(Requests, Held("PENDING", b))' + Area(Jobs, Leavings(b))'
       /\ Counters(b)'.consumed + Area(Jobs, Approvals(b))' = Area(Requests, Held("APPROVED", b))'
  BY <1>7, <1>8, <1>9, <1>10, <1>11, HeldStays, NumbersOf
<1> QED
  BY <1>7, <1>8, <1>9, <1>12, HeldStays DEF BalanceIn

LEMMA ReleaseBalances ==
  ASSUME LeaveInv, NEW j \in Jobs, Release(j), NEW b \in Bucket, BalanceIn(b)
  PROVE  BalanceIn(b)'
<1>1. /\ LeaveInv' /\ UNCHANGED req
      /\ \A i \in Jobs : job'[i] = IF i = j THEN Idle ELSE job[i]
      /\ job[j].op = "cancel" /\ job[j].pc = "event"
      /\ req[job[j].request].status = "CANCELLED"
  BY ReleaseKeeps
<1>2. job'[j].pc # "event" /\ \A i \in Jobs : i # j => job'[i] = job[i]
  BY <1>1 DEF Idle
<1>3. PICK p \in Payloads : p = req[job[j].request].payload
  BY ReleaseKeeps
<1>4. PICK taken \in Nat : taken = 0
  OBVIOUS
<1>5. taken = IF req[job[j].request].status = "APPROVED" THEN Days(p) ELSE 0
  BY <1>1, <1>4
<1>6. PICK e \in Int : e = -Days(p)
  BY PayloadFacts
<1>7. row' = [row EXCEPT ![BucketOf(p)] = Adjusted(@, 0, e, taken)]
  BY <1>3, <1>4, <1>6, ReleaseKeeps
<1>8. /\ Counters(b)'.reserved = Counters(b).reserved + IF BucketOf(p) = b THEN e ELSE 0
      /\ Counters(b)'.consumed = Counters(b).consumed + IF BucketOf(p) = b THEN taken ELSE 0
  BY <1>7, CountersMove
<1> QED
  BY <1>1, <1>2, <1>3, <1>5, <1>6, <1>8, EndBalances

LEMMA SettleBalances ==
  ASSUME LeaveInv, NEW j \in Jobs, Settle(j), NEW b \in Bucket, BalanceIn(b)
  PROVE  BalanceIn(b)'
<1>1. /\ LeaveInv' /\ UNCHANGED req
      /\ \A i \in Jobs : i # j => job'[i] = job[i]
      /\ job[j].op = "decide" /\ job[j].pc = "event" /\ job'[j].pc # "event"
  BY SettleKeeps
<1>2. PICK p \in Payloads : p = req[job[j].request].payload
  BY SettleKeeps
<1>3. PICK taken \in Nat :
        taken = IF req[job[j].request].status = "APPROVED" THEN Days(p) ELSE 0
  BY PayloadFacts
<1>4. PICK e \in Int : e = -Days(p)
  BY PayloadFacts
<1>5. row' = [row EXCEPT ![BucketOf(p)] = Adjusted(@, 0, e, taken)]
  BY <1>2, <1>3, <1>4, SettleKeeps
<1>6. /\ Counters(b)'.reserved = Counters(b).reserved + IF BucketOf(p) = b THEN e ELSE 0
      /\ Counters(b)'.consumed = Counters(b).consumed + IF BucketOf(p) = b THEN taken ELSE 0
  BY <1>5, CountersMove
<1> QED
  BY <1>1, <1>2, <1>3, <1>4, <1>6, EndBalances

(* No event on its way is of a request that has not ended.                 *)
LEMMA OthersOnTheirWay ==
  ASSUME LeaveInv, NEW r \in Requests, req[r].status \in {"NONE", "PENDING"},
         \A s \in Requests : s # r => req'[s] = req[s], NEW b
  PROVE  \A i \in Jobs : /\ Leaving(job[i], req', b) = Leaving(job[i], req, b)
                         /\ Approving(job[i], req', b) = Approving(job[i], req, b)
<1> SUFFICES ASSUME NEW i \in Jobs
             PROVE  /\ Leaving(job[i], req', b) = Leaving(job[i], req, b)
                    /\ Approving(job[i], req', b) = Approving(job[i], req, b)
  OBVIOUS
<1>1. CASE job[i].op \in {"cancel", "decide"}
  <2>1. job[i].request \in Requests /\ job[i].request # r
    BY <1>1 DEF LeaveInv, LeaveJobsFit, LeaveJobFits
  <2>2. req'[job[i].request] = req[job[i].request]
    BY <2>1
  <2> QED
    BY <2>2 DEF Leaving, Approving
<1>2. CASE job[i].op \notin {"cancel", "decide"}
  BY <1>2 DEF Leaving, Approving
<1> QED
  BY <1>1, <1>2

LEMMA CreateBalances ==
  ASSUME LeaveInv, NEW j \in Jobs, Create(j), NEW b \in Bucket, BalanceIn(b)
  PROVE  BalanceIn(b)'
<1>1. LeaveInv' /\ UNCHANGED row
  BY CreateKeeps DEF Create
<1>2. PICK r \in Requests : r = job[j].request
  BY DEF Create, At, LeaveInv, LeaveJobsFit, LeaveJobFits
<1>3. PICK p \in Payloads : p = job[j].payload
  BY DEF Create, At, LeaveInv, LeaveJobsFit, LeaveJobFits
<1>4. req[r].status = "NONE" /\ job[j].op = "submit" /\ job[j].pc = "create"
  BY <1>2 DEF Create, At, LeaveInv, LeaveJobsFit, LeaveJobFits
<1>5. PICK q : q = [status |-> "PENDING", payload |-> p]
  OBVIOUS
<1>6. req' = [req EXCEPT ![r] = q]
  BY <1>2, <1>3, <1>5 DEF Create
<1>7. req'[r] = q /\ \A s \in Requests : s # r => req'[s] = req[s]
  BY <1>6 DEF LeaveInv, LeaveType
<1>8. PICK k \in Job : k = job[j]
  BY DEF LeaveInv, LeaveType
<1>9. PICK n : n = [k EXCEPT !.pc = "event"]
  OBVIOUS
<1>10. n.op = "submit" /\ n.pc = "event" /\ n.payload = p
  BY <1>3, <1>4, <1>8, <1>9 DEF Job
<1>11. job' = [job EXCEPT ![j] = n]
  BY <1>8, <1>9 DEF Create
<1>12. job'[j] = n /\ \A i \in Jobs : i # j => job'[i] = job[i]
  BY <1>11 DEF LeaveInv, LeaveType
<1>13. PICK m \in Nat : m = Cardinality(Share(p, b))
  BY ShareIs
<1>14. \A i \in Jobs : i # j => /\ Arriving(job'[i], b) = Arriving(job[i], b)
                                /\ Leaving(job'[i], req', b) = Leaving(job[i], req, b)
                                /\ Approving(job'[i], req', b) = Approving(job[i], req, b)
  BY <1>4, <1>7, <1>12, OthersOnTheirWay
<1>15. /\ Arriving(job[j], b) = {} /\ Arriving(job'[j], b) = Share(p, b)
       /\ Leaving(job[j], req, b) = {} /\ Leaving(job'[j], req', b) = {}
       /\ Approving(job[j], req, b) = {} /\ Approving(job'[j], req', b) = {}
  BY <1>4, <1>10, <1>12 DEF Arriving, Leaving, Approving
<1>16. /\ OfRequest(req[r], "PENDING", b) = {} /\ OfRequest(req[r], "APPROVED", b) = {}
       /\ OfRequest(req'[r], "PENDING", b) = Share(p, b) /\ OfRequest(req'[r], "APPROVED", b) = {}
  BY <1>4, <1>5, <1>7 DEF OfRequest
<1>17. /\ IsFiniteSet(Spread(Requests, Held("PENDING", b)))'
       /\ Area(Requests, Held("PENDING", b))' = Area(Requests, Held("PENDING", b)) - 0 + m
  BY <1>1, <1>7, <1>13, <1>16, HeldMoves, EmptyShare DEF BalanceIn
<1>18. /\ IsFiniteSet(Spread(Requests, Held("APPROVED", b)))'
       /\ Area(Requests, Held("APPROVED", b))' = Area(Requests, Held("APPROVED", b)) - 0 + 0
  BY <1>1, <1>7, <1>16, HeldMoves, EmptyShare DEF BalanceIn
<1>19. /\ IsFiniteSet(Spread(Jobs, Arrivals(b)))'
       /\ Area(Jobs, Arrivals(b))' = Area(Jobs, Arrivals(b)) - 0 + m
  BY <1>1, <1>13, <1>14, <1>15, ArrivalsMove, EmptyShare DEF BalanceIn
<1>20. /\ IsFiniteSet(Spread(Jobs, Leavings(b)))'
       /\ Area(Jobs, Leavings(b))' = Area(Jobs, Leavings(b)) - 0 + 0
  BY <1>1, <1>14, <1>15, LeavingsMove, EmptyShare DEF BalanceIn
<1>21. /\ IsFiniteSet(Spread(Jobs, Approvals(b)))'
       /\ Area(Jobs, Approvals(b))' = Area(Jobs, Approvals(b)) - 0 + 0
  BY <1>1, <1>14, <1>15, ApprovalsMove, EmptyShare DEF BalanceIn
<1>22. Counters(b)' = Counters(b)
  BY <1>1 DEF Counters
<1>23. /\ Counters(b).reserved + Area(Jobs, Arrivals(b)) =
            Area(Requests, Held("PENDING", b)) + Area(Jobs, Leavings(b))
       /\ Counters(b).consumed + Area(Jobs, Approvals(b)) = Area(Requests, Held("APPROVED", b))
  BY DEF BalanceIn
<1>24. /\ Counters(b)'.reserved + Area(Jobs, Arrivals(b))' =
            Area(Requests, Held("PENDING", b))' + Area(Jobs, Leavings(b))'
       /\ Counters(b)'.consumed + Area(Jobs, Approvals(b))' = Area(Requests, Held("APPROVED", b))'
  BY <1>17, <1>18, <1>19, <1>20, <1>21, <1>22, <1>23, NumbersOf
<1> QED
  BY <1>17, <1>18, <1>19, <1>20, <1>21, <1>24 DEF BalanceIn

(* An edit swaps the dates of a pending request for as many others.        *)
LEMMA EditBalances ==
  ASSUME LeaveInv, EditsKeepDays, NEW r \in Requests, NEW p \in Payloads, Edit(r, p),
         NEW b \in Bucket, BalanceIn(b)
  PROVE  BalanceIn(b)'
<1>1. LeaveInv' /\ UNCHANGED <<row, job>> /\ req[r].status = "PENDING"
  BY EditKeeps DEF Edit
<1>2. PICK o \in Payloads : o = req[r].payload
  BY <1>1 DEF LeaveInv, RequestsFit
<1>3. PICK old \in LeaveRequest : old = req[r]
  BY DEF LeaveInv, LeaveType
<1>4. PICK q : q = [old EXCEPT !.payload = p]
  OBVIOUS
<1>5. q.status = "PENDING" /\ q.payload = p
  BY <1>1, <1>3, <1>4 DEF LeaveRequest
<1>6. req' = [req EXCEPT ![r] = q]
  BY <1>3, <1>4 DEF Edit
<1>7. req'[r] = q /\ \A s \in Requests : s # r => req'[s] = req[s]
  BY <1>6 DEF LeaveInv, LeaveType
<1>8. BucketOf(o) = BucketOf(p) /\ Days(o) = Days(p)
  BY <1>1, <1>2, <1>5, <1>7 DEF EditsKeepDays
<1>9. PICK m \in Nat : m = Cardinality(Share(p, b)) /\ m = Cardinality(Share(o, b))
  BY <1>8, ShareIs
<1>10. /\ OfRequest(req[r], "PENDING", b) = Share(o, b)
       /\ OfRequest(req'[r], "PENDING", b) = Share(p, b)
       /\ OfRequest(req[r], "APPROVED", b) = {} /\ OfRequest(req'[r], "APPROVED", b) = {}
  BY <1>1, <1>2, <1>5, <1>7 DEF OfRequest
<1>11. /\ IsFiniteSet(Spread(Requests, Held("PENDING", b)))'
       /\ Area(Requests, Held("PENDING", b))' = Area(Requests, Held("PENDING", b)) - m + m
  BY <1>1, <1>7, <1>9, <1>10, HeldMoves DEF BalanceIn
<1>12. /\ IsFiniteSet(Spread(Requests, Held("APPROVED", b)))'
       /\ Area(Requests, Held("APPROVED", b))' = Area(Requests, Held("APPROVED", b)) - 0 + 0
  BY <1>1, <1>7, <1>10, HeldMoves, EmptyShare DEF BalanceIn
<1>13. \A i \in Jobs : /\ Arriving(job'[i], b) = Arriving(job[i], b)
                       /\ Leaving(job'[i], req', b) = Leaving(job[i], req, b)
                       /\ Approving(job'[i], req', b) = Approving(job[i], req, b)
  BY <1>1, <1>7, OthersOnTheirWay
<1>14. Counters(b)' = Counters(b)
  BY <1>1 DEF Counters
<1>15. /\ Counters(b).reserved + Area(Jobs, Arrivals(b)) =
            Area(Requests, Held("PENDING", b)) + Area(Jobs, Leavings(b))
       /\ Counters(b).consumed + Area(Jobs, Approvals(b)) = Area(Requests, Held("APPROVED", b))
  BY DEF BalanceIn
<1>16. /\ Counters(b)'.reserved + Area(Jobs, Arrivals(b))' =
            Area(Requests, Held("PENDING", b))' + Area(Jobs, Leavings(b))'
       /\ Counters(b)'.consumed + Area(Jobs, Approvals(b))' = Area(Requests, Held("APPROVED", b))'
  BY <1>11, <1>12, <1>13, <1>14, <1>15, HandlersStay, NumbersOf
<1> QED
  BY <1>11, <1>12, <1>13, <1>16, HandlersStay DEF BalanceIn

(* A pending request ends: its days wait for the event to give them back.  *)
LEMMA EndingBalances ==
  ASSUME LeaveInv, LeaveInv', UNCHANGED row,
         NEW r \in Requests, req[r].status = "PENDING",
         NEW to \in {"APPROVED", "REJECTED", "CANCELLED"},
         \A s \in Requests : /\ req'[s].status = IF s = r THEN to ELSE req[s].status
                             /\ req'[s].payload = req[s].payload,
         NEW j \in Jobs, \A i \in Jobs \ {j} : job'[i] = job[i], job[j] = Idle,
         job'[j].pc = "event", job'[j].request = r,
         job'[j].op = IF to = "CANCELLED" THEN "cancel" ELSE "decide",
         NEW b \in Bucket, BalanceIn(b)
  PROVE  BalanceIn(b)'
<1>1. \A s \in Requests : s # r => req'[s] = req[s]
  BY DEF LeaveInv, LeaveType, LeaveRequest
<1>2. PICK p \in Payloads : p = req[r].payload
  BY DEF LeaveInv, RequestsFit
<1>3. req'[r].payload = p /\ req'[r].status = to
  BY <1>2
<1>4. PICK m \in Nat : m = Cardinality(Share(p, b))
  BY ShareIs
<1>5. PICK t \in Nat : t = IF to = "APPROVED" THEN m ELSE 0
  OBVIOUS
<1>6. \A i \in Jobs : i # j => /\ Arriving(job'[i], b) = Arriving(job[i], b)
                               /\ Leaving(job'[i], req', b) = Leaving(job[i], req, b)
                               /\ Approving(job'[i], req', b) = Approving(job[i], req, b)
  BY <1>1, OthersOnTheirWay
<1>7. /\ Arriving(job[j], b) = {} /\ Leaving(job[j], req, b) = {}
      /\ Approving(job[j], req, b) = {}
  BY DEF Arriving, Leaving, Approving, Idle
<1>8. /\ Arriving(job'[j], b) = {} /\ Leaving(job'[j], req', b) = Share(p, b)
      /\ Approving(job'[j], req', b) = IF to = "APPROVED" THEN Share(p, b) ELSE {}
  BY <1>3 DEF Arriving, Leaving, Approving, OfRequest
<1>9. /\ OfRequest(req[r], "PENDING", b) = Share(p, b) /\ OfRequest(req[r], "APPROVED", b) = {}
      /\ OfRequest(req'[r], "PENDING", b) = {}
      /\ OfRequest(req'[r], "APPROVED", b) = IF to = "APPROVED" THEN Share(p, b) ELSE {}
  BY <1>2, <1>3 DEF OfRequest
<1>10. /\ Cardinality(Approving(job'[j], req', b)) = t
       /\ Cardinality(OfRequest(req'[r], "APPROVED", b)) = t
  BY <1>4, <1>5, <1>8, <1>9, EmptyShare
<1>11. /\ IsFiniteSet(Spread(Requests, Held("PENDING", b)))'
       /\ Area(Requests, Held("PENDING", b))' = Area(Requests, Held("PENDING", b)) - m + 0
  BY <1>1, <1>4, <1>9, HeldMoves, EmptyShare, ZenonT(60) DEF BalanceIn
<1>12. /\ IsFiniteSet(Spread(Requests, Held("APPROVED", b)))'
       /\ Area(Requests, Held("APPROVED", b))' = Area(Requests, Held("APPROVED", b)) - 0 + t
  BY <1>1, <1>9, <1>10, HeldMoves, EmptyShare, ZenonT(60) DEF BalanceIn
<1>13. /\ IsFiniteSet(Spread(Jobs, Arrivals(b)))'
       /\ Area(Jobs, Arrivals(b))' = Area(Jobs, Arrivals(b)) - 0 + 0
  BY <1>6, <1>7, <1>8, ArrivalsMove, EmptyShare, ZenonT(60) DEF BalanceIn
<1>14. /\ IsFiniteSet(Spread(Jobs, Leavings(b)))'
       /\ Area(Jobs, Leavings(b))' = Area(Jobs, Leavings(b)) - 0 + m
  BY <1>4, <1>6, <1>7, <1>8, LeavingsMove, EmptyShare, ZenonT(60) DEF BalanceIn
<1>15. /\ IsFiniteSet(Spread(Jobs, Approvals(b)))'
       /\ Area(Jobs, Approvals(b))' = Area(Jobs, Approvals(b)) - 0 + t
  BY <1>6, <1>7, <1>10, ApprovalsMove, EmptyShare, ZenonT(60) DEF BalanceIn
<1>16. Counters(b)' = Counters(b)
  BY DEF Counters
<1>17. /\ Counters(b).reserved + Area(Jobs, Arrivals(b)) =
            Area(Requests, Held("PENDING", b)) + Area(Jobs, Leavings(b))
       /\ Counters(b).consumed + Area(Jobs, Approvals(b)) = Area(Requests, Held("APPROVED", b))
  BY DEF BalanceIn
<1>18. /\ Counters(b)'.reserved + Area(Jobs, Arrivals(b))' =
            Area(Requests, Held("PENDING", b))' + Area(Jobs, Leavings(b))'
       /\ Counters(b)'.consumed + Area(Jobs, Approvals(b))' = Area(Requests, Held("APPROVED", b))'
  BY <1>11, <1>12, <1>13, <1>14, <1>15, <1>16, <1>17, NumbersOf
<1> QED
  BY <1>11, <1>12, <1>13, <1>14, <1>15, <1>18 DEF BalanceIn

LEMMA EntitlementOnly ==
  ASSUME NEW x \in Row \cup {Null}, NEW e \in Int, NEW y, y = Adjusted(x, e, 0, 0)
  PROVE  /\ y # Null /\ y.reserved = (IF x = Null THEN Zero ELSE x).reserved + 0
         /\ y.consumed = (IF x = Null THEN Zero ELSE x).consumed + 0
<1>1. 0 \in Int /\ 0 \in Nat
  OBVIOUS
<1>2. Adjusted(x, e, 0, 0) # Null
  BY <1>1, AdjustedIs
<1>3. Adjusted(x, e, 0, 0).reserved = (IF x = Null THEN Zero ELSE x).reserved + 0
  BY <1>1, AdjustedIs
<1>4. Adjusted(x, e, 0, 0).consumed = (IF x = Null THEN Zero ELSE x).consumed + 0
  BY <1>1, AdjustedIs
<1> QED
  BY <1>2, <1>3, <1>4

(* HR's write of a row that is there leaves what is reserved and consumed. *)
LEMMA SetEntitlementBalances ==
  ASSUME LeaveInv, QuotasGranted, NEW j \in Jobs, SetEntitlement(j),
         NEW b \in Bucket, BalanceIn(b)
  PROVE  BalanceIn(b)'
<1>1. /\ UNCHANGED req
      /\ \A i \in Jobs : job'[i] = IF i = j THEN Idle ELSE job[i]
      /\ job[j].op = "quota" /\ job[j].quota \in Nat
      /\ \A c \in Bucket : c # job[j].bucket => row'[c] = row[c]
      /\ row'[job[j].bucket] = Written(j)
  BY SetEntitlementKeeps
<1>2. PICK a \in Bucket : a = job[j].bucket /\ row[a] \in Row \cup {Null}
  BY SetEntitlementKeeps DEF LeaveInv, LeaveType
<1>3. job[j].pc = "write" /\ job[j].seen # Null
  BY <1>1, <1>2 DEF LeaveInv, LeaveJobsFit, LeaveJobFits, QuotasGranted
<1>4. PICK seen \in Row : seen = job[j].seen
  BY <1>3, SetEntitlementKeeps
<1>5. PICK e \in Int : e = job[j].quota - seen.entitlement
  BY <1>1 DEF Row
<1>6. PICK x \in Row \cup {Null} : x = row[a]
  BY <1>2
<1>7. PICK y : y = Adjusted(x, e, 0, 0)
  OBVIOUS
<1>8. row'[a] = y
  BY <1>1, <1>2, <1>3, <1>4, <1>5, <1>6, <1>7 DEF Written
<1>9. /\ y # Null /\ y.reserved = (IF x = Null THEN Zero ELSE x).reserved + 0
       /\ y.consumed = (IF x = Null THEN Zero ELSE x).consumed + 0
  BY <1>7, EntitlementOnly
<1>10. /\ Counters(b)'.reserved = Counters(b).reserved
       /\ Counters(b)'.consumed = Counters(b).consumed
  <2>1. CASE b = a
    <3>1. Counters(b) = (IF x = Null THEN Zero ELSE x) /\ Counters(b)' = y
      BY <1>6, <1>8, <1>9, <2>1 DEF Counters
    <3>2. Counters(b).reserved \in Int /\ Counters(b).consumed \in Int
      BY NumbersOf
    <3> QED
      BY <1>9, <3>1, <3>2
  <2>2. CASE b # a
    <3>1. Counters(b)' = Counters(b)
      BY <1>1, <1>2, <2>2 DEF Counters
    <3> QED
      BY <3>1
  <2> QED
    BY <2>1, <2>2
<1>11. \A i \in Jobs : job'[i] = job[i] \/ (job[i].pc # "event" /\ job'[i].pc # "event")
  BY <1>1, <1>3 DEF Idle
<1> QED
  BY <1>1, <1>10, <1>11, QuietSteps

LEMMA BalanceStep ==
  ASSUME LeaveInv, QuotasGranted, [LeaveNext]_leaveVars, [EditsKeepDays]_leaveVars,
         NEW b \in Bucket, BalanceIn(b)
  PROVE  BalanceIn(b)'
<1>1. ASSUME UNCHANGED <<req, row>>,
             \A i \in Jobs : job'[i] = job[i] \/ (job[i].pc # "event" /\ job'[i].pc # "event")
      PROVE  BalanceIn(b)'
  <2>1. Counters(b)' = Counters(b)
    BY <1>1 DEF Counters
  <2> QED
    BY <1>1, <2>1, QuietSteps
<1>2. ASSUME NEW j \in Jobs, JobStep(j)
      PROVE  BalanceIn(b)'
  <2>1. CASE FindRecord(j) \/ InsertRecord(j) \/ CountQuota(j)
    BY <1>1, <2>1, SyncKeeps
  <2> QED
    BY <1>2, <2>1, CreateBalances, ReserveBalances, ReleaseBalances, SettleBalances,
       SetEntitlementBalances
    DEF JobStep
<1>3. ASSUME NEW j \in Jobs, NEW r \in Requests, NEW p \in Payloads, BeginSubmit(j, r, p)
      PROVE  BalanceIn(b)'
  <2>1. PICK k : k = [Idle EXCEPT !.op = "submit", !.pc = "create", !.request = r, !.payload = p]
    OBVIOUS
  <2>2. k.pc # "event" /\ Idle.pc # "event"
    BY <2>1 DEF Idle
  <2>3. job' = [job EXCEPT ![j] = k] /\ job[j] = Idle /\ UNCHANGED <<req, row>>
    BY <1>3, <2>1 DEF BeginSubmit, Start
  <2>4. job'[j] = k /\ \A i \in Jobs : i # j => job'[i] = job[i]
    BY <2>3 DEF LeaveInv, LeaveType
  <2> QED
    BY <1>1, <2>2, <2>3, <2>4
<1>4. ASSUME NEW j \in Jobs, NEW r \in Requests, Cancel(j, r)
      PROVE  BalanceIn(b)'
  <2>1. PICK to \in {"APPROVED", "REJECTED", "CANCELLED"} : to = "CANCELLED"
    OBVIOUS
  <2>2. /\ LeaveInv' /\ UNCHANGED row
        /\ \A s \in Requests : /\ req'[s].status = IF s = r THEN to ELSE req[s].status
                               /\ req'[s].payload = req[s].payload
        /\ \A i \in Jobs \ {j} : job'[i] = job[i]
        /\ job[j] = Idle /\ req[r].status = "PENDING"
        /\ job'[j].op = "cancel" /\ job'[j].pc = "event" /\ job'[j].request = r
    BY <1>4, <2>1, CancelKeeps
  <2>3. job'[j].op = IF to = "CANCELLED" THEN "cancel" ELSE "decide"
    BY <2>1, <2>2
  <2> QED
    BY <2>2, <2>3, EndingBalances
<1>5. ASSUME NEW j \in Jobs, NEW r \in Requests, NEW dec \in {"APPROVED", "REJECTED"},
             Decide(j, r, dec)
      PROVE  BalanceIn(b)'
  <2>1. PICK to \in {"APPROVED", "REJECTED", "CANCELLED"} : to = dec
    OBVIOUS
  <2>2. /\ LeaveInv' /\ UNCHANGED row
        /\ \A s \in Requests : /\ req'[s].status = IF s = r THEN to ELSE req[s].status
                               /\ req'[s].payload = req[s].payload
        /\ \A i \in Jobs \ {j} : job'[i] = job[i]
        /\ job[j] = Idle /\ req[r].status = "PENDING"
        /\ job'[j].op = "decide" /\ job'[j].pc = "event" /\ job'[j].request = r
    BY <1>5, <2>1, DecideKeeps
  <2>3. job'[j].op = IF to = "CANCELLED" THEN "cancel" ELSE "decide"
    BY <1>5, <2>1, <2>2
  <2> QED
    BY <2>2, <2>3, EndingBalances
<1>6. ASSUME NEW j \in Jobs, NEW c \in Bucket, NEW n \in Quotas, BeginSetEntitlement(j, c, n)
      PROVE  BalanceIn(b)'
  BY <1>1, <1>6, BeginSetEntitlementKeeps DEF Idle
<1>7. ASSUME NEW r \in Requests, NEW p \in Payloads, Edit(r, p)
      PROVE  BalanceIn(b)'
  <2>1. CASE EditsKeepDays
    BY <1>7, <2>1, EditBalances
  <2>2. CASE UNCHANGED leaveVars
    BY <1>1, <2>2 DEF leaveVars
  <2> QED
    BY <2>1, <2>2
<1>8. ASSUME NEW d \in Dates, ClockIn(d)
      PROVE  BalanceIn(b)'
  BY <1>1, <1>8 DEF ClockIn
<1>9. CASE UNCHANGED leaveVars
  BY <1>1, <1>9 DEF leaveVars
<1> QED
  BY <1>2, <1>3, <1>4, <1>5, <1>6, <1>7, <1>8, <1>9 DEF LeaveNext

LEMMA NothingHeld ==
  ASSUME NEW K, NEW h, \A i \in K : h[i] = {}
  PROVE  IsFiniteSet(Spread(K, h)) /\ Area(K, h) = 0
<1>1. Spread(K, h) = {}
  BY DEF Spread
<1> QED
  BY <1>1, FS_EmptySet DEF Area

LEMMA BalanceInit ==
  ASSUME LeaveInit, NEW b \in Bucket
  PROVE  BalanceIn(b)
<1>1. ASSUME NEW status \in {"PENDING", "APPROVED"}
      PROVE  IsFiniteSet(Spread(Requests, Held(status, b))) /\ Area(Requests, Held(status, b)) = 0
  <2>1. PICK h : h = Held(status, b)
    OBVIOUS
  <2>2. \A r \in Requests : h[r] = {}
    BY <2>1 DEF LeaveInit, Held, OfRequest
  <2> QED
    BY <2>1, <2>2, NothingHeld
<1>2. \A j \in Jobs : job[j].pc # "event"
  BY DEF LeaveInit, Idle
<1>3. IsFiniteSet(Spread(Jobs, Arrivals(b))) /\ Area(Jobs, Arrivals(b)) = 0
  <2>1. PICK h : h = Arrivals(b)
    OBVIOUS
  <2>2. \A j \in Jobs : h[j] = {}
    BY <1>2, <2>1 DEF Arrivals, Arriving
  <2> QED
    BY <2>1, <2>2, NothingHeld
<1>4. IsFiniteSet(Spread(Jobs, Leavings(b))) /\ Area(Jobs, Leavings(b)) = 0
  <2>1. PICK h : h = Leavings(b)
    OBVIOUS
  <2>2. \A j \in Jobs : h[j] = {}
    BY <1>2, <2>1 DEF Leavings, Leaving
  <2> QED
    BY <2>1, <2>2, NothingHeld
<1>5. IsFiniteSet(Spread(Jobs, Approvals(b))) /\ Area(Jobs, Approvals(b)) = 0
  <2>1. PICK h : h = Approvals(b)
    OBVIOUS
  <2>2. \A j \in Jobs : h[j] = {}
    BY <1>2, <2>1 DEF Approvals, Approving
  <2> QED
    BY <2>1, <2>2, NothingHeld
<1>6. Counters(b).reserved = 0 /\ Counters(b).consumed = 0
  BY DEF LeaveInit, Counters, NewRow, Zero
<1> QED
  BY <1>1, <1>3, <1>4, <1>5, <1>6 DEF BalanceIn

(* With no event on its way, the counters are the days of the requests.    *)
LEMMA CountersOfRequests ==
  ASSUME LeaveInv, NEW b \in Bucket, BalanceIn(b), \A j \in Jobs : job[j].pc # "event"
  PROVE  /\ Counters(b).reserved = TotalDays(Of("PENDING", b))
         /\ Counters(b).consumed = TotalDays(Of("APPROVED", b))
<1>1. Area(Jobs, Arrivals(b)) = 0
  <2>1. PICK h : h = Arrivals(b)
    OBVIOUS
  <2>2. \A j \in Jobs : h[j] = {}
    BY <2>1 DEF Arrivals, Arriving
  <2> QED
    BY <2>1, <2>2, NothingHeld
<1>2. Area(Jobs, Leavings(b)) = 0
  <2>1. PICK h : h = Leavings(b)
    OBVIOUS
  <2>2. \A j \in Jobs : h[j] = {}
    BY <2>1 DEF Leavings, Leaving
  <2> QED
    BY <2>1, <2>2, NothingHeld
<1>3. Area(Jobs, Approvals(b)) = 0
  <2>1. PICK h : h = Approvals(b)
    OBVIOUS
  <2>2. \A j \in Jobs : h[j] = {}
    BY <2>1 DEF Approvals, Approving
  <2> QED
    BY <2>1, <2>2, NothingHeld
<1>4. ASSUME NEW status \in {"PENDING", "APPROVED"}
      PROVE  Area(Requests, Held(status, b)) = TotalDays(Of(status, b))
  <2>1. PICK h : h = Held(status, b)
    OBVIOUS
  <2>2. PICK pairs : pairs = UNION {{r} \X req[r].payload.dates : r \in Of(status, b)}
    OBVIOUS
  <2>3. ASSUME NEW x \in Spread(Requests, h)
        PROVE  x \in pairs
    <3>1. x[1] \in Requests /\ x = <<x[1], x[2]>> /\ x[2] \in h[x[1]]
      BY DEF Spread
    <3>2. PICK r \in Requests : r = x[1]
      BY <3>1
    <3>3. r \in Of(status, b) /\ x[2] \in req[r].payload.dates
      BY <2>1, <3>1, <3>2 DEF Held, OfRequest, Share, Of
    <3>4. x \in {r} \X req[r].payload.dates
      BY <3>1, <3>2, <3>3
    <3> QED
      BY <2>2, <3>3, <3>4
  <2>4. ASSUME NEW x \in pairs
        PROVE  x \in Spread(Requests, h)
    <3>1. PICK r \in Of(status, b) : x \in {r} \X req[r].payload.dates
      BY <2>2
    <3>2. /\ r \in Requests /\ req[r].status = status /\ BucketOf(req[r].payload) = b
          /\ req[r].payload \in Payloads
      BY DEF Of, LeaveInv, RequestsFit
    <3>3. h[r] = req[r].payload.dates /\ req[r].payload.dates \subseteq Dates
      BY <2>1, <3>2, PayloadFacts DEF Held, OfRequest, Share
    <3>4. x[1] = r /\ x[2] \in h[r] /\ x \in Requests \X Dates
      BY <3>1, <3>2, <3>3
    <3> QED
      BY <3>4 DEF Spread
  <2>5. Spread(Requests, h) = pairs
    BY <2>3, <2>4
  <2> QED
    BY <2>1, <2>2, <2>5 DEF Area, TotalDays
<1>5. /\ Counters(b).reserved + Area(Jobs, Arrivals(b)) =
           Area(Requests, Held("PENDING", b)) + Area(Jobs, Leavings(b))
      /\ Counters(b).consumed + Area(Jobs, Approvals(b)) = Area(Requests, Held("APPROVED", b))
  BY DEF BalanceIn
<1>6. /\ Counters(b).reserved = Area(Requests, Held("PENDING", b))
      /\ Counters(b).consumed = Area(Requests, Held("APPROVED", b))
  BY <1>1, <1>2, <1>3, <1>5, NumbersOf
<1> QED
  BY <1>4, <1>6

(* Where edits keep the bucket and the number of days, and HR sets the     *)
(* entitlement of rows that were granted, the counters agree with the      *)
(* requests once no event is on its way, in whatever order submissions,    *)
(* edits, decisions and cancellations reach them                           *)
(* (leave-balance.service.js onRequestSubmitted, onRequestCancelled,       *)
(* onRequestDecided).                                                      *)
THEOREM CountersMatchRequests ==
  ASSUME QuotasGranted
  PROVE  LeaveSpec /\ [][EditsKeepDays]_leaveVars => []BalanceMatchesRequests
<1>1. LeaveInit => BalanceInv
  BY BalanceInit DEF BalanceInv
<1>2. LeaveInv /\ BalanceInv /\ [LeaveNext]_leaveVars /\ [EditsKeepDays]_leaveVars => BalanceInv'
  <2> SUFFICES ASSUME LeaveInv, BalanceInv, [LeaveNext]_leaveVars, [EditsKeepDays]_leaveVars
               PROVE  \A b \in Bucket : BalanceIn(b)'
    BY DEF BalanceInv
  <2> QED
    BY BalanceStep DEF BalanceInv
<1>3. LeaveInv /\ BalanceInv => BalanceMatchesRequests
  BY CountersOfRequests DEF BalanceInv, BalanceMatchesRequests
<1> QED
  BY <1>1, <1>2, <1>3, LeaveInvariant, PTL DEF LeaveSpec
=============================================================================
