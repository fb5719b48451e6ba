----------------------------- MODULE Attendance -----------------------------
(***************************************************************************)
(* The attendance record of one employee and one work day: clocking in and *)
(* out (attendance.service.js clockIn, clockOut), the corrections HR makes *)
(* (correct), and approved leave that may claim the day.  Handlers         *)
(* interleave at their database calls: a clock-out saves a record it read  *)
(* earlier, a correction is guarded by the version it read.                *)
(*                                                                         *)
(* The clock counts in the unit that clockOut adds to keep a period from   *)
(* being empty; the bounds of a normal shift are constants.  Location,     *)
(* camera, device, schedule and punctuality are left out.                  *)
(***************************************************************************)
EXTENDS Integers, Sequences, FiniteSets

CONSTANTS
  Handlers,
  DayEnd,        \* the last instant of the work day
  UtcDayEnd,     \* the last instant of the UTC day of the same date
  MaxTime,       \* bound: the clock stops here
  MinShift, MaxShift,
  Corrected,     \* bound: the instants a field is corrected to, or Unset
  MayLeave,      \* may a leave covering the day be approved?
  MaxVersion,    \* bound: corrections + 1
  Unset

Time == 0 .. MaxTime

ASSUME AttendanceAssumption ==
  /\ MaxTime \in Nat /\ {DayEnd, UtcDayEnd} \subseteq Time /\ MaxVersion \in Nat \ {0}
  /\ MinShift \in Nat /\ MaxShift \in Nat
  /\ MayLeave \in BOOLEAN /\ Unset \notin Int /\ Corrected \subseteq Time \cup {Unset}

VARIABLES
  now,       \* the clock
  record,    \* the attendance document of the day, or Unset
  leave,     \* is a leave that covers the day approved?
  shiftJob,       \* shiftJob[h]: a handler under way
  ledger,    \* the append-only corrections
  shiftOverlap    \* observer: has a call begun while another was under way?

attendanceVars == <<now, record, leave, shiftJob, ledger, shiftOverlap>>

Field == {"clockInAt", "clockOutAt"}
Exception == {"MISSING_CLOCK_OUT", "MISSING_CLOCK_IN", "ANOMALY"}
Instant == 0 .. MaxTime + 1 \* clockOut may be one past the clock

Record ==
  [clockInAt : Instant \cup {Unset}, clockOutAt : Instant \cup {Unset},
   status : {"NORMAL", "EXCEPTION", "LEAVE"}, exceptions : SUBSET Exception,
   version : 1 .. MaxVersion]
ASSUME AttendanceNoRecord == Unset \notin Record

NewRecord == [clockInAt |-> Unset, clockOutAt |-> Unset, status |-> "NORMAL",
              exceptions |-> {}, version |-> 1]

ShiftJob == [op : {"none", "in", "out", "correct"},
        pc : {"none", "write", "refresh", "ledger"},
        seen : Record \cup {Unset}, field : Field \cup {Unset},
        old : Instant \cup {Unset}, new : Instant \cup {Unset}]
NoShiftJob == [op |-> "none", pc |-> "none", seen |-> Unset, field |-> Unset,
         old |-> Unset, new |-> Unset]

AttendanceInit ==
  /\ now = 0
  /\ record = Unset
  /\ leave = FALSE
  /\ shiftJob = [h \in Handlers |-> NoShiftJob]
  /\ ledger = <<>>
  /\ shiftOverlap = FALSE

ShiftQuiet == \A h \in Handlers : shiftJob[h] = NoShiftJob

StartShiftCall(h, next) ==
  /\ shiftJob[h] = NoShiftJob
  /\ shiftJob' = [shiftJob EXCEPT ![h] = next]
  /\ shiftOverlap' = (shiftOverlap \/ ~ShiftQuiet)
EndShiftCall(h) == shiftJob' = [shiftJob EXCEPT ![h] = NoShiftJob]
ShiftAt(h, op, pc) == shiftJob[h].op = op /\ shiftJob[h].pc = pc

(* computeExceptions, as refreshExceptions calls it: without the offset of *)
(* the company, so that the day of an open shift is over when it is over   *)
(* in UTC.                                                                 *)
Exceptions(r) ==
  LET in == r.clockInAt
      out == r.clockOutAt
  IN
  {x \in Exception :
     \/ x = "MISSING_CLOCK_OUT" /\ out = Unset /\ now > UtcDayEnd
     \/ x = "MISSING_CLOCK_IN" /\ out # Unset /\ in = Unset
     \/ /\ x = "ANOMALY" /\ in # Unset /\ out # Unset
        /\ out - in < MinShift \/ out - in > MaxShift}
StatusOf(exceptions) == IF exceptions = {} THEN "NORMAL" ELSE "EXCEPTION"

(* save of a document: only what differs from how it was loaded is written *)
(* over what is stored.                                                    *)
Saved(seen, fresh) ==
  [f \in DOMAIN record |-> IF fresh[f] = seen[f] THEN record[f] ELSE fresh[f]]
Refreshed(r) ==
  [r EXCEPT !.exceptions = Exceptions(r), !.status = StatusOf(Exceptions(r))]

----------------------------------------------------------------------------
(* The employee.                                                           *)

(* clockIn up to its create: no record yet, no leave.                      *)
BeginClockIn(h) ==
  /\ now <= DayEnd /\ record = Unset /\ ~leave
  /\ StartShiftCall(h, [NoShiftJob EXCEPT !.op = "in", !.pc = "write"])
  /\ UNCHANGED <<now, record, leave, ledger>>

(* Mutant of CreateRecord: the create replaces a record that is there.     *)
ReplaceWorkRecord(h) ==
  /\ ShiftAt(h, "in", "write")
  /\ record' = [NewRecord EXCEPT !.clockInAt = now]
  /\ EndShiftCall(h)
  /\ UNCHANGED <<now, leave, ledger, shiftOverlap>>

(* The unique index on user and date refuses a second record.              *)
CreateRecord(h) ==
  /\ ShiftAt(h, "in", "write")
  /\ record' = IF record = Unset THEN [NewRecord EXCEPT !.clockInAt = now]
               ELSE record
  /\ EndShiftCall(h)
  /\ UNCHANGED <<now, leave, ledger, shiftOverlap>>

(* clockOut up to its save.  A record that is not a LEAVE record is open   *)
(* to it whether the day is covered by a leave or not; one without a       *)
(* clock-in ends the call in an error.                                     *)
BeginClockOut(h) ==
  /\ now <= DayEnd /\ record # Unset
  /\ record.status # "LEAVE" /\ record.clockOutAt = Unset /\ record.clockInAt # Unset
  /\ StartShiftCall(h, [NoShiftJob EXCEPT !.op = "out", !.pc = "write", !.seen = record,
                           !.new = IF now > record.clockInAt THEN now
                                   ELSE record.clockInAt + 1])
  /\ UNCHANGED <<now, record, leave, ledger>>

(* Mutant of SaveClockOut: the exceptions are not computed again.          *)
SaveClockOutOnly(h) ==
  /\ ShiftAt(h, "out", "write")
  /\ record' = [record EXCEPT !.clockOutAt = shiftJob[h].new]
  /\ EndShiftCall(h)
  /\ UNCHANGED <<now, leave, ledger, shiftOverlap>>

SaveClockOut(h) ==
  LET seen == shiftJob[h].seen IN
  /\ ShiftAt(h, "out", "write")
  /\ record' = Saved(seen, Refreshed([seen EXCEPT !.clockOutAt = shiftJob[h].new]))
  /\ EndShiftCall(h)
  /\ UNCHANGED <<now, leave, ledger, shiftOverlap>>

----------------------------------------------------------------------------
(* HR corrects one field.                                                  *)

(* correct up to applyCorrection; the caller's old value is the current    *)
(* one.                                                                    *)
BeginCorrect(h, field, new) ==
  /\ record # Unset /\ record.version < MaxVersion
  /\ StartShiftCall(h, [op |-> "correct", pc |-> "write", seen |-> record,
               field |-> field, old |-> record[field], new |-> new])
  /\ UNCHANGED <<now, record, leave, ledger>>

(* Mutant of ApplyCorrection: the version is not compared.                *)
ApplyUnguarded(h) ==
  /\ ShiftAt(h, "correct", "write")
  /\ record' = [record EXCEPT ![shiftJob[h].field] = shiftJob[h].new, !.version = @ + 1]
  /\ shiftJob' = [shiftJob EXCEPT ![h].pc = "refresh", ![h].seen = record']
  /\ UNCHANGED <<now, leave, ledger, shiftOverlap>>

(* The write is taken only on the version that was read; it returns the    *)
(* document as it has become.                                              *)
ApplyCorrection(h) ==
  /\ ShiftAt(h, "correct", "write")
  /\ IF record.version = shiftJob[h].seen.version
     THEN /\ record' = [record EXCEPT ![shiftJob[h].field] = shiftJob[h].new,
                                      !.version = @ + 1]
          /\ shiftJob' = [shiftJob EXCEPT ![h].pc = "refresh", ![h].seen = record']
     ELSE /\ UNCHANGED record
          /\ EndShiftCall(h)
  /\ UNCHANGED <<now, leave, ledger, shiftOverlap>>

(* Mutant of RefreshExceptions: the second save bumps the version as well.  *)
RefreshAndBump(h) ==
  LET seen == shiftJob[h].seen IN
  /\ ShiftAt(h, "correct", "refresh")
  /\ record' = [Saved(seen, Refreshed(seen)) EXCEPT !.version = @ + 1]
  /\ shiftJob' = [shiftJob EXCEPT ![h].pc = "ledger"]
  /\ UNCHANGED <<now, leave, ledger, shiftOverlap>>

(* The exceptions follow in a save of their own.                           *)
RefreshExceptions(h) ==
  LET seen == shiftJob[h].seen IN
  /\ ShiftAt(h, "correct", "refresh")
  /\ record' = Saved(seen, Refreshed(seen))
  /\ shiftJob' = [shiftJob EXCEPT ![h].pc = "ledger"]
  /\ UNCHANGED <<now, leave, ledger, shiftOverlap>>

RecordCorrection(h) ==
  /\ ShiftAt(h, "correct", "ledger")
  /\ ledger' = Append(ledger, [field |-> shiftJob[h].field, old |-> shiftJob[h].old,
                               new |-> shiftJob[h].new])
  /\ EndShiftCall(h)
  /\ UNCHANGED <<now, record, leave, shiftOverlap>>

----------------------------------------------------------------------------
(* A leave that covers the day is approved, then the sync creates the      *)
(* LEAVE record if there is none (createLeaveIfAbsent).                    *)
ApproveLeave ==
  /\ MayLeave /\ ~leave
  /\ leave' = TRUE
  /\ UNCHANGED <<now, record, shiftJob, ledger, shiftOverlap>>

SyncLeave ==
  /\ leave /\ record = Unset
  /\ record' = [NewRecord EXCEPT !.status = "LEAVE"]
  /\ UNCHANGED <<now, leave, shiftJob, ledger, shiftOverlap>>

Tick ==
  /\ now < MaxTime
  /\ now' = now + 1
  /\ UNCHANGED <<record, leave, shiftJob, ledger, shiftOverlap>>

Step(h) ==
  \/ CreateRecord(h) \/ SaveClockOut(h)
  \/ ApplyCorrection(h) \/ RefreshExceptions(h) \/ RecordCorrection(h)

AttendanceNext ==
  \/ Tick \/ ApproveLeave \/ SyncLeave
  \/ \E h \in Handlers :
       \/ Step(h) \/ BeginClockIn(h) \/ BeginClockOut(h)
       \/ \E field \in Field, new \in Corrected :
            BeginCorrect(h, field, new)

AttendanceSpec == AttendanceInit /\ [][AttendanceNext]_attendanceVars

----------------------------------------------------------------------------
AttendanceTypeOK ==
  /\ now \in Time
  /\ record \in Record \cup {Unset}
  /\ leave \in BOOLEAN /\ shiftOverlap \in BOOLEAN
  /\ shiftJob \in [Handlers -> ShiftJob]
  /\ ledger \in Seq([field : Field, old : Instant \cup {Unset},
                     new : Instant \cup {Unset}])

(* However many clock-ins race, the day has one work period: once there is *)
(* a record, only a correction changes its clock-in                        *)
(* (attendance.service.js clockIn, attendance.model.js unique index).      *)
OneWorkPeriod ==
  [][record # Unset =>
       /\ record' # Unset
       /\ \/ record'.clockInAt = record.clockInAt
          \/ record'.version = record.version + 1]_attendanceVars

(* Of a day whose calls did not overlap, the exceptions of a closed period *)
(* are those its instants imply, in whatever order clock-outs, corrections *)
(* and the leave sync came (attendance.service.js refreshExceptions).      *)
ExceptionsFollow ==
  ~shiftOverlap /\ ShiftQuiet /\ record # Unset /\ record.clockOutAt # Unset =>
    /\ record.exceptions = Exceptions(record)
    /\ record.status = StatusOf(record.exceptions)

(* However corrections race, once they are done every version of the       *)
(* record has its ledger entry, and the entries of the clock-in form one   *)
(* chain: at most one starts from a value that no entry set, and the       *)
(* record holds a value that one set (attendance.service.js correct,       *)
(* attendance.repository.js applyCorrection).                              *)
LedgerAccounts ==
  LET of == {i \in DOMAIN ledger : ledger[i].field = "clockInAt"}
      Source(i) == \A k \in of : k # i => ledger[k].new # ledger[i].old
  IN
  ShiftQuiet /\ record # Unset =>
    /\ Len(ledger) = record.version - 1
    /\ of # {} => \E i \in of : ledger[i].new = record.clockInAt
    /\ Cardinality({i \in of : Source(i)}) <= 1
=============================================================================
