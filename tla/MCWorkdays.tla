----------------------------- MODULE MCWorkdays -----------------------------
(***************************************************************************)
(* The two records of a working day, checked in one run: the scene is the  *)
(* counters that leave is taken from, or the attendance of one day.  Where *)
(* they meet, in the record that the sync of a leave inserts, each has the *)
(* other as its environment.                                               *)
(*                                                                         *)
(* A shift is normal from two units to three, so that shifts too short,    *)
(* normal and too long all occur.                                          *)
(***************************************************************************)
EXTENDS MCLeaveFlow, Attendance

VARIABLE scene

(* The handlers of both scenes are the same model values.                  *)
WorkdaySymmetry == Permutations(Requests) \cup Permutations(Jobs)

Init == scene \in {"leave", "attendance"} /\ LeaveInit /\ AttendanceInit

Next ==
  \/ scene = "leave" /\ LeaveNext /\ UNCHANGED <<scene, attendanceVars>>
  \/ scene = "attendance" /\ AttendanceNext /\ UNCHANGED <<scene, leaveVars>>

Spec == Init /\ [][Next]_<<scene, leaveVars, attendanceVars>>

(* The type invariants of the components.                                  *)
TypeOK == LeaveTypeOK /\ AttendanceTypeOK
=============================================================================
