------------------------------- MODULE MCScreens -------------------------------
(***************************************************************************)
(* What people see and set off, checked in one run.  The scene is chosen   *)
(* at the start and only its component moves: the pages and the shell, the *)
(* clock panel, the notifications, or the escalation of a request.         *)
(*                                                                         *)
(* In the pages' scene a person has any one of the seeded roles, or is a   *)
(* manager who works for HR as well.                                       *)
(***************************************************************************)
EXTENDS Screens, ClockPanel, Notices, Escalation, TLC

CONSTANTS call1, call2

VARIABLE scene

SeededSets ==
  {{"EMPLOYEE"}, {"MANAGER"}, {"HR_ADMIN"}, {"SUPER_ADMIN"},
   {"MANAGER", "HR_ADMIN"}}

(* The requester opts out of one type, the superior of another.            *)
OneEach(u) == IF u = Requester THEN {"decided"} ELSE {"cancelled"}

TwoCalls == {call1, call2}
CallSymmetry == Permutations(TwoCalls)

(* The tables agree for every combination of the seeded roles.             *)
ASSUME TablesAgree

Init ==
  /\ scene \in {"pages", "panel", "notices", "escalation"}
  /\ ScreensInit /\ (scene # "pages" => held = {"EMPLOYEE"} /\ ~mustChange)
  /\ ClockPanelInit
  /\ NoticesInit /\ (scene # "notices" => approver = Nobody /\ manager = Nobody)
  /\ EscalationInit

Others(s) ==
  /\ s # "pages" => UNCHANGED screenVars
  /\ s # "panel" => UNCHANGED panelVars
  /\ s # "notices" => UNCHANGED noticeVars
  /\ s # "escalation" => UNCHANGED escalationVars

Next ==
  /\ \/ scene = "pages" /\ ScreensNext
     \/ scene = "panel" /\ ClockPanelNext
     \/ scene = "notices" /\ NoticesNext
     \/ scene = "escalation" /\ EscalationNext
  /\ Others(scene) /\ UNCHANGED scene

Spec == Init /\ [][Next]_<<scene, screenVars, panelVars, noticeVars, escalationVars>>
=============================================================================
