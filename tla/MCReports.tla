------------------------------ MODULE MCReports ------------------------------
(***************************************************************************)
(* Three people.  Each line, chart and set of role scopes a behaviour may  *)
(* begin with brings out one way of resolving who is seen.                 *)
(***************************************************************************)
EXTENDS Reports, TLC

CONSTANTS head, mid, worker

Line(h, m, w) == (head :> h) @@ (mid :> m) @@ (worker :> w)

Org(chart, department, scopes) == [chart |-> chart, department |-> department, scopes |-> scopes]

NoLine == Line(NoManager, NoManager, NoManager)
OneDepartment == Line(worker, NoManager, worker)

SomeLines ==
  {[manager |-> Line(mid, head, mid),
    org |-> Org(NoLine, OneDepartment,
                Line({"DIRECT_AND_INDIRECT_SUBORDINATES"}, {"DIRECT_SUBORDINATES"}, {"SELF"}))],
   [manager |-> NoLine,
    org |-> Org(Line(NoManager, head, mid), OneDepartment,
                Line({"DIRECT_AND_INDIRECT_SUBORDINATES", "DEPARTMENT"}, {"DEPARTMENT"},
                     {"ALL_EMPLOYEES"}))],
   [manager |-> Line(NoManager, head, head),
    org |-> Org(Line(NoManager, head, NoManager), OneDepartment,
                Line({"DIRECT_SUBORDINATES"}, {"SELF"}, {"DEPARTMENT"}))]}

ReportSymmetry == Permutations(ReportCalls)
=============================================================================
