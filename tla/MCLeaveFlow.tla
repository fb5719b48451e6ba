----------------------------- MODULE MCLeaveFlow -----------------------------
(***************************************************************************)
(* A small quota and calendar for LeaveFlow: dates 1 to 4, of this year.   *)
(* Annual leave has a quota, unpaid leave has none.                        *)
(***************************************************************************)
EXTENDS LeaveFlow, TLC

CONSTANTS annual, unpaid

Leave(t, n, D) == [type |-> t, named |-> n, year |-> ThisYear, dates |-> D]

(* Two leaves of the same length that overlap on date 2, the type of one   *)
(* named by its id, of the other by its key: an edit from one to the other *)
(* moves the dates and not the days.                                       *)
SameLength == {Leave(annual, "id", {1, 2}), Leave(annual, "key", {2, 3})}

(* Two leaves that overlap on date 2, and one without a quota.             *)
Overlapping == {Leave(annual, "id", {1, 2}), Leave(annual, "id", {2, 3}),
                Leave(unpaid, "id", {3})}

(* Four days of annual leave, its type named by key.                       *)
ByKey == {Leave(annual, "key", {1, 2, 3, 4})}

(* Three days of annual leave.                                             *)
ThreeDays ==
  [b \in Bucket |-> IF b = <<annual, ThisYear>> THEN 3 ELSE Null]

Symmetry == Permutations(Requests) \cup Permutations(Jobs)
=============================================================================
