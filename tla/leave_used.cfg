SPECIFICATION LeaveSpec
CONSTANTS
  annual = annual
  unpaid = unpaid
  Null = Null
  Requests = {r1}
  Jobs = {j1}
  Types = {annual, unpaid}
  BalanceBased = {annual}
  Years = {1}
  ThisYear = 1
  Payloads <- Overlapping
  Granted <- ThreeDays
  Quotas = {}
  MayEdit = FALSE
CHECK_DEADLOCK FALSE
INVARIANTS
  UsedDaysCounted
