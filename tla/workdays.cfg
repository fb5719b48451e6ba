SPECIFICATION Spec
CONSTANTS
  annual = annual
  unpaid = unpaid
  Null = Null
  Requests = {r1, r2}
  Jobs = {j1, j2}
  Types = {annual, unpaid}
  BalanceBased = {annual}
  Years = {1}
  ThisYear = 1
  Payloads <- SameLength
  Granted <- ThreeDays
  Quotas = {4}
  MayEdit = TRUE
  Unset = Unset
  Handlers = {j1, j2}
  DayEnd = 2
  UtcDayEnd = 3
  MaxTime = 4
  MinShift = 2
  MaxShift = 2
  MayLeave = TRUE
  Corrected = {1, 3, Unset}
  MaxVersion = 3
CHECK_DEADLOCK FALSE
SYMMETRY WorkdaySymmetry
INVARIANTS
  BalanceMatchesRequests
  NoOverbook
  ExceptionsFollow
  LedgerAccounts
PROPERTIES
  AttendanceKept
  OneWorkPeriod
