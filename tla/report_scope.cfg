SPECIFICATION ReportsSpec
CONSTANTS
  head = head
  mid = mid
  worker = worker
  People = {head, mid, worker}
  NoManager = NoManager
  Everyone = Everyone
  LineSeeds <- SomeLines
  Searches = {{worker}, {head, worker}}
  ReportCalls = {c1, c2}
  ReportOps = {"report", "assign", "edit", "status"}
  MaxReportCalls = 2
  ReportsMayFail = TRUE
CHECK_DEADLOCK FALSE
SYMMETRY ReportSymmetry
INVARIANTS
  RowsInScope
