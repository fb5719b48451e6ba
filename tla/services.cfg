SPECIFICATION Spec
CONSTANTS
  Logins = {c1, c2}
  LoginOps <- AllLoginOps
  MaxLogins = 4
  MaxFailed = 2
  MfaRequired = TRUE
  CallsMayFail = TRUE
  FileCalls = {c1, c2}
  Panels = {p1, p2}
  MaxFiles = 2
  MaxFileCalls = 4
  FilesMayFail = TRUE
  boss = boss
  lead = lead
  staff = staff
  site = site
  Users = {boss, lead, staff}
  Scopes = {site}
  Null = Null
  AnyRole = AnyRole
  Approvers = {boss, lead}
  Contract <- OneContract
  Seeds <- SomeSeeds
  Pages = {p1, p2}
  Jobs = {c1, c2}
  JobOps <- AllJobOps
  Named = {boss, AnyRole, Null}
  MaxJobs = 3
  ChartMayFail = TRUE
  head = head
  mid = mid
  worker = worker
  People = {head, mid, worker}
  NoManager = NoManager
  Everyone = Everyone
  LineSeeds <- SomeLines
  Searches = {{worker}, {head, worker}}
  ReportCalls = {c1, c2}
  ReportOps = {"report", "assign", "edit", "status"}
  MaxReportCalls = 2
  ReportsMayFail = TRUE
  Points = {p1, p2}
  GeoCalls = {c1, c2}
  Deadlines = {2, 4}
  MinInterval = 2
  Timeout = 2
  MaxClock = 4
  MaxGeoCalls = 2
  CacheMayFail = TRUE
SYMMETRY SceneSymmetry
CHECK_DEADLOCK FALSE
INVARIANTS
  TypeOK
  RecoveryHolds
  LockHolds
  TemporaryMustChange
  FileOfRecord
  NothingLeft
  EditsKeepOthers
  HistoryChains
  EditedAsSeen
  RoutedAbove
  ReportsHold
  GeocodingHolds
