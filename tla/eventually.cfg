SPECIFICATION SceneSpec
CONSTANTS
  r1 = r1
  emp = emp
  app = app
  sup = sup
  Null = Null
  Requests = {r1}
  Users = {emp, app, sup}
  Handlers = {p1, p2}
  Payloads = {x}
  Requester <- OneRequester
  Eligible <- AllEligible
  InLine <- AllInLine
  Approvers = {app, sup}
  Overriders = {sup}
  HrAdmins = {}
  Delegations <- NoPairs
  Blocked = {r1}
  SelfApprovalAllowed = FALSE
  MayFail = FALSE
  MaxVersion = 3
  signin = signin
  change = change
  view = view
  None = None
  Publishers = {h1, h2}
  Events = {signin, change, view}
  SurfaceOf <- Surfaces
  Limit = 2
  MaxEvents = 2
  MaxFaults = 2
CHECK_DEADLOCK FALSE
INVARIANTS
  TimelineComplete
  ChainValid
  PublishedOnce
PROPERTIES
  EndAnnounced
  ImplementsRequestSpec
  Drained
