SPECIFICATION Spec
CONSTANTS
  r1 = r1
  emp = emp
  app = app
  sup = sup
  Null = Null
  Requests = {r1}
  Users = {emp, app, sup}
  Handlers = {p1, p2}
  Payloads = {x}
  Requester <- OneRequester
  Eligible <- AllEligible
  InLine <- AllInLine
  Approvers = {emp, app, sup}
  Overriders = {sup}
  HrAdmins = {emp}
  Delegations <- ToRequester
  Blocked = {}
  SelfApprovalAllowed = FALSE
  MayFail = TRUE
  MaxVersion = 3
CHECK_DEADLOCK FALSE
SYMMETRY HandlerSymmetry
INVARIANTS TypeOK DecisionAgrees NoSelfDecision DeciderEntitled OneEndTold
