SPECIFICATION Spec
CONSTANTS
  RoleSets <- SeededSets
  EnforceGate = TRUE
  MaxChanges = 1
  NoMenu = NoMenu
  None = None
  MaxVisits = 2
  MaxShots = 2
  MaxAsks = 2
  call1 = call1
  call2 = call2
  Senders <- TwoCalls
  Requester = Requester
  Boss = Boss
  Nobody = Nobody
  Toggled <- OneEach
  MaxEvents = 2
  Escalators <- TwoCalls
  Window = 1
  MaxRecent = 3
  MaxPending = 1
  MaxTime = 3
  MaxCalls = 5
CHECK_DEADLOCK FALSE
SYMMETRY CallSymmetry
INVARIANTS
  ServedAsShown
  MenuIsRouter
  PanelHolds
  ToldOnce
  EscalationsLimited
