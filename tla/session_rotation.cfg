SPECIFICATION Spec
CONSTANTS
  ann = ann
  bob = bob
  s1 = s1
  s2 = s2
  Null = Null
  Users = {ann, bob}
  Sessions = {s1, s2}
  UserOf <- OneEach
  Tabs = {t1}
  Calls = {c1, c2}
  Flights = {f1, f2}
  MayReload = FALSE
  MayLose = TRUE
  MayIdle = FALSE
CHECK_DEADLOCK FALSE
SYMMETRY Symmetry
INVARIANTS
  RevokedOnlyBySignOut
  TokensInStep
