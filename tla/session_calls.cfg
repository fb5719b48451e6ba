SPECIFICATION FairSpec
CONSTANTS
  ann = ann
  bob = bob
  s1 = s1
  s2 = s2
  Null = Null
  Users = {ann, bob}
  Sessions = {s1}
  UserOf <- AnnOnly
  Tabs = {t1, t2}
  Calls = {c1, c2}
  Flights = {f1}
  MayReload = TRUE
  MayLose = TRUE
  MayIdle = TRUE
CHECK_DEADLOCK FALSE
PROPERTIES
  CallEnds
