SPECIFICATION Spec
CONSTANTS
  ann = ann
  bob = bob
  admin = admin
  clerk = clerk
  manage = manage
  view = view
  Null = Null
  Users = {ann, bob}
  Roles = {admin, clerk}
  Perms = {manage, view}
  SuperAdmin = admin
  SystemRoles = {admin}
  PlatformPerms = {manage}
  Seeds <- Assignments
  Matrix <- Grants
  Calls = {c1, c2}
  Ops <- AllOps
  MaxCalls = 3
  MaxStaged = 1
  MaxRoles = 1
  MayFail = TRUE
SYMMETRY CallSymmetry
CHECK_DEADLOCK FALSE
INVARIANTS
  NoExcessRights
  EditOnSeen
PROPERTIES
  LastAdminStays
