SPECIFICATION Spec
CONSTANTS
  ann = ann
  bob = bob
  admin = admin
  clerk = clerk
  manage = manage
  view = view
  Null = Null
  Users = {ann, bob}
  Roles = {admin, clerk}
  Perms = {manage, view}
  SuperAdmin = admin
  SystemRoles = {admin}
  PlatformPerms = {manage}
  Seeds <- Assignments
  Matrix <- Grants
  Calls = {c1, c2}
  Ops = {"perms"}
  MaxCalls = 1
  MaxStaged = 1
  MaxRoles = 1
  MayFail = FALSE
SYMMETRY CallSymmetry
CHECK_DEADLOCK FALSE
INVARIANTS
  SavedAsShown
