-------------------------------- MODULE Routes --------------------------------
(***************************************************************************)
(* Who may call what: the permissions each route of the server asks for,   *)
(* the seeded roles, and the navigation the server offers.                 *)
(*                                                                         *)
(* A call is named as the browser's client names it.  What a route asks    *)
(* for is a set of needs, one for each authorize(...) before its handler,  *)
(* and a need is the set of permissions of which one is enough: {} is a    *)
(* route that only authenticates.  Routers are mounted in an order in      *)
(* which no earlier route swallows a later one of another need.            *)
(***************************************************************************)
EXTENDS Sequences

(* Calls that share their needs.                                           *)
Needing(calls, needs) == {[calls |-> calls, needs |-> needs]}

ManageSettings == {{"platform:settings"}}

----------------------------------------------------------------------------
(* The routes, file by file.                                               *)

REVIEW_OR_APPROVE_KEYS ==
  {"leave:review", "leave:approve", "overtime:review", "overtime:approve", "trip:review",
   "trip:approve", "permission:approve", "sakit:approve"}

APPROVE_KEYS ==
  {"leave:approve", "overtime:approve", "trip:approve", "permission:approve",
   "sakit:approve", "approval:override"}

ApprovalRoutes ==
  UNION {Needing({"approval.unified", "approval.history", "approval.blockedReason",
                  "approval.drillDown", "approval.decide"}, {APPROVE_KEYS}),
         Needing({"approval.inbox"}, {REVIEW_OR_APPROVE_KEYS}),
         Needing({"approval.escalate"}, {})}

CutoffAdminRoutes ==
  Needing({"cutoff.list", "cutoff.upsert", "cutoff.remove"}, ManageSettings)

EscalationRoutes ==
  Needing({"escalation.get", "escalation.update", "escalation.check"}, ManageSettings)

VIEW_OWN_KEYS ==
  {"leave:view_own", "overtime:view_own", "trip:view_own", "permission:view_own",
   "sakit:view_own"}

SUBMIT_KEYS ==
  {"leave:submit", "overtime:submit", "trip:submit", "permission:submit", "sakit:submit"}

VIEW_VISIBLE_KEYS ==
  {"leave:view_all", "overtime:view_all", "trip:view_all", "permission:view_all",
   "sakit:view_all"}

RequestRoutes ==
  UNION {Needing({"request.mine"}, {}),
         Needing({"request.visible", "request.getVisible"}, {VIEW_VISIBLE_KEYS}),
         Needing({"request.get"}, {VIEW_OWN_KEYS}),
         Needing({"approval.requestHistory", "request.approvalHistory"}, {VIEW_OWN_KEYS \cup
                  APPROVE_KEYS}),
         Needing({"request.edit", "request.cancel"}, {SUBMIT_KEYS}),
         Needing({"request.claim", "request.approve", "request.reject"}, {APPROVE_KEYS})}

LeaveRoutes ==
  UNION {Needing({"leaveType.listActive"}, {{"leave:submit", "users:view"}}),
         Needing({"leaveType.suggest", "request.submitLeave"}, {{"leave:submit"}}),
         Needing({"leaveBalance.listByUser"}, {{"leave:view_balances"}})}

OvertimeRoutes == Needing({"request.submitOvertime"}, {{"overtime:submit"}})

TripRoutes == Needing({"request.submitTrip"}, {{"trip:submit"}})

PermissionRoutes == Needing({"permission.submit"}, {{"permission:submit"}})

SakitRoutes == Needing({"request.submitSakit"}, {{"sakit:submit"}})

SicknessTypeRoutes ==
  UNION {Needing({"sicknessType.list"}, {}),
         Needing({"sicknessType.suggest"}, {{"sakit:submit"}})}

ApprovalTargetRoutes == Needing({"approvalTarget.list"}, {SUBMIT_KEYS})

ApprovalConfigurationRoutes ==
  Needing({"approvalConfig.list", "approvalConfig.get", "approvalConfig.update"},
          {{"approval_config:manage"}})

RoutingAdminRoutes == Needing({"routingAdmin.get", "routingAdmin.update"}, ManageSettings)

DelegationRoutes ==
  UNION {Needing({"delegation.list"}, {}),
         Needing({"delegation.create", "delegation.revoke"}, {{"delegation:manage"}})}

AttachmentRoutes ==
  UNION {Needing({"attachment.upload"}, {{"files:upload"}}),
         Needing({"attachment.list", "attachment.download"}, {{"files:download"}}),
         Needing({"attachment.remove"}, {{"files:delete"}})}

AttendanceRoutes ==
  UNION {Needing({"attendance.clockIn", "attendance.uploadMedia"},
                  {{"attendance:clock_in"}}),
         Needing({"attendance.clockOut"}, {{"attendance:clock_out"}}),
         Needing({"attendance.getMedia", "attendance.get"}, {{"attendance:view_own",
                  "attendance:view_all"}}),
         Needing({"attendance.me"}, {{"attendance:view_own"}}),
         Needing({"attendance.today"}, {{"attendance:clock_in", "attendance:view_own"}}),
         Needing({"attendance.overview"}, {{"attendance:view_all"}}),
         Needing({"attendance.correct"}, {{"attendance:correct"}})}

AuditRoutes ==
  Needing({"audit.listEvents", "audit.verifyChain", "audit.exportEvents",
           "audit.listActivity"}, {{"audit:view"}})

AuthRoutes ==
  Needing({"auth.getSession", "auth.signOutAll", "auth.changePassword"}, {})

PlatformRoutes ==
  UNION {Needing({"passwordPolicy.get"}, {}),
         Needing({"passwordPolicy.update", "settings.list", "settings.update"},
                  ManageSettings)}

BrandingRoutes ==
  Needing({"branding.get", "branding.update", "branding.uploadLogo", "branding.removeLogo"},
          ManageSettings)

NavigationRoutes == Needing({"navigation", "access.check"}, {})

NotificationRoutes ==
  Needing({"notification.list", "notification.unreadCount", "notification.markRead",
           "notification.markAllRead", "notification.preferences",
           "notification.updatePreferences"}, {})

DashboardRoutes ==
  UNION {Needing({"dashboard.me"}, {{"dashboard:view"}}),
         Needing({"dashboard.hr"}, {{"dashboard:view"}, {"attendance:view_all",
                  "reporting:view"}})}

ProfileRoutes ==
  UNION {Needing({"profile.get"}, {{"profile:view"}}),
         Needing({"profile.update"}, {{"profile:update"}})}

ReportRoutes == Needing({"report.types", "report.preview", "report.export"},
                         {{"reporting:view"}})

ReportingRoutes ==
  UNION {Needing({"reporting.assignManager"}, {{"users:edit"}}),
         Needing({"reporting.directReports"}, {{"team:view_team", "users:view"}}),
         Needing({"reporting.managerHistory"}, {{"users:view"}})}

ManagerTeamRoutes ==
  UNION {Needing({"managerTeam.getTeamOverview"}, {{"team:view_team"},
                  {"team:view_pending"}}),
         Needing({"managerTeam.getTeamMember"}, {{"team:view_team"}})}

SalarySlipRoutes ==
  UNION {Needing({"salarySlip.upload", "salarySlip.listAll"}, {{"salary:manage"}}),
         Needing({"salarySlip.listMine"}, {{"salary:view_own"}}),
         Needing({"salarySlip.download"}, {{"salary:view_own", "salary:manage"}})}

UserRoutes ==
  UNION {Needing({"auth.me"}, {}), Needing({"users.list", "users.get"}, {{"users:view"}}),
         Needing({"users.create"}, {{"users:create"}}),
         Needing({"users.update", "users.updateWorkSchedule", "users.leaveQuota",
                  "users.activate"}, {{"users:edit"}}),
         Needing({"users.deactivate"}, {{"users:deactivate"}}),
         Needing({"users.resetPassword"}, {{"users:reset_password"}})}

RbacRoutes ==
  UNION {Needing({"rbac.listRoles", "rbac.getRole"}, {{"rbac:view_roles"}}),
         Needing({"rbac.permissions", "rbac.userPermissions"}, {{"rbac:view_permissions"}}),
         Needing({"rbac.assignRoles"}, {{"users:assign_roles"}})}

RbacAdminRoutes ==
  UNION {Needing({"rbac.getMeta", "rbac.getAdminRole", "rbac.copyRole"},
                  {{"rbac:view_roles"}}),
         Needing({"rbac.getMatrix"}, {{"rbac:view_roles"}, {"rbac:view_permissions"}}),
         Needing({"rbac.createRole", "rbac.updateRole", "rbac.validateRole",
                  "rbac.disableRole", "rbac.enableRole"}, {{"rbac:manage_roles"}}),
         Needing({"rbac.previewRole", "rbac.getEffectivePermissions"},
                  {{"rbac:view_permissions"}}),
         Needing({"rbac.setPermissions"}, {{"rbac:manage_permissions"}})}

ContractTypeRoutes == Needing({"contractType.list"}, {})

PlacementRoutes == Needing({"placement.list"}, {})

(* The four registries an administrator keeps have the same five routes.   *)
Registry(name) ==
  Needing({name \o op : op \in {".list", ".create", ".update", ".activate", ".deactivate"}},
          ManageSettings)

LeaveTypeAdminRoutes == Registry("leaveTypeAdmin")

SicknessTypeAdminRoutes == Registry("sicknessTypeAdmin")

ContractTypeAdminRoutes == Registry("contractTypeAdmin")

PlacementAdminRoutes == Registry("placementAdmin")

HierarchyRoutes ==
  UNION {Needing({"hierarchy.list", "hierarchy.listPlacements", "hierarchy.get",
                  "hierarchy.eligibleUsers", "hierarchy.history"}, {{"hierarchy:view",
                  "hierarchy:manage"}}),
         Needing({"hierarchy.create", "hierarchy.addNode", "hierarchy.removeNode",
                  "hierarchy.activate", "hierarchy.archive"}, {{"hierarchy:manage"}})}

OrgRoutes ==
  UNION {Needing({"org.departments", "org.activeDepartments"}, {{"org:manage_departments",
                  "users:view"}}),
         Needing({"org.createDepartment", "org.updateDepartment",
                  "org.deactivateDepartment", "org.activateDepartment"},
                  {{"org:manage_departments"}}),
         Needing({"org.positions", "org.activePositions"}, {{"org:manage_positions",
                  "users:view"}}),
         Needing({"org.createPosition", "org.updatePosition", "org.deactivatePosition",
                  "org.activatePosition"}, {{"org:manage_positions"}})}

(* The composition root mounts them all.                                   *)
Mounted ==
  UNION {ApprovalRoutes, CutoffAdminRoutes, EscalationRoutes, RequestRoutes, LeaveRoutes,
         OvertimeRoutes, TripRoutes, PermissionRoutes, SakitRoutes, SicknessTypeRoutes,
         ApprovalTargetRoutes, ApprovalConfigurationRoutes, RoutingAdminRoutes,
         DelegationRoutes, AttachmentRoutes, AttendanceRoutes, AuditRoutes, AuthRoutes,
         PlatformRoutes, BrandingRoutes, NavigationRoutes, NotificationRoutes,
         DashboardRoutes, ProfileRoutes, ReportRoutes, ReportingRoutes, ManagerTeamRoutes,
         SalarySlipRoutes, UserRoutes, RbacRoutes, RbacAdminRoutes, ContractTypeRoutes,
         PlacementRoutes, LeaveTypeAdminRoutes, SicknessTypeAdminRoutes,
         ContractTypeAdminRoutes, PlacementAdminRoutes, HierarchyRoutes, OrgRoutes}

(* authorize: each middleware grants on any of its permissions, and all    *)
(* must grant.  ("*" is a permission no role can be given.)                *)
Authorized(call, rights) ==
  \E route \in Mounted :
    call \in route.calls /\ \A need \in route.needs : need \cap rights # {}

(* What a user who has to set a password can reach when the gate is on.    *)
FIRST_SIGN_IN_GATE_EXEMPT ==
  {"auth.changePassword", "auth.getSession", "auth.signOut", "auth.signOutAll"}

----------------------------------------------------------------------------
(* The seeded roles.                                                       *)

EmployeePermissions ==
  {"dashboard:view", "profile:view", "profile:update", "attendance:clock_in",
   "attendance:clock_out", "attendance:view_own", "overtime:submit", "overtime:view_own",
   "trip:submit", "trip:view_own", "leave:submit", "leave:view_own", "permission:submit",
   "permission:view_own", "sakit:submit", "sakit:view_own", "leave:view_balances",
   "files:upload", "files:download", "mfa:manage", "salary:view_own"}

ManagerPermissions ==
  EmployeePermissions \cup VIEW_VISIBLE_KEYS \cup (APPROVE_KEYS \ {"approval:override"})
  \cup {"attendance:view_all", "attendance:review_exceptions", "overtime:review", "trip:review",
        "leave:review", "permission:review", "sakit:review", "team:view_team",
        "team:view_pending", "delegation:manage", "approval:delegate", "reporting:view",
        "reporting:export_excel", "reporting:export_pdf"}

HrPermissions ==
  EmployeePermissions \cup VIEW_VISIBLE_KEYS \cup (APPROVE_KEYS \ {"approval:override"})
  \cup {"attendance:view_all", "attendance:correct", "overtime:review", "overtime:manage",
        "trip:review", "leave:review", "leave:manage_balances", "permission:review",
        "sakit:review", "users:view", "users:create", "users:edit", "users:deactivate",
        "users:reset_password", "users:assign_roles", "users:import",
        "org:manage_departments", "org:manage_positions", "reporting:view",
        "reporting:export_excel", "reporting:export_pdf", "reporting:drill_down",
        "reporting:view_all_statuses", "calendar:manage_holidays", "files:delete",
        "rbac:view_roles", "rbac:view_permissions", "hierarchy:view", "hierarchy:manage",
        "audit:view"}

(* Every registered permission, as far as a route or a page asks for it.   *)
AllPermissions ==
  ManagerPermissions \cup HrPermissions
  \cup {"approval:override", "approval_config:manage", "platform:settings", "salary:manage",
        "rbac:manage_roles", "rbac:manage_permissions"}

ROLE_SEED ==
  [EMPLOYEE |-> EmployeePermissions, MANAGER |-> ManagerPermissions,
   HR_ADMIN |-> HrPermissions, SUPER_ADMIN |-> AllPermissions]

(* Effective permissions are those of all roles a user has.                *)
Rights(roles) == UNION {ROLE_SEED[r] : r \in roles}

(* The leaves of the navigation, and the permissions that show each.       *)
Leaf(page, anyOf) == [page |-> page, anyOf |-> anyOf]

EmployeeNavigation ==
  {Leaf("dashboard", {"dashboard:view"}),
   Leaf("myRequests", {"leave:view_own", "overtime:view_own", "trip:view_own", "sakit:view_own"}),
   Leaf("notifications", {"dashboard:view"}),
   Leaf("attendance", {"attendance:clock_in", "attendance:view_own", "attendance:view_all"}),
   Leaf("overtime", {"overtime:submit", "overtime:view_own", "overtime:view_all"}),
   Leaf("trip", {"trip:submit", "trip:view_own", "trip:view_all"}),
   Leaf("salarySlips", {"salary:view_own", "salary:manage"}),
   Leaf("leave", {"leave:submit", "leave:view_own", "leave:view_all"}),
   Leaf("permission", {"permission:submit", "permission:view_own", "permission:view_all"}),
   Leaf("sakit", {"sakit:submit", "sakit:view_own", "sakit:view_all"})}

ManagementNavigation ==
  {Leaf("users", {"users:view"}),
   Leaf("approvals", APPROVE_KEYS),
   Leaf("inbox", APPROVE_KEYS),
   Leaf("approvalHistory", APPROVE_KEYS),
   Leaf("reports", {"reporting:view"})}

AdministrationNavigation ==
  {Leaf("rbac", {"rbac:view_roles"}),
   Leaf("approvalConfig", {"approval_config:manage"}),
   Leaf("master", {"platform:settings"}),
   Leaf("hierarchy", {"hierarchy:view", "hierarchy:manage"}),
   Leaf("settings", {"platform:settings"}),
   Leaf("profile", {"profile:view"})}

NAVIGATION_CATALOG ==
  EmployeeNavigation \cup ManagementNavigation \cup AdministrationNavigation

(* A leaf shows on any of its permissions; groups follow their leaves.     *)
CanView(rights, anyOf) == anyOf \cap rights # {}

NavigationFor(rights) ==
  {leaf.page : leaf \in {l \in NAVIGATION_CATALOG : CanView(rights, l.anyOf)}}
=============================================================================
