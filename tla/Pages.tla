--------------------------------- MODULE Pages ---------------------------------
(***************************************************************************)
(* What each page of the browser client calls, as the permissions the      *)
(* shell holds show it.  A screen is the calls it sends by itself while it *)
(* is open, the sequences of calls its buttons and dialogs offer (each     *)
(* call awaits the one before, and a refusal ends the sequence), and the   *)
(* pages it links to.                                                      *)
(***************************************************************************)
EXTENDS Routes

Screen(opens, offers, links) == [opens |-> opens, offers |-> offers, links |-> links]

Nothing == Screen({}, {}, {})
Loads(calls) == Screen(calls, {}, {})
Offers(sequences) == Screen({}, sequences, {})
Buttons(calls) == Offers({<<c>> : c \in calls})
Links(pages) == Screen({}, {}, pages)

(* Parts shown together.                                                   *)
All(parts) ==
  Screen(UNION {s.opens : s \in parts}, UNION {s.offers : s \in parts},
         UNION {s.links : s \in parts})

(* A dialog that a click opens.                                            *)
Behind(part) == Screen({}, part.offers \cup {<<c>> : c \in part.opens}, part.links)

(* lib/permission.ts: any of them is enough.                               *)
HasPermission(r, anyOf) == anyOf \cap r # {}

(* <Can>                                                                   *)
Can(r, permission, part) == IF HasPermission(r, {permission}) THEN part ELSE Nothing

----------------------------------------------------------------------------
(* Parts that several pages share.                                         *)

LeaveTypeNames == Loads({"leaveType.listActive"})
TypeNames == All({LeaveTypeNames, Loads({"sicknessType.list"})})

ContractTypeSelect == Loads({"contractType.list"})
PlacementSelect == Loads({"placement.list"})

RequestAttachments ==
  All({Loads({"attachment.list"}), Buttons({"attachment.download"})})

RequestDetailDialog(visible) ==
  Behind(All({Loads({IF visible THEN "request.getVisible" ELSE "request.get"}),
              TypeNames, RequestAttachments}))

ApprovalTargetSelector == Loads({"approvalTarget.list"})

(* The fields of a leave: its type, the quota left, a type of one's own.   *)
LeaveFields ==
  All({LeaveTypeNames, Loads({"leaveBalance.listByUser"}),
       Offers({<<"leaveType.suggest", "leaveType.listActive">>})})

(* The form of the module pages; only overtime takes no document.          *)
RequestForm(type, submit) ==
  All({ApprovalTargetSelector, IF type = "LEAVE" THEN LeaveFields ELSE Nothing,
       Offers({IF type = "OVERTIME" THEN <<submit>> ELSE <<submit, "attachment.upload">>})})

(* A list of one's own requests or, with the permission, of those in one's *)
(* scope; every row can be opened and every pending one has a cancel       *)
(* button, whoever's it is.                                                *)
RequestList(r, viewPermission) ==
  LET canViewSubordinates == HasPermission(r, {viewPermission}) IN
  All({Loads({IF canViewSubordinates THEN "request.visible" ELSE "request.mine"}),
       IF canViewSubordinates THEN Buttons({"request.mine"}) ELSE Nothing,
       RequestDetailDialog(FALSE),
       IF canViewSubordinates THEN RequestDetailDialog(TRUE) ELSE Nothing})

CancelConfirmDialog == Buttons({"request.cancel"})

RequestModulePage(r, type, submit, submitPermission, viewPermission) ==
  All({RequestList(r, viewPermission), LeaveTypeNames, CancelConfirmDialog,
       Can(r, submitPermission, RequestForm(type, submit))})

----------------------------------------------------------------------------
(* Everyone's pages.                                                       *)

QuickActions(r) ==
  Links({page \in {"attendance", "leave", "overtime", "trip"} :
           CASE page = "attendance" -> HasPermission(r, {"attendance:clock_in",
                                                          "attendance:clock_out"})
             [] OTHER -> page \o ":submit" \in r})

AttendanceStatusCard(r) == Can(r, "attendance:clock_in", Links({"attendance"}))

PersonalDashboard(r) ==
  All({Loads({"dashboard.me"}), AttendanceStatusCard(r), QuickActions(r)})

HrDashboard == All({Loads({"dashboard.hr"}), Links({"inbox"})})

Dashboard(r) ==
  IF HasPermission(r, {"attendance:view_all", "reporting:view"})
  THEN HrDashboard ELSE PersonalDashboard(r)

(* The photograph is uploaded once for clocking in and out.                *)
AttendanceVerificationPanel(r) ==
  All({Loads({"attendance.today"}),
       Can(r, "attendance:clock_in",
           Offers({<<"attendance.uploadMedia", "attendance.clockIn">>})),
       Can(r, "attendance:clock_out",
           Offers({<<"attendance.uploadMedia", "attendance.clockOut">>,
                   <<"attendance.clockOut">>}))})

AttendanceDetailDialog == Buttons({"attendance.getMedia"})

MyAttendanceHistory == All({Loads({"attendance.me"}), AttendanceDetailDialog})

(* The correction is offered to whoever sees the overview.                 *)
CorrectionDialog == Buttons({"attendance.correct"})

AttendanceOverview ==
  All({Loads({"attendance.overview"}), CorrectionDialog, AttendanceDetailDialog})

Attendance(r) ==
  IF HasPermission(r, {"attendance:view_all"}) THEN AttendanceOverview
  ELSE All({AttendanceVerificationPanel(r), MyAttendanceHistory})

Leave(r) == RequestModulePage(r, "LEAVE", "request.submitLeave", "leave:submit", "leave:view_all")

Overtime(r) ==
  RequestModulePage(r, "OVERTIME", "request.submitOvertime", "overtime:submit",
                    "overtime:view_all")

BusinessTrip(r) ==
  RequestModulePage(r, "TRIP", "request.submitTrip", "trip:submit", "trip:view_all")

PermissionForm ==
  All({ApprovalTargetSelector, Offers({<<"permission.submit", "attachment.upload">>})})

CancelPermissionDialog == Buttons({"request.cancel"})

PermissionList(r) == All({RequestList(r, "permission:view_all"), CancelPermissionDialog})

PermissionPage(r) ==
  All({PermissionList(r),
       Can(r, "permission:submit", PermissionForm)})

(* A sickness type that is not in the list is suggested first.             *)
SakitForm ==
  All({ApprovalTargetSelector, Buttons({"sicknessType.suggest"}),
       Offers({<<"request.submitSakit", "attachment.upload">>})})

CancelSakitDialog == Buttons({"request.cancel"})

SakitList(r) == All({RequestList(r, "sakit:view_all"), CancelSakitDialog})

Sakit(r) ==
  All({Loads({"sicknessType.list"}), SakitList(r),
       Can(r, "sakit:submit", SakitForm)})

RequestHistoryList ==
  All({Loads({"request.mine"}), LeaveTypeNames, RequestDetailDialog(FALSE)})

SlipUpload == All({Loads({"users.list"}), Buttons({"salarySlip.upload"})})
SlipsSent == Loads({"salarySlip.listAll"})

SalarySlipsPage(r) ==
  All({Loads({"salarySlip.listMine"}), Buttons({"salarySlip.download"}),
       Can(r, "salary:manage", All({SlipUpload, SlipsSent}))})

Profile(r) ==
  All({Loads({"profile.get"}), Can(r, "profile:update", Buttons({"profile.update"}))})

NotificationInboxPage ==
  All({Loads({"notification.list", "notification.preferences"}),
       Buttons({"notification.markRead", "notification.markAllRead",
                "notification.updatePreferences"})})

----------------------------------------------------------------------------
(* Approvals.                                                              *)

APPROVE_ANY == APPROVE_KEYS

(* Some request may be of a type its holder approves.                      *)
CanDecide(r) == HasPermission(r, APPROVE_ANY)
CanClaim(r) == ~HasPermission(r, {"approval:override"}) /\ HasPermission(r, APPROVE_ANY)

RequestDecisionDialog(r) ==
  IF CanDecide(r) THEN Buttons({"request.approve", "request.reject"}) ELSE Nothing

ClaimButton(r) == IF CanClaim(r) THEN Buttons({"request.claim"}) ELSE Nothing

EscalateDialog == Buttons({"approval.escalate"})

RequestDrillDownDialog(r) ==
  Behind(All({Loads({"approval.drillDown"}), TypeNames, RequestAttachments,
              ClaimButton(r), RequestDecisionDialog(r)}))

(* A row of the table, pending or decided.                                 *)
UnifiedApprovalRow(r) ==
  All({TypeNames, RequestDrillDownDialog(r), RequestDecisionDialog(r), ClaimButton(r),
       EscalateDialog})

UnifiedApprovalPage(r) ==
  All({Loads({"approval.unified"}), Buttons({"approval.history"}), UnifiedApprovalRow(r)})

RequestDecisionCard ==
  Behind(All({Loads({"approval.requestHistory"}), TypeNames, Buttons({"approval.decide"})}))

ApprovalInboxPage == All({Loads({"approval.inbox"}), TypeNames, RequestDecisionCard})

HistoryDetailDialog == Buttons({"approval.requestHistory"})

ApprovalHistoryPage == All({Loads({"approval.history"}), HistoryDetailDialog})

----------------------------------------------------------------------------
(* Administration.                                                         *)

CreateUserDialog ==
  Behind(All({Loads({"rbac.listRoles"}), ContractTypeSelect, PlacementSelect,
              Buttons({"users.create"})}))

(* Saving updates the person, the schedule and, when they were changed,    *)
(* the roles.                                                              *)
SaveUser(r) ==
  All({Offers({<<"users.update", "users.updateWorkSchedule">>}),
       Can(r, "users:assign_roles",
           Offers({<<"users.update", "users.updateWorkSchedule", "rbac.assignRoles">>}))})

EditUserDialog(r, readOnly) ==
  Behind(All({Loads({"rbac.listRoles", "leaveBalance.listByUser"}), LeaveTypeNames,
              ContractTypeSelect, PlacementSelect,
              IF readOnly THEN Nothing ELSE SaveUser(r)}))

DeactivateConfirmDialog == Buttons({"users.deactivate"})
ResetPasswordDialog == Buttons({"users.resetPassword"})

UserRow(r) ==
  All({Can(r, "users:view", EditUserDialog(r, TRUE)),
       Can(r, "users:edit", All({EditUserDialog(r, FALSE), Buttons({"users.activate"})})),
       Can(r, "users:deactivate", DeactivateConfirmDialog),
       Can(r, "users:reset_password", ResetPasswordDialog)})

UsersPage(r) ==
  All({Loads({"users.list"}), ContractTypeSelect, PlacementSelect,
       Can(r, "users:create", CreateUserDialog), UserRow(r)})

(* The wizard can start from a copy, and is validated before it saves.     *)
WizardSections == Buttons({"rbac.copyRole", "rbac.validateRole"})
RoleWizard == All({WizardSections, Buttons({"rbac.createRole"})})

RenameRoleDialog == Buttons({"rbac.updateRole"})

RoleListPanel(r) ==
  Can(r, "rbac:manage_roles",
      All({Buttons({"rbac.disableRole", "rbac.enableRole"}), RenameRoleDialog}))

EffectivePermissionViewer == Buttons({"rbac.getEffectivePermissions"})

(* Permissions can be toggled, and then applied, only with the right to.   *)
PermissionChangeBar(r) ==
  Can(r, "rbac:manage_permissions", Buttons({"rbac.setPermissions"}))

RbacConsolePage(r) ==
  All({Loads({"rbac.listRoles", "rbac.getMatrix", "rbac.getMeta"}), RoleListPanel(r),
       Can(r, "rbac:manage_roles", RoleWizard), PermissionChangeBar(r),
       EffectivePermissionViewer})

ConfigSection == Buttons({"approvalConfig.update"})

ApprovalConfigPage == All({Loads({"approvalConfig.list", "rbac.listRoles"}), ConfigSection})

(* One registry: the list, the form and the switch of each entry.          *)
MasterDataPanel(registry) ==
  Offers({<<registry \o op, registry \o ".list">> :
            op \in {".create", ".activate", ".deactivate"}})

MasterDataPage ==
  LET registries == {"leaveTypeAdmin", "sicknessTypeAdmin", "contractTypeAdmin",
                     "placementAdmin"} IN
  All({Loads({n \o ".list" : n \in registries})} \cup {MasterDataPanel(n) : n \in registries})

BrandingSettingsPanel ==
  All({Loads({"branding.get"}), Buttons({"branding.uploadLogo", "branding.removeLogo"}),
       Offers({<<"branding.update", "branding.get">>})})

PlatformSettings ==
  All({Loads({"passwordPolicy.get"}), Buttons({"passwordPolicy.update"}),
       Behind(BrandingSettingsPanel)})

(* The editor's buttons ask for no permission of their own.                *)
NodeInsertDialog == All({Buttons({"hierarchy.eligibleUsers"}), Buttons({"hierarchy.addNode"})})
DeleteNodeDialog == Buttons({"hierarchy.removeNode"})

HierarchyEditor ==
  All({Buttons({"hierarchy.listPlacements", "hierarchy.eligibleUsers", "hierarchy.create",
                "hierarchy.activate"}), NodeInsertDialog, DeleteNodeDialog})

HierarchyPage ==
  All({Loads({"contractType.list", "hierarchy.list", "placement.list"}),
       Buttons({"hierarchy.activate", "hierarchy.archive"}), HierarchyEditor})

ExportButton(r) == Can(r, "reporting:export_excel", Buttons({"report.export"}))

ReportCenterPage(r) ==
  All({Loads({"report.types", "report.preview"}), ExportButton(r)})

(* The page a required change of password leads to.                        *)
ChangePasswordForm ==
  All({Loads({"passwordPolicy.get"}), Offers({<<"auth.changePassword", "auth.getSession">>})})

NotificationBell ==
  All({Loads({"notification.unreadCount"}), Buttons({"notification.list",
                                                      "notification.markRead"})})

----------------------------------------------------------------------------
(* AppRouter: the permissions each page asks of the shell, any of them.    *)

EmployeePages ==
  {Leaf("dashboard", {"dashboard:view"}),
   Leaf("attendance", {"attendance:clock_in", "attendance:view_own", "attendance:view_all"}),
   Leaf("overtime", {"overtime:submit", "overtime:view_own", "overtime:view_all"}),
   Leaf("trip", {"trip:submit", "trip:view_own", "trip:view_all"}),
   Leaf("leave", {"leave:submit", "leave:view_own", "leave:view_all"}),
   Leaf("permission", {"permission:submit", "permission:view_own", "permission:view_all"}),
   Leaf("sakit", {"sakit:submit", "sakit:view_own", "sakit:view_all"}),
   Leaf("salarySlips", {"salary:view_own", "salary:manage"}),
   Leaf("myRequests", {"leave:view_own", "overtime:view_own", "trip:view_own", "sakit:view_own"}),
   Leaf("notifications", {"dashboard:view"})}

OtherPages ==
  {Leaf("users", {"users:view"}),
   Leaf("reports", {"reporting:view"}),
   Leaf("profile", {"profile:view"}),
   Leaf("rbac", {"rbac:view_roles"}),
   Leaf("settings", {"platform:settings"}),
   Leaf("approvalConfig", {"approval_config:manage"}),
   Leaf("master", {"platform:settings"}),
   Leaf("hierarchy", {"hierarchy:view", "hierarchy:manage"}),
   Leaf("approvals", APPROVE_KEYS),
   Leaf("inbox", APPROVE_KEYS),
   Leaf("approvalHistory", APPROVE_KEYS)}

AppRouter == EmployeePages \cup OtherPages
RouterPages == {leaf.page : leaf \in AppRouter}

(* The pages a table admits somebody to.                                   *)
Visible(table, r) == {leaf.page : leaf \in {l \in table : HasPermission(r, l.anyOf)}}

RequirePermission(r) == Visible(AppRouter, r)

(* The sidebar of the client, shown when the server's cannot be fetched.   *)
MENU ==
  {IF leaf.page \in {"approvals", "inbox", "approvalHistory"}
   THEN Leaf(leaf.page, leaf.anyOf \ {"approval:override"}) ELSE leaf : leaf \in AppRouter}

FilterSidebarItems(r) == Visible(MENU, r)

PageOf(page, r) ==
  CASE page = "dashboard" -> Dashboard(r)
    [] page = "attendance" -> Attendance(r)
    [] page = "overtime" -> Overtime(r)
    [] page = "trip" -> BusinessTrip(r)
    [] page = "leave" -> Leave(r)
    [] page = "permission" -> PermissionPage(r)
    [] page = "sakit" -> Sakit(r)
    [] page = "salarySlips" -> SalarySlipsPage(r)
    [] page = "myRequests" -> RequestHistoryList
    [] page = "notifications" -> NotificationInboxPage
    [] page = "profile" -> Profile(r)
    [] page = "users" -> UsersPage(r)
    [] page = "reports" -> ReportCenterPage(r)
    [] page = "rbac" -> RbacConsolePage(r)
    [] page = "settings" -> PlatformSettings
    [] page = "approvalConfig" -> ApprovalConfigPage
    [] page = "master" -> MasterDataPage
    [] page = "hierarchy" -> HierarchyPage
    [] page = "approvals" -> UnifiedApprovalPage(r)
    [] page = "inbox" -> ApprovalInboxPage
    [] page = "approvalHistory" -> ApprovalHistoryPage
    [] page = "changePassword" -> ChangePasswordForm
    [] OTHER -> Nothing

(* A page inside the layout, with the sidebar and the bell around it.      *)
MainLayout(page, r) ==
  IF page \in RouterPages \cup {"forbidden"}
  THEN All({Loads({"navigation"}), NotificationBell, PageOf(page, r)})
  ELSE PageOf(page, r)
=============================================================================
