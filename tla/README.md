# Verification of the attendance and approval system

TLA+ models, TLC runs and TLAPS proofs for the HR system of this repository: a
Node/Express/Mongoose backend (`src/backend`) and a React frontend
(`src/frontend`).  Employees clock in and out and submit requests for leave,
overtime, trips, permission and sickness; approvers claim and decide them; HR
corrects attendance and sets quotas; administrators give roles and draw
hierarchy charts; every operation is audited.

All lines below are of the repository at this commit.  `B/` stands for
`src/backend/src/` and `F/` for `src/frontend/src/`.

## 1. The system

### How it runs

One Node process serves all HTTP requests.  A handler runs without interruption
up to its next `await`; at an `await` any other handler may run.  Almost every
`await` is a MongoDB call, and a MongoDB call on one document is atomic.  So the
unit of interleaving, in nearly every module here, is *the code between two
database calls*, and the hard questions are about what a handler read before an
`await` and relies on after it.  There are no multi-document transactions.

Mongoose models have `versionKey: false`: a `save()` writes the paths that were
modified and compares nothing.  Where the code wants a guard it makes one by
hand, with a `version` field (requests, attendance corrections, roles, charts)
or with a unique index (one attendance record for each user and date).

Domain events go through `B/infrastructure/event-bus.js`: in process, not
durable, subscribers awaited one after the other in the order the composition
root (`src/backend/server.js`) constructed them; a subscriber that throws is
logged and skipped.  A handler that dies takes its unpublished events with it.

The browser keeps copies: the tokens in local storage, the user and permissions
in the shell, answers in a query cache.  What a page shows is computed from
copies that the server may have outgrown.

### Components

State, operations and what makes each part correct.  The `components` list of
`PROJECT.json` names the files of each, and says of each what is left out.

| component | state | operations | hard behaviour | correct when |
|---|---|---|---|---|
| Request lifecycle | one `requests` document per request with a version; `request_events` | submit (DRAFT, then PENDING), cancel, edit, transition | read - check - guarded write, with the timeline, audit and bus afterwards | one end per request, final; the timeline and the bus tell of what happened |
| Approval decisions | - (acts on requests) | decide, inbox, history | checks made on a read older than the write's | only the entitled decide, nobody their own |
| Approval engine | approval block of a request | claim, approve, reject, assignment of a submission | claim guarded by assignment, not by version | one winner of a claim |
| Delegation | delegations with a window | create, revoke, resolve effective approver | revoked between check and write | a delegate stands in for the approver only |
| Event bus | subscriber lists | publish | loss, order | an end that is written is announced |
| Sessions, tokens | `sessions`, `refresh_tokens` (families) | sign-in, rotation with reuse detection, sign-out, authenticate | first-use test and write are two awaits | one live token per session; revoked only for cause |
| Browser client | stored refresh token (shared by tabs), page memory, refresh promise | API call, single-flight refresh, retry, bootstrap, sign-out | concurrent 401s, reloads, tabs, lost answers | every call ends; the stored token is never a spent one |
| Leave submission, balances, sync, quota mirror | `leave_balances` counters, attendance records, `usedDays` | submit check, reserve, release, consume, setEntitlement, date-by-date sync | check-then-reserve, events out of order | counters equal the days of requests; nothing is over-booked or overwritten |
| Attendance | one record per user and day, correction ledger | clockIn, clockOut, correct | saves of stale documents beside version-guarded corrections | one work period; ledger accounts for every version; exceptions follow the instants |
| Clock panel | camera, position, picture, submission of one page visit | start, capture, retake, locate, submit, leave | answers of the browser after the panel has gone | the camera stops with the panel; the record has its evidence |
| Audit capture | outbox, hash-chained `audit_events`, `activity_logs` | publish, claim, append, mark | concurrent appends, failures, restarts | the chain verifies; published means recorded; nothing stranded |
| Roles, permissions, users, role console | roles, `user_roles`, `role_permissions`, users | replace role sets, save the matrix, enable, rename, deactivate, bump tokenVersion | delete-then-insert, stale documents, last super admin | rights end when they are taken; somebody can always administer |
| Password, lockout, recovery, MFA | users, `recoverytokens`, sessions | sign-in, change, reset, recover, enrol, confirm | load - hash - save | a recovery closes what was open; a lock and a temporary password hold |
| Attachments, salary slips, branding | files and the documents that name them | upload, delete, logo and draft | file and record are two writes | a record never names a file that is gone |
| Hierarchy charts, approval routing | versioned node lists with a history | create, add, remove, activate, archive; targets and assignment of a request | compare-and-set on the page's version, history written after | a chart stays what its editor saw; a request goes to superiors |
| Reports, reporting line | data scopes, charts, `managerId` with history | who is seen, preview, export, assignManager | a line that changes while it is walked | rows are of people who are seen |
| Reverse geocoder | queue, cache, last request | resolveMany, enrichLocations | timeouts, deadlines, the interval of the provider | one request at a time, after the interval, not for what is cached |
| Notifications | inboxes, preferences | deliver, read, opt out | deliveries interleave, one throws in the middle | whoever is due is told once |
| Escalation | escalations | escalate, sweep | count-then-create limit | at most the limit in a window |
| HTTP surface, pages, navigation, seed | routes and their permissions, four copies of a person's rights | every call of every page | copies that differ | what is shown is granted |
| Rate limiter, cutoff and business rules, other request types, master data, unwired services, contracts | see section 8 | | | |

Interactions that matter: decisions call `RequestService.transition`, which
publishes `request.decided`; the leave balances, the attendance sync, the quota
mirror and notifications subscribe to it, in that order.  Submissions of leave
read the balance their own event later changes, and are routed by the hierarchy
chart.  Attendance asks for approved leave before a clock-in, and the leave sync
writes attendance.  A change of roles takes effect through the version in the
access tokens that sessions renew.  Reports are narrowed by the chart or the
reporting line and wait for the geocoder.  Every operation records through the
audit pipeline.  The browser's refresh races the server's rotation.

## 2. The modules

| module | models | source |
|---|---|---|
| `RequestSpec` | what the lifecycle promises: atomic steps, final ends | `B/domain/request.js` |
| `RequestLifecycle` | the handlers that implement it | `request.service.js`, `approval.service.js`, `approval-engine.service.js`, `delegation.service.js`, `request.repository.js`, `request-event.repository.js` |
| `ClientSession` | the browser's refresh and the server's rotation | `F/lib/axios.ts`, `F/features/auth/AuthProvider.tsx`, `session.service.js`, `refresh-token.repository.js`, `auth.middleware.js` |
| `LeaveFlow` | quota check, counters, attendance sync, quota mirror | `leave.service.js`, `leave-balance.service.js`, `attendance-leave-sync.service.js`, `leave-quota.service.js` |
| `Attendance` | one employee's day | `attendance.service.js`, `attendance.repository.js`, `domain/attendance.js` |
| `AuditPipeline` | outbox, audit chain, activity log | `audit-publisher.js`, `outbox.repository.js`, `audit-event.repository.js` |
| `AccessControl` | users, roles, the matrix, the console that edits it, and access tokens | `user-admin.service.js`, `role-admin.service.js`, `rbac.service.js`, `auth.service.js`, `F/features/rbac-admin/RbacConsolePage.tsx` |
| `Credentials` | password, lockout, recovery, second factor, sessions of one account | `auth.service.js`, `password.service.js`, `recovery.service.js`, `mfa.service.js` |
| `StoredFiles` | files and the records that name them | `attachment.service.js`, `salary-slip.service.js`, `branding.service.js`, `BrandingSettingsPanel.tsx` |
| `OrgChart` | charts, the pages that edit them, the routing of requests | `hierarchy.service.js`, `domain/hierarchy.js`, `HierarchyPage.tsx`, `approval-engine.service.js` |
| `Reports` | whose rows a report shows, and the reporting line | `hierarchy-scope.service.js`, `report.service.js`, `report-providers.js`, `reporting-line.service.js` |
| `Geocoder` | the addresses in a report | `reverse-geocoder.js`, `location-geocode.repository.js` |
| `Routes` | what every mounted route asks for, the seeded roles, the server's navigation | `presentation/routes`, `navigation.service.js`, `domain/permissions.js`, `bootstrap` |
| `Pages` | what every page, dialog and button calls, and who is shown it | `F/pages`, `F/features`, `F/components`, `F/constants/sidebar.ts`, `F/routes` |
| `Screens` | a person at those pages while roles and password change | `AuthProvider.tsx`, `F/features/auth/guards.tsx`, `auth.middleware.js` |
| `ClockPanel` | camera, position and submission of the clock page | `useAttendanceVerification.ts`, `AttendanceVerificationPanel.tsx` |
| `Notices` | inboxes, preferences, deliveries | `notification.service.js`, the inbox page and the bell |
| `Escalation` | the limit on escalations, and the sweep | `approval.service.js`, `escalation.service.js` |

Eight modules hold theorems; section 5 lists them.

`RequestLifecycle`, `ClientSession`, `LeaveFlow`, `AccessControl`, `OrgChart`
and `Reports` have an `MC...` module with the values TLC needs.  Four more put
components together:

- `MCRequestAudit` (`RequestLifecycle`, `AuditPipeline`), `MCWorkdays` (`LeaveFlow`,
  `Attendance`), `MCServices` (`Credentials`,
  `StoredFiles`, `OrgChart`, `Reports`, `Geocoder`) and `MCScreens` (`Screens`,
  `ClockPanel`, `Notices`, `Escalation`) have a variable `scene`.  It is chosen
  in the initial state and never changes, and only the component of the scene
  moves, from the one initial state of all the others: so the states of the
  components add up and do not multiply.  These components share no state, so
  nothing is lost by it.  Every scene has its own properties.  Where a scene
  needs fairness (`MCRequestAudit`), no fair step of the other one is enabled in
  the state it stays in.

The `map` of `PROJECT.json` gives the lines of every definition.  Definitions
called *Mutant of X* are forms of X with a plausible slip in them; no
specification uses them.  They show that each property can tell the code from a
near miss.  *Observers* are variables no action reads except to keep them: they
remember what a property has to except (`overlap`, `raced`, `late`...).

**RequestLifecycle.**  `doc[r]` is the stored document, reduced to the fields
that handlers read or write; `job[p]` is what handler `p` holds between two
awaits: the document it read (`seen`), what it will write, and the effects
(`todo`) it still owes.  A handler is two or three actions: `BeginX` reads and
checks, `CommitX` writes under the guard of `updateStatus` or `claimForUser`,
`PerformNext` appends the next timeline entry or publishes the next event.
`Reread` is the second read that `transition` makes after the decision's own:
the approval fields come from the first read, the version from the second.
`Abort` ends a handler at any `await`.  Permissions, eligibility and hierarchy
checks are constants, the sets of users that pass them.  Under
`Promise == INSTANCE RequestSpec` the status and the decider are those of the
document; everything else is a stutter.

**ClientSession.**  A `tokens` record stands for a refresh token and the access
token issued with it.  `flight[f]` is a refresh or a sign-out at the server,
step by step as `rotateRefreshToken` and `revokeSession` await; `tab[b]` is a
page's memory, `call[c]` an API call through the interceptors, `stored` the
token in local storage that all tabs share.  A reload abandons the page's calls
and leaves its flights running at the server.

**LeaveFlow.**  The request is reduced to status and payload (that a status
change is one guarded write is `RequestLifecycle`'s business).  `row` holds the
counters of a leave type and year, `att` the attendance of a date, `used` the
quota mirror.  A `job` follows a handler through the subscribers of its event.
A form names its leave type by id or by key (`named`): the guard of `submit`
finds either, the quota check the id only (`FoundById`), the reservation either
again.  `Looks` says whether a submission looks at the row its days are reserved
from, which takes an id, a type with a quota and the current year; `unchecked`
counts the days of those that do not, `highest` the most a row was granted.

**Attendance.**  The clock counts in small units; a normal shift lasts from
`MinShift` to `MaxShift`.  The day of an employee is over after `DayEnd`, that of
an open shift, as `refreshExceptions` sees it, after `UtcDayEnd`.  `Saved` is a Mongoose save: the fields that differ
from the document as it was loaded are written over what is stored.

**AuditPipeline.**  A hash is modelled by what it names: the record it was
computed from.  `recordedAt` is a clock without ties.  Events are classified to
surfaces by a constant.  `Restart` forgets every handler; only collections stay.

**AccessControl.**  Users, their role documents, the matrix and the access tokens
that carry a snapshot of it.  A call is a handler that reads, computes, writes
and then raises the `tokenVersion` of the users it concerns, each a database
call of its own; `save()` of a loaded user or role writes the fields the call
changed over whatever became of the document since.  Sign-in and refresh read
version, roles and permissions in the same three steps as the code.  The console
keeps the matrix it loaded and the boxes that were toggled.

**Credentials.**  One account.  A password is the number of its minting, a
recovery token what it was sent for.  `RecoveryService` and `MfaService` are not
constructed by `server.js`; the module wires them as their own route files and
tests do, beside the password service that is.

**StoredFiles.**  `disk` holds the keys of files, `docs` the attachments and
slips, `logo` the branding setting, `panel` what a settings panel shows.  An
upload writes the file, then the document, then audit and event; a deletion
strikes the document out first.

**OrgChart.**  A chart is a parent function over the users in it with a version;
a page shows a chart it loaded and sends the version with each edit.  Promotion
of children, cut of a subtree, activation and archiving are the code's; the
history entry follows the write in a call of its own.  A request's targets and
assignment are computed from the requester's chart or from the configuration.

**Reports, Geocoder.**  `Reports` resolves the people an actor may see one query
at a time while managers change, then narrows and queries; `Geocoder` is the
promise queue behind `resolveMany` with its timer, interval, timeout and cache.

**Routes, Pages, Screens.**  `Routes` and `Pages` are tables: the permissions each
route asks for, and for each page the calls it sends on its own, the sequences
its buttons send, and its links, as functions of the permissions the shell
holds.  `Screens` moves a person through them.  Four copies of the person's
rights are kept apart: the stored roles, the claims of the token, the shell's
permissions and the fetched menu.  An administrator's change of roles is two
steps (write, then version); the issue of a token is one step here, because
`AccessControl` takes it apart.  A refusal here is one of `authorize` or of the
first-sign-in gate; what a handler itself refuses (an approval that is not the
caller's, a chart of another version) belongs to the other modules.

**ClockPanel.**  Each visit of the page has a panel; the browser answers requests
for camera and position whenever it likes, also to a panel that was left.  While
the day has not been fetched, or was fetched in vain, the panel shows none of its
`Controls`; the hook, and a camera it started, go on.

**Notices, Escalation.**  A delivery works out who is due, then writes row by row
while preferences and the request change; escalation is a count, then a create.

## 3. The runs

| run | instance | shows |
|---|---|---|
| `lifecycle` | 1 request, 3 users, 2 handlers, failures, a delegation back to the requester, who is also an approver and an HR admin | `TypeOK`, `DecisionAgrees`, `NoSelfDecision`, `DeciderEntitled`, `OneEndTold` |
| `eventually` | two scenes, with fairness: the request of `lifecycle` without failures, under a cutoff block; an outbox with 2 handlers, 3 kinds of event, failures, restarts | every write is told once (`TimelineComplete`), every end is announced (`EndAnnounced`), and the handlers implement `RequestSpec`; with failures that is a theorem.  The chain verifies unless two appends overlapped, published means recorded, once, and nothing is stranded |
| `session_rotation` | 1 page, 2 users and sessions, 2 calls, 2 flights, lost answers | reuse detection never fires on the browser's own refreshes; one live token, and the stored one is it (`TokensInStep`) |
| `session_calls` | 2 pages on one stored token, 2 calls, 1 flight, reloads, lost answers, idle sessions, with fairness | every call ends |
| `workdays` | two scenes: 2 requests that name their type by id or key, 2 handlers, a quota of 3 raised to 4; one day of a shift with 2 handlers, corrections and a leave | counters equal the requests whatever the order of events, only checks that overlap and submissions that are not checked can over-book, the sync keeps what is there; one work period, every correction in the ledger, exceptions that follow |
| `leave_quota` | 1 request of 4 days, its type named by key, a quota of 3 | *violated*: the quota is bypassed (finding) |
| `leave_used` | 1 request | *violated*: the quota mirror never counts (finding) |
| `access` | 2 users, 2 roles, 2 permissions, 2 calls at once, 3 in all, failures | no token outlives the rights it carries, matrix edits fall on what was shown, a super admin stays |
| `matrix_saved` | 1 call | *violated*: what is saved is not what the checkboxes show (finding) |
| `services` | five scenes: credentials, files, org, reports, geocoding | `TypeOK`; recoveries, locks and forced changes hold; no record without its file and no file without a record; edits of charts keep what they do not touch and history follows; rows follow who is seen; the provider is spared |
| `report_scope` | the reports of a manager without reports | *violated*: an empty narrowing shows everybody (finding) |
| `screens` | four scenes: pages, panel, notices, escalation | what is shown is granted and the menu agrees with the router; the panel settles and lets go; whoever is due is told once; escalations stay within the limit |

### Bounds, and why they are enough

- *Handlers (2).*  Every race met in this code is between a read and a write of
  one handler and one write of another; all guards are on one document.  The
  proofs of section 5 have no such bound.
- *Requests.*  Handlers of different requests share nothing but delegations, so
  one request is enough for the lifecycle; the quota is what requests share in
  `LeaveFlow`, and two of two days each exceed a quota of three by one.
- *Versions* (`MaxVersion`).  Bounds edits and corrections, the only operations
  that can go on for ever; two or three of them reach every order with the
  others.
- *Time* (`MaxTime`, `MaxClock`).  Long enough for a shift too short, normal and
  too long and a close after the day has ended; for a timeout, the interval after
  it and a deadline that passes in the queue; for an escalation that leaves the
  window.
- *Calls in one behaviour* (`MaxCalls` 3 of access, `MaxLogins` 4, `MaxFileCalls`
  4, `MaxJobs` 3, `MaxReportCalls` 2, `MaxGeoCalls` 2, 5 escalations).  One call
  that sets the stage (a sign-in, an upload, a chart) and two that meet on it,
  or the limit and one beyond it.  `MaxFailed` 2 is the least limit that a
  single failure does not reach.  `MaxStaged` and `MaxRoles` 1: one toggled box
  or one given role is what a lost update needs.
- *Calls and flights (2).*  One call that starts a refresh and one that waits for
  it; a refresh under way while a sign-out happens.  `session_calls` has
  one flight: what a call waits for is its own page's refresh, and the outcomes of
  that refresh (rotated, refused, lost) are all there with one.
- *Audit* (in `eventually`): `MaxEvents` 2 of 3 kinds; `MaxFaults` 2, a call that
  fails and the bookkeeping of it or a restart.  `Limit` *(2, in the code
  100)* is never exceeded by the entries there are.  `Drained` is a statement
  about that case: behind more than `Limit` entries left by restarts an entry
  waits for later publishes.
- `workdays` has payloads of one length, because an edit that changes the length
  breaks the balance (section 7), one year, and one entitlement HR may set:
  with two, changes of it that overlap would drift without a bound.  One payload
  names the type by id and is checked, the other by key and is not, so that both
  meet on one row.  The clock passes the end of the day here (`DayEnd` 2) and in
  UTC (`UtcDayEnd` 3).
- *Roles in* `screens`.  Each of the four seeded roles alone, and a manager who
  works for HR as well.  Roles made by hand can hold any set of permissions, and
  section 7 names the pages that then ask for more than they show.
- *Changes* (`MaxChanges` 1 in `screens`).  One assignment of roles or one reset,
  with the person anywhere and the password already temporary or not.  What the
  pages promise is of a shell filled after the last change, so a second change
  leads back to where another initial state starts.
- *Panel* (2 visits, 2 pictures, 2 requests for the position in each): a late
  answer needs a visit that has ended and one that has not; a retake a second
  picture; a crossed answer a second request.

Deadlock is not checked: every one of these systems may come to rest when users
ask for nothing more and the bounds are used up.

### Fairness

Weak fairness on the steps of a handler that is under way (`eventually`,
`session_calls`), never on what users, clocks, failures or restarts do.
Node resumes every `await` that settles, and the driver settles every call (a
call that fails is an action of its own).  `EndAnnounced` is checked without
failures: an event that a dead handler owed is lost, and nothing in the code
restores it.  `CallEnds` holds although answers may be lost, because the HTTP
client turns a lost answer into an error.  `Drained` holds with failures and
restarts, because it excuses only the entry whose own publish was cut short.
The other runs assume none.

## 4. Properties

The comments above the properties in the modules say what each is about.  Those
that took thought:

- `DeciderEntitled` is about the document *that was decided*: an approver who
  passes the checks on one read must still be entitled on the document the write
  lands on, although claims in between change the approver.
- `OneEndTold`: however decisions, cancellations and failures race, timeline and
  bus tell of at most one end, the one the document has.
- `RevokedOnlyBySignOut` joins the two halves of the session protocol: the
  server's reuse detection must not fire on what the browser does.
- `BalanceMatchesRequests` holds at every moment when no event is on its way,
  also when a cancellation reached the counters before the reservation it
  cancels.
- `NoOverbook` weighs, at every moment, what a row holds and has consumed against
  the most it was ever granted and the days submitted without a look at it.  It is
  what the check of `submit` is worth: until two checks overlap, whatever was
  checked fits.  That a quota is never exceeded is more than the code keeps
  (`QuotaNeverBypassed`, section 6); and an entitlement HR lowers below what is
  taken already is no fault of a submission, hence the highest.
- `LedgerAccounts`: corrections append to the ledger long after their write, in
  any order; still every version has its entry and the entries form one chain.
- `NoExcessRights`: a token that passes `authenticate` carries no permission its
  user's roles do not give, once the calls that took it away have finished.
- `LastAdminStays` relates the count a deactivation makes to the write it makes
  later, in the presence of role changes by others.
- `RecoveryHolds`: whatever was signed in before a recovery is closed by it, with
  a rotation under way on either side.
- `FileOfRecord` and `NothingLeft` are the two halves of writing a file and a
  record: neither is there without the other, unless a call died in between.
- `EditsKeepOthers`: what an edit of a chart does not touch keeps its line of
  superiors and its order among its siblings.
- `RoutedAbove`: who is put in charge of a request is above the requester in the
  chart, and may approve.
- `ReportsHold`: the walk of a reporting line finds the people whose line leads to
  the actor although it is made query by query.
- `ServedAsShown`: every call a page sends or offers, of every page the menu or a
  link leads to, is granted by its route.  One table says what two dozen pages
  with their dialogs show, the other what a hundred and fifty routes ask; nothing
  in the code ties them.
- `PanelHolds`: the camera stops with the panel, a search for the position ends,
  and a record of the day has the evidence the visit took.

Some properties hold only of calls that do not overlap, or that finish.  Each
excuse is a named observer, and section 7 says what happens otherwise:
`overlap` (`NoOverbook`, `ExceptionsFollow`), `forked` (`ChainValid`), `cut` and
`shared` (`PublishedOnce`), calls still at work, cut short, or a bump of a stale
document (`NoExcessRights`), overlapping writes (`EditOnSeen`,
`LastAdminStays`), `torn` (`RecoveryHolds`), `lost` (`LockHolds`), `over`
(`TemporaryMustChange`), `broken` (`NothingLeft`), `raced` (`RoutedAbove`,
`EscalationsLimited`), `stale` (`ServedAsShown`, `MenuIsRouter`), `late` and
`crossed` (`PanelHolds`), a delivery disturbed or failed (`ToldOnce`).

Type invariants are run for `lifecycle` and `services` only, and these are
theorems too.  Those of `AccessControl`, `AuditPipeline`, `Attendance` and
`LeaveFlow` are theorems and not run.

## 5. What is proved

The proof system checks the proofs for every value of the constants: any sets of
requests, users, roles, files, charts and handlers, any bounds, with failures and
restarts wherever the module has them.  Every safety property and action property
that a passing run checks is a theorem; the liveness properties are not.

| module | about | inductive invariant | properties |
|---|---|---|---|
| `RequestLifecycleProofs` | `RequestLifecycle` | `IInv`, `HInv` | `TypeOK`, `DecisionAgrees`, `NoSelfDecision`, `TerminalFinal`, `ImplementsRequestSpec`, `DeciderEntitled`, `OneEndTold`, `TimelineComplete` |
| `ClientSessionProofs` | `ClientSession` | `ClientInv` | `RevokedOnlyBySignOut`, `TokensInStep` |
| `WorkdaysProofs` | `Attendance`, `LeaveFlow` | `WorkInv`; `LeaveInv`, `QuotaInv`, `BalanceInv` | `OneWorkPeriod`, `ExceptionsFollow`, `LedgerAccounts`, both types; `AttendanceKept`, `NoOverbook`, `BalanceMatchesRequests` |
| `AuditPipelineProofs` | `AuditPipeline` | `IInv` | its type, `ChainValid`, `PublishedOnce` |
| `AccessControlProofs` | `AccessControl` | `AccessInv` | its type, `NoExcessRights`, `EditOnSeen`, `LastAdminStays` |
| `CredentialsProofs` | `Credentials` | `CredInv`, `CredTyped` | its type, `LockHolds`, `TemporaryMustChange`, `RecoveryHolds` |
| `ServicesProofs` | `StoredFiles`, `Geocoder`, `OrgChart`, `Reports`, `MCServices` | `FilesInv`, `GeoInv`, `OrgInv`, `EditInv`, `ReportInv`, `ServicesInv` | the types of files and charts, `FileOfRecord`, `NothingLeft`; `GeocodingHolds`; `HistoryChains`, `EditedAsSeen`, `EditsKeepOthers`, `RoutedAbove`; `ReportsHold`; `TypeOK` of all services |
| `DeskProofs` | `Escalation`, `ClockPanel`, `Notices`, `Screens` | `EscalationInv`, `PanelInv`, `NoticesInv`, `ScreensInv` | `EscalationsLimited`; `PanelHolds`; `ToldOnce`; `ServedAsShown`, `MenuIsRouter` |

`TerminalFinal` (a request that has an end keeps it) and some of the types are
proved and not run.

### Assumptions

*On constants.*  Each module has one named assumption that types its constants,
and a few have another: that a value standing for "nothing" is none of the others
(`AttendanceNoRecord`, `LeaveNullAssumption`, `LeaveNoRow`), and that the charts
a behaviour starts with are ones the editor can have stored (`OrgChartSeeds`):
trees in which a person sits once, with the siblings numbered from 0 without a
gap; a position nobody has created has version 0.  There are finitely many users,
so charts are finite.  TLC evaluates all of them.

*As hypotheses of single theorems*, where the code keeps its promise only then:

- `TimelineAccounts` counts handlers, so there must be finitely many.
- The theorems about `ClientSession` are about a browser with one page that is
  not loaded anew (`OnePage`, the instance of `session_rotation`).  With two
  tabs, or a reload in the middle of a refresh, they are false (section 7).
- `CountersMatchRequests` needs `QuotasGranted` (HR sets the entitlement of rows
  that are there, because a row missing at the first read is overwritten whole),
  and is about the behaviours whose edits keep type, year and length of a pending
  request (`[][EditsKeepDays]_leaveVars`).  The instance of `workdays` satisfies
  both; section 7 says what becomes of the counters otherwise.
  `OnlyOverlapsOverbook` has no such premise.
- The theorems about `Screens` need `TablesAgree`: for every combination of the
  seeded roles, the tables of pages, routes and menus say the same.  That is a
  statement about a few hundred constants and none about time; `MCScreens`
  assumes it, so TLC evaluates it for all of them.  What the theorems add is that
  agreement of the tables is *enough*, whatever the order of sign-ins, token
  refreshes, page loads, assignments of roles and resets.

### The arguments

*Requests.*  None of the properties is inductive: a handler that is about to
write `APPROVED` could, for all `DecisionAgrees` says, have read a request that
was cancelled since.  `IInv` adds `JobOK` for every handler, and its heart is
`Fresh`: the version a handler read is not newer than the stored one, *and if the
two are equal so are the documents*.  That is what the version guard relies on,
and it is an invariant only because every write, a claim's included, raises the
version.  With it, what was checked on the read (`PENDING`, a decider who is not
the requester, an assignee or a take-over) still holds where the write lands.
`WriteKeeps` proves once that a write which raises the version keeps every other
handler's beliefs; each action is then a lemma, and `NextIInv` collects them.
`NextStep` says that every step writes at most one document, and how; from it
follow `TerminalFinal` and the refinement, whose every step is one of
`RequestSpec`'s or a stutter.  `HInv` adds history.  Of the decider: the approver
of a request is settled by its submission or by the one claim that assigns it, so
a decider who is entitled on the document read is entitled on the one written.
Of the end: it is told, or owed by exactly one handler, and what that handler
still owes is a tail of `EndEffects`.  `CountInv` counts the writes.

*Sessions.*  No two refreshes have a token in common (`FlightsApart`), the page
awaits the one it started and no other (`Awaiting`), and of a session's tokens one
is unused (`TokensFit`).  A refresh that has marked its token has left the session
without an unused one until it issues the next, which is why nothing else can
start in between.

*Attendance.*  The clock-in changes with the version only, so a correction that
passes its guard has seen the clock-in it replaces.  The corrections in the
ledger and those applied but not yet written down, together, number the versions
(`CountFits`) and form a chain (`ChainFits`); when nobody is at work only the
ledger is left.

*Leave.*  `BalanceInv` is bookkeeping at every moment: what the counters hold and
what events on their way will still bring in equals the days of the requests and
what events will still take away.  The days are sets of pairs (request, day), so
that moving one set from one side to the other is a fact about cardinalities.
`QuotaInv` is about the behaviours in which no two checks have overlapped yet, so
that one call at most is between its check and its write.  What a row holds and
has consumed, and what the call between check and write will add, stays within
`highest` and `unchecked` together, and the entitlement of a row within
`highest`.  A submission that looks finds room for its days in the row; until it
reserves them only releases, settlements and submissions that do not look touch
that row, and each of the last raises `unchecked` by what it reserves.  A change
of entitlement that is between its two steps knows the entitlement that is still
there, so that after the write the entitlement is the one HR gave, which
`highest` counts.  `Observed` types the two observers.

*Audit.*  Until two appends overlap, the one that is appending holds the hash of
the latest record and takes a later time.  An entry that only one publish has
claimed is recorded nowhere until that publish dispatches it, and is marked before
the publish lets go of it.

*Access.*  A token, or one being signed, has no later version than its user and,
if it has this version and nobody has still to bump the user, no more than the
user's active roles give; `SignSafe` says it for each of the three reads of a
sign-in.

*Credentials.*  A document loaded while the password was the current one has the
current `mustChange`; a recovery token goes from unused over used by one call to
done, and from the moment it is about to be marked every live session has a
password no earlier than its own, or is late.  The type needs an argument of its
own, because its bounds are those on the number of calls: a call that will still
count a wrong password, mint a password or bump a version has itself been counted
by `logins`, so what is stored and what the calls at work can still add stay
within the bound together (`Affordable`).

*Files.*  A key belongs to one record, or to the branding, and never to both
(`KeysApart`); that is why a deletion cannot hit another record's file.  *Charts.*
What pages and handlers hold of a chart is what it held at the version they name,
and history entries together with those still to be written form the chain.  For
`EditsKeepOthers` the superiors of a node are the least set that holds its parent
and the parents of its members, so a set that an edit does not disturb is still
such a set after it, and nothing has to be walked.  The places of siblings are a
count: as they are distinct and fill 0 .. n-1 in every valid chart (a pigeonhole
lemma), renumbering what an edit leaves keeps its order.  `EditInv` adds to
`OrgInv` that whatever a page or a handler holds is a valid chart numbered this
way, and that each change on its way keeps what it does not touch.
*Reports.*  An undisturbed walk is inside every set closed under reports that
holds the actor, and everybody whose turn is over has their reports in it.
*Geocoder.*  One call runs, and it is the head of the queue.  *The services
together.*  A step of `MCServices` is a step of one component that the others
stutter through, so the invariants of the components are an invariant of all
(`ServicesInv`), and the types follow from it.

*Escalation, panel, notices.*  What an undisturbed call counted is still there;
what the panel holds is of its own visit; those who have a row and those still to
get one are those the event was due to.  *Pages.*  Until something changes, the
four copies of a person's rights are one (`CopiesAgree`), and the page shown and
what it has under way are admitted by the shell's.

### What stays with TLC

- `EndAnnounced`, `CallEnds` and `Drained`: liveness and fairness are outside the
  prover's reach.
- The four violations of section 6.

No module uses a RECURSIVE operator.

## 6. Findings that a run shows

1. `leave_used`: `request.decided` carries no payload, so `usedDays` never counts.
2. `leave_quota`: `submit` accepts a leave type by its key and looks it up by id
   for the quota check, which is skipped for a key; the days are reserved all the
   same (`B/application/leave.service.js:58-59`).
3. `matrix_saved`: the role console sends only the boxes that were switched on as
   the whole set of a role's permissions; whatever was checked and not touched is
   revoked.
4. `report_scope`: a narrowing that leaves nobody is taken for no narrowing, and
   the report shows everybody.

`PROJECT.json` quotes the comment each one contradicts.

## 7. Other disagreements met while modelling

These follow from the modules, most of them from a behaviour that a property has
to except, and have no run of their own.

*Requests and approvals*

- *Timeline* (`B/application/request.service.js:163`): a request can be claimed
  and decided before its ASSIGNED entry is appended, although the timeline is
  said to be "complete from the start".
- *Claims* (`B/infrastructure/repositories/request.repository.js:143-146`): a
  decision that read the request before a claim writes its own idea of the
  approval block over the claim that won.
- *Cutoff* (`B/application/approval.service.js:404`): a block is passed by
  whoever sends `overrideCutoff`, and the approve and reject endpoints of the
  engine have none; the header (line 11) speaks of `platform:override_cutoff`.
- *Routing* (`approval-engine.service.js:204`): a chart archived between the
  check of the target and the assignment yields the fallback approvers; an
  approver moved off the chain afterwards can no longer decide (lines 482-487).
- *Escalation*: two calls at the limit both pass.  The sweep reads one page of
  requests and audits them again each time; it is called "scheduled" and runs
  only on a POST.  The default policy says "how often a single requester may
  escalate", the count is of the request, by anyone.

*Sessions and credentials*

- *Two tabs* (`B/infrastructure/repositories/refresh-token.repository.js:24-25`):
  the mark of a token as used is not conditional, so two rotations that overlap
  both pass and two live tokens come of one.
- *Reload* (`F/features/auth/AuthProvider.tsx:137`): a page reloaded between the
  rotation at the server and the write of the new token presents the spent one,
  and the session is revoked as stolen.
- *Lost answers* (`F/lib/axios.ts:340`): every failure of a refresh, a lost
  answer included, drops the session.
- *Idle sessions* (`B/application/session.service.js:127`): rotation touches the
  activity of a session it does not look at, so an idle session comes back.
- *Sign-out* (`session.service.js:172`): a rotation validated before a sign-out
  issues a live token after it; the session itself stays revoked.
- *Recovery*: the token is spent by the last write and not by the first; other
  tokens that are out stay valid; reuse of old passwords is not checked; a
  pending second-factor challenge outlives the recovery.
- *Lockout* (`B/infrastructure/repositories/user.repository.js:78`): the count of
  failures is called atomic and is a read and a save.  It is not reset when the
  lock expires.  The stored setting for it is not read by the sign-in.
- *Second factor*: enrolment and confirmation that overlap enable a secret nobody
  confirmed, or switch it off.
- *Reset* (`B/application/user-admin.service.js:479-480`): "existing sessions die
  immediately" holds of access tokens until the next refresh only; a reset that
  overlaps a change leaves a temporary password that need not be changed; a bump
  from a stale document can lower the version (`SessionsDie`).

*Roles and permissions*

- *Super admin* (`rbac.service.js:150-152`): `assertSuperAdminSafe` compares an
  ObjectId with the string keys of a map and never fires.  Two deactivations at
  once leave no super admin, since each counts the other.
- *Versions*: the optimistic lock of the matrix is a read and then a save; bumps
  computed from a loaded document are lost when they overlap; a crash between
  the write of roles and the bump leaves tokens with the old rights.
- *New users*: `createUser` deletes the roles another administrator gave
  meanwhile, and bumps nothing.  A work schedule sent with a new or edited user is
  never saved (`user-admin.service.js:654-677`).

*Leave and attendance*

- *Over-booking* (`B/application/leave.service.js:72`): two submissions that check
  before either reserves pass on the same days.  Line 60: the year checked is the
  current one, the year charged that of the leave's first day, so leave of the
  next year is weighed against this year's balance.
- *Edits* (`request.service.js:252`): an edit that changes length, type or year
  publishes nothing, so what is released later is not what was reserved.
- *Entitlements* (`B/application/leave-balance.service.js:114-124`): the increment
  is computed from an older read, a row missing at that read is overwritten whole,
  and a refusal comes after the write.
- *Leave sync* (`B/infrastructure/repositories/attendance.repository.js:47`): a
  clock-in between look and insert ends the loop over the dates; later dates of
  the leave stay without a record.
- *Attendance* (`B/application/attendance.service.js`): a clock-out between the
  check of the old value (line 364) and the write is replaced unseen; a clock-out
  saved over a correction (line 183) leaves exceptions of instants that are gone;
  a leave approved between the check and the create (line 109) does not stop a
  clock-in; a shift left open is never marked, since nothing computes the
  exceptions of a record nobody touches (`B/domain/attendance.js:65`), and a
  correction marks it only once the day has ended in UTC, because
  `refreshExceptions` (line 419) passes no timezone offset.
- *Clock panel* (`F/features/attendance/useAttendanceVerification.ts`): the hook
  promises a "strict cleanup contract", and a camera granted after the panel was
  left runs on with nobody to stop it.  A second click on the location button
  leaves a timer that turns a found position into a timeout.  After a failed
  submission a picture taken again is not uploaded, though its time is sent.  When
  the day is fetched again and the fetch fails, preview and buttons give way to an
  error (`AttendanceVerificationPanel.tsx:114`) and the camera runs on unseen.  The
  server asks only that there is a media reference and a latitude that is not 0.
- *Sickness types* (`sickness-type.service.js:69-70`): `suggest` returns the key of
  an INACTIVE type where the comment says PENDING or ACTIVE.

*Audit*

- *Forks* (`B/infrastructure/repositories/audit-event.repository.js:11-13`):
  appends that overlap share a `prevHash`, and the verification reports tampering
  on a trail nobody touched.
- *Retry* (`outbox.repository.js:25`): a FAILED entry is called retryable and
  nothing claims it again; overlapping publishes claim the same entries.
  `audit-publisher.js:65`: a failing outbox fails the operation that recorded,
  after the state change it records.

*Files*

- *Selfies* (`attendance.controller.js`, `getMedia`): "Try both extensions" never
  reaches the second, because reading a missing `.png` throws; a `.jpg` cannot be
  viewed.
- *Logos* (`B/application/branding.service.js:108`): `removeLogo` deletes the file
  of the stored logo and not the setting (`LogoServed`); replaced files stay.

*Organisation and reports*

- *Charts* (`B/domain/hierarchy.js:54`): promoting two or more children mixes them
  with the siblings that follow.  A member who moves while a chart is a draft or
  archived is out of its scope when it is activated.
- *Scopes* (`hierarchy-scope.service.js`): the department scope outranks the scope
  of subordinates, and without a department it sees everyone; a charted leaf falls
  back to the reporting line.
- *Reporting line*: circles of two or more can be assigned; the edit of a user
  changes the manager without the check for ACTIVE and without history.
- *Geocoding*: a preview waits behind the look-ups of an export that came first.

*What people see*

- *Notifications*: a manager without an approving right gets a link that answers
  403; a cancellation goes to the approver with a link to their own requests;
  nobody subscribes to `request.escalated`, although `escalation.service.js:4`
  says that it notifies the approver; a request addressed to a role tells only the
  manager.  The preferences page sends the whole list it last loaded, so two tabs
  lose a click.
- *Pages and routes*: `/approvals/inbox` refuses `approval:override`, which
  `domain/permissions.js` calls the capability for the "company-wide
  inbox/decision override"; the attendance overview offers the correction to
  every holder of `view_all`; a holder of `attendance:view_all` has no clock panel;
  cancel buttons stand beside other people's rows; the hierarchy page shows its
  edit buttons without `hierarchy:manage`; the policy hints of the page for a
  demanded password change are refused by the gate that demands it; the breadcrumb
  `/admin` ends at the sign-in.  Roles made by hand meet refusals that the seeded
  ones do not: every module page asks for the leave types, the user and routing
  pages for the roles, the console for `rbac:view_permissions`.
- *Rate limiter*: a fixed window under a header that says "Sliding-window", and
  commented out in `server.js:703`.

## 8. Not modelled, and why

- *Pure*: validation of forms, the password policy, the arithmetic of cutoff and
  business rules on dates (whether a request is blocked is a constant), DTOs,
  columns and workbooks of exports, formatting of dashboards.
- *Thin*: master data (types, placements, contracts, holidays), settings and
  profile are writes of one document with no state beyond it; who may call them
  is in `Routes`.  The other request types validate and call `submitRequest`.
- *Not wired by* `server.js`: the routes of business rules, calendar, MFA,
  recovery, leave balances, enterprise settings, exception review, filter presets,
  import, overtime administration, personal data and retention, and the rate
  limiter.  No deployment runs them.  Recovery and MFA are modelled all the same,
  because their states are shared with the sign-in that is wired.
- *Abstracted in the modules*: times and texts of requests, names in snapshots,
  punctuality and the optional verification policy of attendance, expiry of
  refresh tokens, sign-out of all sessions in `ClientSession` (it is in
  `Credentials`), `adjustBalance` and the creation of rows for new users and leave
  types, `createRole`, the wizard and viewer of the role console, the edit of
  routing rules.  The components of `PROJECT.json` that are *partly* modelled say
  so each.
- *Seed scripts and contracts*: one-off set-up and types; the seeded roles are in
  `Routes`.

## 9. Plan

1. An abstract specification of a quota that `LeaveFlow` implements when calls do
   not overlap; `adjustBalance` and the creation of rows.
2. Cutoff and business rules as operators against a reference definition; the
   rate limiter should it be wired.
