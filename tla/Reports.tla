------------------------------- MODULE Reports -------------------------------
(***************************************************************************)
(* Whose rows a report shows.  A call resolves the people its actor may    *)
(* see from the data scopes of the actor's roles and the hierarchy chart,  *)
(* or the reporting line where the chart says nothing; narrows them by a   *)
(* search or to the team; queries; and records that it did                 *)
(* (hierarchy-scope.service.js, report.service.js, report-providers.js).   *)
(* Meanwhile managers are assigned, with a history (reporting-line.service *)
(* .js), edited without one, and people are deactivated.                   *)
(*                                                                         *)
(* Every person has one row.  Columns, pages, dates and the workbook are   *)
(* left out; the addresses of locations are in Geocoder.                   *)
(***************************************************************************)
EXTENDS Naturals, FiniteSets

CONSTANTS
  People,
  NoManager,       \* managerId of a person without a manager
  Everyone,        \* no restriction: null in the code
  LineSeeds,       \* reporting lines, charts, departments and scopes to begin with
  ReportCalls,     \* handler slots
  Searches,        \* the people a search may find
  ReportOps,       \* the calls that are made
  MaxReportCalls,  \* bound: calls in one behaviour
  ReportsMayFail   \* may a call end before its last write?

ASSUME ReportsAssumption ==
  /\ NoManager \notin People /\ MaxReportCalls \in Nat /\ ReportsMayFail \in BOOLEAN
  /\ Searches \subseteq SUBSET People /\ \A s \in SUBSET People : s # Everyone
  /\ \A seed \in LineSeeds : seed.manager \in [People -> People \cup {NoManager}]

VARIABLES
  manager,      \* users.managerId
  enabled,      \* users whose status is ACTIVE
  org,          \* org: chart, department and role scopes; nothing here changes them
  reportCall,   \* reportCall[c]: what a handler is at
  reportCalls,  \* calls begun
  lineHistory,  \* reporting_history documents
  viewed,       \* REPORT.VIEWED and REPORT.EXPORTED entries
  shown,        \* observer: what was delivered, and to whom
  unexplained   \* observer: people whose manager changed with no history to come

reportVars == <<manager, enabled, org, reportCall, reportCalls, lineHistory, viewed, shown, unexplained>>

DataScope == {"SELF", "DIRECT_SUBORDINATES", "DIRECT_AND_INDIRECT_SUBORDINATES",
              "DEPARTMENT", "ALL_EMPLOYEES"}
Narrowing == {"none", "team", "search"}

NoReportCall ==
  [op |-> "none", pc |-> "idle", actor |-> NoManager, by |-> "none", asked |-> {},
   allowed |-> {}, found |-> {}, frontier |-> {}, next |-> {}, deep |-> FALSE,
   visible |-> {}, ids |-> {}, rows |-> {}, user |-> NoManager, old |-> NoManager, new |-> NoManager,
   stirred |-> FALSE]

ReportsInit ==
  /\ \E seed \in LineSeeds : manager = seed.manager /\ org = seed.org
  /\ enabled = People
  /\ reportCall = [c \in ReportCalls |-> NoReportCall]
  /\ reportCalls = 0 /\ lineHistory = {} /\ viewed = {} /\ shown = {} /\ unexplained = {}

Narrowed(visible, ids) == IF visible = Everyone THEN ids ELSE ids \cap visible

DirectReports(m) == {u \in enabled : manager[u] = m}

BeginReportCall(c, call) ==
  /\ call.op \in ReportOps /\ reportCall[c].pc = "idle" /\ reportCalls < MaxReportCalls
  /\ reportCalls' = reportCalls + 1
  /\ reportCall' = [reportCall EXCEPT ![c] = call]

(* A change of the line marks the walks it may disturb.                    *)
Stirred(calls) == [c \in ReportCalls |-> [calls[c] EXCEPT !.stirred = TRUE]]

----------------------------------------------------------------------------
(* Who may be seen.                                                        *)

BeginReport(c, a, by, asked) ==
  /\ a \in enabled /\ (by # "search" => asked = {})
  /\ BeginReportCall(c, [NoReportCall EXCEPT !.op = "report", !.pc = "scope", !.actor = a,
                                             !.by = by, !.asked = asked])
  /\ UNCHANGED <<manager, enabled, org, lineHistory, viewed, shown, unexplained>>

Subordinates(a, deep) ==
  {u \in People : org.chart[u] = a \/ (deep /\ \E v \in People : org.chart[v] = a /\ org.chart[u] = v)}

(* The widest of an actor's scopes: DEPARTMENT outranks the subordinates.  *)
Widest(scopes) ==
  IF "DEPARTMENT" \in scopes THEN "DEPARTMENT"
  ELSE IF "DIRECT_AND_INDIRECT_SUBORDINATES" \in scopes THEN "DIRECT_AND_INDIRECT_SUBORDINATES"
  ELSE IF "DIRECT_SUBORDINATES" \in scopes THEN "DIRECT_SUBORDINATES"
  ELSE "SELF"

Colleagues(a) == {u \in enabled : org.department[u] = org.department[a]}

(* resolveVisibleUserIds up to the walk of the reporting line, which is    *)
(* taken only where the chart shows nobody under the actor.                *)
ReadScopes(c) ==
  LET call == reportCall[c]
      a == call.actor
      scopes == org.scopes[a]
      allowed == {a} \cup (IF "DEPARTMENT" \in scopes THEN Colleagues(a) ELSE {})
      deep == Widest(scopes) = "DIRECT_AND_INDIRECT_SUBORDINATES"
      under == Subordinates(a, deep)
      unbounded == \/ "ALL_EMPLOYEES" \in scopes
                   \/ "DEPARTMENT" \in scopes /\ org.department[a] = NoManager
  IN
  /\ call.pc = "scope"
  /\ reportCall' = [reportCall EXCEPT ![c] =
       IF unbounded THEN [call EXCEPT !.pc = "narrow", !.visible = Everyone]
       ELSE IF Widest(scopes) \in {"SELF", "DEPARTMENT"}
       THEN [call EXCEPT !.pc = "narrow", !.visible = allowed]
       ELSE IF under # {}
       THEN [call EXCEPT !.pc = "narrow", !.visible = allowed \cup under]
       ELSE [call EXCEPT !.pc = "walk", !.allowed = allowed, !.found = {a}, !.frontier = {a},
                         !.deep = deep, !.stirred = FALSE]]
  /\ UNCHANGED <<manager, enabled, org, reportCalls, lineHistory, viewed, shown, unexplained>>

(* mutant of WalkOn: every walk goes on to the next level.                 *)
WalkOnDeep(call, m) ==
  LET reports == DirectReports(m)
      next == call.next \cup (reports \ call.found)
      rest == call.frontier \ {m}
      walked == [call EXCEPT !.found = @ \cup reports, !.frontier = rest, !.next = next]
  IN  IF rest # {} THEN walked
      ELSE IF next # {} THEN [walked EXCEPT !.frontier = next, !.next = {}]
      ELSE [walked EXCEPT !.pc = "narrow", !.visible = call.allowed \cup walked.found]

(* legacyDescendantUserIds takes one manager of the level in hand, and the *)
(* next level when the last is done.                                       *)
WalkOn(call, m) ==
  LET reports == DirectReports(m)
      next == call.next \cup (reports \ call.found)
      rest == call.frontier \ {m}
      walked == [call EXCEPT !.found = @ \cup reports, !.frontier = rest, !.next = next]
  IN  IF rest # {} THEN walked
      ELSE IF call.deep /\ next # {} THEN [walked EXCEPT !.frontier = next, !.next = {}]
      ELSE [walked EXCEPT !.pc = "narrow", !.visible = call.allowed \cup walked.found]

WalkLine(c) ==
  /\ reportCall[c].pc = "walk"
  /\ \E m \in reportCall[c].frontier : reportCall' = [reportCall EXCEPT ![c] = WalkOn(@, m)]
  /\ UNCHANGED <<manager, enabled, org, reportCalls, lineHistory, viewed, shown, unexplained>>

----------------------------------------------------------------------------
(* What is shown.                                                          *)

(* mutant of ResolveUserIds: a search is not narrowed to the visible.      *)
ResolveSearchedOnly(call) ==
  CASE call.by = "search" -> call.asked
    [] call.by = "team" -> Narrowed(call.visible, DirectReports(call.actor))
    [] OTHER -> call.visible

ResolveUserIds(call) ==
  CASE call.by = "search" -> Narrowed(call.visible, call.asked)
    [] call.by = "team" -> Narrowed(call.visible, DirectReports(call.actor))
    [] OTHER -> call.visible

NarrowReport(c) ==
  LET call == reportCall[c] IN
  /\ call.pc = "narrow"
  /\ reportCall' = [reportCall EXCEPT ![c].pc = "query", ![c].ids = ResolveUserIds(call),
                      ![c].asked = IF call.by = "team" THEN DirectReports(call.actor) ELSE @]
  /\ UNCHANGED <<manager, enabled, org, reportCalls, lineHistory, viewed, shown, unexplained>>

(* The providers filter by a list of users that is not empty.              *)
QueryRows(c) ==
  LET ids == reportCall[c].ids IN
  /\ reportCall[c].pc = "query"
  /\ reportCall' = [reportCall EXCEPT ![c].pc = "tell",
                      ![c].rows = IF ids \in {Everyone, {}} THEN People ELSE ids]
  /\ UNCHANGED <<manager, enabled, org, reportCalls, lineHistory, viewed, shown, unexplained>>

View(call) == [actor |-> call.actor, by |-> call.by, rows |-> call.rows]

(* The answer is sent when the audit entry is written.                     *)
RecordAndShow(c) ==
  LET call == reportCall[c] IN
  /\ call.pc = "tell"
  /\ viewed' = viewed \cup {View(call)}
  /\ shown' = shown \cup {[actor |-> call.actor, by |-> call.by, rows |-> call.rows,
                           visible |-> call.visible, asked |-> call.asked, ids |-> call.ids]}
  /\ reportCall' = [reportCall EXCEPT ![c] = NoReportCall]
  /\ UNCHANGED <<manager, enabled, org, reportCalls, lineHistory, unexplained>>

----------------------------------------------------------------------------
(* The reporting line.                                                     *)

(* assignManager loads the user and checks what it is given ...            *)
BeginAssign(c, u, m) ==
  /\ m # u /\ m \in enabled \cup {NoManager} /\ m # manager[u]
  /\ BeginReportCall(c, [NoReportCall EXCEPT !.op = "assign", !.pc = "save", !.user = u,
                                             !.old = manager[u], !.new = m])
  /\ UNCHANGED <<manager, enabled, org, lineHistory, viewed, shown, unexplained>>

(* ... saves the user ...                                                  *)
SaveManager(c) ==
  LET call == reportCall[c] IN
  /\ call.pc = "save"
  /\ manager' = [manager EXCEPT ![call.user] = call.new]
  /\ reportCall' = Stirred([reportCall EXCEPT ![c].pc = "history"])
  /\ UNCHANGED <<enabled, org, reportCalls, lineHistory, viewed, shown, unexplained>>

(* mutant of AppendHistory: it tells of the manager there was.             *)
AppendOld(c) ==
  LET call == reportCall[c] IN
  /\ call.pc = "history"
  /\ lineHistory' = lineHistory \cup {[user |-> call.user, old |-> call.old, new |-> call.old]}
  /\ reportCall' = [reportCall EXCEPT ![c] = NoReportCall]
  /\ UNCHANGED <<manager, enabled, org, reportCalls, viewed, shown, unexplained>>

(* ... and appends to the history.                                         *)
AppendHistory(c) ==
  LET call == reportCall[c] IN
  /\ call.pc = "history"
  /\ lineHistory' = lineHistory \cup {[user |-> call.user, old |-> call.old, new |-> call.new]}
  /\ reportCall' = [reportCall EXCEPT ![c] = NoReportCall]
  /\ UNCHANGED <<manager, enabled, org, reportCalls, viewed, shown, unexplained>>

(* updateUser sets a manager as well: of any status, without a history.    *)
EditManager(c, u, m) ==
  /\ "edit" \in ReportOps /\ reportCalls < MaxReportCalls /\ m # u /\ m # manager[u]
  /\ reportCalls' = reportCalls + 1
  /\ manager' = [manager EXCEPT ![u] = m]
  /\ reportCall' = Stirred(reportCall)
  /\ unexplained' = unexplained \cup {u}
  /\ UNCHANGED <<enabled, org, lineHistory, viewed, shown>>

FlipStatus(u) ==
  /\ "status" \in ReportOps /\ reportCalls < MaxReportCalls
  /\ reportCalls' = reportCalls + 1
  /\ enabled' = IF u \in enabled THEN enabled \ {u} ELSE enabled \cup {u}
  /\ reportCall' = Stirred(reportCall)
  /\ UNCHANGED <<manager, org, lineHistory, viewed, shown, unexplained>>

(* A write fails, or the process stops: the call is over.                  *)
CutReport(c) ==
  LET call == reportCall[c] IN
  /\ ReportsMayFail /\ call.pc \in {"save", "history", "tell"}
  /\ unexplained' = IF call.pc = "history" THEN unexplained \cup {call.user} ELSE unexplained
  /\ reportCall' = [reportCall EXCEPT ![c] = NoReportCall]
  /\ UNCHANGED <<manager, enabled, org, reportCalls, lineHistory, viewed, shown>>

ReportsNext ==
  \/ \E c \in ReportCalls :
       \/ \E a \in People, by \in Narrowing, asked \in Searches \cup {{}} : BeginReport(c, a, by, asked)
       \/ \E u \in People, m \in People \cup {NoManager} : BeginAssign(c, u, m) \/ EditManager(c, u, m)
       \/ ReadScopes(c) \/ WalkLine(c) \/ NarrowReport(c) \/ QueryRows(c) \/ RecordAndShow(c)
       \/ SaveManager(c) \/ AppendHistory(c) \/ CutReport(c)
  \/ \E u \in People : FlipStatus(u)

ReportsSpec == ReportsInit /\ [][ReportsNext]_reportVars

----------------------------------------------------------------------------
ReportsTypeOK ==
  /\ manager \in [People -> People \cup {NoManager}] /\ enabled \subseteq People
  /\ \A c \in ReportCalls :
       /\ reportCall[c].pc \in {"idle", "scope", "walk", "narrow", "query", "tell", "save", "history"}
       /\ reportCall[c].frontier \subseteq reportCall[c].found
       /\ reportCall[c].visible = Everyone \/ reportCall[c].visible \subseteq People
       /\ reportCall[c].ids = Everyone \/ reportCall[c].ids \subseteq People
       /\ reportCall[c].rows \subseteq People
  /\ lineHistory \subseteq [user : People, old : People \cup {NoManager}, new : People \cup {NoManager}]

(* Is X the actor with everybody whose line leads to one of X?  Seen from  *)
(* the direct reports alone when the scope is not deep.                    *)
ClosedLine(a, X, deep) == a \in X /\ \A m \in (IF deep THEN X ELSE {a}) : DirectReports(m) \subseteq X

(* The walk of the reporting line ends with the actor's team, direct or    *)
(* with everybody under it, and nobody else: also when managers were       *)
(* assigned in a circle, which nothing forbids                             *)
(* (hierarchy-scope.service.js legacyDescendantUserIds).                   *)
WalkFindsLine ==
  \A c \in ReportCalls :
    LET call == reportCall[c] IN
    call.pc = "narrow" /\ call.found # {} /\ ~call.stirred =>
      /\ ClosedLine(call.actor, call.found, call.deep)
      /\ \A X \in SUBSET call.found : ClosedLine(call.actor, X, call.deep) => X = call.found

(* Whoever assigns at the same time: once the calls are done, the manager  *)
(* a person has is one an entry of the history set                         *)
(* (reporting-line.service.js assignManager).                              *)
LineExplained ==
  \A u \in People \ unexplained :
    (\A c \in ReportCalls : reportCall[c].pc # "history") =>
      \/ \A h \in lineHistory : h.user # u
      \/ \E h \in lineHistory : h.user = u /\ h.new = manager[u]

(* A list of users that is not empty bounds the rows: they are of people   *)
(* the actor may see, and of those that were asked for; and a report that  *)
(* was shown has its audit entry (report.service.js preview, exportReport).*)
ReportBounded ==
  \A s \in shown :
    /\ [actor |-> s.actor, by |-> s.by, rows |-> s.rows] \in viewed
    /\ s.ids # {} => /\ s.visible # Everyone => s.rows \subseteq s.visible
                     /\ s.by # "none" => s.rows \subseteq s.asked

ReportsHold == WalkFindsLine /\ LineExplained /\ ReportBounded

(* A report shows no row of a person outside what its actor may see and    *)
(* asked for (report.service.js resolveUserIds, which limits "rows to the  *)
(* caller's ACTIVE direct reports").                                       *)
RowsInScope ==
  \A s \in shown :
    /\ s.visible # Everyone => s.rows \subseteq s.visible
    /\ s.by # "none" => s.rows \subseteq s.asked
=============================================================================
