------------------------------- MODULE OrgChart -------------------------------
(***************************************************************************)
(* Hierarchy charts, one per scope (a contract with a placement): the tree *)
(* of users, the pages it is edited on, its history, and the routing of a  *)
(* new request to the requester's superiors (hierarchy.service.js,         *)
(* domain/hierarchy.js, hierarchy.repository.js, HierarchyPage.tsx,        *)
(* approval-engine.service.js).                                            *)
(*                                                                         *)
(* A user is in a chart once, so a node goes by its user; its id, which    *)
(* breaks ties between siblings, is the number of its minting.  A chart is *)
(* replaced whole, if its version is still the one the page showed; the    *)
(* history entry is written after that, in a call of its own.              *)
(***************************************************************************)
EXTENDS Naturals, FiniteSets, Functions

CONSTANTS
  Users,           \* users
  Scopes,          \* contract and placement pairs
  Null,            \* no user, no scope
  AnyRole,         \* an approval target that is a role
  Approvers,       \* users with a role that may approve
  Contract,        \* Contract[s]: the contract of a scope
  Seeds,           \* charts and scopes a behaviour may begin with
  Pages,           \* open hierarchy pages
  Jobs,            \* handler slots
  JobOps,          \* the calls that are made
  Named,           \* targets a request may name, Null for none
  MaxJobs,         \* bound: calls in one behaviour
  ChartMayFail     \* may a call fail half way, or the process stop?

ASSUME OrgChartAssumption ==
  /\ IsFiniteSet(Users) /\ Null \notin Users \cup Scopes /\ AnyRole \notin Users \cup {Null}
  /\ Approvers \subseteq Users /\ Named \subseteq Users \cup {AnyRole, Null} /\ MaxJobs \in Nat /\ ChartMayFail \in BOOLEAN

VARIABLES
  chart,     \* chart[s]: status, version and nodes
  lastNode,  \* node ids minted
  scope,     \* scope[u]: the contract and placement of a user
  active,    \* users whose status is ACTIVE
  page,      \* page[p]: the chart as the page last loaded it
  job,       \* job[j]: what a handler is at
  jobs,      \* calls made so far
  history,   \* hierarchyhistories documents
  unlogged,  \* observer: versions whose history entry was never written
  routed     \* observer: the assignments requests were submitted with

chartVars == <<chart, lastNode, scope, active, page, job, jobs, history, unlogged, routed>>

Relations == {"ROOT", "CHILD", "PARENT", "SIBLING_BEFORE", "SIBLING_AFTER"}
NoNodes == [u \in {} |-> Null]
NoChart == [status |-> "none", version |-> 0, nodes |-> NoNodes]
NoJob == [op |-> "none", pc |-> "idle", page |-> Null, at |-> Null, seen |-> NoNodes, version |-> 0,
          status |-> "none", before |-> NoNodes, after |-> NoNodes, user |-> Null,
          relation |-> "none", anchor |-> Null,
          target |-> Null, raced |-> FALSE]

UnnumberedChart == [status |-> "DRAFT", version |-> 0, nodes |-> NoNodes]   \* mutant of NewChart

NewChart == [status |-> "DRAFT", version |-> 1, nodes |-> NoNodes]

OrgChartInit ==
  /\ \E seed \in Seeds : chart = seed.chart /\ scope = seed.scope
  /\ lastNode = Cardinality(Users)
  /\ active = Users
  /\ page = [p \in Pages |-> [at |-> Null, chart |-> NoChart]]
  /\ job = [j \in Jobs |-> NoJob] /\ jobs = 0
  /\ history = {} /\ unlogged = {} /\ routed = {}

----------------------------------------------------------------------------
(* The pure operations of domain/hierarchy.js on a nodes array.            *)

ParentOf(nodes, u) == IF u \in DOMAIN nodes THEN nodes[u].parent ELSE Null

(* S holds, of u and of everyone in S, the parent.                         *)
HoldsParents(nodes, u, S) == \A v \in S \cup {u} : ParentOf(nodes, v) \in S \cup {Null}

(* The users above u, whom following parents reaches: those that every     *)
(* such set holds.                                                         *)
Ancestors(nodes, u) ==
  {v \in DOMAIN nodes : \A S \in SUBSET DOMAIN nodes : HoldsParents(nodes, u, S) => v \in S}

Siblings(nodes, u) == {v \in DOMAIN nodes : nodes[v].parent = nodes[u].parent}

Precedes(a, b) == a.order < b.order \/ (a.order = b.order /\ a.id < b.id)

NormalizeSortOrder(nodes) ==
  [u \in DOMAIN nodes |-> [nodes[u] EXCEPT !.order =
     Cardinality({v \in Siblings(nodes, u) : Precedes(nodes[v], nodes[u])})]]

(* validateNodes: no node is there twice, every parent is there and nobody *)
(* is above himself.                                                       *)
ValidNodes(nodes) ==
  /\ \A u, v \in DOMAIN nodes : nodes[u].id = nodes[v].id => u = v
  /\ \A u \in DOMAIN nodes : nodes[u].parent \in DOMAIN nodes \cup {Null} /\ u \notin Ancestors(nodes, u)

With(nodes, u, node) == [v \in DOMAIN nodes \cup {u} |-> IF v = u THEN node ELSE nodes[v]]

Children(nodes, u) == {v \in DOMAIN nodes : nodes[v].parent = u}

CanAdd(nodes, u, relation, anchor) ==
  /\ u \notin DOMAIN nodes
  /\ IF relation = "ROOT" THEN anchor = Null ELSE anchor \in DOMAIN nodes

(* mutant of MakeRoom: those after the new node's place only.              *)
MakeRoomAfter(nodes, parent, order) ==
  [v \in DOMAIN nodes |->
     IF nodes[v].parent = parent /\ nodes[v].order > order
     THEN [nodes[v] EXCEPT !.order = @ + 1] ELSE nodes[v]]

(* Siblings from the new node's place on make room for it.                 *)
MakeRoom(nodes, parent, order) ==
  [v \in DOMAIN nodes |->
     IF nodes[v].parent = parent /\ nodes[v].order >= order
     THEN [nodes[v] EXCEPT !.order = @ + 1] ELSE nodes[v]]

AddNode(nodes, u, relation, anchor, id) ==
  IF relation = "ROOT"
  THEN NormalizeSortOrder(With(nodes, u,
         [id |-> id, parent |-> Null, order |-> Cardinality(DOMAIN nodes)]))
  ELSE
    LET parent == IF relation = "CHILD" THEN anchor ELSE nodes[anchor].parent
        order == CASE relation = "CHILD" -> Cardinality(Children(nodes, anchor))
                   [] relation = "SIBLING_AFTER" -> nodes[anchor].order + 1
                   [] OTHER -> nodes[anchor].order
        moved == IF relation = "PARENT" THEN [nodes EXCEPT ![anchor].parent = u] ELSE nodes
    IN  NormalizeSortOrder(With(MakeRoom(moved, parent, order), u,
          [id |-> id, parent |-> parent, order |-> order]))

CanRemove(nodes, u, promote) ==
  u \in DOMAIN nodes /\ (Children(nodes, u) = {} \/ promote)

(* mutant of RemoveNode: the children go to the top.                       *)
RemoveToTop(nodes, u, promote) ==
  NormalizeSortOrder([v \in DOMAIN nodes \ {u} |->
    IF nodes[v].parent = u THEN [nodes[v] EXCEPT !.parent = Null] ELSE nodes[v]])

(* removeNode: the children take the target's parent and places from the   *)
(* target's on, and then all that follow the target's place make room, the *)
(* promoted children too.                                                  *)
RemoveNode(nodes, u, promote) ==
  LET rest == DOMAIN nodes \ {u}
      kids == Children(nodes, u)
      up == nodes[u].parent
      at == nodes[u].order
      promoted == [v \in rest |->
        IF v \in kids THEN [nodes[v] EXCEPT !.parent = up, !.order = at + @] ELSE nodes[v]]
      room == [v \in rest |->
        IF promote /\ promoted[v].parent = up /\ promoted[v].order > at
        THEN [promoted[v] EXCEPT !.order = @ + Cardinality(kids) - 1] ELSE promoted[v]]
  IN  NormalizeSortOrder(room)

(* Charts as they are stored: valid, with siblings numbered without a gap. *)
IsNodes(n) == DOMAIN n \subseteq Users /\ \A u \in DOMAIN n :
  n[u] \in [id : Nat, parent : DOMAIN n \cup {Null}, order : Nat]
IsChart(c) == c.status \in {"none", "DRAFT", "ACTIVE", "ARCHIVED"} /\ c.version \in Nat /\ IsNodes(c.nodes)

Dense(nodes) == \A u \in DOMAIN nodes :
  {nodes[v].order : v \in Siblings(nodes, u)} = 0 .. Cardinality(Siblings(nodes, u)) - 1

(* The charts and scopes that a behaviour begins with are stored ones.      *)
ASSUME OrgChartSeeds ==
  \A seed \in Seeds :
    /\ DOMAIN seed.chart = Scopes /\ seed.scope \in [Users -> Scopes \cup {Null}]
    /\ \A s \in Scopes :
         /\ IsChart(seed.chart[s]) /\ (seed.chart[s].status = "none" <=> seed.chart[s].version = 0)
         /\ ValidNodes(seed.chart[s].nodes) /\ Dense(seed.chart[s].nodes)

----------------------------------------------------------------------------
Free(j) == job[j] = NoJob /\ jobs < MaxJobs

JobStarts(j, rec) ==
  /\ Free(j) /\ rec.op \in JobOps
  /\ jobs' = jobs + 1 /\ job' = [job EXCEPT ![j] = rec]

JobEnds(j) == job' = [job EXCEPT ![j] = NoJob]

Saving(p) == \E j \in Jobs : job[j].page = p

(* What a submission under way has read may no longer be so.               *)
Races(f) == [j \in Jobs |-> IF f[j].op = "submit" THEN [f[j] EXCEPT !.raced = TRUE] ELSE f[j]]

(* The page opens a chart from the list, or loads it again.                *)
OpenPage(p, s) ==
  /\ ~Saving(p) /\ chart[s].status # "none" /\ page[p] # [at |-> s, chart |-> chart[s]]
  /\ page' = [page EXCEPT ![p] = [at |-> s, chart |-> chart[s]]]
  /\ UNCHANGED <<chart, lastNode, scope, active, job, jobs, history, unlogged, routed>>

(* create: the chart of a scope is made once; a later call finds it.       *)
CreateChart(j, p, s) ==
  /\ ~Saving(p)
  /\ JobStarts(j, [NoJob EXCEPT !.op = "create", !.pc = "insert", !.page = p, !.at = s])
  /\ UNCHANGED <<chart, lastNode, scope, active, page, history, unlogged, routed>>

InsertChart(j) ==
  /\ job[j].pc = "insert"
  /\ LET s == job[j].at IN
     IF chart[s].status = "none"
     THEN /\ chart' = [chart EXCEPT ![s] = NewChart]
          /\ job' = [Races(job) EXCEPT ![j].pc = "log", ![j].version = 1]
          /\ UNCHANGED page
     ELSE /\ page' = [page EXCEPT ![job[j].page] = [at |-> s, chart |-> chart[s]]]
          /\ JobEnds(j) /\ UNCHANGED chart
  /\ UNCHANGED <<lastNode, scope, active, jobs, history, unlogged, routed>>

CanSend(j, p) == Free(j) /\ page[p].at # Null /\ ~Saving(p)

(* A page sends a change of the chart it shows, with the version it shows. *)
PageSends(j, p, call, status, after) ==
  /\ LET s == page[p].at IN
     /\ JobStarts(j, [call EXCEPT !.pc = "replace", !.page = p, !.at = s,
          !.seen = page[p].chart.nodes, !.version = page[p].chart.version,
          !.status = status, !.before = chart[s].nodes, !.after = after])
  /\ UNCHANGED <<chart, scope, active, page, history, unlogged, routed>>

(* addNode: the chart can be edited and the user is active and of its      *)
(* scope; the new nodes are computed from the chart as loaded now.         *)
AddCall(j, p) ==
  /\ CanSend(j, p)
  /\ LET s == page[p].at IN
     \E u \in active, relation \in Relations, anchor \in DOMAIN page[p].chart.nodes \cup {Null} :
     /\ chart[s].status # "ARCHIVED" /\ scope[u] = s
     /\ CanAdd(chart[s].nodes, u, relation, anchor)
     /\ LET after == AddNode(chart[s].nodes, u, relation, anchor, lastNode + 1) IN
        /\ ValidNodes(after)
        /\ PageSends(j, p, [NoJob EXCEPT !.op = "add", !.user = u, !.relation = relation, !.anchor = anchor],
                     chart[s].status, after)
  /\ lastNode' = lastNode + 1

RemoveCall(j, p) ==
  /\ CanSend(j, p)
  /\ LET s == page[p].at IN
     \E u \in Users, promote \in BOOLEAN :
     /\ chart[s].status # "ARCHIVED" /\ CanRemove(chart[s].nodes, u, promote)
     /\ LET after == RemoveNode(chart[s].nodes, u, promote) IN
        /\ ValidNodes(after)
        /\ PageSends(j, p, [NoJob EXCEPT !.op = "remove", !.user = u], chart[s].status, after)
  /\ UNCHANGED lastNode

ActivateCall(j, p) ==
  /\ CanSend(j, p) /\ page[p].chart.status = "DRAFT"
  /\ LET nodes == chart[page[p].at].nodes IN
     /\ DOMAIN nodes # {} /\ ValidNodes(nodes)
     /\ PageSends(j, p, [NoJob EXCEPT !.op = "activate"], "ACTIVE", nodes)
  /\ UNCHANGED lastNode

ArchiveCall(j, p) ==
  /\ CanSend(j, p) /\ page[p].chart.status = "ACTIVE"
  /\ PageSends(j, p, [NoJob EXCEPT !.op = "archive"], "ARCHIVED", chart[page[p].at].nodes)
  /\ UNCHANGED lastNode

IsThere(j) == chart[job[j].at].version > 0                       \* mutant of IsCurrent

IsCurrent(j) == chart[job[j].at].version = job[j].version

(* replaceVersioned: all of it, or a conflict the page is told of.         *)
ReplaceChart(j) ==
  /\ job[j].pc = "replace"
  /\ LET s == job[j].at IN
     IF IsCurrent(j)
     THEN /\ chart' = [chart EXCEPT ![s] = [status |-> job[j].status,
                         version |-> chart[s].version + 1, nodes |-> job[j].after]]
          /\ job' = [Races(job) EXCEPT ![j].pc = "log", ![j].version = chart[s].version + 1]
     ELSE JobEnds(j) /\ UNCHANGED chart
  /\ UNCHANGED <<lastNode, scope, active, page, jobs, history, unlogged, routed>>

(* mutant of Entry: what the chart holds when the entry is written.        *)
EntryAsOfNow(j) == [at |-> job[j].at, version |-> job[j].version, seen |-> job[j].seen,
                    before |-> job[j].before, after |-> chart[job[j].at].nodes]

Entry(j) == [at |-> job[j].at, version |-> job[j].version, seen |-> job[j].seen,
             before |-> job[j].before, after |-> job[j].after]

(* recordHistory, then the answer, with the chart as it was replaced.      *)
LogChange(j) ==
  /\ job[j].pc = "log"
  /\ history' = history \cup {Entry(j)}
  /\ page' = [page EXCEPT ![job[j].page] = [at |-> job[j].at,
       chart |-> [status |-> IF job[j].op = "create" THEN "DRAFT" ELSE job[j].status,
                  version |-> job[j].version, nodes |-> job[j].after]]]
  /\ JobEnds(j)
  /\ UNCHANGED <<chart, lastNode, scope, active, jobs, unlogged, routed>>

(* recordHistory fails, or the process stops before it: the page gets no   *)
(* answer.  (A handler that ends before its write leaves nothing behind.)  *)
LogFails(j) ==
  /\ ChartMayFail /\ job[j].pc = "log"
  /\ unlogged' = unlogged \cup {<<job[j].at, job[j].version>>}
  /\ JobEnds(j)
  /\ UNCHANGED <<chart, lastNode, scope, active, page, jobs, history, routed>>

----------------------------------------------------------------------------
(* locateUser and getAncestorUsers                                         *)
Located(u) == scope[u] # Null /\ chart[scope[u]].status = "ACTIVE" /\ u \in DOMAIN chart[scope[u]].nodes

Superiors(u) == IF Located(u) THEN Ancestors(chart[scope[u]].nodes, u) \cap active ELSE {}

(* updateUser of a contract or placement: not for a member of an active    *)
(* chart; the user is written in a later call.                             *)
MoveCall(j) ==
  /\ Free(j)
  /\ \E u \in Users, s \in Scopes \cup {Null} :
       /\ s # scope[u] /\ ~Located(u)
       /\ JobStarts(j, [NoJob EXCEPT !.op = "move", !.pc = "write", !.user = u, !.at = s])
  /\ UNCHANGED <<chart, lastNode, scope, active, page, history, unlogged, routed>>

WriteScope(j) ==
  /\ job[j].pc = "write"
  /\ scope' = [scope EXCEPT ![job[j].user] = job[j].at]
  /\ job' = [Races(job) EXCEPT ![j] = NoJob]
  /\ UNCHANGED <<chart, lastNode, active, page, jobs, history, unlogged, routed>>

(* setStatus of a user                                                     *)
SetActive(u) ==
  /\ "status" \in JobOps /\ jobs < MaxJobs /\ jobs' = jobs + 1
  /\ active' = IF u \in active THEN active \ {u} ELSE active \cup {u}
  /\ job' = Races(job)
  /\ UNCHANGED <<chart, lastNode, scope, page, history, unlogged, routed>>

----------------------------------------------------------------------------
(* getEligibleUsers: active approvers of the requester's contract, or of   *)
(* none.                                                                   *)
Eligible(u) ==
  {a \in Approvers \cap active :
     scope[u] = Null \/ scope[a] = Null \/ Contract[scope[a]] = Contract[scope[u]]}

Nearest(u, people) ==
  {a \in people : \A b \in people \ {a} : b \in Ancestors(chart[scope[u]].nodes, a)}

(* prepareSubmission, with a target the requester named or without.        *)
SubmitCall(j) ==
  /\ Free(j)
  /\ \E u \in active, target \in Named :
       JobStarts(j, [NoJob EXCEPT !.op = "submit", !.user = u, !.target = target,
                                  !.pc = IF target = Null THEN "resolve" ELSE "validate"])
  /\ UNCHANGED <<chart, lastNode, scope, active, page, history, unlogged, routed>>

(* resolveDefaultTarget: the nearest superior who may approve; without a   *)
(* scope, a role; else no target and the submission is refused or left to  *)
(* the routing rules.                                                      *)
ResolveTarget(j) ==
  /\ job[j].pc = "resolve"
  /\ LET u == job[j].user
         people == Superiors(u) \cap Eligible(u)
         found == IF Located(u) THEN Nearest(u, people)
                  ELSE IF scope[u] = Null /\ Eligible(u) # {} THEN {AnyRole} ELSE {}
     IN  IF found = {} THEN JobEnds(j)
         ELSE \E t \in found : job' = [job EXCEPT ![j].target = t, ![j].pc = "validate"]
  /\ UNCHANGED <<chart, lastNode, scope, active, page, jobs, history, unlogged, routed>>

(* mutant of Targets: the chart is not asked.                              *)
TargetsOfContract(u) == Eligible(u)

(* The approvers a target stands for.                                      *)
Targets(u) == IF Located(u) THEN Superiors(u) \cap Eligible(u) ELSE Eligible(u)

(* validateTarget                                                          *)
ValidateTarget(j) ==
  /\ job[j].pc = "validate"
  /\ LET u == job[j].user
         ok == /\ scope[u] # Null => chart[scope[u]].status = "ACTIVE" /\ Located(u)
               /\ IF job[j].target = AnyRole THEN Targets(u) # {} ELSE job[j].target \in Targets(u)
     IN  IF ok THEN job' = [job EXCEPT ![j].pc = "assign"] ELSE JobEnds(j)
  /\ UNCHANGED <<chart, lastNode, scope, active, page, jobs, history, unlogged, routed>>

(* buildAssignment: the snapshot is taken from a second look at the chart. *)
BuildAssignment(j) ==
  /\ job[j].pc = "assign"
  /\ LET u == job[j].user IN
     routed' = routed \cup
       {[user |-> u, target |-> job[j].target, approvers |-> Targets(u), chained |-> Located(u),
         scoped |-> scope[u] # Null, raced |-> job[j].raced]}
  /\ JobEnds(j)
  /\ UNCHANGED <<chart, lastNode, scope, active, page, jobs, history, unlogged>>

OrgChartNext ==
  \/ \E p \in Pages, s \in Scopes : OpenPage(p, s) \/ \E j \in Jobs : CreateChart(j, p, s)
  \/ \E j \in Jobs :
       \/ \E p \in Pages :
            AddCall(j, p) \/ RemoveCall(j, p) \/ ActivateCall(j, p) \/ ArchiveCall(j, p)
       \/ InsertChart(j) \/ ReplaceChart(j) \/ LogChange(j) \/ LogFails(j)
       \/ MoveCall(j) \/ SubmitCall(j) \/ WriteScope(j) \/ ResolveTarget(j) \/ ValidateTarget(j) \/ BuildAssignment(j)
  \/ \E u \in Users : SetActive(u)

OrgChartSpec == OrgChartInit /\ [][OrgChartNext]_chartVars
----------------------------------------------------------------------------
(* Charts, pages and handlers hold what the code puts there.               *)
OrgChartTypeOK ==
  /\ \A s \in Scopes : IsChart(chart[s]) /\ (chart[s].status = "none" <=> chart[s].version = 0)
  /\ scope \in [Users -> Scopes \cup {Null}] /\ active \subseteq Users
  /\ \A p \in Pages : page[p].at \in Scopes \cup {Null} /\ IsChart(page[p].chart)
  /\ \A j \in Jobs : job[j].pc \in {"idle", "insert", "replace", "log", "write", "resolve",
                                    "validate", "assign"}
  /\ \A e \in history : IsNodes(e.before) /\ IsNodes(e.after)

Accepted(op) == {job[j] : j \in {i \in Jobs : job[i].pc = "log" /\ job[i].op = op}}

(* Whatever is added to a chart or removed from it, the others keep the    *)
(* superiors they had, but for the one added or removed (domain/           *)
(* hierarchy.js addNode, removeNode).                                      *)
EditsKeepLines ==
  /\ \A c \in Accepted("add") : \A v \in DOMAIN c.before :
       Ancestors(c.after, v) \ {c.user} = Ancestors(c.before, v)
  /\ \A c \in Accepted("remove") : \A v \in DOMAIN c.after :
       Ancestors(c.after, v) = Ancestors(c.before, v) \ {c.user}

Leads(nodes, v, w) == nodes[v].parent = nodes[w].parent /\ nodes[v].order < nodes[w].order
KeepsOrder(c) == \A v, w \in (DOMAIN c.before \cap DOMAIN c.after) \ {c.anchor} :
  Leads(c.before, v, w) => Leads(c.after, v, w)

(* ... siblings keep their order, numbered without a gap, and a new one    *)
(* stands right beside the one it was put next to.  (Where two children or *)
(* more are promoted together this is not so: see the README.)             *)
EditsKeepPlaces ==
  /\ \A c \in Accepted("add") :
       /\ Dense(c.after) /\ KeepsOrder(c)
       /\ c.relation \in {"SIBLING_BEFORE", "PARENT"} => c.after[c.user].order = c.before[c.anchor].order
       /\ c.relation = "SIBLING_AFTER" => c.after[c.user].order = c.before[c.anchor].order + 1
  /\ \A c \in Accepted("remove") :
       Dense(c.after) /\ (Cardinality(Children(c.before, c.user)) < 2 => KeepsOrder(c))

EditsKeepOthers == EditsKeepLines /\ EditsKeepPlaces

InFlight(s, v) == \E j \in Jobs : job[j].pc = "log" /\ job[j].at = s /\ job[j].version = v

(* The history of a chart can be read as a chain: an entry begins with     *)
(* what the entry before it left, the last one left what the chart holds,  *)
(* and no version is missing but those whose handler has not written yet   *)
(* or failed (recordHistory after replaceVersioned).                       *)
HistoryChains ==
  /\ \A e, f \in history : e.at = f.at /\ f.version = e.version + 1 => f.before = e.after
  /\ \A e \in history : chart[e.at].version = e.version => chart[e.at].nodes = e.after
  /\ \A e, f \in history : e.at = f.at /\ e.version = f.version => e = f
  /\ \A e \in history : \A v \in e.version + 1 .. chart[e.at].version :
       \/ <<e.at, v>> \in unlogged \/ InFlight(e.at, v)
       \/ \E f \in history : f.at = e.at /\ f.version = v

(* A change that was accepted was made to the very nodes its page showed,  *)
(* however many pages edit the chart: no edit of another is lost           *)
(* (expectedVersion).                                                      *)
EditedAsSeen == \A e \in history : e.version > 1 => e.before = e.seen

(* A request routed through the chart is never put before its own          *)
(* requester, its approvers are superiors with an approving role, and the  *)
(* one it was addressed to is among them; a member of a scope is never     *)
(* routed around the chart, unless the organisation changed while the      *)
(* request was being submitted (validateTarget, buildAssignment).          *)
RoutedAbove ==
  \A r \in routed :
    /\ r.chained => r.user \notin r.approvers
    /\ r.approvers \subseteq Approvers
    /\ ~r.raced => /\ r.scoped => r.chained
                   /\ r.approvers # {} /\ r.target \in r.approvers \cup {AnyRole}
=============================================================================
