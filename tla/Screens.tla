-------------------------------- MODULE Screens --------------------------------
(***************************************************************************)
(* One person at the browser client while an administrator changes the     *)
(* person's roles or resets the password.                                  *)
(*                                                                         *)
(* Four copies of the person's rights are in play: the roles the server    *)
(* stores, the claims of the access token (authorize goes by these), the   *)
(* permissions the shell got at sign-in or at the last full load (guards,  *)
(* buttons and dialogs go by these), and the menu, which the server        *)
(* computes from the stored roles.  A refreshed token leaves the shell as  *)
(* it was.                                                                 *)
(***************************************************************************)
EXTENDS Pages, Naturals, Functions

CONSTANTS RoleSets,      \* the sets of seeded roles a person may have
          EnforceGate,   \* config.security.enforceFirstSignInGate
          MaxChanges,    \* bound on what the administrator does
          NoMenu         \* the navigation has not been fetched

ASSUME ScreensAssumption ==
  /\ RoleSets \subseteq (SUBSET DOMAIN ROLE_SEED) \ {{}}
  /\ EnforceGate \in BOOLEAN /\ MaxChanges \in Nat

VARIABLES
  held,         \* the roles stored for the person
  superseded,   \* has tokenVersion been raised since the access token was issued?
  changes,      \* assignments of roles and resets of the password so far
  written,      \* roles have been written and the version is not bumped yet
  mustChange,   \* mustChangePassword
  token,        \* the access token: the roles at issue
  shell,        \* AuthProvider's user and permissions
  stale,        \* something was changed since the shell was filled
  menu,         \* the fetched navigation
  page,         \* the page shown
  doing,        \* calls left of what the person started
  refused,      \* calls answered 403 while the shell was not stale
  misled        \* links to pages the router refused, in the same case

personVars == <<held, changes, written, mustChange>>
tokenVars == <<token, superseded>>
screenVars == <<personVars, tokenVars, shell, stale, menu, page, doing, refused, misled>>

SignedOut == [roles |-> {}, mustChange |-> FALSE]

ScreensInit ==
  /\ held \in RoleSets /\ mustChange \in BOOLEAN
  /\ changes = 0 /\ written = FALSE
  /\ token = {} /\ superseded = FALSE /\ shell = SignedOut /\ stale = FALSE
  /\ menu = NoMenu /\ page = "login" /\ doing = <<>>
  /\ refused = {} /\ misled = {}

----------------------------------------------------------------------------
(* The administrator.  assignRoles writes the roles and then bumps the     *)
(* version.                                                                *)
AssignRoles(roles) ==
  /\ ~written /\ changes < MaxChanges /\ changes' = changes + 1
  /\ held' = roles /\ written' = TRUE /\ stale' = TRUE
  /\ UNCHANGED <<mustChange, tokenVars, shell, menu, page, doing, refused, misled>>

BumpVersion ==
  /\ written
  /\ superseded' = TRUE /\ written' = FALSE
  /\ UNCHANGED <<held, changes, mustChange, token, shell, stale, menu, page, doing, refused, misled>>

ResetPassword ==
  /\ changes < MaxChanges /\ changes' = changes + 1
  /\ superseded' = TRUE /\ mustChange' = TRUE /\ stale' = TRUE
  /\ UNCHANGED <<held, written, token, shell, menu, page, doing, refused, misled>>

----------------------------------------------------------------------------
(* The shell.                                                              *)

Fresh == [roles |-> held, mustChange |-> mustChange]
IssueToken == token' = held /\ superseded' = FALSE

Held == RoleSets \cup {{}}

(* By the roles that the shell knows: the pages the router admits, and the *)
(* client's own menu.                                                      *)
Admitted == [roles \in Held |-> RequirePermission(Rights(roles))]
FallbackUnfiltered == [roles \in Held |-> RouterPages]            \* mutant of Fallback
Fallback == [roles \in Held |-> FilterSidebarItems(Rights(roles))]

(* mutant of RequirePasswordChange: a required change leads nowhere.       *)
PermissionOnly(s, p) ==
  IF p \in RouterPages \ Admitted[s.roles] THEN "forbidden" ELSE p

(* RequireAuth is past; RequirePasswordChange stands around everything but *)
(* its own page, and RequirePermission around the page.                    *)
RequirePasswordChange(s, p) ==
  IF s.mustChange THEN "changePassword"
  ELSE IF p \in RouterPages \ Admitted[s.roles] THEN "forbidden" ELSE p

FillShell(p) ==
  /\ shell' = Fresh /\ stale' = FALSE
  /\ page' = RequirePasswordChange(Fresh, p)

(* signIn: the cached queries go, the menu's among them.                   *)
SignIn ==
  /\ shell = SignedOut
  /\ IssueToken /\ FillShell("dashboard") /\ menu' = NoMenu
  /\ UNCHANGED <<personVars, doing, refused, misled>>

(* A full load of an address: refreshSession gets a token and the session. *)
Load(p) ==
  /\ shell # SignedOut
  /\ IssueToken /\ FillShell(p) /\ menu' = NoMenu /\ doing' = <<>>
  /\ UNCHANGED <<personVars, refused, misled>>

SignOut ==
  /\ shell # SignedOut
  /\ shell' = SignedOut /\ stale' = FALSE /\ menu' = NoMenu /\ page' = "login" /\ doing' = <<>>
  /\ UNCHANGED <<personVars, tokenVars, refused, misled>>

(* The token expires or is refused as superseded: axios gets another.      *)
RefreshAccessToken ==
  /\ shell # SignedOut
  /\ IssueToken
  /\ UNCHANGED <<personVars, shell, stale, menu, page, doing, refused, misled>>

(* What is on the screen, by the page and the roles the shell knows.       *)
Layout ==
  [p \in RouterPages \cup {"forbidden", "changePassword", "login"} |->
     [roles \in Held |-> MainLayout(p, Rights(roles))]]

Shown == Layout[page][shell.roles]

Current == shell # SignedOut /\ ~superseded

(* GET /navigation, from the roles as stored.                              *)
Catalog == [roles \in Held |-> NavigationFor(Rights(roles))]
Navigation ==
  /\ Current /\ "navigation" \in Shown.opens
  /\ menu' = Catalog[held]
  /\ UNCHANGED <<personVars, tokenVars, shell, stale, page, doing, refused, misled>>

Sidebar == IF menu = NoMenu THEN Fallback[shell.roles] ELSE menu

(* A click in the menu or on a link of the page; queries and forms of the  *)
(* page that is left are abandoned.                                        *)
Follow ==
  /\ shell # SignedOut
  /\ "navigation" \in Shown.opens
  /\ \E p \in Sidebar \cup Shown.links :
       /\ page' = RequirePasswordChange(shell, p)
       /\ misled' = IF page' = "forbidden" /\ ~stale THEN misled \cup {p} ELSE misled
  /\ doing' = <<>>
  /\ UNCHANGED <<personVars, tokenVars, shell, stale, menu, refused>>

----------------------------------------------------------------------------
(* Calls.                                                                  *)

(* authenticate with the first-sign-in gate, then authorize.               *)
Served(c) ==
  /\ EnforceGate /\ mustChange => c \in FIRST_SIGN_IN_GATE_EXEMPT
  /\ Authorized(c, Rights(token))

(* A call is answered: what was started goes on, or it is over.            *)
Answer(c, rest) ==
  IF Served(c) THEN doing' = rest /\ UNCHANGED refused
  ELSE /\ doing' = <<>>
       /\ refused' = IF stale THEN refused ELSE refused \cup {c}

(* The queries of the page, at first or again: each is served or not by    *)
(* itself, and what was started goes on.                                   *)
Query ==
  /\ Current
  /\ refused' = IF stale THEN refused ELSE refused \cup {c \in Shown.opens : ~Served(c)}
  /\ UNCHANGED <<personVars, tokenVars, shell, stale, menu, page, doing, misled>>

(* A click: the first call of what it starts, and then the others.         *)
Start ==
  /\ Current /\ doing = <<>>
  /\ \E sequence \in Shown.offers :
       /\ Head(sequence) # "auth.changePassword"
       /\ Answer(Head(sequence), Tail(sequence))
  /\ UNCHANGED <<personVars, tokenVars, shell, stale, menu, page, misled>>

Continue ==
  /\ Current /\ doing # <<>> /\ Head(doing) # "auth.getSession"
  /\ Answer(Head(doing), Tail(doing))
  /\ UNCHANGED <<personVars, tokenVars, shell, stale, menu, page, misled>>

(* changePassword bumps the version; refreshSession fills the shell, and   *)
(* the form loads the dashboard.                                           *)
ChangePassword ==
  /\ Current /\ doing = <<>> /\ <<"auth.changePassword", "auth.getSession">> \in Shown.offers
  /\ mustChange' = FALSE /\ superseded' = TRUE /\ doing' = <<"auth.getSession">>
  /\ UNCHANGED <<held, changes, written, token, shell, stale, menu, page, refused, misled>>

RefreshSession ==
  /\ doing # <<>> /\ Head(doing) = "auth.getSession"
  /\ IssueToken /\ FillShell("dashboard") /\ menu' = NoMenu /\ doing' = <<>>
  /\ UNCHANGED <<personVars, refused, misled>>

ScreensNext ==
  \/ \E roles \in RoleSets : AssignRoles(roles)
  \/ BumpVersion \/ ResetPassword
  \/ SignIn \/ SignOut \/ RefreshAccessToken \/ Navigation
  \/ \E p \in RouterPages : Load(p)
  \/ Follow \/ Query \/ Start \/ Continue \/ ChangePassword \/ RefreshSession

ScreensSpec == ScreensInit /\ [][ScreensNext]_screenVars

----------------------------------------------------------------------------
(* What a screen is given by itself, behind a button, or half way.         *)
Sends(screen) == screen.opens \cup UNION {Range(sequence) : sequence \in screen.offers}

(* The pages the shell may show who has a set of roles.                    *)
PagesOf(roles) == RequirePermission(Rights(roles)) \cup {"forbidden", "changePassword"}

(* Whether a page and what it sends, the links and the menus are for the   *)
(* same people is up to the tables, and not to the order of events.  They  *)
(* agree for every combination of the seeded roles.                        *)
TablesAgree ==
  /\ RouterPages \cap {"forbidden", "changePassword", "login"} = {}
  /\ \A roles \in (SUBSET DOMAIN ROLE_SEED) \ {{}} :
       /\ NavigationFor(Rights(roles)) = RequirePermission(Rights(roles))
       /\ FilterSidebarItems(Rights(roles)) \subseteq RequirePermission(Rights(roles))
       /\ \A p \in PagesOf(roles) :
            LET screen == MainLayout(p, Rights(roles)) IN
            /\ screen.links \subseteq RequirePermission(Rights(roles))
            /\ screen.offers \subseteq Seq(STRING) \ {<<>>}
            /\ \A c \in Sends(screen) \ {"attendance.correct"} : Authorized(c, Rights(roles))
  /\ \A roles \in SUBSET DOMAIN ROLE_SEED :
       Sends(MainLayout("changePassword", Rights(roles)))
         \subseteq FIRST_SIGN_IN_GATE_EXEMPT \cup {"passwordPolicy.get"}

----------------------------------------------------------------------------
(* What the pages show is what the server grants: as long as nothing was   *)
(* changed since the shell was filled, no call of a page, a dialog or a    *)
(* button is refused and no action breaks off half way, but for two that   *)
(* are shown without asking: the correction in the attendance overview,    *)
(* and the policy hints of the change of a password the gate demands.      *)
ServedAsShown ==
  refused \subseteq {"attendance.correct"}
    \cup (IF EnforceGate THEN {"passwordPolicy.get"} ELSE {})

(* The server's catalog, the router and the client's own menu agree: a     *)
(* link leads to the page it names as long as nothing was changed, and the *)
(* menu the server computes then shows every page the router admits.       *)
MenuIsRouter ==
  /\ misled = {}
  /\ shell # SignedOut /\ ~stale /\ menu # NoMenu =>
       menu = Admitted[shell.roles]
=============================================================================
