-------------------------------- MODULE Routes --------------------------------
(***************************************************************************)
(* App.tsx with the permission catalog, the guards, the error boundary and *)
(* the hand-over of a bookmarked question: where a location leads a user.  *)
(* A render that navigates is a step of its own, and every navigation is   *)
(* verified by the identity boundary (module IdentityBoundary), which      *)
(* shows nothing of the page meanwhile.                                    *)
(***************************************************************************)
EXTENDS Naturals, FiniteSets

CONSTANTS
    NUsers,         \* the permission sets users have
    NNone,          \* nobody, nothing
    NMaxMoves       \* bound: navigations, sign-ins, refreshes and crashes

VARIABLES
    nPath,          \* location.pathname; "*" is any path without a route
    nLoading,       \* the identity boundary verifies this location
    nServer,        \* server: the permissions of the session, or NNone
    nUser,          \* the permissions of the exposed user, or NNone
    nPrefill,       \* workspacePrefill: the bookmarked question, or NNone
    nUrl,           \* the location has a question and a connection
    nLoaded,        \* the workspace has put the question in the prompt
    nCrashed,       \* RouteErrorBoundary shows its fallback
    nMoves,         \* bound
    nBookmark,      \* history: "none", "open", or "redirected" away from the workspace
    nOwed,          \* history: the user has come with a question, "ask" or "url", and done nothing since
    nVia            \* history: what led here: "user", "guard" or, until verified, "landing"

nVars == <<nPath, nLoading, nServer, nUser, nPrefill, nUrl, nLoaded, nCrashed, nMoves, nBookmark, nOwed, nVia>>

(* PERMISSION_CATALOG: route, permission and landing order *)
NRoute(path, permission, order) == [path |-> path, permission |-> permission, order |-> order]
NCatalog ==
    {NRoute("/", "query.submit", 0), NRoute("/history", "query.history.view", 1),
     NRoute("/settings", "admin.connections.manage", NNone),
     NRoute("/admin/connections", "admin.connections.manage", 2),
     NRoute("/admin/roles", "admin.roles.manage", 3), NRoute("/admin/sso", "admin.sso.manage", 4),
     NRoute("/admin/audit", "admin.audit.verify", 5), NRoute("/admin/quotas", "admin.quotas.manage", 6),
     NRoute("/admin/detection", "admin.security.manage", 7)}

NProtected == {r.path : r \in NCatalog}
NPaths == NProtected \cup {"/sign-in", "/access-denied", "/ask", "*"}
NPermissionOf(path) == (CHOOSE r \in NCatalog : r.path = path).permission

(* hasPermission; nobody has none *)
hasPermission(user, permission) == user # NNone /\ permission \in user

(* mutant of firstPermittedRoute *)
LandsOnFirst(user) == "/"

(* firstPermittedRoute: the permitted route with the least landing order *)
firstPermittedRoute(user) ==
    LET landing == {r \in NCatalog : r.order # NNone /\ hasPermission(user, r.permission)} IN
    IF landing = {} THEN NNone
    ELSE (CHOOSE r \in landing : \A o \in landing : r.order <= o.order).path

NLanding(user) ==
    IF firstPermittedRoute(user) = NNone THEN "/access-denied" ELSE firstPermittedRoute(user)

(* PermissionGuard *)
PermissionGuard(user, path) ==
    IF user = NNone THEN "/sign-in"
    ELSE IF ~hasPermission(user, NPermissionOf(path)) THEN "/access-denied" ELSE path

(* mutant of AuthGuard *)
DeniedGoesHome(user, path) == IF user = NNone THEN "/sign-in" ELSE "*"

(* AuthGuard *)
AuthGuard(user, path) == IF user = NNone THEN "/sign-in" ELSE path

(* RootRedirect *)
RootRedirect(user) == IF user = NNone THEN "/sign-in" ELSE NLanding(user)

(* ApplicationRoutes: where the page of a path sends a user, or the path *)
NTarget(path, user) ==
    CASE path = "/sign-in" -> IF user = NNone THEN path ELSE NLanding(user)
      [] path \in NProtected -> PermissionGuard(user, path)
      [] path = "/access-denied" -> AuthGuard(user, path)
      [] path = "*" -> RootRedirect(user)
      [] OTHER -> path

(* What is on the screen *)
NSettled == ~nLoading /\ nPath # "/ask" /\ NTarget(nPath, nUser) = nPath
NShows(path) == NSettled /\ nPath = path /\ ~nCrashed

(* visibleNavigation of the sidebar *)
NVisible(user) == {r.path : r \in {r \in NCatalog : hasPermission(user, r.permission)}}

(* mutant of NPrefillAt *)
PrefillKept(path) == nPrefill

(* The effect of ApplicationRouter *)
NPrefillAt(path) == IF path \in {"/", "/ask"} THEN nPrefill ELSE NNone

(* mutant of NArrive *)
ArriveKeepsFailure(path, via) ==
    /\ nPath' = path /\ UNCHANGED nCrashed /\ nLoaded' = FALSE /\ nVia' = via
    /\ nPrefill' = NPrefillAt(path) /\ nUrl' = FALSE /\ UNCHANGED nBookmark

(* A new location: the boundary verifies it, and a failed page is replaced *)
NArrive(path, via) ==
    /\ nPath' = path /\ nCrashed' = FALSE /\ nLoaded' = FALSE /\ nVia' = via
    /\ nPrefill' = NPrefillAt(path) /\ nUrl' = FALSE
    /\ nBookmark' = IF nBookmark = "open" /\ path \in {"/sign-in", "/access-denied"} THEN "redirected"
                    ELSE nBookmark

NMove == nMoves < NMaxMoves /\ nMoves' = nMoves + 1
NOtherMove == NMove /\ nOwed' = "no"

-----------------------------------------------------------------------------
(* A page load: nothing is in memory *)
NOpen(path, url) ==
    /\ NMove /\ (url => path = "/")
    /\ nPath' = path /\ nUrl' = url /\ nLoading' = TRUE /\ nUser' = NNone /\ nPrefill' = NNone
    /\ nLoaded' = FALSE /\ nCrashed' = FALSE /\ nVia' = "user"
    /\ nBookmark' = IF path = "/ask" THEN "open" ELSE "none"
    /\ nOwed' = IF path = "/ask" THEN "ask" ELSE IF url THEN "url" ELSE "no"
    /\ UNCHANGED nServer

(* LegacyAskRedirect *)
NAskRedirect ==
    /\ nPath = "/ask" /\ nPath' = "/" /\ nPrefill' = "question" /\ nLoading' = TRUE
    /\ UNCHANGED <<nServer, nUser, nUrl, nLoaded, nCrashed, nMoves, nBookmark, nOwed, nVia>>

(* The identity of this location is verified, or that fails and is nobody *)
NVerify(user) ==
    /\ nLoading /\ nPath # "/ask"
    /\ nLoading' = FALSE /\ nUser' = user /\ nVia' = "user"
    /\ UNCHANGED <<nPath, nServer, nPrefill, nUrl, nLoaded, nCrashed, nBookmark>>
NVerified == NVerify(nServer) /\ UNCHANGED <<nMoves, nOwed>>
NNotVerified == NVerify(NNone) /\ NOtherMove

(* A role is changed, another tab signs in or out, a session ends *)
NServerChanges(user) ==
    /\ NOtherMove /\ nServer # user /\ nServer' = user
    /\ UNCHANGED <<nPath, nLoading, nUser, nPrefill, nUrl, nLoaded, nCrashed, nBookmark, nVia>>

(* A guard navigates.  The permission guard passes on the key of the       *)
(* location it has seen verified; the others have the next one verified.   *)
NRedirect ==
    LET target == NTarget(nPath, nUser)
        guard == nPath \in NProtected IN
    /\ ~nLoading /\ target # nPath
    /\ NArrive(target, IF guard \/ target = "/sign-in" THEN "guard" ELSE "landing")
    /\ nLoading' = ~(guard /\ target = "/access-denied")
    /\ nOwed' = "no"
    /\ UNCHANGED <<nServer, nUser, nMoves>>

(* A link of the sidebar *)
NLink(path) ==
    /\ NOtherMove /\ NSettled /\ nPath \in NProtected /\ path \in NVisible(nUser)
    /\ NArrive(path, "user") /\ nLoading' = TRUE
    /\ UNCHANGED <<nServer, nUser>>

(* handleLoadInWorkspace of the history: a question in the location *)
NLoadInWorkspace ==
    /\ NMove /\ NShows("/history")
    /\ nPath' = "/" /\ nUrl' = TRUE /\ nLoading' = TRUE /\ nOwed' = "url" /\ nVia' = "user"
    /\ nBookmark' = "none"
    /\ UNCHANGED <<nServer, nUser, nPrefill, nLoaded, nCrashed>>

(* handleSessionExpiry: a 401, except on the sign-in page *)
NExpires ==
    /\ NOtherMove /\ nPath \notin {"/sign-in", "/ask"} /\ nServer = NNone
    /\ NArrive("/sign-in", "guard")
    /\ UNCHANGED nServer /\ nUser' = NNone /\ nLoading' = FALSE

(* The boundary reads the identity again, after a 403 *)
NRefresh ==
    /\ NOtherMove /\ ~nLoading /\ nUser # NNone /\ nLoading' = TRUE /\ nLoaded' = FALSE
    /\ UNCHANGED <<nPath, nServer, nUser, nPrefill, nUrl, nCrashed, nBookmark, nVia>>

NSignIn(user) ==
    /\ NOtherMove /\ NShows("/sign-in") /\ nUser' = user /\ nServer' = user
    /\ UNCHANGED <<nPath, nLoading, nPrefill, nUrl, nLoaded, nCrashed, nBookmark, nVia>>

(* From the sidebar or the access-denied page *)
NSignOut ==
    /\ NOtherMove /\ NSettled /\ nUser # NNone /\ nUser' = NNone /\ nServer' = NNone
    /\ UNCHANGED <<nPath, nLoading, nPrefill, nUrl, nLoaded, nCrashed, nBookmark, nVia>>

(* The workspace puts the question in the prompt *)
NLoadPrefill ==
    /\ NShows("/") /\ (nPrefill # NNone \/ nUrl) /\ ~nLoaded /\ nLoaded' = TRUE
    /\ UNCHANGED <<nPath, nLoading, nServer, nUser, nPrefill, nUrl, nCrashed, nMoves, nBookmark, nOwed, nVia>>

(* mutant of NConsume *)
ConsumesFirst ==
    /\ NShows("/") /\ (nPrefill # NNone \/ nUrl) /\ ~nLoaded /\ nPrefill' = NNone /\ nUrl' = FALSE
    /\ UNCHANGED <<nPath, nLoading, nServer, nUser, nLoaded, nCrashed, nMoves, nBookmark, nOwed, nVia>>

(* It is consumed once the connections are known, or cannot be.  Taking it *)
(* out of the location is a navigation, which mounts another workspace     *)
NConsume ==
    /\ NShows("/") /\ (nPrefill # NNone \/ nUrl) /\ nLoaded /\ nPrefill' = NNone
    /\ nUrl' = FALSE /\ nLoaded' = ~nUrl /\ nLoading' = nUrl
    /\ UNCHANGED <<nPath, nServer, nUser, nCrashed, nMoves, nBookmark, nOwed, nVia>>

(* A page throws; Retry renders it again; Home leads to the landing route *)
NCrash ==
    /\ NOtherMove /\ NSettled /\ nPath \in NProtected /\ ~nCrashed /\ nCrashed' = TRUE
    /\ UNCHANGED <<nPath, nLoading, nServer, nUser, nPrefill, nUrl, nLoaded, nBookmark, nVia>>

NBoundaryRetry ==
    /\ NSettled /\ nCrashed /\ nCrashed' = FALSE /\ nLoaded' = FALSE
    /\ UNCHANGED <<nPath, nLoading, nServer, nUser, nPrefill, nUrl, nMoves, nBookmark, nOwed, nVia>>

NBoundaryHome ==
    /\ NSettled /\ nCrashed /\ firstPermittedRoute(nUser) # NNone
    /\ NArrive(firstPermittedRoute(nUser), "landing") /\ nLoading' = TRUE
    /\ UNCHANGED <<nServer, nUser, nMoves, nOwed>>

-----------------------------------------------------------------------------
RoutesInit ==
    /\ nPath \in NPaths /\ nLoading = TRUE /\ nServer \in NUsers \cup {NNone} /\ nUser = NNone
    /\ nPrefill = NNone /\ nUrl = FALSE /\ nLoaded = FALSE /\ nCrashed = FALSE /\ nMoves = 0
    /\ nVia = "user"
    /\ nBookmark = IF nPath = "/ask" THEN "open" ELSE "none"
    /\ nOwed = IF nPath = "/ask" THEN "ask" ELSE "no"

RoutesNext ==
    \/ \E path \in NPaths : NLink(path) \/ \E url \in BOOLEAN : NOpen(path, url)
    \/ NLoadInWorkspace
    \/ \E user \in NUsers : NSignIn(user)
    \/ \E user \in NUsers \cup {NNone} : NServerChanges(user)
    \/ NVerified \/ NNotVerified
    \/ NAskRedirect \/ NRedirect \/ NExpires \/ NRefresh \/ NSignOut
    \/ NLoadPrefill \/ NConsume \/ NCrash \/ NBoundaryRetry \/ NBoundaryHome

(* Verifications end, and renders navigate *)
RoutesFairness ==
    /\ WF_nVars(NAskRedirect) /\ WF_nVars(NRedirect)
    /\ WF_nVars(NVerified \/ NNotVerified)

RoutesSpec == RoutesInit /\ [][RoutesNext]_nVars /\ RoutesFairness

-----------------------------------------------------------------------------
(* Properties *)

(* Types; and the fallback of a failed page is one of a protected route.   *)
RoutesTypeOK ==
    /\ nPath \in NPaths /\ {nServer, nUser} \subseteq NUsers \cup {NNone} /\ nVia \in {"user", "guard", "landing"}
    /\ nBookmark \in {"none", "open", "redirected"} /\ nMoves \in 0..NMaxMoves
    /\ nCrashed => nPath \in NProtected

(* Where the program itself sends a user - after the sign-in, from an      *)
(* unknown path, or home from a failed page - is a page this user may see: *)
(* only a user without any landing permission is led to access-denied.     *)
(* (The verification of the new location may still find other permissions.)*)
LandingIsPermitted ==
    nVia = "landing" /\ nUser # NNone =>
        /\ nPath \in NProtected => hasPermission(nUser, NPermissionOf(nPath))
        /\ nPath = "/access-denied" => \A r \in NCatalog : hasPermission(nUser, r.permission) => r.order = NNone

(* "Authentication/permission redirects must not retain a bookmark prefill *)
(* in memory": once a bookmark has led to the sign-in or access-denied     *)
(* page, its question never reaches the prompt, whoever signs in next.     *)
RedirectDropsPrefill == nBookmark = "redirected" => nPrefill = NNone /\ ~nLoaded

(* The question of a bookmark reaches the prompt: when the workspace shows *)
(* the page and has consumed the prefill, the question is there.           *)
BookmarkReachesPrompt == nOwed = "ask" /\ NShows("/") /\ nPrefill = NNone => nLoaded

(* WorkspacePage.prefill.test.tsx: the question and the connection of the  *)
(* location are in the workspace when the location has settled without     *)
(* them.  They are not: the navigation that takes them out of the location *)
(* replaces the workspace that has just loaded them.                       *)
LocationReachesPrompt == nOwed = "url" /\ NShows("/") /\ ~nUrl => nLoaded

(* Redirects end: once nothing changes any more, every location leads to a *)
(* page, whoever the verifications found on the way.                       *)
RedirectsEnd == <>[]NSettled
=============================================================================
