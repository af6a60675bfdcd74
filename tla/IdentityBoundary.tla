--------------------------- MODULE IdentityBoundary ---------------------------
(***************************************************************************)
(* IdentityQueryBoundary of QueryProvider.tsx: who is signed in as far as  *)
(* this tab knows, and when the pages may be shown.  The pages read and    *)
(* write through a feature client, which is thrown away whenever the       *)
(* identity changes; requests of an old client go on if they are           *)
(* mutations, and every answer passes the response interceptor.            *)
(*                                                                         *)
(* The boundary is one record b; a handler maps it to the next one, and    *)
(* ISettle adds the layout effects that run before the browser does        *)
(* anything else.  The server is external: a session dies when it is       *)
(* signed out or expires, and its permissions change with the role.        *)
(***************************************************************************)
EXTENDS Integers, FiniteSets

CONSTANTS
    IUsers, IPermSets,     \* users; permission lists of roles
    INone,                 \* undefined; anonymous; no cookie
    IMaxSessions,          \* bound: sign-ins of this tab
    IMaxKeys,              \* bound: navigations
    IMaxChanges            \* bound: changes of permissions, requests of pages

VARIABLES
    iAlive,          \* sessions: the identity of a live one, INone for a dead one
    iCookie,         \* the session this browser holds, 0 for none
    iB,              \* the boundary
    iAuth,           \* the sign-in or sign-out that is on its way, or INone
    iUsed, iChanges, \* bounds: sessions created; changes and requests
    iBehind,         \* history: why the tab may not know its cookie: the answer to a
                     \* sign-in was lost, or getMe of the cookie before it is on its way
    iTab             \* history: who was signed in last, INone once the tab knows it ended

iVars == <<iAlive, iCookie, iB, iAuth, iUsed, iChanges, iBehind, iTab>>

Identity == [user : IUsers, perms : IPermSets]
ISids == 0..IMaxSessions

-----------------------------------------------------------------------------
(* What the boundary shows *)

(* failClosedAuthorizationSnapshot *)
failClosed(id) == IF id = INone THEN INone ELSE [id EXCEPT !.perms = {}]

(* exposedCurrentUserQuery: its data, and whether it is being fetched *)
IHidden(b) == b.signedOut \/ b.err = "expired"
IExposed(b) == IF IHidden(b) THEN INone
               ELSE IF b.err # "no" THEN failClosed(b.me) ELSE b.me
IFetching(b) == ~IHidden(b) /\ b.fetch # INone

(* identityFingerprint *)
identityFingerprint(id) == id

needsIdentityReset(b) ==
    ~IFetching(b) /\ b.fp # {identityFingerprint(IExposed(b))}

needsLocationRefresh(b) == b.key # b.verified

(* Whether the pages are rendered *)
IShown(b) ==
    /\ ~IFetching(b) /\ ~needsIdentityReset(b)
    /\ ~b.transition /\ ~b.refreshing /\ ~needsLocationRefresh(b)

-----------------------------------------------------------------------------
(* Pieces of handlers *)

(* mutant of IRotate *)
ClientIsReused(b) == [b EXCEPT !.data = {}]

(* A new feature client: queries of the old one are aborted, mutations are *)
(* not                                                                     *)
IRotate(b) ==
    [b EXCEPT !.data = {},
              !.reqs = {[q EXCEPT !.live = FALSE] : q \in {r \in b.reqs : r.kind = "mutation"}}]

(* The promises of refetchQueries that wait for the fetch: the one of a    *)
(* permission refusal, and the one of the last navigation                  *)
IWaitersEnd(b, waiters) ==
    [b EXCEPT !.refreshing = IF waiters = {} THEN @ ELSE FALSE,
              !.denied = IF "location" \in waiters THEN {} ELSE @,
              !.verified = IF "location" \in waiters THEN b.key ELSE @]

(* cancelQueries of the current user *)
ICancelFetch(b) ==
    IF b.fetch = INone THEN b
    ELSE IWaitersEnd([b EXCEPT !.fetch = INone], b.fetch.waiters)

(* mutant of IRefetch *)
JoinsRunningFetch(b, waiter) ==
    IF b.signedOut THEN IWaitersEnd(b, {waiter})
    ELSE IF b.fetch # INone
    THEN [b EXCEPT !.fetch.waiters = @ \cup {waiter}, !.refreshing = TRUE]
    ELSE [b EXCEPT !.fetch = [sid |-> iCookie, waiters |-> {waiter}, covers |-> "yes"],
                   !.refreshing = TRUE]

(* refetchQueries: a running fetch is cancelled and its promises end, but  *)
(* an older navigation no longer counts.  While there is no cached user    *)
(* nothing is cancelled, and the promise of the running fetch is shared.   *)
(* A disabled query is not fetched.                                        *)
IRefetch(b, waiter) ==
    IF b.signedOut THEN IWaitersEnd(b, {waiter})
    ELSE IF b.fetch # INone /\ b.me = INone
    THEN [b EXCEPT !.fetch.waiters = @ \cup {waiter}, !.refreshing = TRUE]
    ELSE LET old == IF b.fetch = INone THEN {} ELSE b.fetch.waiters \ {"location"} IN
         [IWaitersEnd([b EXCEPT !.refreshing = TRUE], old) EXCEPT
            !.fetch = [sid |-> iCookie, waiters |-> {waiter}, covers |-> "yes"]]

(* The effects: the refresh of a new location, then the identity reset *)
ISettle(b) ==
    LET located == IF needsLocationRefresh(b) /\ b.asked # b.key
                   THEN IRefetch([b EXCEPT !.asked = b.key], "location") ELSE b IN
    IF needsIdentityReset(located)
    THEN [IRotate(located) EXCEPT !.fp = {identityFingerprint(IExposed(located))}]
    ELSE located

(* mutant of beginAuthTransition *)
TransitionNotMarked(b) == IRotate(ICancelFetch(b))

(* beginAuthTransition *)
beginAuthTransition(b) == IRotate([ICancelFetch(b) EXCEPT !.transition = TRUE])

(* The listener of session expiry, and the removal of the cached user *)
IExpire(b) ==
    IF b.expired THEN b
    ELSE IRotate([ICancelFetch([b EXCEPT !.signedOut = TRUE]) EXCEPT
                     !.expired = TRUE, !.me = INone, !.err = "no", !.fp = {INone}])

(* The listener of refused permissions: once for each identity *)
IDenied(b) ==
    LET observed == {identityFingerprint(IExposed(b))} IN
    IF IFetching(b) \/ b.refreshing \/ b.denied = observed THEN b
    ELSE IRefetch(IRotate([b EXCEPT !.denied = observed]), "denied")

-----------------------------------------------------------------------------
(* The current user *)

(* getMe of a live session answers *)
IGetMeAnswers ==
    /\ iB.fetch # INone /\ iAlive[iB.fetch.sid] # INone
    /\ iB' = ISettle(IWaitersEnd([iB EXCEPT !.fetch = INone, !.err = "no",
                                            !.me = iAlive[iB.fetch.sid],
                                            !.fresh = iB.fetch.covers], iB.fetch.waiters))
    /\ iBehind' = IF iB.fetch.sid = iCookie THEN "no" ELSE iBehind
    /\ UNCHANGED <<iAlive, iCookie, iAuth, iUsed, iChanges, iTab>>

(* It fails on the way: the cached user stays, without any permission *)
IGetMeFails ==
    /\ iB.fetch # INone
    /\ iB' = ISettle(IWaitersEnd([iB EXCEPT !.fetch = INone, !.err = "other"],
                                 iB.fetch.waiters))
    /\ UNCHANGED <<iAlive, iCookie, iAuth, iUsed, iChanges, iBehind, iTab>>

(* The session is dead: 401 *)
IGetMeExpired ==
    /\ iB.fetch # INone /\ iAlive[iB.fetch.sid] = INone
    /\ iB' = ISettle(IWaitersEnd([IExpire(iB) EXCEPT !.fetch = INone],
                                 iB.fetch.waiters))
    /\ iTab' = IF iB.expired THEN iTab ELSE INone
    /\ UNCHANGED <<iAlive, iCookie, iAuth, iUsed, iChanges, iBehind>>

(* A navigation, of the user or by a redirect.  History: a fetch that was  *)
(* on its way was asked before it, for a known user or for the first time. *)
INavigate ==
    /\ iB.key < IMaxKeys
    /\ iB' = ISettle([iB EXCEPT !.key = @ + 1, !.fresh = "no",
                                !.fetch = IF @ = INone THEN INone
                                          ELSE [@ EXCEPT !.covers = IF iB.me = INone THEN "first" ELSE "no"]])
    /\ UNCHANGED <<iAlive, iCookie, iAuth, iUsed, iChanges, iBehind, iTab>>

-----------------------------------------------------------------------------
(* Sign-in and sign-out *)

ISignIn(user) ==
    /\ iAuth = INone /\ IShown(iB) /\ IExposed(iB) = INone /\ iUsed < IMaxSessions
    /\ iAuth' = [kind |-> "in", user |-> user, done |-> FALSE, id |-> INone]
    /\ iB' = ISettle(beginAuthTransition(iB))
    /\ UNCHANGED <<iAlive, iCookie, iUsed, iChanges, iBehind, iTab>>

ISignOut ==
    /\ iAuth = INone /\ IShown(iB) /\ IExposed(iB) # INone
    /\ iAuth' = [kind |-> "out", user |-> INone, done |-> FALSE, id |-> INone]
    /\ iB' = ISettle(beginAuthTransition(iB))
    /\ UNCHANGED <<iAlive, iCookie, iUsed, iChanges, iBehind, iTab>>

(* The server signs the user in or out *)
IServerSigns ==
    /\ iAuth # INone /\ ~iAuth.done
    /\ IF iAuth.kind = "in"
       THEN \E perms \in IPermSets :
               /\ iUsed' = iUsed + 1 /\ iCookie' = iUsed'
               /\ iAuth' = [iAuth EXCEPT !.done = TRUE,
                                         !.id = [user |-> iAuth.user, perms |-> perms]]
               /\ iAlive' = [iAlive EXCEPT ![iUsed'] = iAuth'.id]
       ELSE /\ iAlive' = [iAlive EXCEPT ![iCookie] = INone]
            /\ iAuth' = [iAuth EXCEPT !.done = TRUE]
            /\ iCookie' = 0 /\ UNCHANGED iUsed
    /\ iTab' = IF iAuth.kind = "in" THEN iAuth.user ELSE iTab
    /\ UNCHANGED <<iB, iChanges, iBehind>>

(* mutant of ISignedIn *)
SignInWithoutSetQueryData(b, id) ==
    [b EXCEPT !.expired = FALSE, !.denied = {}, !.signedOut = FALSE,
              !.transition = FALSE, !.fresh = "yes",
              !.fetch = IF b.signedOut THEN [sid |-> iCookie, waiters |-> {}, covers |-> "yes"] ELSE @]

(* onSuccess of the sign-in; a query that was disabled is fetched again *)
ISignedIn(b, id) ==
    [b EXCEPT !.expired = FALSE, !.denied = {}, !.signedOut = FALSE,
              !.transition = FALSE, !.me = id, !.err = "no", !.fresh = "yes",
              !.fetch = IF b.signedOut THEN [sid |-> iCookie, waiters |-> {}, covers |-> "yes"] ELSE @]

(* onSuccess of the sign-out, and the removal of the cached user *)
ISignedOut(b) ==
    [ICancelFetch([b EXCEPT !.signedOut = TRUE]) EXCEPT
        !.expired = TRUE, !.transition = FALSE, !.me = INone, !.err = "no"]

IAuthSucceeds ==
    /\ iAuth # INone /\ iAuth.done /\ iAuth' = INone
    /\ iB' = ISettle(IF iAuth.kind = "in" THEN ISignedIn(iB, iAuth.id)
                     ELSE ISignedOut(iB))
    /\ iTab' = iAuth.user
    /\ iBehind' = IF iB'.fetch # INone /\ iB'.fetch.sid # iCookie THEN "late" ELSE "no"
    /\ UNCHANGED <<iAlive, iCookie, iUsed, iChanges>>

(* mutant of IAuthError *)
ErrorKeepsTransition(b) == b

(* onError of both *)
IAuthError(b) == [b EXCEPT !.transition = FALSE]

(* Refused, or the answer is lost, after the server acted or before *)
IAuthFails ==
    /\ iAuth # INone /\ iAuth' = INone
    /\ iB' = ISettle(IAuthError(iB))
    /\ iBehind' = IF iAuth.kind = "in" /\ iAuth.done THEN "lost" ELSE iBehind
    /\ UNCHANGED <<iAlive, iCookie, iUsed, iChanges, iTab>>

-----------------------------------------------------------------------------
(* Requests of the pages *)

IRequest(kind) ==
    /\ IShown(iB) /\ IExposed(iB) # INone /\ iChanges < IMaxChanges
    /\ iChanges' = iChanges + 1
    /\ iB' = [iB EXCEPT !.reqs = @ \cup {[kind |-> kind, sid |-> iCookie, live |-> TRUE]}]
    /\ UNCHANGED <<iAlive, iCookie, iAuth, iUsed, iBehind, iTab>>

(* The answer of a request that a page still waits for *)
IAnswer(q) ==
    /\ q \in iB.reqs /\ iAlive[q.sid] # INone
    /\ iB' = [iB EXCEPT !.reqs = @ \ {q},
                        !.data = IF q.live THEN @ \cup {iAlive[q.sid].user} ELSE @]
    /\ UNCHANGED <<iAlive, iCookie, iAuth, iUsed, iChanges, iBehind, iTab>>

(* The interceptor: 401 ends the session of the tab, 403 has the           *)
(* permissions read again; it does not look at whose request was answered  *)
IAnswer401(q) ==
    /\ q \in iB.reqs /\ iAlive[q.sid] = INone
    /\ iB' = ISettle(IExpire([iB EXCEPT !.reqs = @ \ {q}]))
    /\ iTab' = IF iB.expired THEN iTab ELSE INone
    /\ UNCHANGED <<iAlive, iCookie, iAuth, iUsed, iChanges, iBehind>>

IAnswer403(q) ==
    /\ q \in iB.reqs /\ iAlive[q.sid] # INone
    /\ iB' = ISettle(IDenied([iB EXCEPT !.reqs = @ \ {q}]))
    /\ UNCHANGED <<iAlive, iCookie, iAuth, iUsed, iChanges, iBehind, iTab>>

(* The server: a session expires, the permissions of its role change *)
IServerChanges(s, id) ==
    /\ iAlive[s] # INone /\ iChanges < IMaxChanges
    /\ id # INone => id.user = iAlive[s].user
    /\ iChanges' = iChanges + 1 /\ iAlive' = [iAlive EXCEPT ![s] = id]
    /\ UNCHANGED <<iCookie, iB, iAuth, iUsed, iBehind, iTab>>

-----------------------------------------------------------------------------
(* The application starts with or without a cookie, and asks who it is *)
IdentityInit ==
    /\ \/ iCookie = 0 /\ iUsed = 0 /\ iTab = INone
          /\ iAlive = [s \in ISids |-> INone]
       \/ \E id \in Identity :
             /\ iCookie = 1 /\ iUsed = 1 /\ iTab = id.user
             /\ iAlive = [s \in ISids |-> IF s = 1 THEN id ELSE INone]
    /\ iB = [signedOut |-> FALSE, expired |-> FALSE, me |-> INone, err |-> "no",
             fetch |-> [sid |-> iCookie, waiters |-> {}, covers |-> "yes"],
             fp |-> {}, data |-> {}, reqs |-> {},
             transition |-> FALSE, refreshing |-> FALSE, denied |-> {},
             key |-> 0, verified |-> 0, asked |-> 0, fresh |-> "no"]
    /\ iAuth = INone /\ iChanges = 0 /\ iBehind = "no"

IGetMeEnds == IGetMeAnswers \/ IGetMeFails \/ IGetMeExpired

IdentityNext ==
    \/ IGetMeEnds \/ INavigate
    \/ \E u \in IUsers : ISignIn(u)
    \/ ISignOut \/ IServerSigns \/ IAuthSucceeds \/ IAuthFails
    \/ \E kind \in {"query", "mutation"} : IRequest(kind)
    \/ \E q \in iB.reqs : IAnswer(q) \/ IAnswer401(q) \/ IAnswer403(q)
    \/ \E s \in ISids, id \in Identity \cup {INone} : IServerChanges(s, id)

(* Every request is answered, or the browser gives it up *)
IdentityFairness == WF_iVars(IGetMeEnds) /\ WF_iVars(IServerSigns) /\ WF_iVars(IAuthSucceeds \/ IAuthFails)

IdentitySpec == IdentityInit /\ [][IdentityNext]_iVars /\ IdentityFairness

-----------------------------------------------------------------------------
(* Properties *)

(* Types; a navigation whose refresh ended is the current one.             *)
IdentityTypeOK ==
    /\ iAlive \in [ISids -> Identity \cup {INone}] /\ iAlive[0] = INone
    /\ iCookie \in ISids
    /\ iB.err \in {"no", "other"} /\ iB.data \subseteq IUsers
    /\ iB.verified \in 0..iB.key
    /\ iAuth # INone => iB.transition

(* Pages are rendered only over data of the user they are rendered for:    *)
(* whatever answers were on their way when the identity changed, none of   *)
(* them reaches the client of the next user, unless the tab is behind its  *)
(* cookie.                                                                 *)
DataIsOfTheUser ==
    IShown(iB) /\ iBehind = "no" => \A u \in iB.data : IExposed(iB) # INone /\ u = IExposed(iB).user

(* The user the pages are rendered for is the one this tab signed in last; *)
(* after a sign-out or an expiry there is none until the next sign-in,     *)
(* however late the current user or anything else is answered.             *)
ShownUserIsSignedIn ==
    IShown(iB) /\ iBehind = "no" /\ IExposed(iB) # INone => IExposed(iB).user = iTab

(* The same, if only the answers to sign-ins are not lost.                 *)
LateUserIsIsolated ==
    IShown(iB) /\ iBehind # "lost" =>
        \A u \in iB.data : IExposed(iB) # INone /\ u = IExposed(iB).user

(* Permissions in use were read from the server after the last navigation, *)
(* or by the sign-in that followed it: a navigation of a user who is known *)
(* never renders a page with permissions of an answer that was already on  *)
(* its way.  A navigation that finds no user yet shares the getMe that is. *)
EveryNavigationIsVerified ==
    IShown(iB) /\ IExposed(iB) # INone /\ IExposed(iB).perms # {} => iB.fresh # "no"

(* The same without the exception of the first getMe.  refetchQueries does *)
(* not cancel a fetch of a query that has no data, so this does not hold.  *)
NoNavigationSharesAnAnswer ==
    IShown(iB) /\ IExposed(iB) # INone /\ IExposed(iB).perms # {} => iB.fresh = "yes"

(* The spinner of the boundary always goes away: no order of refreshes,    *)
(* expiries, sign-ins and sign-outs leaves it waiting for nothing.         *)
SpinnerEnds == ~IShown(iB) ~> IShown(iB)

(* The tab ends its session only when the server has ended it: an answer   *)
(* to a request of an earlier session, which is dead, leaves it alone.     *)
ExpiryIsOfThisSession ==
    [][~iB.signedOut /\ iB'.signedOut /\ iAuth' = iAuth => iAlive[iCookie] = INone]_iVars
=============================================================================
