----------------------------- MODULE RequestScope -----------------------------
(***************************************************************************)
(* A read under the client's deadline (current user, SSO providers,        *)
(* connection schema, settings): a query of the feature client fetches     *)
(* through withRequestDeadline (api/requestScope.ts), the generated client *)
(* (client.gen.ts, request) and the response contract                      *)
(* (responseValidation.ts). The server may never answer; the timer, the    *)
(* cancellation of the query and the stages of the answer race.            *)
(***************************************************************************)
EXTENDS Naturals

CONSTANTS
    XNone,          \* nothing
    XMaxFetches     \* bound: fetches of the query, its own retries included

ASSUME ScopeAssumption ==
    /\ XMaxFetches \in Nat \ {0}
    /\ XNone \notin {"parent", "deadline", "network", "abort", "contract", "server", "data", "valid", "invalid"}
    /\ XNone \notin [ok : BOOLEAN, valid : BOOLEAN]

VARIABLES
    xJson,          \* the operation's classification is consumed_json
    xPhase,         \* "idle", "fetch", "validate", "read", or "caught" before the finally
    xParent,        \* the signal of the query: "live" or "aborted"
    xTimer,         \* the scope's timer is armed
    xListener,      \* the scope listens to the parent
    xReason,        \* _reason: XNone, "parent" or "deadline" (no read is aborted by its caller)
    xRes,           \* the response: [ok, valid], or XNone
    xThrown,        \* what run threw or returned, or XNone
    xTries,         \* failures of this fetch of the query so far
    xQuery,         \* state of the query: "pending", "success", "error"; its data below
    xData,          \* the data shown: XNone, "valid" or "invalid"
    xError,         \* error of the query, or XNone
    xFetches        \* bound

xVars == <<xJson, xPhase, xParent, xTimer, xListener, xReason, xRes, xThrown, xTries, xQuery, xData, xError, xFetches>>
xShown == <<xQuery, xData, xError>>

XErrors == {"network", "abort", "contract", "server"}
XResponse == [ok : BOOLEAN, valid : BOOLEAN]
XWorks == xPhase \in {"fetch", "validate", "read"}
XAborted == xReason # XNone

(* mutant of XArms *)
NeverArmed == FALSE

(* The constructor arms a timer for a finite timeout unless the parent is already aborted *)
XArms == xParent # "aborted"

(* RequestScope's constructor, joined to the query's signal *)
XConstruct ==
    /\ xReason' = IF xParent = "aborted" THEN "parent" ELSE XNone
    /\ xListener' = (xParent # "aborted")
    /\ xTimer' = XArms

(* mutant of XDispose *)
ScopeIsKept == UNCHANGED <<xTimer, xListener>>

(* dispose: the timer and the listener go, once *)
XDispose == xTimer' = FALSE /\ xListener' = FALSE

(* mutant of fireAbort *)
LastReasonWins(reason) == xReason' = reason /\ xTimer' = FALSE

(* fireAbort: the first reason stays, and the timer is cleared *)
fireAbort(reason) ==
    IF XAborted THEN UNCHANGED <<xReason, xTimer>> ELSE xReason' = reason /\ xTimer' = FALSE

(* The query fetches: withRequestDeadline makes its scope and runs the request *)
XFetch ==
    /\ xPhase = "idle" /\ xFetches < XMaxFetches
    /\ XConstruct
    /\ xPhase' = "fetch" /\ xRes' = XNone /\ xThrown' = XNone /\ xFetches' = xFetches + 1

(* A mount, a navigation or ClientQueryState's retry starts a fetch, with a signal of its own *)
XStart ==
    /\ xTries = 0 /\ xParent = "live" /\ XFetch
    /\ xQuery' = IF xData = XNone THEN "pending" ELSE xQuery
    /\ xError' = IF xData = XNone THEN XNone ELSE xError
    /\ UNCHANGED <<xJson, xParent, xTries, xData>>

(* featureQueryRetry let the query try once more *)
XRetry == xTries > 0 /\ xParent = "live" /\ XFetch /\ UNCHANGED <<xJson, xParent, xTries, xShown>>

(* The deadline: the timer fires *)
XDeadline == xTimer /\ fireAbort("deadline") /\ UNCHANGED <<xJson, xPhase, xParent, xListener, xRes, xThrown, xTries, xShown, xFetches>>

(* The query is cancelled: its observers are gone, or a newer fetch replaces it *)
XCancel ==
    /\ xParent = "live" /\ (XWorks \/ xTries > 0)
    /\ xParent' = "aborted"
    /\ IF xListener THEN fireAbort("parent") ELSE UNCHANGED <<xReason, xTimer>>
    /\ UNCHANGED <<xJson, xPhase, xListener, xRes, xThrown, xTries, xShown, xFetches>>

(* run ends: what it returns or throws goes through the catch and the finally of withRequestDeadline *)
XEnds(thrown) == xThrown' = thrown /\ xPhase' = "caught" /\ UNCHANGED <<xJson, xParent, xTimer, xListener, xReason, xTries, xShown, xFetches>>
XPhaseTo(phase) == xPhase' = phase /\ UNCHANGED <<xJson, xParent, xTimer, xListener, xReason, xThrown, xTries, xShown, xFetches>>

(* fetch answers, fails, or is aborted by the scope's signal *)
XAnswered ==
    /\ xPhase = "fetch"
    /\ \/ ~XAborted /\ xRes' \in XResponse /\ XPhaseTo("validate")
       \/ ~XAborted /\ xRes' = XNone /\ XEnds("network")
       \/ XAborted /\ xRes' = XNone /\ XEnds("abort")

(* mutant of shouldValidateResponse *)
ValidatesFailures(r) == ~r.ok

(* shouldValidateResponse: consumed JSON, and every failure; a browser redirect is not a fetch *)
shouldValidateResponse(r) == xJson \/ ~r.ok

(* validateFetchResponse: the status has a contract, the body is JSON, matches its schema and the
   semantic checks, or the answer is a contract error; so is a body that cannot be read because the
   signal has been aborted. The sanitized copy is no longer bound to the signal. *)
validateFetchResponse ==
    /\ xPhase = "validate"
    /\ UNCHANGED xRes
    /\ IF ~shouldValidateResponse(xRes) THEN XPhaseTo("read")
       ELSE IF XAborted \/ ~xRes.valid THEN XEnds("contract") ELSE XPhaseTo("read")

(* The client reads the body: data, or the error body, which is thrown *)
XRead ==
    /\ xPhase = "read"
    /\ UNCHANGED xRes
    /\ XEnds(IF XAborted /\ ~shouldValidateResponse(xRes) THEN "abort"
             ELSE IF xRes.ok THEN "data" ELSE "server")

(* mutant of XCaught *)
NotReclassified == xThrown

(* The catch of withRequestDeadline *)
XCaught == IF xThrown # "data" /\ xReason = "deadline" THEN "deadline" ELSE xThrown

(* mutant of featureQueryRetry *)
RetriesForever(outcome) == outcome # "contract"

featureQueryRetry(outcome) == outcome # "contract" /\ xTries < 1

(* The query settles; it ignores what a cancelled fetch brings *)
XSettle ==
    /\ xPhase = "caught" /\ XDispose
    /\ xPhase' = "idle"
    /\ LET outcome == XCaught
           retries == featureQueryRetry(outcome) IN
       \/ /\ xParent = "aborted"
          /\ xTries' = 0 /\ UNCHANGED <<xShown>>
       \/ /\ xParent = "live" /\ outcome = "data"
          /\ xTries' = 0 /\ xQuery' = "success" /\ xError' = XNone
          /\ xData' = IF xRes.valid THEN "valid" ELSE "invalid"
       \/ /\ xParent = "live" /\ outcome # "data" /\ retries
          /\ xTries' = xTries + 1 /\ UNCHANGED <<xShown>>
       \/ /\ xParent = "live" /\ outcome # "data" /\ ~retries
          /\ xTries' = 0 /\ xQuery' = "error" /\ xError' = outcome /\ UNCHANGED xData
    /\ xParent' = IF xTries' = 0 THEN "live" ELSE xParent           \* the next fetch has its own signal
    /\ UNCHANGED <<xJson, xReason, xRes, xThrown, xFetches>>

(* A query cancelled between its tries is not tried again *)
XGiveUp ==
    /\ xPhase = "idle" /\ xTries > 0 /\ xParent = "aborted"
    /\ xTries' = 0 /\ xParent' = "live"
    /\ UNCHANGED <<xJson, xPhase, xTimer, xListener, xReason, xRes, xThrown, xShown, xFetches>>

(* ClientQueryState: the error, a refresh in progress, or nothing *)
XMessage ==
    IF xQuery = "error" THEN
        IF xError = "contract" THEN (IF xData = XNone THEN "invalidInitial" ELSE "invalidRefresh")
        ELSE IF xError = "deadline" THEN "requestTimeout"
        ELSE IF xData = XNone THEN "fallback" ELSE "refreshError"
    ELSE IF xData # XNone /\ xPhase # "idle" THEN "refreshing" ELSE "none"

ScopeInit ==
    /\ xJson \in BOOLEAN
    /\ xPhase = "idle" /\ xParent = "live" /\ xTimer = FALSE /\ xListener = FALSE
    /\ xReason = XNone /\ xRes = XNone /\ xThrown = XNone /\ xTries = 0
    /\ xQuery = "pending" /\ xData = XNone /\ xError = XNone /\ xFetches = 0

XClient == XAnswered \/ validateFetchResponse \/ XRead \/ XSettle \/ XGiveUp
ScopeNext == XStart \/ XRetry \/ XDeadline \/ XCancel \/ XClient

(* A timer fires and an abort is delivered; the browser goes on with an answer it has. The server
   need not answer. *)
ScopeFairness ==
    /\ WF_xVars(XDeadline) /\ WF_xVars(XAborted /\ XAnswered) /\ WF_xVars(XRetry) /\ WF_xVars(XGiveUp)
    /\ WF_xVars(validateFetchResponse) /\ WF_xVars(XRead) /\ WF_xVars(XSettle)
ScopeSpec == ScopeInit /\ [][ScopeNext]_xVars /\ ScopeFairness
-------------------------------------------------------------------------------
(* Types; a query is tried twice at most. *)
ScopeTypeOK ==
    /\ xJson \in BOOLEAN /\ xPhase \in {"idle", "fetch", "validate", "read", "caught"}
    /\ xParent \in {"live", "aborted"} /\ xTimer \in BOOLEAN /\ xListener \in BOOLEAN
    /\ xReason \in {XNone, "parent", "deadline"} /\ xRes \in XResponse \cup {XNone}
    /\ xThrown \in XErrors \cup {"data", XNone} /\ xTries \in 0..1 /\ xFetches \in 0..XMaxFetches
    /\ xQuery \in {"pending", "success", "error"} /\ xData \in {XNone, "valid", "invalid"}
    /\ xError \in XErrors \cup {"deadline", XNone}

(* "exactly-once cleanup of listeners and timers": a scope that is over has neither, and while it is
   at work the timer runs unless something has aborted it. *)
ScopeCleansUp ==
    /\ xPhase = "idle" => ~xTimer /\ ~xListener
    /\ XWorks => (xTimer <=> ~XAborted)

(* What validateFetchResponse guards: the data of an operation with a JSON contract has passed it,
   whatever raced with its answer. *)
ShownDataIsValid == xJson => xData # "invalid"

(* "only this client's own deadline expiry is reclassified as RequestDeadlineError", and the first
   abort wins: a scope's reason never changes while it is at work. *)
FirstReasonStays == [][XWorks /\ XAborted => xReason' = xReason]_xVars

(* ClientQueryState tells a failure for what it was: "requestTimeout" exactly when the client's own
   deadline has passed, also when it cut off the reading of the body, and an invalid response only
   when the server has sent one. *)
FailureIsToldTruly ==
    [][XSettle /\ xParent = "live" /\ XCaught # "data" /\ xTries' = 0 =>
        /\ XMessage' = "requestTimeout" <=> xReason = "deadline"
        /\ XMessage' \in {"invalidInitial", "invalidRefresh"} => ~xRes.valid]_xVars

(* A read ends although the server never answers: both tries have a deadline. *)
ReadsEnd == (xPhase # "idle" \/ xTries > 0) ~> (xPhase = "idle" /\ (xTries = 0 \/ xFetches = XMaxFetches))

(* "Parent cancellations keep their native abort error" (withRequestDeadline): a cancelled read is
   reported as an invalid response only when the server has sent one. *)
CancellationIsNative ==
    xPhase = "caught" /\ xReason = "parent" /\ xThrown = "contract" => ~xRes.valid

(* withRequestDeadline and validateFetchResponse together: a fetch leaves nothing armed behind it,
   and nothing on the screen that its contract did not pass. *)
ScopeIsSound == ScopeCleansUp /\ ShownDataIsValid
===============================================================================
