-------------------------------- MODULE MCWorkspace --------------------------------
(***************************************************************************)
(* The workspace, the history, what every page stands on (identity,        *)
(* routes, requests, contracts, language), and the lock that the queries   *)
(* of the workspace take, on small instances.  A behaviour is one of a     *)
(* single component, which Init chooses.                                   *)
(***************************************************************************)
EXTENDS MCProcessingLock, IdentityBoundary, SessionDeletion, Conversation, QuerySubmit, Routes,
        ConnectionSelection, DatabaseSelector, PagedLists, History, SqlHighlight, RequestScope,
        ResponseContract, SignIn, Locale, TLC

VARIABLE workspacePage      \* the one that is used

workspaceVars == <<workspacePage, vars, iVars, dVars, wVars, yVars, nVars, kVars, lVars, bVars,
                   zVars, uVars, xVars, hVars, gVars, tVars>>

-----------------------------------------------------------------------------
(* Instances *)

MCUsers == {{}, {"query.submit"}, {"admin.sso.manage", "query.history.view"},
            {"admin.connections.manage"}}

MCLists == {<<"k">>, <<"k", "l">>}

(* Lists of the selector; a name is a sequence of letters *)
MCSelectorLists == {<<>>, <<"k">>, <<"k", "l">>, <<"m", "l", "k">>, <<"l", "m">>}
MCName == [k |-> <<1, 2>>, l |-> <<1, 1>>, m |-> <<2>>]

MCRows == <<3, 2>>
MCFound == (ZNone :> {1, 2}) @@ ("a" :> {1}) @@ ("b" :> {2})

MCTags == {[base |-> b, region |-> ""] : b \in {"en", "ar", "fr"}} \cup
          {[base |-> "ar", region |-> "EG"]}
MCNavigators == {<<>>, <<[base |-> "fr", region |-> ""], [base |-> "ar", region |-> "EG"]>>}

(* Operations of the manifest: alternatives of one status, paths that      *)
(* match one another, and every class                                      *)
MCTelling == {"none", "pending", "validation", "refine", "result"}
MCPlain(keys) == [properties |-> keys, required |-> keys, tags |-> MCTelling, sends |-> "none"]
MCErrorBody == [properties |-> {"error", "message_key", "field"},
                required |-> {"error", "message_key"},
                tags |-> {"none", "pending", "validation"}, sends |-> "none"]
MCPending == [properties |-> {"error", "message_key", "mutation_applied"},
              required |-> {"error", "message_key", "mutation_applied"},
              tags |-> {"pending"}, sends |-> "pending"]
MCResult == [properties |-> {"kind", "attempt_number", "row_count", "rows"},
             required |-> {"attempt_number", "row_count", "rows"},
             tags |-> {"none", "result"}, sends |-> "result"]
MCRefine == [properties |-> {"kind", "message_key", "should_refine"},
             required |-> {"message_key", "should_refine"},
             tags |-> {"none", "refine"}, sends |-> "refine"]
MCOperation(id, method, path, class, unions) ==
    [id |-> id, method |-> method, path |-> path, class |-> class, unions |-> unions]
MCManifest == {
    MCOperation("getQuotaStatus", "GET", <<"quotas", "status">>, "consumed_json",
                200 :> <<MCPlain({"total", "next_cursor", "dimensions"})>>),
    MCOperation("getQuota", "GET", <<"quotas", "{}">>, "unused", 200 :> <<MCPlain({"limit"})>>),
    MCOperation("upsertQuota", "PUT", <<"quotas", "{}">>, "consumed_json",
                200 :> <<MCPlain({"limit"})>> @@ 503 :> <<MCErrorBody, MCPending>>),
    MCOperation("deleteQuota", "DELETE", <<"quotas", "{}">>, "no_body",
                503 :> <<MCErrorBody, MCPending>>),
    MCOperation("createSession", "POST", <<"sessions">>, "unused",
                201 :> <<MCPlain({"created_at"})>>),
    MCOperation("updateSessionConnection", "PATCH", <<"sessions", "{}", "connection">>,
                "consumed_json", 200 :> <<MCPlain({"created_at", "last_activity_at"})>>),
    MCOperation("getSession", "GET", <<"sessions", "{}">>, "consumed_json",
                200 :> <<MCPlain({"attempts_total", "attempts_next_cursor",
                                  "created_at", "last_activity_at"})>>),
    MCOperation("regenerateQuery", "POST", <<"query", "regenerate">>, "consumed_json",
                200 :> <<MCResult, MCRefine>> @@ 503 :> <<MCErrorBody>>),
    MCOperation("oidcLogin", "GET", <<"oidc", "login">>, "browser_redirect", <<>>)}

(* Bodies: what a schema provides, less a key, with a key more, malformed *)
MCSchemas == UNION {UNION {{op.unions[s][i] : i \in DOMAIN op.unions[s]} : s \in DOMAIN op.unions} :
                      op \in HManifest}
MCBodiesOf(schema) ==
    LET p == schema.properties IN
    [keys : {p, schema.required, p \cup {"extra"}} \cup {p \ {x} : x \in p},
     tag : {schema.sends, "none"}, bad : {{}}] \cup
    [keys : {p}, tag : {schema.sends}, bad : {{x} : x \in p}] \cup
    [keys : {p \cup {"extra"}}, tag : {schema.sends}, bad : {{"extra"}}]
MCBodies == UNION {MCBodiesOf(schema) : schema \in MCSchemas}

-----------------------------------------------------------------------------
(* Behaviours *)

WorkspacePages == {"lock", "identity", "deletion", "conversation", "submit", "routes",
                   "selection", "selector", "lists", "history", "highlight", "scope",
                   "contract", "signin", "locale"}

(* A page that is not used stays in one of its initial states *)
WorkspacePagesInit ==
    /\ Init
    /\ IdentityInit
    /\ workspacePage = "identity" \/ (iCookie = 0)
    /\ DeletionInit
    /\ ConversationInit
    /\ workspacePage = "conversation" \/ (wActive = WNone)
    /\ SubmitInit
    /\ RoutesInit
    /\ workspacePage = "routes" \/ (nPath = "/" /\ nServer = NNone)
    /\ SelectionInit
    /\ workspacePage = "selection" \/ (~kSession /\ kList = KNone /\ kPrefill = KNone)
    /\ SelectorInit
    /\ workspacePage = "selector" \/ (selectedId = LNone)
    /\ PagedInit
    /\ workspacePage = "lists" \/ (bList = "history" /\ \A e \in BIds : bKey[e] = 0)
    /\ HistoryInit
    /\ HighlightInit
    /\ ScopeInit
    /\ workspacePage = "scope" \/ (xJson)
    /\ ContractInit
    /\ SignInInit
    /\ workspacePage = "signin" \/ (gCode = GNone)
    /\ LocaleInit
    /\ workspacePage = "locale" \/ (tEntries = <<TEntry(TNone, "none")>> /\ tStored = TNone /\ ~tDenied /\ tNavigator = <<>>)

WorkspaceInit == workspacePage \in WorkspacePages /\ WorkspacePagesInit

LockUsed ==
    /\ workspacePage = "lock" /\ Next
    /\ UNCHANGED <<workspacePage, iVars, dVars, wVars, yVars, nVars, kVars, lVars, bVars,
                    zVars, uVars, xVars, hVars, gVars, tVars>>

IdentityUsed ==
    /\ workspacePage = "identity" /\ IdentityNext
    /\ UNCHANGED <<workspacePage, vars, dVars, wVars, yVars, nVars, kVars, lVars, bVars,
                    zVars, uVars, xVars, hVars, gVars, tVars>>

DeletionUsed ==
    /\ workspacePage = "deletion" /\ DeletionNext
    /\ UNCHANGED <<workspacePage, vars, iVars, wVars, yVars, nVars, kVars, lVars, bVars,
                    zVars, uVars, xVars, hVars, gVars, tVars>>

ConversationUsed ==
    /\ workspacePage = "conversation" /\ ConversationNext
    /\ UNCHANGED <<workspacePage, vars, iVars, dVars, yVars, nVars, kVars, lVars, bVars,
                    zVars, uVars, xVars, hVars, gVars, tVars>>

SubmitUsed ==
    /\ workspacePage = "submit" /\ SubmitNext
    /\ UNCHANGED <<workspacePage, vars, iVars, dVars, wVars, nVars, kVars, lVars, bVars,
                    zVars, uVars, xVars, hVars, gVars, tVars>>

RoutesUsed ==
    /\ workspacePage = "routes" /\ RoutesNext
    /\ UNCHANGED <<workspacePage, vars, iVars, dVars, wVars, yVars, kVars, lVars, bVars,
                    zVars, uVars, xVars, hVars, gVars, tVars>>

SelectionUsed ==
    /\ workspacePage = "selection" /\ SelectionNext
    /\ UNCHANGED <<workspacePage, vars, iVars, dVars, wVars, yVars, nVars, lVars, bVars,
                    zVars, uVars, xVars, hVars, gVars, tVars>>

SelectorUsed ==
    /\ workspacePage = "selector" /\ SelectorNext
    /\ UNCHANGED <<workspacePage, vars, iVars, dVars, wVars, yVars, nVars, kVars, bVars,
                    zVars, uVars, xVars, hVars, gVars, tVars>>

PagedUsed ==
    /\ workspacePage = "lists" /\ PagedNext
    /\ UNCHANGED <<workspacePage, vars, iVars, dVars, wVars, yVars, nVars, kVars, lVars,
                    zVars, uVars, xVars, hVars, gVars, tVars>>

HistoryUsed ==
    /\ workspacePage = "history" /\ HistoryNext
    /\ UNCHANGED <<workspacePage, vars, iVars, dVars, wVars, yVars, nVars, kVars, lVars,
                    bVars, uVars, xVars, hVars, gVars, tVars>>

HighlightUsed ==
    /\ workspacePage = "highlight" /\ HighlightNext
    /\ UNCHANGED <<workspacePage, vars, iVars, dVars, wVars, yVars, nVars, kVars, lVars,
                    bVars, zVars, xVars, hVars, gVars, tVars>>

ScopeUsed ==
    /\ workspacePage = "scope" /\ ScopeNext
    /\ UNCHANGED <<workspacePage, vars, iVars, dVars, wVars, yVars, nVars, kVars, lVars,
                    bVars, zVars, uVars, hVars, gVars, tVars>>

ContractUsed ==
    /\ workspacePage = "contract" /\ ContractNext
    /\ UNCHANGED <<workspacePage, vars, iVars, dVars, wVars, yVars, nVars, kVars, lVars,
                    bVars, zVars, uVars, xVars, gVars, tVars>>

SignInUsed ==
    /\ workspacePage = "signin" /\ SignInNext
    /\ UNCHANGED <<workspacePage, vars, iVars, dVars, wVars, yVars, nVars, kVars, lVars,
                    bVars, zVars, uVars, xVars, hVars, tVars>>

LocaleUsed ==
    /\ workspacePage = "locale" /\ LocaleNext
    /\ UNCHANGED <<workspacePage, vars, iVars, dVars, wVars, yVars, nVars, kVars, lVars,
                    bVars, zVars, uVars, xVars, hVars, gVars>>

WorkspaceNext ==
    \/ LockUsed \/ IdentityUsed \/ DeletionUsed \/ ConversationUsed \/ SubmitUsed \/ RoutesUsed
    \/ SelectionUsed \/ SelectorUsed \/ PagedUsed \/ HistoryUsed \/ HighlightUsed
    \/ ScopeUsed \/ ContractUsed \/ SignInUsed \/ LocaleUsed

WorkspaceSpec == WorkspaceInit /\ [][WorkspaceNext]_workspaceVars

-----------------------------------------------------------------------------
(* The workspace, one property per promise its components share            *)

(* The variables of the component in use have their types; the others rest. *)
WorkspaceTypeOK ==
    CASE workspacePage = "lock" -> TypeOK
      [] workspacePage = "identity" -> IdentityTypeOK
      [] workspacePage = "deletion" -> DeletionTypeOK
      [] workspacePage = "conversation" -> ConversationTypeOK
      [] workspacePage = "submit" -> SubmitTypeOK
      [] workspacePage = "routes" -> RoutesTypeOK
      [] workspacePage = "selection" -> SelectionTypeOK
      [] workspacePage = "selector" -> SelectorTypeOK
      [] workspacePage = "lists" -> PagedTypeOK
      [] workspacePage = "history" -> HistoryTypeOK
      [] workspacePage = "highlight" -> HighlightTypeOK
      [] workspacePage = "scope" -> ScopeTypeOK
      [] workspacePage = "contract" -> ContractTypeOK
      [] workspacePage = "signin" -> SignInTypeOK
      [] workspacePage = "locale" -> LocaleTypeOK

(* A page is rendered over data of the user who signed in last, with       *)
(* permissions read since the last navigation (QueryProvider); a user is   *)
(* led only to pages they may see and takes no question of a bookmark      *)
(* across a redirect (App); a rejected sign-in is told (SignInForm).       *)
PageIsOfTheUser ==
    /\ DataIsOfTheUser /\ ShownUserIsSignedIn /\ EveryNavigationIsVerified
    /\ LandingIsPermitted /\ RedirectDropsPrefill /\ RejectionIsVisible

(* Every answer is on the screen once, until it is deleted or regenerated, *)
(* and hidden only if the server deletes it (WorkspacePage); a request     *)
(* ends with one state or, when it was aborted, with none (useQuerySubmit);*)
(* none leaves its entry of the processing lock behind.                    *)
TurnsAreKept ==
    /\ ShownAtMostOnce /\ AnswersStayOnScreen /\ HiddenMeansDeleted
    /\ UnmountAbortsAll /\ SuppressedShowsNothing /\ OneStateIsShown
    /\ NoInflightLeak

(* A list that was read to its end has every entry, and each once, and is  *)
(* read again after a change of this tab (useHistory, useSessions, quota   *)
(* status); a table shows a page of its own result (ResultTable), and an   *)
(* expanded block its SQL unless that is being prepared (SqlCodeBlock).    *)
ListsAreExact ==
    NoEntryTwice /\ NothingIsSkipped /\ OwnChangeIsReread /\ PageIsOfThisResult /\ BlankIsAwaited

(* What the user has chosen stays chosen: the database, against what is    *)
(* read of the session later and in the server's record of the session     *)
(* (useConnectionSelection), the option under the focus                    *)
(* (DatabaseSelector), the question of a bookmark (App), the language      *)
(* across a reload (LanguageToggle).                                       *)
ChoicesAreKept ==
    /\ ChoiceBeatsSync /\ OnlyChoicesArePatched /\ ChoiceIsStored /\ FocusIsOnActiveOption
    /\ BookmarkReachesPrompt /\ ReloadKeepsLanguage /\ AddressCarriesChoice

(* What one step may not do: an answer may not replace a chat the user has *)
(* opened meanwhile (useQuerySubmit), a letter not make an option active   *)
(* that it does not match (DatabaseSelector), a second abort not change    *)
(* the reason of the first, and a failure not be told for another one      *)
(* (withRequestDeadline, ClientQueryState).                                *)
StepsAreTrue ==
    AnswerLeavesOtherChats /\ TypeaheadFindsMatch /\ FirstReasonStays /\ FailureIsToldTruly
=============================================================================
