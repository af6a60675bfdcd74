------------------------------ MODULE AdminAudit ------------------------------
(***************************************************************************)
(* The audit page of the admin console (pages/AdminAuditPage.tsx) with     *)
(* useAdminAudit, api/audit and api/auditDownload: a search goes through a *)
(* filter context the server creates, the table shows the last dataset     *)
(* that settled, exports and context requests own an abort scope.          *)
(*                                                                         *)
(* A filter is one value of AFilters; the context the server creates for   *)
(* it is the filter with the generation of its request.  The useQuery of   *)
(* the table drops unused data at once (gcTime 0) and shows the previous   *)
(* data while a new key loads (placeholderData).  The server is external.  *)
(***************************************************************************)
EXTENDS Integers, FiniteSets

CONSTANTS
    AFilters,         \* filters an admin may type
    ANone,            \* no filter, no context, no snapshot
    APages,           \* pages of the dataset each filter selects
    AFormats,         \* formats an admin may ask for: "csv", "json"
    ADispositions,    \* Content-Disposition headers a server may send
    AMaxSearches, AMaxExports,   \* bounds: searches or resets, exports
    AMaxRequests      \* bound: the two together

VARIABLES
    aOpen,                 \* mountedRef
    aDraft,                \* the inputs of the form
    aGen, aScope, aCreating,   \* contextRequestGenerationRef, contextScopeRef, isCreatingContext
    aCtxReqs,              \* context requests whose promise has not settled
    aAuthority, aPage,     \* requestedAuthority and page: the key of the query
    aStatus, aLast, aRetained,   \* the query of the table, the retained snapshot
    aExports, aExportRef, aExporting,   \* exports not finished, exportScopeRef, isExporting
    aExported, aFile,     \* history: exports started, the file saved last
    aLastReset, aSkewed    \* history: generation of the last reset, paging over old data

aVars == <<aOpen, aDraft, aGen, aScope, aCreating, aCtxReqs, aAuthority, aPage, aStatus,
           aLast, aRetained, aExports, aExportRef, aExporting,
           aExported, aFile, aLastReset, aSkewed>>
aSearching == <<aGen, aScope, aCreating, aCtxReqs>>
aTable == <<aAuthority, aPage, aStatus, aLast, aRetained>>
aExportVars == <<aExports, aExportRef, aExporting, aExported, aFile>>
aHistory == <<aLastReset, aSkewed>>

ASSUME AuditAssumption ==
    /\ AFilters \cap {ANone} = {} /\ APages \in [AFilters \cup {ANone} -> Nat \ {0}]
    /\ AFormats \subseteq {"csv", "json"}

AContexts == [filter : AFilters \cup {ANone}, gen : 1..AMaxSearches] \cup {ANone}
ASnapshots == [context : AContexts, page : 1..10] \cup {ANone}

-----------------------------------------------------------------------------
(* api/auditDownload.ts *)

(* isAcceptableBasename: the contractual shape, with the extension asked for *)
isAcceptableBasename(name, format) ==
    /\ name.length \in 1..100
    /\ ~name.separators /\ ~name.dots /\ ~name.forbidden
    /\ name.contractual
    /\ name.extension = format

(* mutant of parseAuditExportFilename *)
CandidateIsTrusted(header, format) ==
    IF header = ANone \/ ~header.attachment THEN ANone
    ELSE IF header.extended # ANone THEN header.extended.name ELSE header.plain

(* parseAuditExportFilename: filename*= is preferred, and when it cannot be *)
(* decoded the plain filename= is not tried.                                *)
parseAuditExportFilename(header, format) ==
    LET candidate == IF header.extended # ANone
                     THEN IF header.extended.utf8 /\ header.extended.decodes
                          THEN header.extended.name ELSE ANone
                     ELSE header.plain
    IN  IF /\ header # ANone /\ ~header.breaks /\ header.attachment
           /\ candidate # ANone /\ isAcceptableBasename(candidate, format)
        THEN candidate ELSE ANone

(* safeAuditExportFilename: the local name when the server's is refused *)
safeAuditExportFilename(format) ==
    [length |-> 29, separators |-> FALSE, dots |-> FALSE, forbidden |-> FALSE,
     contractual |-> TRUE, extension |-> format]

AFilename(header, format) ==
    IF header # ANone /\ parseAuditExportFilename(header, format) # ANone
    THEN parseAuditExportFilename(header, format) ELSE safeAuditExportFilename(format)

-----------------------------------------------------------------------------
(* What the page shows and offers *)

AFilterOf(context) == IF context = ANone THEN ANone ELSE context.filter

(* searchQuery.data: the data of the key, or the previous data while it    *)
(* loads; nothing after a failure                                          *)
AData == IF aStatus = "error" THEN ANone ELSE aLast

snapshot == IF AData # ANone THEN AData ELSE aRetained

exportFilterContext ==
    IF snapshot # ANone /\ snapshot.context # ANone THEN snapshot.context ELSE aAuthority

(* The summary above the table names the fields of the snapshot *)
appliedFields == IF snapshot = ANone THEN ANone ELSE AFilterOf(snapshot.context)

hasUnappliedChanges == snapshot # ANone /\ aDraft # ANone

(* Results: a spinner while nothing can be shown, else an error or a table *)
AResultsView ==
    IF aStatus = "pending" /\ aLast = ANone THEN "loading"
    ELSE IF aStatus = "error" /\ snapshot = ANone THEN "error"
    ELSE IF snapshot = ANone \/ snapshot.page > APages[AFilterOf(snapshot.context)]
         THEN "empty" ELSE "table"

ATotalPages == IF snapshot = ANone THEN 0 ELSE APages[AFilterOf(snapshot.context)]

AOffersPaging == aOpen /\ AResultsView \in {"empty", "table"} /\ ATotalPages > 1
AOffersExport == aOpen /\ aExporting = ANone
AOffersSearch == aOpen /\ ~aCreating

ABudget == aGen + aExported < AMaxRequests

-----------------------------------------------------------------------------
AuditInit ==
    /\ aOpen = TRUE /\ aDraft = ANone
    /\ aGen = 0 /\ aScope = 0 /\ aCreating = FALSE /\ aCtxReqs = {}
    /\ aAuthority = ANone /\ aPage = 1
    /\ aStatus = "pending" /\ aLast = ANone /\ aRetained = ANone
    /\ aExports = {} /\ aExportRef = 0 /\ aExporting = ANone
    /\ aExported = 0 /\ aFile = ANone
    /\ aLastReset = 0 /\ aSkewed = FALSE

(* abort() and the timer of a scope: the first reason stays *)
AAbort(req, reason) == IF req.why = "none" THEN [req EXCEPT !.why = reason] ELSE req

(* The page is left: both scopes are aborted, the queries removed *)
AUnmountPage ==
    /\ aOpen
    /\ aOpen' = FALSE
    /\ aExports' = {AAbort(e, "caller") : e \in aExports} /\ aExportRef' = 0
    /\ aGen' = aGen + 1 /\ aScope' = 0
    /\ aCtxReqs' = {IF c.gen = aScope THEN AAbort(c, "caller") ELSE c : c \in aCtxReqs}
    /\ aStatus' = "pending" /\ aLast' = ANone
    /\ aDraft' = ANone /\ aAuthority' = ANone /\ aPage' = 1 /\ aRetained' = ANone
    /\ aCreating' = FALSE /\ aExporting' = ANone
    /\ UNCHANGED <<aExported, aFile, aHistory>>

AType(filter) ==
    /\ aOpen
    /\ aDraft' = filter
    /\ UNCHANGED <<aOpen, aSearching, aTable, aExportVars, aHistory>>

(* A new key of the query: it loads, unless the key is the one it had *)
AKeyChanges ==
    aStatus' = IF <<aAuthority', aPage'>> = <<aAuthority, aPage>> THEN aStatus ELSE "pending"

retainDisplayedSnapshot == aRetained' = snapshot

(* handleSearchSubmit: one context request at a time *)
handleSearchSubmit ==
    /\ AOffersSearch /\ aScope = 0 /\ aGen < AMaxSearches /\ ABudget
    /\ retainDisplayedSnapshot
    /\ aPage' = 1 /\ UNCHANGED <<aAuthority, aLast>> /\ AKeyChanges
    /\ aGen' = aGen + 1 /\ aScope' = aGen + 1 /\ aCreating' = TRUE
    /\ aCtxReqs' = aCtxReqs \cup {[gen |-> aGen + 1, filter |-> aDraft, at |-> "out", why |-> "none"]}
    /\ aDraft' = ANone
    /\ UNCHANGED <<aOpen, aExportVars, aHistory>>

(* handleReset: forgets the request on its way and shows everything *)
handleReset ==
    /\ aOpen /\ aGen < AMaxSearches /\ ABudget
    /\ aGen' = aGen + 1 /\ aScope' = 0 /\ aCreating' = FALSE
    /\ aCtxReqs' = {IF c.gen = aScope THEN AAbort(c, "caller") ELSE c : c \in aCtxReqs}
    /\ retainDisplayedSnapshot
    /\ aDraft' = ANone
    /\ aPage' = 1 /\ aAuthority' = ANone /\ UNCHANGED aLast /\ AKeyChanges
    /\ aLastReset' = aGen + 1
    /\ UNCHANGED <<aOpen, aExportVars, aSkewed>>

(* The deadline of a scope that is still waiting *)
AContextDeadline(c) ==
    /\ c.at = "out" /\ c.why = "none"
    /\ aCtxReqs' = (aCtxReqs \ {c}) \cup {AAbort(c, "deadline")}
    /\ UNCHANGED <<aOpen, aDraft, aGen, aScope, aCreating, aTable, aExportVars, aHistory>>

(* createAuditFilterContext answers; an aborted fetch rejects *)
AContextAnswers(c) ==
    /\ c.at = "out"
    /\ \E answer \in IF c.why = "none" THEN {"ok", "failed"} ELSE {"aborted"} :
           aCtxReqs' = (aCtxReqs \ {c}) \cup {[c EXCEPT !.at = answer]}
    /\ UNCHANGED <<aOpen, aDraft, aGen, aScope, aCreating, aTable, aExportVars, aHistory>>

(* mutant of AContextIsCurrent *)
AppliesWhileMounted(c) == aOpen

(* then: only the newest request of a mounted page may set the authority *)
AContextIsCurrent(c) == aOpen /\ c.why = "none" /\ c.gen = aGen

(* A search without any filter gets a context too *)
AContextOf(c) == [filter |-> c.filter, gen |-> c.gen]

(* mutant of AContextFinally *)
FinallyKeepsCreating(c) == UNCHANGED aCreating

AContextFinally(c) == aCreating' = IF aOpen /\ c.gen = aGen THEN FALSE ELSE aCreating

(* then or catch, and finally *)
AContextSettles(c) ==
    /\ c.at # "out"
    /\ aCtxReqs' = aCtxReqs \ {c}
    /\ IF c.at = "ok" /\ AContextIsCurrent(c)
       THEN aAuthority' = AContextOf(c) ELSE UNCHANGED aAuthority
    /\ UNCHANGED <<aPage, aLast, aRetained>> /\ AKeyChanges
    /\ aScope' = IF aScope = c.gen THEN 0 ELSE aScope
    /\ AContextFinally(c)
    /\ UNCHANGED <<aOpen, aDraft, aGen, aExportVars, aHistory>>

-----------------------------------------------------------------------------
(* The table *)

(* searchQuery settles: the snapshot carries the authority it was asked with *)
ASearchSettles ==
    /\ aOpen /\ aStatus = "pending"
    /\ \/ /\ aStatus' = "ok"
          /\ aLast' = [context |-> aAuthority, page |-> aPage]
       \/ aStatus' = "error" /\ UNCHANGED aLast
    /\ UNCHANGED <<aOpen, aDraft, aSearching, aAuthority, aPage, aRetained, aExportVars,
                   aHistory>>

(* Retry of ClientQueryState: without data of its own the query loads again *)
ASearchRetry ==
    /\ aOpen /\ aStatus = "error"
    /\ aStatus' = "pending"
    /\ UNCHANGED <<aOpen, aDraft, aSearching, aAuthority, aPage, aLast, aRetained, aExportVars,
                   aHistory>>

(* Previous and Next: the bound is that of the dataset on display *)
ATurnPage(target) ==
    /\ retainDisplayedSnapshot
    /\ aPage' = target
    /\ UNCHANGED <<aAuthority, aLast>> /\ AKeyChanges
    /\ aSkewed' = (aSkewed \/ (target > aPage /\ (aCreating \/ snapshot.context # aAuthority)))
    /\ UNCHANGED <<aOpen, aDraft, aSearching, aExportVars, aLastReset>>

APrevPage == AOffersPaging /\ aPage # 1 /\ ATurnPage(aPage - 1)

(* mutant of ANextPage *)
NextWithoutBound == AOffersPaging /\ ATurnPage(aPage + 1)

ANextPage ==
    /\ AOffersPaging /\ aPage # ATotalPages
    /\ ATurnPage(IF aPage + 1 < ATotalPages THEN aPage + 1 ELSE ATotalPages)

-----------------------------------------------------------------------------
(* Exports *)

(* The filter that is sent is that of the table, if there is one *)
AExportsWhatIsShown == snapshot # ANone => AFilterOf(exportFilterContext) = appliedFields

AMayExport(format) == AOffersExport /\ aExportRef = 0

(* handleExport, up to the request *)
handleExport(format) ==
    /\ AMayExport(format) /\ aExported < AMaxExports /\ ABudget
    /\ aExporting' = format
    /\ aExported' = aExported + 1 /\ aExportRef' = aExported + 1
    /\ aExports' = aExports \cup
          {[id |-> aExported + 1, format |-> format, asShown |-> AExportsWhatIsShown,
            at |-> "out", why |-> "none", name |-> ANone]}
    /\ UNCHANGED <<aOpen, aDraft, aSearching, aTable, aFile, aHistory>>

cancelExport ==
    /\ aOpen /\ aExporting # ANone /\ aExportRef # 0
    /\ aExports' = {IF e.id = aExportRef THEN AAbort(e, "caller") ELSE e : e \in aExports}
    /\ UNCHANGED <<aOpen, aDraft, aSearching, aTable, aExportRef, aExporting, aExported, aFile,
                   aHistory>>

AExportDeadline(e) ==
    /\ e.at # "done" /\ e.why = "none"
    /\ aExports' = (aExports \ {e}) \cup {AAbort(e, "deadline")}
    /\ UNCHANGED <<aOpen, aDraft, aSearching, aTable, aExportRef, aExporting, aExported, aFile,
                   aHistory>>

(* exportAuditEntries: a blob of the media type asked for, or an error *)
exportAuditEntries(e) ==
    /\ e.at = "out"
    /\ IF e.why # "none" THEN aExports' = (aExports \ {e}) \cup {[e EXCEPT !.at = "failed"]}
       ELSE \/ \E header \in ADispositions \cup {ANone} :
                  aExports' = (aExports \ {e}) \cup
                      {[e EXCEPT !.at = "blob", !.name = AFilename(header, e.format)]}
            \/ aExports' = (aExports \ {e}) \cup {[e EXCEPT !.at = "failed"]}
    /\ UNCHANGED <<aOpen, aDraft, aSearching, aTable, aExportRef, aExporting, aExported, aFile,
                   aHistory>>

(* mutant of AMaySave *)
SavesWhenMounted(e) == e.at = "blob" /\ aOpen

(* A cancelled, expired or abandoned export saves nothing *)
AMaySave(e) == e.at = "blob" /\ e.why = "none" /\ aOpen

(* The rest of handleExport: the file, or a message; then finally *)
AExportEnds(e) ==
    /\ e.at # "out"
    /\ aExports' = aExports \ {e}
    /\ aFile' = IF AMaySave(e) THEN [format |-> e.format, name |-> e.name, why |-> e.why] ELSE aFile
    /\ aExportRef' = IF aExportRef = e.id THEN 0 ELSE aExportRef
    /\ aExporting' = IF aOpen THEN ANone ELSE aExporting
    /\ UNCHANGED <<aOpen, aDraft, aSearching, aTable, aExported, aHistory>>

-----------------------------------------------------------------------------
AContextStep(c) == AContextAnswers(c) \/ AContextSettles(c)
AExportStep(e) == exportAuditEntries(e) \/ AExportEnds(e)

AuditNext ==
    \/ AUnmountPage \/ handleSearchSubmit \/ handleReset
    \/ \E filter \in AFilters \cup {ANone} : AType(filter)
    \/ \E c \in aCtxReqs : AContextDeadline(c) \/ AContextStep(c)
    \/ ASearchSettles \/ ASearchRetry \/ APrevPage \/ ANextPage
    \/ \E format \in AFormats : handleExport(format)
    \/ cancelExport
    \/ \E e \in aExports : AExportDeadline(e) \/ AExportStep(e)

(* Every scope has a deadline, so requests settle; nothing is asked of users *)
AuditFairness ==
    /\ WF_aVars(\E c \in aCtxReqs : AContextStep(c))
    /\ WF_aVars(\E e \in aExports : AExportStep(e))
    /\ WF_aVars(ASearchSettles)

AuditSpec == AuditInit /\ [][AuditNext]_aVars /\ AuditFairness

-----------------------------------------------------------------------------
(* Properties *)

(* Every variable has its type, and every saved file has a contractual name *)
(* with the extension of the format that was asked for.                     *)
AuditTypeOK ==
    /\ aOpen \in BOOLEAN /\ aDraft \in AFilters \cup {ANone}
    /\ aGen \in 0..(AMaxSearches + 1) /\ aScope \in 0..AMaxSearches /\ aCreating \in BOOLEAN
    /\ aAuthority \in AContexts /\ aPage \in Nat \ {0}
    /\ aStatus \in {"pending", "ok", "error"}
    /\ aLast \in ASnapshots /\ aRetained \in ASnapshots
    /\ aExportRef \in 0..AMaxExports /\ aExporting \in AFormats \cup {ANone}
    /\ \A c \in aCtxReqs : c.at \in {"out", "ok", "failed", "aborted"}
    /\ aFile # ANone => isAcceptableBasename(aFile.name, aFile.format)

(* A context that was asked for before the last reset never filters the page *)
(* afterwards, and the newest search is the one that does: late answers of   *)
(* abandoned context requests are ignored.                                   *)
LatestSearchWins ==
    aOpen => /\ aAuthority # ANone => aAuthority.gen > aLastReset
             /\ \A c \in aCtxReqs : AContextIsCurrent(c) => c.gen = aScope

(* The Search button is released when, and only when, no context request   *)
(* owns the page: it is never left disabled and never starts a second one. *)
SearchButtonMatchesScope == aOpen => (aCreating <=> aScope # 0)

(* The page asked for lies in the dataset it is asked of, unless the admin *)
(* paged on while a new search was on its way or the table still showed    *)
(* the previous dataset.                                                   *)
PageInDataset == ~aSkewed => aPage <= APages[AFilterOf(aAuthority)]

(* Only one export runs at a time, and a file is saved only from an export *)
(* that nobody cancelled, whose deadline had not fired and whose page was  *)
(* still open.                                                             *)
ExportsAreExclusive ==
    /\ aOpen => Cardinality(aExports) <= 1
    /\ aOpen => (aExporting # ANone <=> aExportRef # 0)
    /\ aFile # ANone => aFile.why = "none"

(* The page never stays in the creating or exporting state *)
AuditRequestsEnd == (aCreating ~> ~aCreating \/ ~aOpen) /\ (aExportRef # 0 ~> aExportRef = 0)

(* The comment on AuditFilterAuthority: results, summary and every export  *)
(* request stay bound to one dataset.                                      *)
ExportIsTheDisplayedDataset ==
    \A e \in aExports : e.asShown
=============================================================================
