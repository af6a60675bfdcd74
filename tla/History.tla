------------------------------ MODULE History -------------------------------
(***************************************************************************)
(* The history page: a debounced search, the list of its results, the      *)
(* selected entry's detail with the copy button (useCopyToClipboard) and   *)
(* the pages of its result (ResultTable).  PagedLists has the list's own   *)
(* pages; here a search returns a set of entries or fails.                 *)
(*                                                                         *)
(* The search box goes when the list fails, the detail when its own query  *)
(* fails, and with it the copy status and timer; the result table also     *)
(* goes while the detail of another entry is loaded.                       *)
(***************************************************************************)
EXTENDS Integers, FiniteSets

CONSTANTS
    ZIds, ZRows,     \* entries; the pages of each entry's result
    ZTerms,          \* what is typed; spaces are trimmed to ZNone
    ZFound,          \* the entries each trimmed term finds
    ZNone,           \* no term, no entry, no timer
    ZMaxSteps        \* bound: changes of the box, of the selection, copies

ASSUME HistoryAssumption == ZRows \in [ZIds -> Nat \ {0}]

VARIABLES
    zRaw, zTimer, zDebounced,  \* the box; the debounce timer's value; debouncedSearch
    zLists,        \* per term: "none", "loading", "failed" or "loaded"
    zSelected,     \* selectedId
    zDetails,      \* per entry, likewise
    zTable,        \* pageState of a mounted ResultTable, or ZNone
    zStatus, zReset, \* copy status; whether its reset timer runs
    zWrites,       \* copies whose writeText has not settled
    zSteps,        \* bound
    zTurned        \* history: the entry whose table was last turned to a page, or ZNone

zVars == <<zRaw, zTimer, zDebounced, zLists, zSelected, zDetails, zTable, zStatus,
           zReset, zWrites, zSteps, zTurned>>
zSearch == <<zRaw, zTimer, zDebounced, zLists>>
zCopy == <<zStatus, zReset, zWrites>>

ZStates == {"none", "loading", "failed", "loaded"}

-----------------------------------------------------------------------------
(* What the page shows *)

(* normalizeHistorySearchTerm *)
normalizeHistorySearchTerm(raw) == IF raw = "  " THEN ZNone ELSE raw

ZTerm == normalizeHistorySearchTerm(zDebounced)

isSelectionExcluded ==
    /\ zSelected # ZNone /\ ZTerm # ZNone
    /\ zLists[ZTerm] = "loaded" /\ zSelected \notin ZFound[ZTerm]

activeSelection == IF isSelectionExcluded THEN ZNone ELSE zSelected

(* The box is part of HistoryList: gone on an error, and while a list      *)
(* without entries loads                                                   *)
ZOffersSearch == zLists[ZTerm] = "loaded"

ZOffersEntry(e) == zLists[ZTerm] = "loaded" /\ e \in ZFound[ZTerm]

ZDetailState == IF activeSelection = ZNone THEN "none" ELSE zDetails[activeSelection]

(* !detailError && <HistoryDetail> *)
ZDetailMounted == ZDetailState # "failed"

ZShowsTable == ZDetailState = "loaded"

-----------------------------------------------------------------------------
(* ResultTable *)

(* mutant of ZPageIndex: the page survives the result it was turned to *)
PageOfAnyResult == zTable.index

(* pageIndex: the page of this very result, else the first *)
ZPageIndex ==
    IF zTable.entry = activeSelection
    THEN IF zTable.index < ZRows[activeSelection] THEN zTable.index
         ELSE ZRows[activeSelection] - 1
    ELSE 0

selectPage(step) ==
    /\ ZShowsTable /\ zSteps < ZMaxSteps
    /\ ZPageIndex + step \in 0..(ZRows[activeSelection] - 1)
    /\ zTable' = [entry |-> activeSelection, index |-> ZPageIndex + step]
    /\ zTurned' = activeSelection
    /\ zSteps' = zSteps + 1
    /\ UNCHANGED <<zSearch, zSelected, zDetails, zCopy>>

-----------------------------------------------------------------------------
(* A render: queries of the new term and selection start, and components   *)
(* that are no longer shown unmount                                        *)

ZStarts(states, key) ==
    IF key # ZNone /\ states[key] = "none" THEN [states EXCEPT ![key] = "loading"] ELSE states

ZRender ==
    /\ zTable' = IF ~ZShowsTable' THEN ZNone
                 ELSE IF zTable = ZNone THEN [entry |-> activeSelection', index |-> 0]
                 ELSE zTable
    /\ IF ZDetailMounted' THEN UNCHANGED zCopy
       ELSE zStatus' = "idle" /\ zReset' = FALSE /\ zWrites' = 0

-----------------------------------------------------------------------------
(* Search *)

(* mutant of ZArms: a timer that runs is left to end with its old value *)
KeepsOldTimer(text) == IF zTimer = ZNone THEN text ELSE zTimer

(* useDebounce: the effect's cleanup clears the timer of the value before *)
ZArms(text) == text

ZType(text) ==
    /\ ZOffersSearch /\ zSteps < ZMaxSteps /\ text # zRaw
    /\ zRaw' = text /\ zTimer' = ZArms(text) /\ zSteps' = zSteps + 1
    /\ UNCHANGED <<zDebounced, zLists, zSelected, zDetails, zTable, zCopy, zTurned>>

ZDebounce ==
    /\ zTimer # ZNone
    /\ zDebounced' = zTimer /\ zTimer' = ZNone
    /\ zLists' = IF zLists[normalizeHistorySearchTerm(zTimer)] = "none"
                 THEN [zLists EXCEPT ![normalizeHistorySearchTerm(zTimer)] = "loading"]
                 ELSE zLists
    /\ UNCHANGED <<zRaw, zSelected, zSteps, zTurned>>
    /\ zDetails' = ZStarts(zDetails, activeSelection')
    /\ ZRender

ZListSettles(term) ==
    /\ zLists[term] = "loading"
    /\ \E state \in {"loaded", "failed"} : zLists' = [zLists EXCEPT ![term] = state]
    /\ UNCHANGED <<zRaw, zTimer, zDebounced, zSelected, zSteps, zTurned>>
    /\ zDetails' = ZStarts(zDetails, activeSelection')
    /\ ZRender

ZListRetry ==
    /\ zLists[ZTerm] = "failed"
    /\ zLists' = [zLists EXCEPT ![ZTerm] = "loading"]
    /\ UNCHANGED <<zRaw, zTimer, zDebounced, zSelected, zSteps, zTurned>>
    /\ zDetails' = ZStarts(zDetails, activeSelection')
    /\ ZRender

-----------------------------------------------------------------------------
(* Selection and detail *)

ZSelect(e) ==
    /\ ZOffersEntry(e) /\ e # zSelected /\ zSteps < ZMaxSteps
    /\ zSelected' = e /\ zSteps' = zSteps + 1
    /\ zDetails' = ZStarts(zDetails, e)
    /\ UNCHANGED <<zSearch, zTurned>>
    /\ ZRender

ZDetailSettles(e) ==
    /\ zDetails[e] = "loading"
    /\ \E state \in {"loaded", "failed"} : zDetails' = [zDetails EXCEPT ![e] = state]
    /\ UNCHANGED <<zSearch, zSelected, zSteps, zTurned>>
    /\ ZRender

ZDetailRetry ==
    /\ ZDetailState = "failed"
    /\ zDetails' = [zDetails EXCEPT ![activeSelection] = "loading"]
    /\ UNCHANGED <<zSearch, zSelected, zSteps, zTurned>>
    /\ ZRender

-----------------------------------------------------------------------------
(* useCopyToClipboard *)

handleCopy ==
    /\ ZDetailState = "loaded" /\ zSteps < ZMaxSteps
    /\ zWrites' = zWrites + 1 /\ zSteps' = zSteps + 1
    /\ UNCHANGED <<zSearch, zSelected, zDetails, zTable, zStatus, zReset, zTurned>>

(* mutant of ZClearsTimer: only a success replaces the timer *)
FailureKeepsTimer(succeeded) == zReset \/ succeeded

(* clearTimer, then scheduleReset after a success *)
ZClearsTimer(succeeded) == succeeded

ZCopySettles(succeeded) ==
    /\ zWrites > 0 /\ zWrites' = zWrites - 1
    /\ zStatus' = IF succeeded THEN "copied" ELSE "failed"
    /\ zReset' = ZClearsTimer(succeeded)
    /\ UNCHANGED <<zSearch, zSelected, zDetails, zTable, zSteps, zTurned>>

ZResetFires ==
    /\ zReset /\ zReset' = FALSE /\ zStatus' = "idle"
    /\ UNCHANGED <<zSearch, zSelected, zDetails, zTable, zWrites, zSteps, zTurned>>

HistoryInit ==
    /\ zRaw = "  " /\ zTimer = ZNone /\ zDebounced = "  "
    /\ zLists = [t \in DOMAIN ZFound |-> IF t = ZNone THEN "loading" ELSE "none"]
    /\ zSelected = ZNone /\ zDetails = [e \in ZIds |-> "none"] /\ zTable = ZNone
    /\ zStatus = "idle" /\ zReset = FALSE /\ zWrites = 0 /\ zSteps = 0 /\ zTurned = ZNone

HistoryNext ==
    \/ \E text \in ZTerms : ZType(text)
    \/ ZDebounce \/ ZListRetry \/ ZDetailRetry \/ handleCopy \/ ZResetFires
    \/ \E t \in DOMAIN ZFound : ZListSettles(t)
    \/ \E e \in ZIds : ZSelect(e) \/ ZDetailSettles(e)
    \/ \E succeeded \in BOOLEAN : ZCopySettles(succeeded)
    \/ \E step \in {-1, 1} : selectPage(step)

(* Timers fire, and requests and writes settle *)
HistoryFairness ==
    /\ WF_zVars(ZDebounce) /\ WF_zVars(ZResetFires)
    /\ WF_zVars(\E t \in DOMAIN ZFound : ZListSettles(t))
    /\ WF_zVars(\E succeeded \in BOOLEAN : ZCopySettles(succeeded))

HistorySpec == HistoryInit /\ [][HistoryNext]_zVars /\ HistoryFairness

-----------------------------------------------------------------------------
(* A confirmation is shown exactly while its timer runs, whatever copies   *)
(* overlapped and whichever of them failed, and neither outlives the       *)
(* detail it belongs to (useCopyToClipboard)                               *)
HistoryTypeOK ==
    /\ zRaw \in ZTerms /\ zDebounced \in ZTerms /\ zTimer \in ZTerms \cup {ZNone}
    /\ zLists \in [DOMAIN ZFound -> ZStates] /\ zDetails \in [ZIds -> ZStates]
    /\ zSelected \in ZIds \cup {ZNone} /\ zTurned \in ZIds \cup {ZNone}
    /\ zStatus \in {"idle", "copied", "failed"} /\ zReset \in BOOLEAN
    /\ zWrites \in 0..ZMaxSteps /\ zSteps \in 0..ZMaxSteps
    /\ zReset <=> zStatus = "copied"
    /\ ~ZDetailMounted => zStatus = "idle"

(* A table shows a page of its result, and any page but the first only     *)
(* because it was turned to for this very result, although the table's     *)
(* state outlives the result when the next detail is already cached        *)
(* (ResultTable's pageState)                                               *)
PageIsOfThisResult ==
    ZShowsTable => /\ ZPageIndex \in 0..(ZRows[activeSelection] - 1)
                   /\ ZPageIndex > 0 => zTurned = activeSelection

(* The list ends up being the one of the text in the box, however quickly  *)
(* it was typed (useDebounce)                                              *)
SearchCatchesUp == <>[](zDebounced = zRaw)
=============================================================================
