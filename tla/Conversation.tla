---------------------------- MODULE Conversation ------------------------------
(***************************************************************************)
(* WorkspacePage: the turns of one chat.  The page keeps the turns of the  *)
(* questions asked since it was mounted and shows them after the saved     *)
(* attempts of the session, which come from the cache of useSessionDetail. *)
(* Saved attempts are deleted at once on the screen and reconciled with    *)
(* the server afterwards; questions are asked, asked again after a         *)
(* connection error, and regenerated, one request at a time.               *)
(*                                                                         *)
(* A turn's outcome is what its buttons depend on: "result", "connection"  *)
(* (offers a retry) or "refused" (refine prompt, evaluator rejection,      *)
(* quota, hostile input, no card).                                         *)
(***************************************************************************)
EXTENDS Integers, SequencesExt

CONSTANTS
    WNone,         \* null, undefined
    WMaxTurns,     \* bound: turns of one mount
    WMaxSaved,     \* bound: saved attempts
    WMaxMounts,    \* bound: mounts of the page
    WMaxRequests   \* bound: requests to the server

VARIABLES
    wSaved,        \* server: saved attempts of the session
    wNext,         \* server: the next identifier
    wCache, wRead, \* cached attempts of the session, and the last ones read
    wActive,       \* activeSessionId: WNone for a new chat
    wRendered, wPendingSubmit,  \* renderedSessionId, pendingSubmitRef
    wTurns,        \* localTurns
    wDeleted,      \* deletedSavedIds
    wRecoveries,   \* savedTurnRecoveries: the attempts with a notice
    wDeletes,      \* DELETEs on their way
    wReq,          \* the request of useQuerySubmit, or WNone
    wMounts, wRequests, \* bounds
    wAnswered      \* history: saved attempts this page has shown as answers

wVars == <<wSaved, wNext, wCache, wRead, wActive, wRendered, wPendingSubmit, wTurns, wDeleted,
           wRecoveries, wDeletes, wReq, wMounts, wRequests, wAnswered>>
wServer == <<wSaved, wNext>>
wHistory == <<wCache, wRead>>
wChat == <<wActive, wRendered, wPendingSubmit>>
wBounds == <<wMounts, wRequests>>

WIds == 1..WMaxSaved
WSession == "session"

-----------------------------------------------------------------------------
(* What the page shows *)

WTurns == {wTurns[k] : k \in 1..Len(wTurns)}

(* localSavedIdsWithActiveAttempt *)
localSavedIds == {t.saved : t \in {t \in WTurns : t.attempt # 0}} \ (wDeleted \cup {WNone})

(* historyAttempts *)
historyAttempts == IF wActive = WNone THEN {} ELSE wCache \ (wDeleted \cup localSavedIds)

(* dedupedLocalTurns *)
dedupedLocalTurns == {k \in 1..Len(wTurns) : wTurns[k].saved \notin historyAttempts \cup wDeleted}

(* How often a saved attempt is on the screen: allTurns *)
WTimesShown(id) ==
    Cardinality({k \in dedupedLocalTurns : wTurns[k].saved = id /\ wTurns[k].state = "result"})
    + (IF id \in historyAttempts THEN 1 ELSE 0)
WShows(id) == WTimesShown(id) > 0

(* isSubmitting, and what the cards offer *)
isSubmitting == wReq # WNone
WOffersRetry(t) == t.state = "connection" /\ ~t.retrying /\ t.sess = wActive
WOffersRegenerate(t) == t.state = "result" /\ t.attempt # 0 /\ t.regenerating = "no" /\ t.saved \notin wDeleted
WOffersDelete(id) ==
    /\ WShows(id) \/ (id \in wRecoveries /\ \E k \in dedupedLocalTurns : wTurns[k].saved = id)
    /\ ~\E d \in wDeletes : d.id = id /\ d.mount = wMounts

-----------------------------------------------------------------------------
(* Pieces of handlers *)

(* updateTurn finds a turn by its attempt or, while it has none, by itself *)
WKey(t) == IF t.attempt # 0 THEN <<"attempt", t.attempt>> ELSE <<"turn", t.nr>>
updateTurn(key, New(_)) == [k \in 1..Len(wTurns) |-> IF WKey(wTurns[k]) = key THEN New(wTurns[k]) ELSE wTurns[k]]

WTurn(nr, sess, state) ==
    [nr |-> nr, sess |-> sess, state |-> state, saved |-> WNone, attempt |-> 0,
     regenerating |-> "no", retrying |-> FALSE, restored |-> FALSE]

(* beginRequest *)
WMayAsk == wReq = WNone /\ wRequests < WMaxRequests

WSend(kind, key) ==
    /\ wRequests' = wRequests + 1
    /\ wReq' = [kind |-> kind, key |-> key, nr |-> wRequests + 1, saved |-> WNone]

(* mutant of WClearsTurns *)
AlwaysClears(active) == TRUE

(* The effect of a change of the active session: the turns stay only if a  *)
(* question of this page has created the session                           *)
WClearsTurns(active) == ~(wActive = WNone /\ active # WNone /\ wPendingSubmit)

(* The answer has a session; the one of a new chat becomes the active one *)
WSessionArrives(turns) ==
    /\ wActive' = WSession /\ wRendered' = WSession
    /\ IF wRendered = WSession THEN wTurns' = turns /\ UNCHANGED wPendingSubmit
       ELSE /\ wTurns' = IF WClearsTurns(WSession) THEN <<>> ELSE turns
            /\ wPendingSubmit' = FALSE

-----------------------------------------------------------------------------
(* Questions *)

(* handleSubmit without a database: a rejection, and no request *)
WSubmitWithoutDatabase ==
    /\ ~isSubmitting /\ Len(wTurns) < WMaxTurns
    /\ wTurns' = Append(wTurns, WTurn(0, WNone, "refused"))
    /\ UNCHANGED <<wServer, wHistory, wChat, wDeleted, wRecoveries, wDeletes, wReq, wBounds, wAnswered>>

WHandleSubmit ==
    /\ ~isSubmitting /\ WMayAsk /\ Len(wTurns) < WMaxTurns
    /\ WSend("submit", <<"turn", wRequests + 1>>)
    /\ wPendingSubmit' = (wPendingSubmit \/ wActive = WNone)
    /\ wTurns' = Append(wTurns, WTurn(wRequests + 1, wActive, "loading"))
    /\ UNCHANGED <<wServer, wHistory, wActive, wRendered, wDeleted, wRecoveries, wDeletes, wMounts, wAnswered>>

(* handleConnectionRetry *)
WHandleRetry(t) ==
    /\ WOffersRetry(t) /\ WMayAsk
    /\ WSend("retry", WKey(t))
    /\ wPendingSubmit' = (wPendingSubmit \/ t.sess = WNone)
    /\ wTurns' = updateTurn(WKey(t), LAMBDA u : [u EXCEPT !.retrying = TRUE])
    /\ UNCHANGED <<wServer, wHistory, wActive, wRendered, wDeleted, wRecoveries, wDeletes, wMounts, wAnswered>>

(* handleRegenerate *)
WHandleRegenerate(t) ==
    /\ WOffersRegenerate(t) /\ WMayAsk
    /\ WSend("regenerate", WKey(t))
    /\ wTurns' = updateTurn(WKey(t), LAMBDA u : [u EXCEPT !.regenerating = "asked"])
    /\ UNCHANGED <<wServer, wHistory, wChat, wDeleted, wRecoveries, wDeletes, wMounts, wAnswered>>

(* Both buttons are there while another request is on its way, which       *)
(* beginRequest refuses: the turn keeps its card, with or without a notice *)
WRefusedInProgress(t) ==
    /\ isSubmitting /\ (WOffersRetry(t) \/ WOffersRegenerate(t))
    /\ wPendingSubmit' = (wPendingSubmit \/ (WOffersRetry(t) /\ t.sess = WNone))
    /\ UNCHANGED <<wServer, wHistory, wActive, wRendered, wTurns, wDeleted, wRecoveries, wDeletes, wReq,
                   wBounds, wAnswered>>

(* The server has a result and saves it, or not, as an attempt of its own *)
WServerSaves ==
    /\ wReq # WNone /\ wReq.saved = WNone /\ wNext <= WMaxSaved
    /\ wReq' = [wReq EXCEPT !.saved = wNext]
    /\ wSaved' = wSaved \cup {wNext} /\ wNext' = wNext + 1
    /\ UNCHANGED <<wHistory, wChat, wTurns, wDeleted, wRecoveries, wDeletes, wBounds, wAnswered>>

(* A result *)
WResult ==
    LET old == {t.saved : t \in {t \in WTurns : WKey(t) = wReq.key}} IN
    /\ wReq # WNone /\ wReq' = WNone
    /\ wAnswered' = (wAnswered \ old) \cup ({wReq.saved} \ {WNone})
    /\ WSessionArrives(updateTurn(wReq.key, LAMBDA t :
           [t EXCEPT !.state = "result", !.attempt = wReq.nr, !.saved = wReq.saved, !.sess = WSession,
                     !.retrying = FALSE, !.regenerating = "no"]))
    /\ UNCHANGED <<wServer, wHistory, wDeleted, wRecoveries, wDeletes, wBounds>>

(* mutant of WFailedTurn *)
WStaysRetrying(t, kind) == [t EXCEPT !.state = IF kind = "connection" THEN "connection" ELSE "refused"]

(* The turn after a question or a retry that has no result: a connection   *)
(* error offers the retry, or goes on offering it                          *)
WFailedTurn(t, kind) ==
    [t EXCEPT !.state = IF kind = "connection" THEN "connection" ELSE "refused", !.retrying = FALSE]

WNoResult(kind) ==
    /\ wReq # WNone /\ wReq.kind \in {"submit", "retry"} /\ wReq' = WNone
    /\ wTurns' = updateTurn(wReq.key, LAMBDA t : WFailedTurn(t, kind))
    /\ UNCHANGED <<wServer, wHistory, wChat, wDeleted, wRecoveries, wDeletes, wBounds, wAnswered>>

(* The service, the model or the lock is not there: the turn is removed *)
WTurnRemoved ==
    /\ wReq # WNone /\ wReq.kind = "submit" /\ wReq' = WNone
    /\ wTurns' = SelectSeq(wTurns, LAMBDA t : WKey(t) # wReq.key)
    /\ UNCHANGED <<wServer, wHistory, wChat, wDeleted, wRecoveries, wDeletes, wBounds, wAnswered>>

(* A regeneration without a result: a refine prompt takes the place of the *)
(* card; a failure keeps it; an attempt that can no longer be regenerated  *)
(* has the history read again first                                        *)
WNotRegenerated(kind) ==
    LET old == {t.saved : t \in {t \in WTurns : WKey(t) = wReq.key}} IN
    /\ wReq # WNone /\ wReq.kind = "regenerate" /\ wReq' = WNone
    /\ wTurns' = updateTurn(wReq.key, LAMBDA t :
           [t EXCEPT !.state = IF kind = "refine" THEN "refused" ELSE @,
                     !.regenerating = IF kind = "terminal" THEN "rereading" ELSE "no"])
    /\ wAnswered' = IF kind = "refine" THEN wAnswered \ old ELSE wAnswered
    /\ UNCHANGED <<wServer, wHistory, wChat, wDeleted, wRecoveries, wDeletes, wBounds>>

WReread(t) ==
    /\ t.regenerating = "rereading"
    /\ wTurns' = updateTurn(WKey(t), LAMBDA u : [u EXCEPT !.regenerating = "no"])
    /\ wRead' = wSaved /\ wCache' \in {wCache, wSaved}
    /\ UNCHANGED <<wServer, wChat, wDeleted, wRecoveries, wDeletes, wReq, wBounds, wAnswered>>

-----------------------------------------------------------------------------
(* Deleting a saved attempt *)

(* handleDelete: it is off the screen at once; the snapshot holds its turn *)
WHandleDelete(id) ==
    LET local == {k \in 1..Len(wTurns) : wTurns[k].saved = id} IN
    /\ WOffersDelete(id) /\ wRequests < WMaxRequests
    /\ wRequests' = wRequests + 1
    /\ wDeletes' = wDeletes \cup {[id |-> id, mount |-> wMounts, state |-> "sent",
                                   local |-> {<<k, wTurns[k]>> : k \in local}]}
    /\ wDeleted' = wDeleted \cup {id} /\ wRecoveries' = wRecoveries \ {id}
    /\ UNCHANGED <<wServer, wHistory, wChat, wTurns, wReq, wMounts, wAnswered>>

(* The server deletes it, perhaps after the page has given up waiting *)
WServerDeletes(d) ==
    /\ d.id \in wSaved /\ wSaved' = wSaved \ {d.id}
    /\ UNCHANGED <<wNext, wHistory, wChat, wTurns, wDeleted, wRecoveries, wDeletes, wReq, wBounds, wAnswered>>

(* mutant of restoreDeletedTurn *)
RestoresTwice(d) ==
    IF d.mount # wMounts THEN UNCHANGED <<wTurns, wDeleted, wRecoveries>>
    ELSE /\ wDeleted' = wDeleted \ {d.id} /\ wRecoveries' = wRecoveries \cup {d.id}
         /\ wTurns' = wTurns \o SetToSeq({p[2] : p \in d.local})

(* mutant of restoreDeletedTurn *)
NoticeOnly(d) ==
    /\ wRecoveries' = IF d.mount # wMounts THEN wRecoveries ELSE wRecoveries \cup {d.id}
    /\ UNCHANGED <<wTurns, wDeleted>>

(* restoreDeletedTurn, if the page is still the one that asked.  A turn    *)
(* whose attempt was regenerated meanwhile no longer has this identifier,  *)
(* and the snapshot is put in beside it as it was                          *)
restoreDeletedTurn(d) ==
    IF d.mount # wMounts THEN UNCHANGED <<wTurns, wDeleted, wRecoveries>>
    ELSE /\ wDeleted' = wDeleted \ {d.id} /\ wRecoveries' = wRecoveries \cup {d.id}
         /\ wTurns' = IF d.local = {} \/ \E t \in WTurns : t.saved = d.id THEN wTurns
                      ELSE LET at == CHOOSE p \in d.local : TRUE IN
                           InsertAt(wTurns, Min({at[1], Len(wTurns) + 1}), [at[2] EXCEPT !.restored = TRUE])

(* The DELETE is answered: done or not found, it stays hidden *)
WDeleteSucceeds(d) ==
    /\ d.state = "sent" /\ d.id \notin wSaved /\ wDeletes' = wDeletes \ {d}
    /\ UNCHANGED <<wServer, wHistory, wChat, wTurns, wDeleted, wRecoveries, wReq, wBounds, wAnswered>>

(* It is refused *)
WDeleteFails(d) ==
    /\ d.state = "sent" /\ d.id \in wSaved /\ wDeletes' = wDeletes \ {d} /\ restoreDeletedTurn(d)
    /\ UNCHANGED <<wServer, wHistory, wChat, wReq, wBounds, wAnswered>>

(* mutant of WDeleteUncertain *)
LostMeansDeleted(d) ==
    /\ d.state = "sent" /\ wDeletes' = wDeletes \ {d}
    /\ UNCHANGED <<wServer, wHistory, wChat, wTurns, wDeleted, wRecoveries, wReq, wBounds, wAnswered>>

(* No answer that says: the page asks for the attempt itself *)
WDeleteUncertain(d) ==
    /\ d.state = "sent" /\ wDeletes' = (wDeletes \ {d}) \cup {[d EXCEPT !.state = "checking"]}
    /\ UNCHANGED <<wServer, wHistory, wChat, wTurns, wDeleted, wRecoveries, wReq, wBounds, wAnswered>>

(* It is not found, or it is there or that request fails too *)
WChecked(d, found) ==
    /\ d.state = "checking" /\ wDeletes' = wDeletes \ {d}
    /\ IF found THEN restoreDeletedTurn(d)
       ELSE d.id \notin wSaved /\ UNCHANGED <<wTurns, wDeleted, wRecoveries>>
    /\ UNCHANGED <<wServer, wHistory, wChat, wReq, wBounds, wAnswered>>

-----------------------------------------------------------------------------
(* The cache, and the page *)

(* useSessionDetail: the server reads, and the answer arrives *)
WHistoryRead ==
    /\ wActive # WNone /\ wRead # wSaved /\ wRead' = wSaved
    /\ UNCHANGED <<wServer, wCache, wChat, wTurns, wDeleted, wRecoveries, wDeletes, wReq, wBounds, wAnswered>>

WHistorySettles ==
    /\ wActive # WNone /\ wCache # wRead /\ wCache' = wRead
    /\ UNCHANGED <<wServer, wRead, wChat, wTurns, wDeleted, wRecoveries, wDeletes, wReq, wBounds, wAnswered>>

(* A navigation mounts a new page, of the same session or of a new chat;   *)
(* the request is aborted, DELETEs go on                                   *)
WRemount(active) ==
    /\ wMounts < WMaxMounts /\ wMounts' = wMounts + 1
    /\ active = WSession => wSaved # {} \/ wActive = WSession
    /\ wActive' = active /\ wRendered' = active /\ wPendingSubmit' = FALSE
    /\ wTurns' = <<>> /\ wDeleted' = {} /\ wRecoveries' = {} /\ wReq' = WNone /\ wAnswered' = {}
    /\ UNCHANGED <<wServer, wHistory, wDeletes, wRequests>>

-----------------------------------------------------------------------------
(* A new chat, or a session with one saved attempt *)
ConversationInit ==
    /\ wActive \in {WNone, WSession} /\ wRendered = wActive /\ wPendingSubmit = FALSE
    /\ wSaved = IF wActive = WNone THEN {} ELSE {1}
    /\ wNext = IF wActive = WNone THEN 1 ELSE 2
    /\ wCache = {} /\ wRead = {} /\ wTurns = <<>> /\ wDeleted = {} /\ wRecoveries = {} /\ wDeletes = {}
    /\ wReq = WNone /\ wMounts = 1 /\ wRequests = 0 /\ wAnswered = {}

WRequestEnds ==
    \/ WResult \/ WTurnRemoved
    \/ \E kind \in {"connection", "refused"} : WNoResult(kind)
    \/ \E kind \in {"refine", "failed", "terminal"} : WNotRegenerated(kind)

WDeleteEnds(d) ==
    \/ WDeleteSucceeds(d) \/ WDeleteFails(d) \/ WDeleteUncertain(d)
    \/ \E found \in BOOLEAN : WChecked(d, found)

ConversationNext ==
    \/ WSubmitWithoutDatabase \/ WHandleSubmit \/ WServerSaves \/ WRequestEnds
    \/ \E t \in WTurns : WHandleRetry(t) \/ WHandleRegenerate(t) \/ WRefusedInProgress(t) \/ WReread(t)
    \/ \E id \in WIds : WHandleDelete(id)
    \/ \E d \in wDeletes : WServerDeletes(d) \/ WDeleteEnds(d)
    \/ WHistoryRead \/ WHistorySettles
    \/ \E active \in {WNone, WSession} : WRemount(active)

(* The browser ends every request *)
ConversationFairness ==
    /\ WF_wVars(WRequestEnds)
    /\ WF_wVars(\E t \in WTurns : WReread(t))
    /\ WF_wVars(\E d \in wDeletes : WDeleteEnds(d))

ConversationSpec == ConversationInit /\ [][ConversationNext]_wVars /\ ConversationFairness

-----------------------------------------------------------------------------
(* Properties *)

WWaits(t) == t.state = "loading" \/ t.retrying \/ t.regenerating # "no"

(* Types; the request of the page has a turn that waits for it, and an     *)
(* attempt whose deletion failed is not hidden.                            *)
ConversationTypeOK ==
    /\ wSaved \subseteq WIds /\ wCache \subseteq WIds /\ wDeleted \subseteq WIds
    /\ wActive \in {WNone, WSession} /\ wRendered = wActive
    /\ wReq # WNone => \E t \in WTurns : WKey(t) = wReq.key /\ WWaits(t)
    /\ wRecoveries \cap wDeleted = {}

(* An attempt is on the screen at most once, whether the page has it from  *)
(* its own turns, from the session's history or from both, and whatever    *)
(* was regenerated, deleted and restored.                                  *)
ShownAtMostOnce == \A id \in WIds : WTimesShown(id) <= 1

(* What this page answered stays on the screen until it is deleted or      *)
(* regenerated: not even the question that creates the session of a new    *)
(* chat loses its turn when the page changes to that session.              *)
AnswersStayOnScreen == \A id \in wAnswered \ wDeleted : WShows(id)

(* An attempt the user deleted is hidden for good only if the server has   *)
(* deleted it: as soon as no DELETE of this page is on its way, a hidden   *)
(* attempt is gone, whatever answer was lost.                              *)
HiddenMeansDeleted ==
    \A id \in wDeleted : id \in wSaved => \E d \in wDeletes : d.id = id /\ d.mount = wMounts

(* No turn waits for ever: neither a question, a retry nor a regeneration. *)
(* The exception is a turn that restoreDeletedTurn has put back: it was    *)
(* copied while it was being regenerated, and nothing ends that wait.      *)
TurnsSettle == (\E t \in WTurns : WWaits(t) /\ ~t.restored) ~> (\A t \in WTurns : ~WWaits(t) \/ t.restored)
=============================================================================
