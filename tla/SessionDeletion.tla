--------------------------- MODULE SessionDeletion ----------------------------
(***************************************************************************)
(* Deleting a chat session from the sidebar while the workspace uses it:   *)
(* Sidebar and UndoToast (the five seconds to undo), useSessions and       *)
(* sessionDeletionLifecycle (the registry that tells everybody), and       *)
(* useQuerySubmit (the question that may be on its way).                   *)
(*                                                                         *)
(* Every navigation has the boundary of QueryProvider verify the           *)
(* permissions again, which takes the sidebar, its toasts and the          *)
(* workspace off the screen and mounts new ones: only the UI store (the    *)
(* active session), the registry and the query cache survive it.           *)
(***************************************************************************)
EXTENDS Integers, FiniteSets

CONSTANTS
    DSessions,       \* session identifiers
    DExisting,       \* the ones that exist at first
    DNone,           \* null, undefined
    DMaxNavigations, \* bound: navigations
    DMaxDeletes,     \* bound: clicks on the trash icon
    DMaxSubmits      \* bound: questions

ASSUME DeletionAssumption == DExisting \subseteq DSessions

VARIABLES
    dServer, dBorn,  \* the sessions of the server; history: all it ever had
    dList,           \* the cached list of sessions
    dDetail, dFetch, \* the cached session details; the request for one, or DNone
    dActive,         \* activeSessionId of the UI store
    dShown,          \* the pages are mounted
    dToasts,         \* the toast of each session
    dUnavailable, dVersion, \* the registry
    dDeletes,        \* the DELETEs on their way
    dReq,            \* the question on its way, or DNone
    dUsed,           \* bounds: navigations, deletes, submits
    dUndone,         \* history: sessions whose last deletion was undone
    dAsked           \* history: sessions to be deleted: the user has not undone it

dVars == <<dServer, dBorn, dList, dDetail, dFetch, dActive, dShown, dToasts, dUnavailable, dVersion,
           dDeletes, dReq, dUsed, dUndone, dAsked>>
dRegistry == <<dUnavailable, dVersion>>
dHistory == <<dUsed, dUndone, dAsked>>

Toast == {"no", "counting", "paused", "started"}
Delete == [sess : DSessions, nr : 1..DMaxDeletes,
           state : {"sent", "applied", "missing"}, watched : BOOLEAN,
           had : BOOLEAN]

-----------------------------------------------------------------------------
(* Pieces of handlers *)

(* didSessionDeletionStart, isSessionUnavailable *)
DDeleted(s, version) == s # DNone /\ (s \in dUnavailable \/ dVersion[s] # version)
DVersionOf(s) == IF s = DNone THEN 0 ELSE dVersion[s]

(* sessions: the list without the ones that have a toast *)
DListed == {s \in dList : dToasts[s] = "no"}

(* mutant of classifySuppression *)
NeverSuppressed(req) == "none"

(* classifySuppression, with the check for a deletion in the catch block *)
classifySuppression(req) ==
    IF DDeleted(req.sess, req.version) THEN "deleted"
    ELSE IF req.aborted THEN "aborted" ELSE "none"

(* mutant of DUnmount *)
UnmountKeepsToasts ==
    /\ dShown' = FALSE
    /\ dFetch' = DNone /\ UNCHANGED dToasts

(* The navigation takes everything off the screen: the timers of the       *)
(* toasts are cleared, the callbacks of their mutations are dropped, the   *)
(* question and the detail request are aborted                             *)
DUnmount ==
    /\ dShown' = FALSE
    /\ dToasts' = [s \in DSessions |-> "no"]
    /\ dFetch' = DNone

DUnwatched(deletes) == {[d EXCEPT !.watched = FALSE] : d \in deletes}
DDeleting(s) == \E d \in dDeletes : d.sess = s
DAborted(req) == IF req = DNone THEN DNone ELSE [req EXCEPT !.aborted = TRUE]

-----------------------------------------------------------------------------
(* Navigation *)

(* handleNewChat, handleSessionClick, and the buttons that leave the chat  *)
(* alone                                                                   *)
DNavigate(active) ==
    /\ dShown /\ dUsed.navigations < DMaxNavigations
    /\ active \in DListed \cup {DNone, dActive}
    /\ dUsed' = [dUsed EXCEPT !.navigations = @ + 1]
    /\ dActive' = active /\ DUnmount
    /\ dDeletes' = DUnwatched(dDeletes) /\ dReq' = DAborted(dReq)
    /\ UNCHANGED <<dServer, dBorn, dList, dDetail, dRegistry, dUndone, dAsked>>

(* The permissions are verified, the pages are mounted again *)
DArrive ==
    /\ ~dShown /\ dShown' = TRUE
    /\ UNCHANGED <<dServer, dBorn, dList, dDetail, dFetch, dActive, dToasts, dRegistry, dDeletes, dReq, dHistory>>

-----------------------------------------------------------------------------
(* The undo toast *)

handleDeleteSession(s) ==
    /\ dShown /\ s \in DListed /\ dUsed.deletes < DMaxDeletes
    /\ dUsed' = [dUsed EXCEPT !.deletes = @ + 1]
    /\ dToasts' = [dToasts EXCEPT ![s] = "counting"]
    /\ dUndone' = dUndone \ {s} /\ dAsked' = dAsked \cup {s}
    /\ UNCHANGED <<dServer, dBorn, dList, dDetail, dFetch, dActive, dShown, dRegistry, dDeletes, dReq>>

(* pauseCountdown, resumeCountdown *)
DPause(s) ==
    /\ dToasts[s] \in {"counting", "paused"}
    /\ dToasts' = [dToasts EXCEPT ![s] = IF @ = "paused" THEN "counting" ELSE "paused"]
    /\ UNCHANGED <<dServer, dBorn, dList, dDetail, dFetch, dActive, dShown, dRegistry, dDeletes, dReq, dHistory>>

(* mutant of handleUndo *)
UndoLeavesTimer(s) ==
    /\ dToasts[s] \in {"counting", "paused"}
    /\ dUndone' = IF DDeleting(s) THEN dUndone ELSE dUndone \cup ({s} \cap dServer)
    /\ dAsked' = dAsked \ {s}
    /\ UNCHANGED <<dServer, dBorn, dList, dDetail, dFetch, dActive, dShown, dToasts, dRegistry, dDeletes, dReq, dUsed>>

handleUndo(s) ==
    /\ dToasts[s] \in {"counting", "paused"}
    /\ dToasts' = [dToasts EXCEPT ![s] = "no"]
    /\ dUndone' = IF DDeleting(s) THEN dUndone ELSE dUndone \cup ({s} \cap dServer)
    /\ dAsked' = dAsked \ {s}
    /\ UNCHANGED <<dServer, dBorn, dList, dDetail, dFetch, dActive, dShown, dRegistry, dDeletes, dReq, dUsed>>

(* beginSessionDeletion *)
beginSessionDeletion(s) ==
    IF s \in dUnavailable THEN UNCHANGED dRegistry
    ELSE /\ dUnavailable' = dUnavailable \cup {s}
         /\ dVersion' = [dVersion EXCEPT ![s] = @ + 1]

(* mutant of DForget *)
KeepsDetail(s) == dDetail

(* onMutate of useDeleteSession *)
DForget(s) == dDetail \ {s}

(* fireDeletion: the time is over.  The registry tells the question of the *)
(* session; handleDeleteStarted leaves a deleted chat, and with it the     *)
(* toast; onMutate of useDeleteSession drops the cached detail.            *)
fireDeletion(s) ==
    LET nr == CHOOSE n \in 1..DMaxDeletes : \A d \in dDeletes : d.nr # n
        sent(watched) == dDeletes \cup {[sess |-> s, nr |-> nr, state |-> "sent",
                                         watched |-> watched, had |-> s \in dDetail]} IN
    /\ dToasts[s] = "counting"
    /\ beginSessionDeletion(s)
    /\ dDetail' = DForget(s)
    /\ IF dActive = s
       THEN /\ dActive' = DNone /\ DUnmount
            /\ dDeletes' = DUnwatched(sent(FALSE)) /\ dReq' = DAborted(dReq)
       ELSE /\ dToasts' = [dToasts EXCEPT ![s] = "started"]
            /\ dDeletes' = sent(TRUE)
            /\ dReq' = IF dReq # DNone /\ dReq.sess = s THEN DAborted(dReq) ELSE dReq
            /\ dFetch' = IF dFetch # DNone /\ dFetch.sess = s THEN DNone ELSE dFetch
            /\ UNCHANGED <<dActive, dShown>>
    /\ UNCHANGED <<dServer, dBorn, dList, dHistory>>

(* The server deletes the session, or no longer finds it *)
DServerDeletes(d) ==
    /\ d.state = "sent"
    /\ dDeletes' = (dDeletes \ {d}) \cup
          {[d EXCEPT !.state = IF d.sess \in dServer THEN "applied" ELSE "missing"]}
    /\ dServer' = dServer \ {d.sess}
    /\ UNCHANGED <<dBorn, dList, dDetail, dFetch, dActive, dShown, dToasts, dRegistry, dReq, dHistory>>

DToastEnds(d) ==
    /\ dDeletes' = dDeletes \ {d} /\ dAsked' = dAsked \ {d.sess}
    /\ dToasts' = IF d.watched THEN [dToasts EXCEPT ![d.sess] = "no"] ELSE dToasts

(* onSuccess of useDeleteSession, then the one of the toast *)
DDeleteSucceeds(d) ==
    /\ d.state = "applied" /\ DToastEnds(d)
    /\ dList' = dList \ {d.sess} /\ dDetail' = dDetail \ {d.sess}
    /\ UNCHANGED <<dServer, dBorn, dFetch, dActive, dShown, dRegistry, dReq, dUsed, dUndone>>

(* mutant of rollbackSessionDeletion *)
RollbackByToast(d) == IF d.watched THEN dUnavailable \ {d.sess} ELSE dUnavailable

(* rollbackSessionDeletion *)
rollbackSessionDeletion(d) == dUnavailable \ {d.sess}

(* onError of useDeleteSession, then the one of the toast: a watched toast *)
(* is never the one of the active session, so handleDeleteFailed has       *)
(* nothing to restore.  The answer may be lost after the server acted.     *)
DDeleteFails(d) ==
    /\ DToastEnds(d)
    /\ dUnavailable' = rollbackSessionDeletion(d)
    /\ dDetail' = IF d.had THEN dDetail \cup {d.sess} ELSE dDetail
    /\ UNCHANGED <<dServer, dBorn, dList, dFetch, dActive, dShown, dVersion, dReq, dUsed, dUndone>>

-----------------------------------------------------------------------------
(* The list and the detail *)

(* useSessionsList is answered *)
DListSettles ==
    /\ dShown /\ dList # dServer /\ dList' = dServer
    /\ UNCHANGED <<dServer, dBorn, dDetail, dFetch, dActive, dShown, dToasts, dRegistry, dDeletes, dReq, dHistory>>

(* useSessionDetail of the active session: not while it is unavailable *)
DDetailStarts ==
    /\ dShown /\ dFetch = DNone
    /\ dActive # DNone /\ dActive \notin dDetail \cup dUnavailable
    /\ dFetch' = [sess |-> dActive, version |-> dVersion[dActive]]
    /\ UNCHANGED <<dServer, dBorn, dList, dDetail, dActive, dShown, dToasts, dRegistry, dDeletes, dReq, dHistory>>

(* The answer is kept unless a deletion has started since *)
DKeepsDetail(fetch) == dVersion[fetch.sess] = fetch.version

DDetailSettles(found) ==
    /\ dFetch # DNone /\ dFetch' = DNone
    /\ found => dFetch.sess \in dServer
    /\ dDetail' = IF found /\ DKeepsDetail(dFetch) THEN dDetail \cup {dFetch.sess} ELSE dDetail
    /\ UNCHANGED <<dServer, dBorn, dList, dActive, dShown, dToasts, dRegistry, dDeletes, dReq, dHistory>>

-----------------------------------------------------------------------------
(* The question *)

(* submitQuestion: refused for an unavailable session *)
DSubmit ==
    /\ dShown /\ dReq = DNone /\ dUsed.submits < DMaxSubmits
    /\ dActive \notin dUnavailable
    /\ dUsed' = [dUsed EXCEPT !.submits = @ + 1]
    /\ dReq' = [sess |-> dActive, version |-> DVersionOf(dActive), aborted |-> FALSE]
    /\ UNCHANGED <<dServer, dBorn, dList, dDetail, dFetch, dActive, dShown, dToasts, dRegistry, dDeletes,
                   dUndone, dAsked>>

(* The result arrives; a question of a new chat has created a session,     *)
(* which becomes the active one                                            *)
DAnswered(s) ==
    /\ dReq # DNone /\ dReq' = DNone
    /\ IF dReq.sess = DNone THEN s \notin dBorn
                            ELSE s = dReq.sess
    /\ dServer' = IF dReq.sess = DNone THEN dServer \cup {s} ELSE dServer
    /\ dBorn' = dBorn \cup {s}
    /\ dActive' = IF dReq.sess = DNone /\ classifySuppression(dReq) = "none" THEN s ELSE dActive
    /\ UNCHANGED <<dList, dDetail, dFetch, dShown, dToasts, dRegistry, dDeletes, dHistory>>

(* It fails, or its abort reaches it: no change but to the turn *)
DNotAnswered ==
    /\ dReq # DNone /\ dReq' = DNone
    /\ UNCHANGED <<dServer, dBorn, dList, dDetail, dFetch, dActive, dShown, dToasts, dRegistry, dDeletes, dHistory>>

-----------------------------------------------------------------------------
DeletionInit ==
    /\ dServer = DExisting /\ dBorn = DExisting /\ dList = DExisting /\ dDetail = {} /\ dFetch = DNone
    /\ dActive = DNone /\ dShown = TRUE
    /\ dToasts = [s \in DSessions |-> "no"]
    /\ dUnavailable = {} /\ dVersion = [s \in DSessions |-> 0]
    /\ dDeletes = {} /\ dReq = DNone
    /\ dUsed = [navigations |-> 0, deletes |-> 0, submits |-> 0]
    /\ dUndone = {} /\ dAsked = {}

DDeleteEnds == \E d \in dDeletes : DDeleteSucceeds(d) \/ DDeleteFails(d)

DeletionNext ==
    \/ \E a \in DSessions \cup {DNone} : DNavigate(a)
    \/ DArrive
    \/ \E s \in DSessions :
          \/ handleDeleteSession(s) \/ DPause(s) \/ handleUndo(s) \/ fireDeletion(s)
          \/ DAnswered(s)
    \/ \E d \in dDeletes : DServerDeletes(d) \/ DDeleteSucceeds(d) \/ DDeleteFails(d)
    \/ DListSettles \/ DDetailStarts
    \/ \E found \in BOOLEAN : DDetailSettles(found)
    \/ DSubmit \/ DNotAnswered

(* The browser ends every DELETE it has sent *)
DeletionFairness == WF_dVars(DDeleteEnds)

DeletionSpec == DeletionInit /\ [][DeletionNext]_dVars /\ DeletionFairness

-----------------------------------------------------------------------------
(* Properties *)

(* Types; a toast that has started its deletion watches it, and nothing of *)
(* a toast is left when the pages are off the screen.                      *)
DeletionTypeOK ==
    /\ dServer \subseteq DSessions /\ dList \subseteq DSessions /\ dDetail \subseteq DSessions
    /\ dActive \in DSessions \cup {DNone}
    /\ dToasts \in [DSessions -> Toast] /\ dDeletes \subseteq Delete
    /\ dUnavailable \subseteq DSessions
    /\ \A s \in DSessions : /\ dToasts[s] = "started" <=> \E d \in dDeletes : d.sess = s /\ d.watched
                            /\ ~dShown => dToasts[s] = "no"

(* A session whose deletion was undone stays, until it is deleted again:   *)
(* the undo always comes before the timer of the same toast or not at all. *)
(* (Undone while no earlier DELETE of the same session was on its way.)    *)
UndoneIsKept == dUndone \subseteq dServer

(* A session is unavailable only while its DELETE is on its way or after   *)
(* the server deleted it: a failed deletion gives it back, whether or not  *)
(* the toast is still there to see the failure.                            *)
UnavailableMeansDeleting ==
    \A s \in dUnavailable : DDeleting(s) \/ s \notin dServer

(* No detail of a session is cached while it is being deleted, however     *)
(* late the answer to its request is.                                      *)
DeletedDetailIsForgotten == dDetail \cap dUnavailable = {}

(* The answer to a question moves the workspace only if the workspace that *)
(* asked it is still on the screen: a chat the user opened meanwhile is    *)
(* not replaced by the one the question created.                           *)
AnswerLeavesOtherChats ==
    [][\A s \in DSessions : DAnswered(s) /\ dActive' # dActive => dActive = dReq.sess /\ dShown]_dVars

(* A session that is being deleted becomes available again or is gone.     *)
DeletionEnds ==
    \A s \in DSessions : s \in dUnavailable ~> (s \notin dUnavailable \/ s \notin dServer)

(* A deletion that the user does not undo is carried out: its toast does   *)
(* not go away before the DELETE is sent.                                  *)
NotUndoneMeansDeleted ==
    \A s \in dAsked : dToasts[s] # "no" \/ DDeleting(s)

(* The registry of useSessions and sessionDeletionLifecycle is safe: an undone deletion keeps its
   session, a session is unavailable for a reason only, and its detail is not cached meanwhile. *)
DeletionIsSafe == UndoneIsKept /\ UnavailableMeansDeleting /\ DeletedDetailIsForgotten
=============================================================================
