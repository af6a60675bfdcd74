----------------------------- MODULE AdminQuotas -----------------------------
(***************************************************************************)
(* The quota page of the admin console (pages/AdminQuotasPage.tsx) with    *)
(* its hooks useAdminQuotas and useQuotaMutationRecovery.  A mutation that *)
(* the server applied but could not synchronise is remembered in session   *)
(* storage and blocks the page until a retry of the same mutation succeeds.*)
(*                                                                         *)
(* Callbacks given to useMutation run whether or not the page that started *)
(* the mutation is still mounted: they then reach the refs of that mount   *)
(* and the storage of the tab, but no state of a later mount.  The server  *)
(* is external: QuotaConfig models it, here it is the row of a role and    *)
(* whether Redis agrees with it.  The three limits of a role are one value.*)
(***************************************************************************)
EXTENDS Integers, FiniteSets

CONSTANTS
    QRoles, QTexts,   \* roles, and texts an admin may type into the form
    NoQuota,          \* the role has no row
    QNone,            \* null
    QMaxSafe,         \* Number.MAX_SAFE_INTEGER
    QMaxMounts, QMaxMutations    \* bounds: pages opened, changes requested

VARIABLES
    qConfig, qSynced,      \* the server: rows, roles whose copy in Redis is current
    qReqs,                 \* mutations on their way: their page, operation, answer
    qStored, qBlocked,     \* session storage, and whether the browser blocks it
    qOpen, qMount,         \* the page is mounted; pages mounted so far
    qInFlight, qAttempted, \* the refs of every mount
    qRecovery, qEdit,      \* recoveryOperation and the edit form
    qList, qFetching,      \* the cached list, and whether it is being fetched
    qSeesRoles,            \* the admin may list roles
    qSent, qOwed, qTouched, qLeft   \* bound, and history used by properties

qVars == <<qConfig, qSynced, qReqs, qStored, qBlocked, qOpen, qMount, qInFlight,
           qAttempted, qRecovery, qEdit, qList, qFetching, qSeesRoles,
           qSent, qOwed, qTouched, qLeft>>
qServer == <<qConfig, qSynced, qTouched>>
qPage == <<qRecovery, qEdit>>
qRefs == <<qInFlight, qAttempted>>
qFixed == <<qBlocked, qSeesRoles>>
qMounts == <<qOpen, qMount>>

-----------------------------------------------------------------------------
(* Pure parts *)

(* parseQuotaLimit: a blank text is "no limit", anything else must be a    *)
(* safe integer that is not negative.                                      *)
parseQuotaLimit(text) ==
    [isValid |-> \/ text.kind = "blank"
                 \/ text.kind = "integer" /\ text.n \in 0..QMaxSafe,
     limit |-> text]

QLimits == {text \in QTexts : parseQuotaLimit(text).isValid}
QValues == QLimits \cup {NoQuota}
QOps == [kind : {"upsert"}, role : QRoles, value : QLimits]
            \cup [kind : {"delete"}, role : QRoles, value : {NoQuota}]

(* isRecoveryOperation: what readRecovery accepts from storage *)
isRecoveryOperation(op) ==
    /\ op # QNone
    /\ op.role \in QRoles
    /\ \/ op.kind = "delete"
       \/ op.kind = "upsert" /\ parseQuotaLimit(op.value).isValid

readRecovery == IF qStored # QNone /\ isRecoveryOperation(qStored) THEN qStored ELSE QNone

-----------------------------------------------------------------------------
(* What the page shows and offers *)

QHere(m) == qOpen /\ m = qMount

(* isPending: a mutation of this mount, until its callbacks have run *)
QPending == \E req \in qReqs : QHere(req.mount)

mutationsDisabled == qRecovery # QNone \/ QPending

QLoaded == qOpen /\ qList # QNone

(* mergedQuotas: every role if roles may be listed, else the configured ones *)
mergedQuotas ==
    IF ~QLoaded THEN {}
    ELSE IF qSeesRoles THEN QRoles ELSE {r \in QRoles : qList[r] # NoQuota}

(* QuotaConfigCard and the rows of the table *)
QOffersEdit(r) == r \in mergedQuotas /\ ~mutationsDisabled
QOffersDelete(r) == QOffersEdit(r) /\ qList[r] # NoQuota

(* QuotaRecoveryAlert *)
QOffersRetry == QLoaded /\ qRecovery # QNone /\ ~QPending

(* The edit form: it can be changed and closed at any time. *)
QOffersForm == QLoaded /\ qEdit # QNone

-----------------------------------------------------------------------------
QuotasInit ==
    /\ qConfig \in [QRoles -> QValues]
    /\ qSynced = QRoles
    /\ qReqs = {}
    /\ qStored = QNone /\ qBlocked \in BOOLEAN
    /\ qOpen = FALSE /\ qMount = 0
    /\ qInFlight = [m \in 1..QMaxMounts |-> FALSE]
    /\ qAttempted = [m \in 1..QMaxMounts |-> QNone]
    /\ qRecovery = QNone /\ qEdit = QNone
    /\ qList = QNone /\ qFetching = FALSE
    /\ qSeesRoles \in BOOLEAN
    /\ qSent = 0 /\ qOwed = {} /\ qTouched = {} /\ qLeft = FALSE

(* The page is opened: useQuotaMutationRecovery restores what storage holds, *)
(* and the list is fetched again unless the cached one is still fresh.       *)
QMountPage ==
    /\ ~qOpen /\ qMount < QMaxMounts
    /\ qOpen' = TRUE /\ qMount' = qMount + 1
    /\ qRecovery' = readRecovery /\ qEdit' = QNone
    /\ qFetching' \in IF qList = QNone THEN {TRUE} ELSE BOOLEAN
    /\ UNCHANGED <<qServer, qReqs, qStored, qRefs, qList, qFixed, qSent, qOwed, qLeft>>

QForgets == qLeft' = (qLeft \/ qReqs # {} \/ qBlocked)

QUnmountPage ==
    /\ qOpen
    /\ qOpen' = FALSE
    /\ qRecovery' = QNone /\ qEdit' = QNone
    /\ qFetching' = FALSE
    /\ QForgets
    /\ UNCHANGED <<qServer, qReqs, qStored, qRefs, qMount, qList, qFixed, qSent, qOwed>>

(* The tab is reloaded: nobody waits for the answers any more, the server  *)
(* still works on the requests.                                            *)
QReload ==
    /\ qOpen
    /\ qOpen' = FALSE
    /\ qRecovery' = QNone /\ qEdit' = QNone
    /\ qList' = QNone /\ qFetching' = FALSE
    /\ qReqs' = {[req EXCEPT !.mount = 0] : req \in {q \in qReqs : q.at = "server"}}
    /\ QForgets
    /\ UNCHANGED <<qServer, qStored, qRefs, qMount, qFixed, qSent, qOwed>>

(* listQuery settles; a failure keeps what was cached *)
QListSettles ==
    /\ qOpen /\ qFetching
    /\ qFetching' = FALSE
    /\ qList' \in {qConfig, IF qList = QNone THEN [r \in QRoles |-> NoQuota] ELSE qList}
    /\ UNCHANGED <<qServer, qReqs, qStored, qRefs, qMounts, qPage, qFixed, qSent, qOwed, qLeft>>

-----------------------------------------------------------------------------
(* The form *)

(* mutant of startQuotaEdit *)
EditShowsNoRow(r) ==
    /\ QOffersEdit(r)
    /\ qEdit' = [role |-> r, text |-> qList[r]]
    /\ UNCHANGED <<qServer, qReqs, qStored, qRefs, qMounts, qRecovery, qList, qFetching,
                   qFixed, qSent, qOwed, qLeft>>

startQuotaEdit(r) ==
    /\ QOffersEdit(r)
    /\ qEdit' = [role |-> r, text |-> IF qList[r] = NoQuota THEN [kind |-> "blank", n |-> 0]
                                      ELSE qList[r]]
    /\ UNCHANGED <<qServer, qReqs, qStored, qRefs, qMounts, qRecovery, qList, qFetching,
                   qFixed, qSent, qOwed, qLeft>>

QChangeLimit(text) ==
    /\ QOffersForm
    /\ qEdit' = [qEdit EXCEPT !.text = text]
    /\ UNCHANGED <<qServer, qReqs, qStored, qRefs, qMounts, qRecovery, qList, qFetching,
                   qFixed, qSent, qOwed, qLeft>>

cancelQuotaEdit ==
    /\ QOffersForm
    /\ qEdit' = QNone
    /\ UNCHANGED <<qServer, qReqs, qStored, qRefs, qMounts, qRecovery, qList, qFetching,
                   qFixed, qSent, qOwed, qLeft>>

(* mutant of runQuotaMutation *)
RunWithoutGuard(op) ==
    /\ qSent < QMaxMutations
    /\ qInFlight' = [qInFlight EXCEPT ![qMount] = TRUE]
    /\ qAttempted' = [qAttempted EXCEPT ![qMount] = op]
    /\ qReqs' = qReqs \cup {[mount |-> qMount, op |-> op, at |-> "server", answer |-> "none"]}
    /\ qSent' = qSent + 1

(* runQuotaMutation: at most one mutation per mounted page *)
runQuotaMutation(op) ==
    /\ ~qInFlight[qMount]
    /\ RunWithoutGuard(op)

(* mutant of saveQuota *)
SaveWithoutRecoveryCheck ==
    /\ QOffersForm
    /\ parseQuotaLimit(qEdit.text).isValid
    /\ runQuotaMutation([kind |-> "upsert", role |-> qEdit.role,
                         value |-> parseQuotaLimit(qEdit.text).limit])
    /\ UNCHANGED <<qServer, qStored, qMounts, qPage, qList, qFetching, qFixed, qOwed, qLeft>>

(* saveQuota: submitting the form by the Enter key does not need the button *)
saveQuota ==
    /\ qRecovery = QNone
    /\ SaveWithoutRecoveryCheck

confirmQuotaDelete(r) ==
    /\ QOffersDelete(r) /\ qRecovery = QNone
    /\ runQuotaMutation([kind |-> "delete", role |-> r, value |-> NoQuota])
    /\ UNCHANGED <<qServer, qStored, qMounts, qPage, qList, qFetching, qFixed, qOwed, qLeft>>

retryQuotaMutation ==
    /\ QOffersRetry
    /\ runQuotaMutation(qRecovery)
    /\ UNCHANGED <<qServer, qStored, qMounts, qPage, qList, qFetching, qFixed, qOwed, qLeft>>

-----------------------------------------------------------------------------
(* The server, as far as the page can tell (admin_quotas.py) *)

QApplied(op) == [qConfig EXCEPT ![op.role] = op.value]

QServerAnswers(req) ==
    /\ req.at = "server"
    /\ LET op == req.op
           gone == op.kind = "delete" /\ qConfig[op.role] = NoQuota /\ op.role \in qSynced
           Answer(a) == qReqs' = (qReqs \ {req}) \cup
                            IF req.mount = 0 THEN {}
                            ELSE {[req EXCEPT !.at = "answered", !.answer = a]}
       IN \/ /\ ~gone
             /\ qConfig' = QApplied(op) /\ qSynced' = qSynced \cup {op.role}
             /\ Answer("ok")
          \/ /\ ~gone
             /\ qConfig' = QApplied(op) /\ qSynced' = qSynced \ {op.role}
             /\ Answer("pending")
          \/ /\ qConfig' \in {qConfig} \cup {QApplied(op)}
             /\ qSynced' \in {qSynced, qSynced \cup {op.role}, qSynced \ {op.role}}
             /\ Answer("failed")      \* refused, or the answer got lost
    /\ qOwed' = qOwed \ qSynced'
    /\ UNCHANGED <<qTouched, qStored, qRefs, qMounts, qPage, qList, qFetching, qFixed,
                   qSent, qLeft>>

(* Another admin saves the role; the same value again only synchronises it. *)
QOtherAdmin(r, value) ==
    /\ qSent < QMaxMutations
    /\ qSent' = qSent + 1
    /\ qConfig' = [qConfig EXCEPT ![r] = value]
    /\ qSynced' = qSynced \cup {r}
    /\ qTouched' = qTouched \cup {x \in {r} : value # qConfig[r]}
    /\ qOwed' = qOwed \ {r}
    /\ UNCHANGED <<qReqs, qStored, qRefs, qMounts, qPage, qList, qFetching, qFixed, qLeft>>

-----------------------------------------------------------------------------
(* Callbacks *)

(* mutant of writeRecovery *)
NeverStored(op) == UNCHANGED qStored

writeRecovery(op) == qStored' = IF qBlocked THEN qStored ELSE op

QReleases(m) ==
    /\ qInFlight' = [qInFlight EXCEPT ![m] = FALSE]
    /\ qAttempted' = [qAttempted EXCEPT ![m] = QNone]

(* onSuccess: invalidate both lists, forget the recovery, close the form *)
QSucceeds(req) ==
    /\ req.at = "answered" /\ req.answer = "ok"
    /\ qReqs' = qReqs \ {req}
    /\ QReleases(req.mount)
    /\ writeRecovery(QNone)
    /\ qRecovery' = IF QHere(req.mount) THEN QNone ELSE qRecovery
    /\ qEdit' = IF QHere(req.mount) /\ req.op.kind = "upsert" THEN QNone ELSE qEdit
    /\ qFetching' = (qFetching \/ qOpen)
    /\ UNCHANGED <<qServer, qMounts, qList, qFixed, qSent, qOwed, qLeft>>

(* onError first awaits the refetch of the list *)
QErrorRefetches(req) ==
    /\ req.at = "answered" /\ req.answer # "ok"
    /\ qReqs' = (qReqs \ {req}) \cup {[req EXCEPT !.at = "refetching"]}
    /\ qFetching' = qOpen
    /\ UNCHANGED <<qServer, qStored, qRefs, qMounts, qPage, qList, qFixed, qSent, qOwed, qLeft>>

(* mutant of QClosesForm *)
ClosesOnAnyFailure(req, remember) == QHere(req.mount) /\ req.op.kind = "upsert"

QClosesForm(req, remember) == remember /\ QHere(req.mount) /\ req.op.kind = "upsert"

(* mutant of RefetchSettled *)
RefetchSucceeded == ~qFetching /\ (qOpen => qList = qConfig)

(* refetchQueries resolves when the fetch has settled, failed or not *)
RefetchSettled == ~qFetching

(* ... then remembers an operation that awaits synchronisation, or shows  *)
(* the error and leaves the form as it is                                  *)
QFails(req) ==
    LET attempted == qAttempted[req.mount]
        remember == attempted # QNone /\ req.answer = "pending"
    IN  /\ req.at = "refetching" /\ RefetchSettled
        /\ qReqs' = qReqs \ {req}
        /\ QReleases(req.mount)
        /\ IF remember THEN writeRecovery(attempted) ELSE UNCHANGED qStored
        /\ qRecovery' = IF remember /\ QHere(req.mount) THEN attempted ELSE qRecovery
        /\ qEdit' = IF QClosesForm(req, remember) THEN QNone ELSE qEdit
        /\ qOwed' = IF req.answer = "pending" THEN qOwed \cup ({req.op.role} \ qSynced)
                    ELSE qOwed
        /\ UNCHANGED <<qServer, qMounts, qList, qFetching, qFixed, qSent, qLeft>>

QAnswer(req) == QServerAnswers(req) \/ QSucceeds(req) \/ QErrorRefetches(req) \/ QFails(req)

QuotasNext ==
    \/ QMountPage \/ QUnmountPage \/ QReload \/ QListSettles
    \/ \E r \in QRoles : startQuotaEdit(r) \/ confirmQuotaDelete(r)
    \/ \E text \in QTexts : QChangeLimit(text)
    \/ cancelQuotaEdit \/ saveQuota \/ retryQuotaMutation
    \/ \E req \in qReqs : QAnswer(req)
    \/ \E r \in QRoles, value \in QValues : QOtherAdmin(r, value)

(* Requests are answered or fail, and fetches settle: the client has       *)
(* deadlines and the callbacks are microtasks.  Nothing is asked of users. *)
QuotasFairness ==
    /\ WF_qVars(QListSettles)
    /\ WF_qVars(\E req \in qReqs : QAnswer(req))

QuotasSpec == QuotasInit /\ [][QuotasNext]_qVars /\ QuotasFairness

-----------------------------------------------------------------------------
(* Properties *)

(* Every variable has its type; a role that is owed synchronisation lacks it. *)
QuotasTypeOK ==
    /\ qConfig \in [QRoles -> QValues] /\ qSynced \subseteq QRoles
    /\ \A req \in qReqs : /\ req.mount \in 0..QMaxMounts /\ req.op \in QOps
                          /\ req.at \in {"server", "answered", "refetching"}
                          /\ req.answer \in {"none", "ok", "pending", "failed"}
    /\ qStored \in QOps \cup {QNone} /\ qRecovery \in QOps \cup {QNone}
    /\ qBlocked \in BOOLEAN /\ qOpen \in BOOLEAN /\ qMount \in 0..QMaxMounts
    /\ qInFlight \in [1..QMaxMounts -> BOOLEAN]
    /\ qAttempted \in [1..QMaxMounts -> QOps \cup {QNone}]
    /\ qEdit \in [role : QRoles, text : QTexts] \cup {QNone}
    /\ qList \in [QRoles -> QValues] \cup {QNone}
    /\ qFetching \in BOOLEAN /\ qSeesRoles \in BOOLEAN /\ qLeft \in BOOLEAN
    /\ qSent \in 0..QMaxMutations /\ qTouched \subseteq QRoles
    /\ qOwed \subseteq QRoles \ qSynced

(* A role whose change was applied but not synchronised, and whose admin was *)
(* told so, is the one the page offers to retry, and stays stored while the  *)
(* page is closed.  It may only be forgotten when the page was left while a  *)
(* mutation was on its way, or by a browser that blocks storage.             *)
PendingSyncIsOffered ==
    \A r \in qOwed \ qTouched : ~qLeft =>
        /\ qOpen => qRecovery # QNone /\ qRecovery.role = r
        /\ ~qBlocked => qStored # QNone /\ qStored.role = r

(* What a retry sends is what the server already stores: the retry can only *)
(* synchronise, it never brings an older configuration back.                *)
RetryOnlyResynchronises ==
    \A r \in QRoles \ qTouched : ~qLeft /\ qRecovery # QNone /\ qRecovery.role = r
        => qConfig[r] = qRecovery.value

(* A mounted page has at most one mutation of its own on the way, and its   *)
(* ref says whether it has: a double click or the Enter key sends no second *)
(* one, and the ref is never left set, which would disable the page for     *)
(* good.                                                                    *)
OneMutationPerPage ==
    \A m \in 1..QMaxMounts :
        LET mine == {req \in qReqs : req.mount = m}
        IN  /\ Cardinality(mine) <= 1
            /\ \A req \in mine : qInFlight[m] /\ qAttempted[m] = req.op
            /\ qOpen /\ m = qMount /\ qInFlight[m] => mine # {}

(* The typed limits survive a save that was refused and every answer that  *)
(* belongs to an earlier mount of the page: only Cancel, leaving, and an   *)
(* applied save of this page close the form.                               *)
DraftSurvivesFailure ==
    [][qEdit # QNone /\ qEdit' = QNone =>
          \/ cancelQuotaEdit \/ QUnmountPage \/ QReload
          \/ \E req \in qReqs : /\ req.mount = qMount /\ req.op.kind = "upsert"
                                /\ req.answer \in {"ok", "pending"}]_qVars

(* A page is not blocked by a mutation for ever: its answer, its failure or *)
(* the refetch after the failure ends it.                                   *)
MutationEnds == QPending ~> ~QPending

(* The alert tells the admin that the change is not synchronised yet and   *)
(* asks to retry it (quota.recovery.description).                          *)
RecoveryAlertIsTrue == qOpen /\ qRecovery # QNone => qRecovery.role \notin qSynced
=============================================================================
