------------------------------ MODULE AdminRoles ------------------------------
(***************************************************************************)
(* The roles page of the admin console: AdminRolesPage over useAdminRoles. *)
(* A save that fails is reconciled: the page reads the roles back and      *)
(* decides whether the save took effect, was rejected, or is uncertain.    *)
(*                                                                         *)
(* A role is its protected part (name, priority and permissions; the group *)
(* values are compared like them), its description, which may be blank,    *)
(* and its connection policies, which only the detail of a role shows.     *)
(* The server (admin_roles.py) is external: it answers, or the answer is   *)
(* lost, in which case it may still apply the write later.                 *)
(***************************************************************************)
EXTENDS Integers, FiniteSets

CONSTANTS
    RIds,             \* roles that may exist
    RNames,           \* protected parts an admin may type
    RPolicies,        \* connection policies
    ROthers,          \* roles another admin may write
    RNone,            \* null, undefined
    RMaxSaves         \* bound: saves and deletions sent, changes of another admin

VARIABLES
    rServer, rBuiltin,     \* stored roles; the ones that are built in
    rList, rListFetch,     \* cached ids of the list; being fetched
    rDetails, rDetailFetch,\* cached details; the detail being fetched, or failed
    rForm, rLoaded,        \* the form; the role whose detail was applied to it
    rDraft, rFeedback,     \* fields of the form; saveFeedback
    rSave, rWrites,        \* the running mutation; writes the server still has to handle
    rDels, rSends,         \* deletions on their way; bound
    rLast                  \* history: the save that ended last

rVars == <<rServer, rBuiltin, rList, rListFetch, rDetails, rDetailFetch, rForm,
           rLoaded, rDraft, rFeedback, rSave, rWrites, rDels, rSends, rLast>>

RBlank == ""
RRole == [prot : RNames, desc : {RBlank, "d"}, pols : RPolicies]
REmptyDraft == [prot |-> RBlank, desc |-> RBlank, pols |-> CHOOSE p \in RPolicies : TRUE]
RStored(server) == {i \in RIds : server[i] # RNone}

-----------------------------------------------------------------------------
(* Reconciliation: pure parts *)

(* mutant of roleMatchesUpdate *)
MatchesWithoutPolicies(role, body) ==
    role.prot = body.prot /\ (body.desc # RNone => role.desc = body.desc)

(* roleMatchesUpdate: a field that was not sent is not compared *)
roleMatchesUpdate(role, body) ==
    /\ role.prot = body.prot
    /\ body.desc # RNone => role.desc = body.desc
    /\ role.pols = body.pols

(* roleCouldBeCreatedCandidate: what the list shows of a role *)
roleCouldBeCreatedCandidate(role, body) ==
    /\ role.prot = body.prot
    /\ role.desc = IF body.desc = RNone THEN RBlank ELSE body.desc

(* handleSave: what is sent of a draft; a blank description is left out *)
RBody(draft) == [draft EXCEPT !.desc = IF draft.desc = RBlank THEN RNone ELSE draft.desc]

(* update_role and create_role: what is stored of what was sent *)
RApplied(old, body) ==
    [body EXCEPT !.desc = IF body.desc # RNone THEN body.desc
                          ELSE IF old = RNone THEN RBlank ELSE old.desc]

(* Whether the server holds a role that a save would have left *)
RHolds(server, id, body) ==
    \E i \in IF id = "add" THEN RIds ELSE {id} :
        server[i] # RNone /\ RApplied(server[i], body) = server[i]

(* mutant of handleSaveError *)
UncertainStaysPending(ambiguous, refreshed) ==
    IF ambiguous THEN "pending" ELSE "failed"

(* handleSaveError: what the form says of a save that failed *)
handleSaveError(ambiguous, refreshed) ==
    IF ~ambiguous THEN "failed"
    ELSE IF refreshed THEN "uncertain" ELSE "uncertainNoRefresh"

-----------------------------------------------------------------------------
(* What the page offers *)

(* The form replaces the list; without any data there is neither *)
RShowsForm == rList # RNone /\ rForm # RNone
RShowsList == rList # RNone /\ rForm = RNone

isDetailReady == rForm = "add" \/ rLoaded = rForm
isDetailFailed == rForm \in RIds /\ rDetailFetch = "error" /\ ~isDetailReady
isSaving == rFeedback = "pending"

(* Fields of the form that may be changed *)
REditable == IF ~RShowsForm \/ ~isDetailReady THEN {}
             ELSE IF rForm \in rBuiltin THEN {"desc", "pols"} ELSE {"prot", "desc", "pols"}

(* mutant of ROffersCancel *)
CancelWhileSaving == RShowsForm
ROffersCancel == RShowsForm /\ ~isSaving
ROffersSave == RShowsForm /\ isDetailReady /\ ~isSaving

(* Rows of the list; a built-in role has no delete button *)
ROffersEdit(i) == RShowsList /\ i \in rList
ROffersDelete(i) == ROffersEdit(i) /\ i \notin rBuiltin

-----------------------------------------------------------------------------
(* Queries *)

RListSettles ==
    /\ rListFetch
    /\ \/ rList' = RStored(rServer) /\ rListFetch' = FALSE
       \/ rList # RNone /\ rListFetch' = FALSE /\ UNCHANGED rList
    /\ UNCHANGED <<rServer, rBuiltin, rDetails, rDetailFetch, rForm, rLoaded, rDraft,
                   rFeedback, rSave, rWrites, rDels, rSends, rLast>>

(* mutant of RAppliesDetail *)
EveryDetailApplies(i) == rForm = i

(* The effect on the detail: only the first one of a form is applied *)
RAppliesDetail(i) == rForm = i /\ rLoaded # i

RDetailArrives ==
    /\ rDetailFetch = "fetching" /\ rForm \in RIds
    /\ \/ /\ rServer[rForm] # RNone
          /\ rDetails' = [rDetails EXCEPT ![rForm] = rServer[rForm]]
          /\ rDetailFetch' = "idle"
          /\ IF RAppliesDetail(rForm)
             THEN rLoaded' = rForm /\ rDraft' = rServer[rForm]
             ELSE UNCHANGED <<rLoaded, rDraft>>
       \/ rDetailFetch' = "error" /\ UNCHANGED <<rDetails, rLoaded, rDraft>>
    /\ UNCHANGED <<rServer, rBuiltin, rList, rListFetch, rForm, rFeedback, rSave,
                   rWrites, rDels, rSends, rLast>>

RRetryDetail ==
    /\ RShowsForm /\ isDetailFailed
    /\ rDetailFetch' = "fetching"
    /\ UNCHANGED <<rServer, rBuiltin, rList, rListFetch, rDetails, rForm, rLoaded,
                   rDraft, rFeedback, rSave, rWrites, rDels, rSends, rLast>>

-----------------------------------------------------------------------------
(* Handlers of the page *)

(* handleEdit.  A cached detail is applied at once; it is fetched again    *)
(* only when it is older than the five minutes of the query client.        *)
ROpenEdit(i) ==
    /\ ROffersEdit(i)
    /\ rForm' = i /\ rFeedback' = "none"
    /\ IF rDetails[i] = RNone
       THEN rLoaded' = RNone /\ rDraft' = REmptyDraft /\ rDetailFetch' = "fetching"
       ELSE /\ rLoaded' = i /\ rDraft' = rDetails[i]
            /\ rDetailFetch' \in {"idle", "fetching"}
    /\ rLast' = RNone
    /\ UNCHANGED <<rServer, rBuiltin, rList, rListFetch, rDetails, rSave, rWrites,
                   rDels, rSends>>

(* handleAdd *)
ROpenAdd ==
    /\ RShowsList
    /\ rForm' = "add" /\ rFeedback' = "none"
    /\ rLoaded' = RNone /\ rDraft' = REmptyDraft
    /\ rLast' = RNone
    /\ UNCHANGED <<rServer, rBuiltin, rList, rListFetch, rDetails, rDetailFetch,
                   rSave, rWrites, rDels, rSends>>

(* The inputs, handlePermissionToggle, the group and the policy editor *)
RType(field, value) ==
    /\ field \in REditable /\ rSends < RMaxSaves
    /\ rDraft' = [rDraft EXCEPT ![field] = value]
    /\ UNCHANGED <<rServer, rBuiltin, rList, rListFetch, rDetails, rDetailFetch, rForm,
                   rLoaded, rFeedback, rSave, rWrites, rDels, rSends, rLast>>

RTypes ==
    \/ \E v \in RNames \cup {RBlank} : RType("prot", v)
    \/ \E v \in {RBlank, "d"} : RType("desc", v)
    \/ \E v \in RPolicies : RType("pols", v)

(* handleCancel, resetForm *)
RCloseForm ==
    /\ rForm' = RNone /\ rLoaded' = RNone /\ rDraft' = REmptyDraft
    /\ rFeedback' = "none" /\ rDetailFetch' = "idle"

RCancel ==
    /\ ROffersCancel /\ RCloseForm
    /\ UNCHANGED <<rServer, rBuiltin, rList, rListFetch, rDetails, rSave, rWrites,
                   rDels, rSends, rLast>>

RWrite(save) == [n |-> save.n, id |-> save.id, body |-> save.body]

(* The running save after the server changed; only history *)
RWatch(save, server) ==
    IF save = RNone THEN RNone
    ELSE [save EXCEPT !.stored = @ \/ RHolds(server, save.id, save.body)]

(* handleSave: a form without name or priority is refused.  A creation     *)
(* reads the roles first, an update is sent at once.                       *)
RHandleSave ==
    /\ ROffersSave /\ rDraft.prot # RBlank
    /\ rSends < RMaxSaves /\ rSends' = rSends + 1
    /\ rFeedback' = "pending"
    /\ rSave' = [n |-> rSends', id |-> rForm, body |-> RBody(rDraft), prior |-> RNone,
                 stage |-> IF rForm = "add" THEN "prior" ELSE "sent",
                 fail |-> RNone, candidates |-> {}, own |-> FALSE,
                 stored |-> RHolds(rServer, rForm, RBody(rDraft))]
    /\ rWrites' = rWrites \cup IF rForm = "add" THEN {} ELSE {RWrite(rSave')}
    /\ rLast' = RNone
    /\ UNCHANGED <<rServer, rBuiltin, rList, rListFetch, rDetails, rDetailFetch, rForm,
                   rLoaded, rDraft, rDels>>

(* handleDelete, deleteMutation *)
RHandleDelete(i) ==
    /\ ROffersDelete(i) /\ rSends < RMaxSaves /\ rSends' = rSends + 1
    /\ rDels' = rDels \cup {i}
    /\ UNCHANGED <<rServer, rBuiltin, rList, rListFetch, rDetails, rDetailFetch, rForm,
                   rLoaded, rDraft, rFeedback, rSave, rWrites, rLast>>

RDeleteEnds(i) ==
    /\ i \in rDels /\ rDels' = rDels \ {i}
    /\ \/ /\ i \notin rBuiltin /\ rServer[i] # RNone
          /\ rServer' = [rServer EXCEPT ![i] = RNone]
          /\ rListFetch' = TRUE
       \/ UNCHANGED <<rServer, rListFetch>>
    /\ UNCHANGED <<rBuiltin, rList, rDetails, rDetailFetch, rForm, rLoaded, rDraft,
                   rFeedback, rSave, rWrites, rSends, rLast>>

-----------------------------------------------------------------------------
(* createMutation and updateMutation *)

(* rolesBeforeSave: the ids known before a creation, if they can be read *)
RReadsPrior ==
    /\ rSave # RNone /\ rSave.stage = "prior"
    /\ \/ rList' = RStored(rServer)
          /\ rSave' = [rSave EXCEPT !.stage = "sent", !.prior = RStored(rServer)]
       \/ rSave' = [rSave EXCEPT !.stage = "sent"] /\ UNCHANGED rList
    /\ rWrites' = rWrites \cup {RWrite(rSave)}
    /\ UNCHANGED <<rServer, rBuiltin, rListFetch, rDetails, rDetailFetch, rForm,
                   rLoaded, rDraft, rFeedback, rDels, rSends, rLast>>

(* onSuccess, then the page's callback, which closes the form *)
REndsWell(i, role) ==
    /\ rDetails' = [rDetails EXCEPT ![i] = role]
    /\ rListFetch' = TRUE
    /\ RCloseForm
    /\ rSave' = RNone
    /\ rLast' = [said |-> "saved", stored |-> rSave.stored, own |-> rSave.own,
                 fail |-> rSave.fail]

(* RoleSaveError, then the page's callback, which keeps the draft *)
REndsBadly(refreshed) ==
    /\ rFeedback' = handleSaveError(rSave.fail = "network", refreshed)
    /\ rSave' = RNone
    /\ rLast' = [said |-> rFeedback', stored |-> rSave.stored, own |-> rSave.own,
                 fail |-> rSave.fail]
    /\ UNCHANGED <<rListFetch, rForm, rLoaded, rDraft, rDetailFetch>>

(* The server applies a write: names and priorities are unique, and an     *)
(* update that names a protected field of a built-in role is refused, even *)
(* when it does not change it                                              *)
RMayApply(w, i) ==
    /\ IF w.id = "add" THEN rServer[i] = RNone /\ i \notin rBuiltin
       ELSE i = w.id /\ rServer[i] # RNone /\ i \notin rBuiltin
    /\ \A j \in RStored(rServer) \ {i} : rServer[j].prot # w.body.prot

RWaiting(w) == rSave # RNone /\ rSave.stage = "sent" /\ rSave.n = w.n

RServerApplies(w, i) ==
    /\ RMayApply(w, i)
    /\ rWrites' = rWrites \ {w}
    /\ rServer' = [rServer EXCEPT ![i] = RApplied(rServer[i], w.body)]
    /\ LET after == [RWatch(rSave, rServer') EXCEPT !.own = TRUE] IN
       \/ /\ RWaiting(w)
          /\ rDetails' = [rDetails EXCEPT ![i] = rServer'[i]]
          /\ rListFetch' = TRUE /\ RCloseForm /\ rSave' = RNone
          /\ rLast' = [said |-> "saved", stored |-> after.stored, own |-> TRUE,
                       fail |-> RNone]
       \/ /\ RWaiting(w)                  \* the answer is lost, or not understood
          /\ \E fail \in {"network", "answer"} :
                rSave' = [after EXCEPT !.stage = "reread", !.fail = fail]
          /\ UNCHANGED <<rDetails, rListFetch, rForm, rLoaded, rDraft, rFeedback,
                         rDetailFetch, rLast>>
       \/ /\ ~RWaiting(w)                 \* after the page gave up
          /\ rSave' = RWatch(rSave, rServer')
          /\ UNCHANGED <<rDetails, rListFetch, rForm, rLoaded, rDraft, rFeedback,
                         rDetailFetch, rLast>>
    /\ UNCHANGED <<rBuiltin, rList, rDels, rSends>>

(* The server refuses a write, or fails on it, or the network loses it, or *)
(* loses the connection of a write that the server will still handle       *)
RSaveFails(w) ==
    /\ IF RWaiting(w)
       THEN \E fail \in {"refused", "network"} :
               rSave' = [rSave EXCEPT !.stage = "reread",
                             !.fail = IF fail = "refused" /\ w.id \in rBuiltin
                                      THEN "builtin" ELSE fail]
       ELSE UNCHANGED rSave
    /\ \/ rWrites' = rWrites \ {w}
       \/ RWaiting(w) /\ rSave'.fail = "network" /\ UNCHANGED rWrites
    /\ UNCHANGED <<rServer, rBuiltin, rList, rListFetch, rDetails, rDetailFetch, rForm,
                   rLoaded, rDraft, rFeedback, rDels, rSends, rLast>>

(* fetchAuthoritativeRole after a failed update *)
RRereadRole ==
    /\ rSave # RNone /\ rSave.stage = "reread" /\ rSave.id \in RIds
    /\ LET role == rServer[rSave.id] IN
       \/ /\ role # RNone
          /\ IF rSave.fail = "network" /\ roleMatchesUpdate(role, rSave.body)
             THEN REndsWell(rSave.id, role)
             ELSE REndsBadly(TRUE) /\ rDetails' = [rDetails EXCEPT ![rSave.id] = role]
       \/ REndsBadly(FALSE) /\ UNCHANGED rDetails
    /\ UNCHANGED <<rServer, rBuiltin, rList, rWrites, rDels, rSends>>

(* fetchAuthoritativeRoles after a failed creation; the roles that are new *)
(* and look like the draft are candidates                                  *)
RRereadRoles ==
    /\ rSave # RNone /\ rSave.stage = "reread" /\ rSave.id = "add"
    /\ \/ /\ rList' = RStored(rServer)
          /\ IF rSave.fail = "network" /\ rSave.prior # RNone
             THEN /\ rSave' = [rSave EXCEPT !.stage = "details", !.candidates =
                        {i \in RStored(rServer) \ rSave.prior :
                            roleCouldBeCreatedCandidate(rServer[i], rSave.body)}]
                  /\ UNCHANGED <<rListFetch, rForm, rLoaded, rDraft, rDetailFetch,
                                 rFeedback, rLast>>
             ELSE REndsBadly(TRUE)
       \/ REndsBadly(FALSE) /\ UNCHANGED rList
    /\ UNCHANGED <<rServer, rBuiltin, rDetails, rWrites, rDels, rSends>>

(* The details of the candidates, of which some may not be readable: the   *)
(* save took effect if exactly one is the draft                            *)
RRereadCandidates ==
    /\ rSave # RNone /\ rSave.stage = "details"
    /\ \E read \in SUBSET (rSave.candidates \cap RStored(rServer)) :
         LET committed == {i \in read : roleMatchesUpdate(rServer[i], rSave.body)} IN
         \/ \E i \in committed : committed = {i} /\ REndsWell(i, rServer[i])
         \/ Cardinality(committed) # 1 /\ REndsBadly(TRUE) /\ UNCHANGED rDetails
    /\ UNCHANGED <<rServer, rBuiltin, rList, rWrites, rDels, rSends>>

(* Another admin creates, changes or deletes a role *)
ROtherAdmin(i, role) ==
    /\ i \notin rBuiltin /\ rSends < RMaxSaves /\ rSends' = rSends + 1
    /\ role # RNone => \A j \in RStored(rServer) \ {i} : rServer[j].prot # role.prot
    /\ role # rServer[i]
    /\ rServer' = [rServer EXCEPT ![i] = role]
    /\ rSave' = RWatch(rSave, rServer')
    /\ UNCHANGED <<rBuiltin, rList, rListFetch, rDetails, rDetailFetch, rForm, rLoaded,
                   rDraft, rFeedback, rWrites, rDels, rLast>>

-----------------------------------------------------------------------------
RolesInit ==
    /\ LET i == CHOOSE j \in RIds : TRUE
           role == CHOOSE r \in RRole : r.desc # RBlank IN
         /\ rServer = [j \in RIds |-> IF j = i THEN role ELSE RNone]
         /\ rBuiltin \in {{}, {i}}
    /\ rList = RNone /\ rListFetch = TRUE
    /\ rDetails = [i \in RIds |-> RNone] /\ rDetailFetch = "idle"
    /\ rForm = RNone /\ rLoaded = RNone /\ rDraft = REmptyDraft /\ rFeedback = "none"
    /\ rSave = RNone /\ rWrites = {} /\ rDels = {} /\ rSends = 0 /\ rLast = RNone

RSaveProceeds ==
    \/ RReadsPrior \/ RRereadRole \/ RRereadRoles \/ RRereadCandidates
    \/ \E w \in rWrites : RSaveFails(w) \/ \E i \in RIds : RServerApplies(w, i)

RolesNext ==
    \/ RListSettles \/ RDetailArrives \/ RRetryDetail
    \/ \E i \in RIds : ROpenEdit(i) \/ RHandleDelete(i) \/ RDeleteEnds(i)
    \/ ROpenAdd \/ RTypes \/ RCancel \/ RHandleSave
    \/ RSaveProceeds
    \/ \E i \in RIds, role \in ROthers \cup {RNone} : ROtherAdmin(i, role)

(* Every request ends: it is answered, or the browser gives it up *)
RolesFairness == WF_rVars(RSaveProceeds) /\ WF_rVars(RListSettles)

RolesSpec == RolesInit /\ [][RolesNext]_rVars /\ RolesFairness

-----------------------------------------------------------------------------
(* Properties *)

(* Types.  The form of a role is saved only after its detail was applied   *)
(* to it: an update never carries the empty fields a form opens with.      *)
RolesTypeOK ==
    /\ rServer \in [RIds -> RRole \cup {RNone}] /\ rBuiltin \subseteq RIds
    /\ rList = RNone \/ rList \subseteq RIds
    /\ rDetails \in [RIds -> RRole \cup {RNone}]
    /\ rForm \in RIds \cup {"add", RNone} /\ rLoaded \in {RNone, rForm}
    /\ rFeedback = "pending" <=> rSave # RNone
    /\ rSave # RNone => /\ rSave.id = rForm
                        /\ rSave.id = "add" \/ rSave.id = rLoaded
                        /\ rSave.body.prot # RBlank

(* What the page says of a save is true, whatever was lost on the way and  *)
(* whoever else changed the roles meanwhile: "saved" means that the server *)
(* held the draft at some moment since the save was sent, and "rejected"   *)
(* that this save was not applied, unless its answer came but could not be *)
(* understood.                                                             *)
SaveOutcomeIsTrue ==
    rLast # RNone =>
        /\ rLast.said = "saved" => rLast.stored
        /\ rLast.said = "failed" => (rLast.own => rLast.fail = "answer")

(* After the detail of a role was applied to its form, the fields change   *)
(* only by the admin's hand: neither a refetch of the detail nor the       *)
(* reconciliation of a failed save touches a draft that is being edited.   *)
DraftIsTheAdmins ==
    [][rLoaded # RNone /\ rLoaded' = rLoaded => rDraft' = rDraft \/ RTypes]_rVars

(* Every save ends: the form is closed or says how the save went, and can  *)
(* be saved again or cancelled.                                            *)
RoleSaveEnds == rFeedback = "pending" ~> rFeedback # "pending"

(* The note of the form of a built-in role says that its name, priority    *)
(* and permissions are protected.  Read as: only a save that changes one   *)
(* of them is refused for that reason.                                     *)
OnlyProtectedFieldsAreRefused ==
    rSave # RNone /\ rSave.fail = "builtin" =>
        rSave.body.prot # rServer[rSave.id].prot
=============================================================================
