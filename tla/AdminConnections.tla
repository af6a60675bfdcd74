--------------------------- MODULE AdminConnections ---------------------------
(***************************************************************************)
(* The connections page of the admin console: AdminConnectionsPage,        *)
(* ConnectionForm, and in every row of the list ConnectionActions,         *)
(* ConnectionTestButton and RefreshSchemaButton, over useConnections.      *)
(*                                                                         *)
(* Each component has mutation observers of its own.  An observer forgets  *)
(* its mutation when the component unmounts (the list makes way for a      *)
(* form) and when reset() is called (five seconds after an error); the     *)
(* mutation itself goes on, and its success still invalidates the list.    *)
(* Host, user name and password are one write-only field, the texts that   *)
(* must not be blank another.  The server is external.                     *)
(***************************************************************************)
EXTENDS Integers, FiniteSets

CONSTANTS
    CIds,             \* connections that may exist
    CNone,            \* null
    CPorts,           \* ports an admin may type
    CMaxSends         \* bound: mutations sent

VARIABLES
    cServer,               \* the stored connections
    cList, cFetch,         \* the cached list; being fetched
    cForm, cErrors,        \* the form of the page; whether it shows errors
    cRows,                 \* state of the components of every row
    cReqs, cSends,         \* mutations on their way; bound
    cStale, cDetached      \* history: the list is behind; rows whose observer forgot a request

cVars == <<cServer, cList, cFetch, cForm, cErrors, cRows, cReqs, cSends, cStale, cDetached>>

CLifecycle == {"disable", "enable", "delete"}
CRowKinds == CLifecycle \cup {"test", "schema"}
CKinds == CRowKinds \cup {"create", "update"}
CTypes == {"postgresql", "mysql", "mssql"}
CDefaultPort == [type \in CTypes |->
    IF type = "postgresql" THEN 5432 ELSE IF type = "mysql" THEN 3306 ELSE 1433]

CStates == {"idle", "pending", "ok", "error"}
CIdleRow == [confirm |-> FALSE, on |-> [k \in CRowKinds |-> "idle"]]

-----------------------------------------------------------------------------
(* ConnectionForm *)

(* The fields when the form opens; write-only ones are always empty *)
CFormFor(target) ==
    [target |-> target,
     text |-> target # CNone,
     type |-> IF target = CNone THEN "postgresql" ELSE cList[target].type,
     port |-> IF target = CNone THEN 5432 ELSE cList[target].port,
     writeOnly |-> FALSE]

WriteOnlyNotRequired(form) == form.text /\ form.port \in 1..65535

(* handleValidation *)
handleValidation(form) ==
    /\ form.text /\ form.port \in 1..65535
    /\ form.target = CNone => form.writeOnly

(* mutant of CPayload *)
BlankOverwrites(form) == [type |-> form.type, port |-> form.port, secret |-> form.writeOnly]

(* handleSubmit: what is stored afterwards; an edit leaves an empty        *)
(* write-only field out, so that the stored one is kept                    *)
CPayload(form) ==
    [type |-> form.type, port |-> form.port,
     secret |-> form.writeOnly \/ form.target # CNone]

-----------------------------------------------------------------------------
(* What the page offers *)

(* The form replaces the list; without any data there is neither *)
CShowsList == cList # CNone /\ cForm = CNone
CShowsForm == cList # CNone /\ cForm # CNone

CSubmitting == \E q \in cReqs : q.kind \in {"create", "update"}

(* The rows: the list the page last saw *)
CShown == IF CShowsList THEN {c \in CIds : cList[c] # CNone} ELSE {}

(* mutant of isActionDisabled *)
IgnoresOtherMutations(c, kind) == cRows[c].on[kind] = "pending"

(* isActionDisabled of ConnectionActions *)
isActionDisabled(c, kind) == \E k \in CLifecycle : cRows[c].on[k] = "pending"

(* displayConfirm: the dialog stays while the deletion is pending *)
displayConfirm(c) == cRows[c].confirm \/ cRows[c].on["delete"] = "pending"

COffers(c, kind) ==
    /\ c \in CShown
    /\ CASE kind = "disable" -> cList[c].life = "active" /\ ~displayConfirm(c)
         [] kind = "enable" -> cList[c].life = "disabled" /\ ~displayConfirm(c)
         [] kind = "delete" -> displayConfirm(c)
         [] OTHER -> cRows[c].on[kind] # "pending"
    /\ kind \in CLifecycle => ~isActionDisabled(c, kind)

-----------------------------------------------------------------------------
CStored == [type : CTypes, port : CPorts \cup {CDefaultPort[t] : t \in CTypes},
            secret : BOOLEAN, life : {"active", "disabled"}, health : {"unknown", "healthy", "unhealthy"}]

CNew(payload) == [type |-> payload.type, port |-> payload.port, secret |-> payload.secret,
                  life |-> "active", health |-> "unknown"]

ConnectionsInit ==
    /\ \E some \in SUBSET CIds :
           cServer = [c \in CIds |-> IF c \in some
                                     THEN CNew([type |-> "mysql", port |-> 3306, secret |-> TRUE])
                                     ELSE CNone]
    /\ cList = CNone /\ cFetch = TRUE
    /\ cForm = CNone /\ cErrors = FALSE
    /\ cRows = [c \in CIds |-> CIdleRow]
    /\ cReqs = {} /\ cSends = 0
    /\ cStale = "no" /\ cDetached = {}

(* The components of these rows are unmounted: their observers are gone, *)
(* and no mutation of theirs that is still on the way is followed          *)
CUnmountRows(gone) ==
    /\ cRows' = [c \in CIds |-> IF c \in gone THEN CIdleRow ELSE cRows[c]]
    /\ cReqs' = {IF q.kind \in CRowKinds /\ q.conn \in gone THEN [q EXCEPT !.attached = FALSE] ELSE q
                 : q \in cReqs}
    /\ cDetached' = cDetached \cup {q.conn : q \in {r \in cReqs : r.kind \in CRowKinds /\ r.conn \in gone}}

(* listQuery settles, and the rows of connections that are gone unmount *)
CListSettles ==
    /\ cFetch
    /\ cFetch' = FALSE
    /\ \/ /\ cList' = cServer /\ cStale' = "no"
          /\ CUnmountRows({c \in CIds : cServer[c] = CNone})
       \/ /\ cList # CNone /\ UNCHANGED <<cList, cRows, cReqs, cDetached>>
          /\ cStale' = IF cStale = "yes" THEN "failed" ELSE cStale
    /\ UNCHANGED <<cServer, cForm, cErrors, cSends>>

(* Add and Edit: the form replaces the list and all its rows *)
COpenForm(target) ==
    /\ CShowsList
    /\ target # CNone => target \in CShown
    /\ cForm' = CFormFor(target) /\ cErrors' = FALSE
    /\ CUnmountRows(CIds)
    /\ UNCHANGED <<cServer, cList, cFetch, cSends, cStale>>

(* A text is typed or cleared; handleDatabaseTypeChange also sets the port *)
CEditForm ==
    /\ CShowsForm
    /\ \/ \E text \in BOOLEAN : cForm' = [cForm EXCEPT !.text = text]
       \/ \E typed \in BOOLEAN : cForm' = [cForm EXCEPT !.writeOnly = typed]
       \/ \E port \in CPorts : cForm' = [cForm EXCEPT !.port = port]
       \/ \E type \in CTypes : cForm' = [cForm EXCEPT !.type = type, !.port = CDefaultPort[type]]
    /\ UNCHANGED <<cServer, cList, cFetch, cErrors, cRows, cReqs, cSends, cStale, cDetached>>

CCancelForm ==
    /\ CShowsForm /\ ~CSubmitting
    /\ cForm' = CNone /\ cErrors' = FALSE
    /\ UNCHANGED <<cServer, cList, cFetch, cRows, cReqs, cSends, cStale, cDetached>>

CSend(kind, conn, payload) ==
    /\ cSends < CMaxSends /\ cSends' = cSends + 1
    /\ cReqs' = cReqs \cup {[n |-> cSends, kind |-> kind, conn |-> conn, payload |-> payload,
                             attached |-> TRUE]}

CSubmitForm ==
    /\ CShowsForm /\ ~CSubmitting
    /\ IF handleValidation(cForm)
       THEN /\ CSend(IF cForm.target = CNone THEN "create" ELSE "update", cForm.target, CPayload(cForm))
            /\ cErrors' = FALSE
       ELSE cErrors' = TRUE /\ UNCHANGED <<cReqs, cSends>>
    /\ UNCHANGED <<cServer, cList, cFetch, cForm, cRows, cStale, cDetached>>

-----------------------------------------------------------------------------
(* Rows *)

(* handleDisable, handleEnable, handleConfirmDelete, handleTest, handleRefresh *)
CRowAction(c, kind) ==
    /\ COffers(c, kind)
    /\ CSend(kind, c, CNone)
    /\ cRows' = [cRows EXCEPT ![c].on[kind] = "pending"]
    /\ UNCHANGED <<cServer, cList, cFetch, cForm, cErrors, cStale, cDetached>>

(* handleDeleteClick, handleCancelDelete, and Escape in the dialog *)
CDialog(c) ==
    /\ c \in CShown /\ ~isActionDisabled(c, "delete")
    /\ cRows' = [cRows EXCEPT ![c].confirm = ~displayConfirm(c)]
    /\ UNCHANGED <<cServer, cList, cFetch, cForm, cErrors, cReqs, cSends, cStale, cDetached>>

(* Five seconds after an error ConnectionActions resets all its observers, *)
(* a pending one included                                                  *)
CResetActions(c) ==
    /\ c \in CShown /\ \E k \in CLifecycle : cRows[c].on[k] = "error"
    /\ cRows' = [cRows EXCEPT ![c].on = [k \in CRowKinds |->
                     IF k \in CLifecycle THEN "idle" ELSE cRows[c].on[k]]]
    /\ cReqs' = {IF q.conn = c /\ q.kind \in CLifecycle THEN [q EXCEPT !.attached = FALSE] ELSE q
                 : q \in cReqs}
    /\ cDetached' = cDetached \cup {x \in {c} : \E k \in CLifecycle : cRows[c].on[k] = "pending"}
    /\ UNCHANGED <<cServer, cList, cFetch, cForm, cErrors, cSends, cStale>>

(* The test and schema buttons reset only what has settled *)
CResetButton(c, kind) ==
    /\ c \in CShown /\ kind \in {"test", "schema"} /\ cRows[c].on[kind] \in {"ok", "error"}
    /\ cRows' = [cRows EXCEPT ![c].on[kind] = "idle"]
    /\ UNCHANGED <<cServer, cList, cFetch, cForm, cErrors, cReqs, cSends, cStale, cDetached>>

-----------------------------------------------------------------------------
(* The server and the callbacks *)

CApplies(q) ==
    LET c == q.conn
    IN  \/ /\ q.kind = "create"
           /\ \E free \in {x \in CIds : cServer[x] = CNone} :
                  cServer' = [cServer EXCEPT ![free] = CNew(q.payload)]
        \/ /\ q.kind # "create" /\ cServer[c] # CNone
           /\ cServer' \in
                CASE q.kind = "update" ->
                        {[cServer EXCEPT ![c].type = q.payload.type, ![c].port = q.payload.port,
                                         ![c].secret = q.payload.secret]}
                  [] q.kind = "delete" -> {[cServer EXCEPT ![c] = CNone]}
                  [] q.kind = "disable" -> {[cServer EXCEPT ![c].life = "disabled"]}
                  [] q.kind = "enable" -> {[cServer EXCEPT ![c].life = "active"]}
                  [] q.kind = "test" -> {[cServer EXCEPT ![c].health = h] : h \in {"healthy", "unhealthy"}}
                  [] OTHER -> {cServer}

(* The observer of the row, if it still follows this mutation *)
CObserves(q) == q.kind \in CRowKinds /\ q.attached /\ q.conn \in CShown
                    /\ cRows[q.conn].on[q.kind] = "pending"

(* mutant of CInvalidateList *)
SuccessDoesNotInvalidate == UNCHANGED cFetch

CInvalidateList == cFetch' = TRUE

CSucceeds(q) ==
    /\ CApplies(q)
    /\ cReqs' = cReqs \ {q}
    /\ CInvalidateList /\ cStale' = "yes"
    /\ cForm' = IF q.kind \in {"create", "update"} THEN CNone ELSE cForm
    /\ cErrors' = (cErrors /\ q.kind \notin {"create", "update"})
    /\ cRows' = IF ~CObserves(q) THEN cRows
                ELSE [cRows EXCEPT ![q.conn].on[q.kind] =
                          IF q.kind = "test" /\ cServer'[q.conn].health = "unhealthy" THEN "error" ELSE "ok",
                      ![q.conn].confirm = cRows[q.conn].confirm /\ q.kind # "delete"]
    /\ UNCHANGED <<cList, cSends, cDetached>>

(* Refused, or the answer was lost: a message; form and dialog stay open *)
CFails(q) ==
    /\ UNCHANGED cServer \/ CApplies(q)
    /\ cReqs' = cReqs \ {q}
    /\ cRows' = IF CObserves(q) THEN [cRows EXCEPT ![q.conn].on[q.kind] = "error"] ELSE cRows
    /\ UNCHANGED <<cList, cFetch, cForm, cErrors, cSends, cStale, cDetached>>

ConnectionsNext ==
    \/ CListSettles \/ CEditForm \/ CCancelForm \/ CSubmitForm
    \/ \E target \in CIds \cup {CNone} : COpenForm(target)
    \/ \E c \in CIds : CDialog(c) \/ CResetActions(c)
    \/ \E c \in CIds, kind \in CRowKinds : CRowAction(c, kind) \/ CResetButton(c, kind)
    \/ \E q \in cReqs : CSucceeds(q) \/ CFails(q)

ConnectionsFairness ==
    /\ WF_cVars(CListSettles)
    /\ WF_cVars(\E q \in cReqs : CSucceeds(q) \/ CFails(q))

ConnectionsSpec == ConnectionsInit /\ [][ConnectionsNext]_cVars /\ ConnectionsFairness

-----------------------------------------------------------------------------
(* Properties *)

(* Every variable has its type, and no edit ever blanks what is write-only: *)
(* every stored connection has a host, a user and a password, and a port.   *)
ConnectionsTypeOK ==
    /\ \A c \in CIds : cServer[c] # CNone =>
           /\ cServer[c] \in CStored /\ cServer[c].secret /\ cServer[c].port \in 1..65535
    /\ cFetch \in BOOLEAN /\ cErrors \in BOOLEAN /\ cStale \in {"no", "yes", "failed"}
    /\ \A c \in CIds : cRows[c].confirm \in BOOLEAN /\ cRows[c].on \in [CRowKinds -> CStates]
    /\ \A q \in cReqs : q.kind \in CKinds /\ q.conn \in CIds \cup {CNone}
    /\ cSends \in 0..CMaxSends /\ cDetached \subseteq CIds

(* A row has at most one of its disable, enable and delete mutations on the *)
(* way, and shows it, unless its observer was made to forget one: by a form *)
(* that replaced the list, by a list that no longer had the row, or by the  *)
(* reset five seconds after an error.                                       *)
RowActionsExclusive ==
    \A c \in CIds \ cDetached :
        LET mine == {q \in cReqs : q.conn = c /\ q.kind \in CLifecycle}
        IN  /\ Cardinality(mine) <= 1
            /\ c \in CShown => \A q \in mine : cRows[c].on[q.kind] = "pending"

(* After every mutation that succeeded, of a row or of a form, the list is *)
(* fetched again: it shows what the server stores, or says it could not.   *)
ConnectionsCatchUp == cStale = "yes" ~> cStale # "yes"
=============================================================================
