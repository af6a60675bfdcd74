---------------------------------- MODULE MCAdmin ----------------------------------
(***************************************************************************)
(* The pages of the admin console on small instances.  They share no state *)
(* with one another beyond what their own modules have, so a behaviour is  *)
(* one of a single page, which Init chooses.                               *)
(***************************************************************************)
EXTENDS AdminQuotas, AdminAudit, AdminForms, AdminSso, AdminConnections, AdminRoles,
        PolicyEditor, RolePreview, AdminMessages, TLC

VARIABLE adminPage      \* the one that is used

adminVars == <<adminPage, qVars, aVars, fVars, sVars, cVars, rVars, pVars, vVars, eVars>>

-----------------------------------------------------------------------------
(* Instances *)

MCTexts == {[kind |-> "blank", n |-> 0], [kind |-> "integer", n |-> -1]}

MCAuditPages == [f \in AFilters \cup {ANone} |-> IF f = ANone THEN 2 ELSE 1]

(* Names for either format of an export, and an extended name that is not  *)
(* encoded in UTF-8                                                        *)
MCFiles == [length : {29}, separators : {FALSE}, dots : {FALSE}, forbidden : {FALSE},
            contractual : {TRUE}, extension : {"csv", "json"}]
MCDispositions ==
    [breaks : {FALSE}, attachment : {TRUE}, plain : MCFiles,
     extended : [utf8 : {FALSE}, decodes : {TRUE}, name : MCFiles] \cup {ANone}]

MCRolesOfOthers == {[prot |-> "q", desc |-> "", pols |-> "y"]}

(* A role without policies; one with an explicit empty grant; one with     *)
(* rules about a table and about a column that its policy does not allow   *)
MCPolicy(allowed, filters, masks) ==
    [connection |-> CHOOSE k \in Connections : TRUE, allowed |-> allowed, filters |-> filters,
     masks |-> masks]
MCPolicies ==
    {<<>>, <<MCPolicy([t \in {} |-> {}], <<>>, <<>>)>>} \cup
    {<<MCPolicy([t \in {u} |-> {}], <<[table |-> v, blank |-> FALSE]>>, <<[table |-> u, columns |-> Columns]>>)>> :
        u \in Tables, v \in Tables}

MCAllowed == {[question |-> "q", policy |-> "p"]}

(* Errors with a key of their own, below detail, below body, and of the    *)
(* server error a client error was made from                               *)
MCError(key, error, detail, body, server) ==
    [message_key |-> key, error |-> error, detail |-> detail, body |-> body, serverError |-> server]
MCFlat(key, error) == MCError(key, error, ENone, ENone, ENone)
MCErrors ==
    {MCFlat("error.unauthorized", "forbidden"), MCFlat("error.internal", "timeout"),
     MCFlat(ENone, "connection_timeout")} \cup
    {MCError(key, ENone, detail, body, server) :
        key \in {ENone, ""},
        detail \in {ENone, [text |-> "error.notFound"], [text |-> "connection_not_found"],
                    MCFlat("", ENone), MCFlat("error.internal", "timeout")},
        body \in {ENone, MCFlat(ENone, "timeout"),
                  MCError(ENone, ENone, [text |-> "error.forbidden"], ENone, ENone)},
        server \in {ENone, MCFlat("error.builtinRoleProtected", ENone)}}

-----------------------------------------------------------------------------
(* Behaviours *)

AdminPages == {"quotas", "audit", "forms", "sso", "connections", "roles", "policies",
               "preview", "messages"}

(* No role has a quota, or one has and the browser lets the page store its recovery *)
MCQuotas ==
    \/ qConfig = [r \in QRoles |-> NoQuota]
    \/ /\ ~qBlocked /\ qSeesRoles
       /\ \E value \in QValues :
             qConfig = [r \in QRoles |-> IF r = CHOOSE q \in QRoles : TRUE THEN value ELSE NoQuota]

(* One of the two protocols has a provider, with every field, or none has *)
MCProviders ==
    /\ \E p \in SProtocols : sServer[p] = SNone
    /\ \A p \in SProtocols : sServer[p] # SNone => sServer[p].optional # SBlank

(* A page that is not used stays in one of its initial states *)
AdminPagesInit ==
    /\ QuotasInit /\ MCQuotas
    /\ adminPage = "quotas" \/ (qConfig = [r \in QRoles |-> NoQuota] /\ ~qBlocked /\ qSeesRoles)
    /\ AuditInit
    /\ FormsInit
    /\ adminPage = "forms" \/ (fPage = "audit" /\ fServer.value = "never")
    /\ SsoInit /\ MCProviders
    /\ adminPage = "sso" \/ (\A p \in SProtocols : sServer[p] = SNone)
    /\ ConnectionsInit
    /\ adminPage = "connections" \/ (\A c \in CIds : cServer[c] = CNone)
    /\ RolesInit
    /\ adminPage = "roles" \/ (rBuiltin = {})
    /\ PolicyInit
    /\ adminPage = "policies" \/ (policies = <<>>)
    /\ PreviewInit
    /\ adminPage = "preview" \/ (vPolicy = CHOOSE p \in VPolicies : TRUE)
    /\ MessagesInit
    /\ adminPage = "messages" \/ (ePage = "quotas")

AdminInit == adminPage \in AdminPages /\ AdminPagesInit

QuotasUsed ==
    /\ adminPage = "quotas" /\ QuotasNext
    /\ UNCHANGED <<adminPage, aVars, fVars, sVars, cVars, rVars, pVars, vVars, eVars>>

AuditUsed ==
    /\ adminPage = "audit" /\ AuditNext
    /\ UNCHANGED <<adminPage, qVars, fVars, sVars, cVars, rVars, pVars, vVars, eVars>>

FormsUsed ==
    /\ adminPage = "forms" /\ FormsNext
    /\ UNCHANGED <<adminPage, qVars, aVars, sVars, cVars, rVars, pVars, vVars, eVars>>

SsoUsed ==
    /\ adminPage = "sso" /\ SsoNext
    /\ UNCHANGED <<adminPage, qVars, aVars, fVars, cVars, rVars, pVars, vVars, eVars>>

ConnectionsUsed ==
    /\ adminPage = "connections" /\ ConnectionsNext
    /\ UNCHANGED <<adminPage, qVars, aVars, fVars, sVars, rVars, pVars, vVars, eVars>>

RolesUsed ==
    /\ adminPage = "roles" /\ RolesNext
    /\ UNCHANGED <<adminPage, qVars, aVars, fVars, sVars, cVars, pVars, vVars, eVars>>

PolicyUsed ==
    /\ adminPage = "policies" /\ PolicyNext
    /\ UNCHANGED <<adminPage, qVars, aVars, fVars, sVars, cVars, rVars, vVars, eVars>>

PreviewUsed ==
    /\ adminPage = "preview" /\ PreviewNext
    /\ UNCHANGED <<adminPage, qVars, aVars, fVars, sVars, cVars, rVars, pVars, eVars>>

MessagesUsed ==
    /\ adminPage = "messages" /\ MessagesNext
    /\ UNCHANGED <<adminPage, qVars, aVars, fVars, sVars, cVars, rVars, pVars, vVars>>

AdminNext ==
    \/ QuotasUsed \/ AuditUsed \/ FormsUsed \/ SsoUsed \/ ConnectionsUsed \/ RolesUsed
    \/ PolicyUsed \/ PreviewUsed \/ MessagesUsed

AdminSpec == AdminInit /\ [][AdminNext]_adminVars

-----------------------------------------------------------------------------
(* The pages of the console, one property per promise they share           *)

(* The variables of the page in use have their types; the others rest, and *)
(* those of the SSO page are typed in StoredSecretsAreTyped.               *)
AdminTypeOK ==
    CASE adminPage = "quotas" -> QuotasTypeOK
      [] adminPage = "audit" -> AuditTypeOK
      [] adminPage = "forms" -> FormsTypeOK
      [] adminPage = "connections" -> ConnectionsTypeOK
      [] adminPage = "roles" -> RolesTypeOK
      [] adminPage = "policies" -> PolicyTypeOK
      [] adminPage = "preview" -> PreviewTypeOK
      [] adminPage = "messages" -> MessagesTypeOK
      [] OTHER -> TRUE

(* What the console says and sends is true, whatever answers were lost,    *)
(* late or of another mount: a change that was stored but not synchronised *)
(* is offered for retry and the retry sends what is stored (quotas), the   *)
(* newest search filters the page and the page is one of its dataset       *)
(* (audit), "saved" and "rejected" are what happened (roles), a verdict is *)
(* that of the draft on screen (preview), a policy filters and masks only  *)
(* what it allows (policy editor), no mask is stored for a secret (SSO),   *)
(* and an error is told by the first key of its body (messages).           *)
ConsoleIsTruthful ==
    /\ PendingSyncIsOffered /\ RetryOnlyResynchronises
    /\ LatestSearchWins /\ PageInDataset
    /\ SaveOutcomeIsTrue /\ VerdictIsOfTheDraft
    /\ PoliciesWellFormed /\ StoredSecretsAreTyped /\ FirstKeyInOrder

(* A page has one change on its way at most, and its controls are disabled *)
(* exactly meanwhile: mutations of quotas, searches and exports of the     *)
(* audit page, saves of providers, row actions of connections.             *)
ChangesAreExclusive ==
    /\ OneMutationPerPage /\ ExportsAreExclusive /\ SearchButtonMatchesScope
    /\ OneSaveAtATime /\ RowActionsExclusive

(* What an administrator has typed goes by their own hand, or because it   *)
(* was stored: no failure, refetch, late answer or answer to another form  *)
(* closes a form or changes its fields, and no toast takes another along.  *)
DraftsAreKept ==
    /\ DraftSurvivesFailure /\ DraftKeptUnlessNews /\ SuccessClosesSavedForm
    /\ DraftIsTheAdmins /\ OneToastAtATime
=============================================================================
