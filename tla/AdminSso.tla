------------------------------- MODULE AdminSso -------------------------------
(***************************************************************************)
(* The SSO page of the admin console (pages/AdminSsoPage.tsx with          *)
(* useAdminSso).  One form serves the creation and the edit of an OIDC or  *)
(* a SAML provider; stored secrets come back as a mask, and an update      *)
(* leaves out what still shows the mask.                                   *)
(*                                                                         *)
(* The fields are four: plain (all the required texts), optional           *)
(* (redirect URI, metadata URL), xml (metadata XML, SAML only) and secret  *)
(* (client secret, certificate).  The server (admin_sso.py) is external:   *)
(* one provider per protocol, an id that is never used again.              *)
(***************************************************************************)
EXTENDS Integers, FiniteSets

CONSTANTS
    STyped,           \* texts an admin types
    SStored,          \* texts stored before the page was opened
    SMask, SBlank,    \* the mask, and an empty field
    SNone,            \* no form, no provider, not in the request
    SMaxSends         \* bound: saves and deletes of this page and of others

VARIABLES
    sServer, sNextId,      \* provider of each protocol
    sList, sFetch,         \* the cached list, without secrets; being fetched
    sForm, sInvalid,       \* the open form; validationError
    sOpen, sReqs, sSends,  \* mounted; mutations on their way; bound
    sCrossed               \* history: a form was closed while its save was on its way

sVars == <<sServer, sNextId, sList, sFetch, sForm, sInvalid, sOpen, sReqs, sSends, sCrossed>>

SProtocols == {"oidc", "saml"}
STexts == STyped \cup SStored
SFields == {"plain", "optional", "xml", "secret"}

-----------------------------------------------------------------------------
(* What the list and the forms hold *)

(* _provider_to_response: secrets masked, whether set or not *)
SMasked(p) == [p EXCEPT !.xml = SMask, !.secret = SMask]

(* handleEdit: fields of the other protocol stay blank *)
handleEdit(protocol) ==
    LET p == sList[protocol]
    IN  [target |-> p.id, protocol |-> protocol, plain |-> p.plain, optional |-> p.optional,
         xml |-> IF protocol = "saml" THEN p.xml ELSE SBlank, secret |-> p.secret]

(* resetForm, as seen when a form to add a provider opens *)
resetForm(protocol) ==
    [target |-> 0, protocol |-> protocol,
     plain |-> SBlank, optional |-> SBlank, xml |-> SBlank, secret |-> SBlank]

(* The required fields of handleSave *)
SRequired(form) ==
    /\ form.plain # SBlank /\ form.secret # SBlank
    /\ form.protocol = "saml" => form.optional # SBlank \/ form.xml # SBlank

SOmit(text, absent) == IF text \in absent THEN SNone ELSE text

(* mutant of SBody *)
SendsTheMask(form) ==
    [plain |-> form.plain, optional |-> SOmit(form.optional, {SBlank}),
     xml |-> SOmit(form.xml, {SBlank}), secret |-> SOmit(form.secret, {SBlank})]

(* The body of handleSave: blank optional fields, and on an update the     *)
(* masked ones, are left out                                               *)
SBody(form) ==
    LET absent == IF form.target = 0 THEN {SBlank} ELSE {SBlank, SMask}
    IN  [plain |-> form.plain, optional |-> SOmit(form.optional, {SBlank}),
         xml |-> SOmit(form.xml, absent), secret |-> SOmit(form.secret, absent)]

SPending(kinds) == \E q \in sReqs : q.here /\ q.kind \in kinds

(* The page body: the list is loaded first; an open form hides it *)
SShowsList == sOpen /\ sList # SNone /\ sForm = SNone
SShowsForm == sOpen /\ sList # SNone /\ sForm # SNone
SOffersCards(protocol) == SShowsList /\ sList[protocol] # SNone
SOffersSave == SShowsForm /\ ~SPending({"create", "update"})

-----------------------------------------------------------------------------
SProviders == [id : {1, 2}, plain : SStored, optional : SStored \cup {SBlank},
               xml : SStored \cup {SBlank}, secret : SStored]

SsoInit ==
    /\ sServer \in [SProtocols -> SProviders \cup {SNone}]
    /\ \A p \in SProtocols : sServer[p] # SNone =>
           /\ sServer[p].id = IF p = "oidc" THEN 1 ELSE 2
           /\ p = "oidc" <=> sServer[p].xml = SBlank
    /\ sNextId = 3
    /\ sList = SNone /\ sFetch = TRUE
    /\ sForm = SNone /\ sInvalid = FALSE
    /\ sOpen = TRUE /\ sReqs = {} /\ sSends = 0 /\ sCrossed = FALSE

SListSettles ==
    /\ sOpen /\ sFetch
    /\ \/ /\ sFetch' = FALSE
          /\ sList' = [p \in SProtocols |-> IF sServer[p] = SNone THEN SNone ELSE SMasked(sServer[p])]
       \/ sList # SNone /\ sFetch' = FALSE /\ UNCHANGED sList
    /\ UNCHANGED <<sServer, sNextId, sForm, sInvalid, sOpen, sReqs, sSends, sCrossed>>

SOpenEdit(protocol) ==
    /\ SOffersCards(protocol)
    /\ sForm' = handleEdit(protocol) /\ sInvalid' = FALSE
    /\ UNCHANGED <<sServer, sNextId, sList, sFetch, sOpen, sReqs, sSends, sCrossed>>

SOpenAdd(protocol) ==
    /\ SShowsList
    /\ sForm' = resetForm(protocol)
    /\ UNCHANGED <<sServer, sNextId, sList, sFetch, sInvalid, sOpen, sReqs, sSends, sCrossed>>

SType(field, text) ==
    /\ SShowsForm /\ field = "xml" => sForm.protocol = "saml"
    /\ SShowsForm
    /\ sForm' = [sForm EXCEPT ![field] = text]
    /\ UNCHANGED <<sServer, sNextId, sList, sFetch, sInvalid, sOpen, sReqs, sSends, sCrossed>>

(* handleCancel: also while the save is on its way *)
handleCancel ==
    /\ SShowsForm
    /\ sForm' = SNone /\ sInvalid' = FALSE
    /\ sCrossed' = (sCrossed \/ SPending({"create", "update"}))
    /\ UNCHANGED <<sServer, sNextId, sList, sFetch, sOpen, sReqs, sSends>>

SSend(kind, protocol, target, body) ==
    /\ sSends < SMaxSends /\ sSends' = sSends + 1
    /\ sReqs' = sReqs \cup {[n |-> sSends, kind |-> kind, protocol |-> protocol,
                             target |-> target, body |-> body, here |-> TRUE]}

(* mutant of SMaySave *)
SaveTwice == SShowsForm

SMaySave == SOffersSave

SsoHandleSave ==
    /\ SMaySave
    /\ IF SRequired(sForm)
       THEN /\ SSend(IF sForm.target = 0 THEN "create" ELSE "update",
                     sForm.protocol, sForm.target, SBody(sForm))
            /\ sInvalid' = FALSE
       ELSE sInvalid' = TRUE /\ UNCHANGED <<sReqs, sSends>>
    /\ UNCHANGED <<sServer, sNextId, sList, sFetch, sForm, sOpen, sCrossed>>

SsoHandleDelete(protocol) ==
    /\ SOffersCards(protocol)
    /\ SSend("delete", protocol, sList[protocol].id, SNone)
    /\ UNCHANGED <<sServer, sNextId, sList, sFetch, sForm, sInvalid, sOpen, sCrossed>>

(* The page is left: its mutations go on, their callbacks find no form.   *)
(* A later mount starts afresh.                                            *)
SLeave ==
    /\ sOpen
    /\ sOpen' = FALSE /\ sForm' = SNone /\ sInvalid' = FALSE /\ sFetch' = FALSE
    /\ sReqs' = {[q EXCEPT !.here = FALSE] : q \in sReqs}
    /\ UNCHANGED <<sServer, sNextId, sList, sSends, sCrossed>>

-----------------------------------------------------------------------------
(* The server, and the callbacks of the mutations *)

SUpdated(p, body) ==
    [f \in DOMAIN p |-> IF f \in SFields /\ body[f] # SNone THEN body[f] ELSE p[f]]

SStays == UNCHANGED <<sServer, sNextId>>

(* admin_sso.py: create needs a free protocol, the others an existing id *)
SApply(q) ==
    LET p == sServer[q.protocol]
        Stored(text) == IF text = SNone THEN SBlank ELSE text
    IN  \/ /\ q.kind = "create" /\ p = SNone
           /\ sServer' = [sServer EXCEPT ![q.protocol] =
                  [id |-> sNextId, plain |-> q.body.plain, optional |-> Stored(q.body.optional),
                   xml |-> Stored(q.body.xml), secret |-> q.body.secret]]
           /\ sNextId' = sNextId + 1
        \/ /\ q.kind = "update" /\ p # SNone /\ p.id = q.target
           /\ sServer' = [sServer EXCEPT ![q.protocol] = SUpdated(p, q.body)]
           /\ UNCHANGED sNextId
        \/ /\ q.kind = "delete" /\ p # SNone /\ p.id = q.target
           /\ sServer' = [sServer EXCEPT ![q.protocol] = SNone]
           /\ UNCHANGED sNextId

(* mutant of SCloses *)
SuccessOfAnyKindCloses(q) == q.here

(* onCreateSuccess and onUpdateSuccess call handleCancel: whatever form is *)
(* open by then closes                                                     *)
SCloses(q) == q.here /\ q.kind # "delete"

SSucceeds(q) ==
    /\ SApply(q)
    /\ sReqs' = sReqs \ {q}
    /\ sFetch' = sOpen
    /\ sForm' = IF SCloses(q) THEN SNone ELSE sForm
    /\ sInvalid' = (sInvalid /\ ~SCloses(q))
    /\ UNCHANGED <<sList, sOpen, sSends, sCrossed>>

(* Refused, or the answer got lost: only a message *)
SFails(q) ==
    /\ SApply(q) \/ SStays
    /\ sReqs' = sReqs \ {q}
    /\ UNCHANGED <<sList, sFetch, sForm, sInvalid, sOpen, sSends, sCrossed>>

SsoNext ==
    \/ SListSettles \/ handleCancel \/ SsoHandleSave \/ SLeave
    \/ \E p \in SProtocols : SOpenEdit(p) \/ SOpenAdd(p) \/ SsoHandleDelete(p)
    \/ \E field \in SFields, text \in STyped \cup {SBlank} : SType(field, text)
    \/ \E q \in sReqs : SSucceeds(q) \/ SFails(q)

SsoFairness == WF_sVars(SListSettles) /\ WF_sVars(\E q \in sReqs : SSucceeds(q) \/ SFails(q))

SsoSpec == SsoInit /\ [][SsoNext]_sVars /\ SsoFairness

-----------------------------------------------------------------------------
(* Properties *)

(* Every variable has its type, and a stored secret is always a text that  *)
(* somebody typed: neither the mask the list shows nor a blank field ever  *)
(* replaces it, whatever is edited and saved.                              *)
StoredSecretsAreTyped ==
    /\ sOpen \in BOOLEAN /\ sFetch \in BOOLEAN /\ sInvalid \in BOOLEAN /\ sCrossed \in BOOLEAN
    /\ sSends \in 0..SMaxSends /\ sNextId \in 3..(3 + SMaxSends)
    /\ \A p \in SProtocols : sServer[p] # SNone =>
           /\ sServer[p].secret \in STexts /\ sServer[p].plain \in STexts
           /\ sServer[p].xml \in STexts \cup {SBlank}

(* A mounted page has at most one save on its way, whatever forms are      *)
(* cancelled and opened meanwhile.                                         *)
OneSaveAtATime == Cardinality({q \in sReqs : q.here /\ q.kind # "delete"}) <= 1

(* The form that a success closes is the one that was saved, provided no   *)
(* form was closed by hand while its save was on its way; the success of a *)
(* deletion closes none.                                                   *)
SuccessClosesSavedForm ==
    [][\A q \in sReqs : ~sCrossed /\ q \notin sReqs' /\ sForm # SNone /\ sForm' = SNone /\ sOpen' =>
          q.kind # "delete" /\ sForm.protocol = q.protocol /\ sForm.target = q.target]_sVars
=============================================================================
