------------------------------ MODULE AdminForms ------------------------------
(***************************************************************************)
(* Three admin pages of one shape: a query, a mutation that invalidates    *)
(* it, and a draft in between.                                             *)
(*   detection  AdminDetectionPage with useAdminDetection: two thresholds  *)
(*   settings   SettingsPage with useAdminSettings: two bounded integers   *)
(*   audit      the verification card of AdminAuditPage: no draft, and the *)
(*              mutation is the verification itself                        *)
(* Thresholds are in tenths, so that both pages validate against 0..10; a  *)
(* text that is no number is FNaN.  What is stored, and what the query     *)
(* holds, is a value and the stamp of its last update: the thresholds are  *)
(* read with their updated_at, the settings without.  A refused permission *)
(* is part of IdentityBoundary.  The server is external.                   *)
(***************************************************************************)
EXTENDS Integers, FiniteSets

CONSTANTS
    FTexts,           \* what an admin may type into a field
    FNaN,             \* a text that is no number
    FNone,            \* no data yet
    FMaxSaves         \* bound: mutations, of this admin and of others

VARIABLES
    fPage, fOpen,          \* which page, and whether it is mounted
    fServer,               \* what the server stores: [value, at]
    fCache, fFetch, fError,    \* the query: data, fetchStatus, isError
    fDraft, fInvalid,      \* the two fields, and those a message is shown for
    fReqs, fSaves,         \* mutations on their way; bound
    fChanged               \* history: the server was changed since it was last read

fVars == <<fPage, fOpen, fServer, fCache, fFetch, fError, fDraft, fInvalid, fReqs, fSaves, fChanged>>
fQuery == <<fCache, fFetch, fError>>

Forms == {"detection", "settings"}
FPages == Forms \cup {"audit"}

-----------------------------------------------------------------------------
(* Pure parts *)

(* parseThresholdValue, and parseInt in the settings form *)
parseThresholdValue(text) == IF text \in Int THEN text ELSE FNaN

(* mutant of validateThresholds *)
OrderNotChecked(draft) ==
    \A i \in {1, 2} : parseThresholdValue(draft[i]) # FNaN /\ draft[i] \in 0..10

(* validateThresholds: both numbers, in range, block above flag *)
validateThresholds(draft) ==
    /\ \A i \in {1, 2} : parseThresholdValue(draft[i]) # FNaN /\ draft[i] \in 0..10
    /\ draft[1] > draft[2]

(* handleSave of the settings form *)
SettingsValid(draft) ==
    /\ parseThresholdValue(draft[1]) # FNaN /\ draft[1] \in 0..10
    /\ parseThresholdValue(draft[2]) # FNaN /\ draft[2] \in 1..10

FValid(draft) == IF fPage = "detection" THEN validateThresholds(draft) ELSE SettingsValid(draft)

(* One message below the thresholds, one beside each field of the settings *)
FInvalidFields(draft) ==
    IF fPage = "detection" THEN IF validateThresholds(draft) THEN {} ELSE {1, 2}
    ELSE {i \in {1, 2} : parseThresholdValue(draft[i]) = FNaN \/ draft[i] \notin (i - 1)..10}

FStored(page) ==
    IF page = "audit" THEN {"never", "intact", "broken"}
    ELSE {v \in (FTexts \cap 0..10) \X (FTexts \cap 0..10) :
            IF page = "detection" THEN v[1] > v[2] ELSE v[2] >= 1}

(* What an update leaves to be read: update() of the thresholds stamps     *)
(* every one, also with the values there were                              *)
FUpdated(page, value) ==
    [value |-> value, at |-> IF page = "detection" THEN fServer.at + 1 ELSE fServer.at]

(* The fields before any data: '0.8' and '0.5'; settings mount with the    *)
(* data or 3 and 3; the audit card has none.                               *)
FInitialDraft(page) ==
    IF page = "detection" THEN <<8, 5>> ELSE IF page = "settings" THEN <<3, 3>> ELSE <<>>

-----------------------------------------------------------------------------
(* What the page shows and offers *)

FPending == \E q \in fReqs : q.here /\ fOpen

(* The page body: a spinner first, an error without data; settings show    *)
(* the error even when they have data.                                     *)
FView ==
    IF ~fOpen THEN "closed"
    ELSE IF fCache = FNone /\ ~fError THEN "loading"
    ELSE IF fError /\ (fCache = FNone \/ fPage = "settings") THEN "error"
    ELSE "form"

isDirty ==
    \/ \E i \in {1, 2} : parseThresholdValue(fDraft[i]) = FNaN
    \/ fCache # FNone /\ fDraft # fCache.value

(* ClientQueryState: its Retry is shown with every error, except in settings *)
FOffersRetry == fOpen /\ fError /\ fPage # "settings"

(* renderStatusDetails: the verification card, and the warning of a break *)
FStatusView ==
    IF fPage # "audit" \/ FView # "form" THEN FView
    ELSE IF fCache.value = "never" THEN "neverVerified"
    ELSE IF fCache.value = "intact" THEN "verified" ELSE "brokenWithWarning"

-----------------------------------------------------------------------------
FormsInit ==
    /\ fPage \in FPages /\ fOpen = TRUE
    /\ fServer \in [value : FStored(fPage), at : {0}]
    /\ fCache = FNone /\ fFetch = TRUE /\ fError = FALSE
    /\ fDraft = FInitialDraft(fPage) /\ fInvalid = {}
    /\ fReqs = {} /\ fSaves = 0 /\ fChanged = FALSE

(* mutant of FillDraft *)
EveryAnswerFills(data) == fDraft' = IF fPage = "audit" THEN fDraft ELSE data.value

(* The effect on configQuery.data, and the key of the settings form: only  *)
(* data that differs from the data before, be it in its stamp, reaches the *)
(* fields; for an equal answer the cache keeps the object it has.          *)
FillDraft(data) ==
    fDraft' = IF fPage = "audit" \/ data = fCache THEN fDraft ELSE data.value

FQuerySettles ==
    /\ fOpen /\ fFetch
    /\ fFetch' = FALSE
    /\ \/ /\ fCache' = fServer /\ fError' = FALSE
          /\ FillDraft(fServer)
          /\ fInvalid' = IF fPage = "settings" /\ fServer # fCache THEN {} ELSE fInvalid
          /\ fChanged' = FALSE
       \/ /\ fError' = TRUE /\ UNCHANGED <<fCache, fChanged>>
          \* the settings form is unmounted by the error, with its draft
          /\ fDraft' = IF fPage # "settings" THEN fDraft
                       ELSE IF fCache = FNone THEN <<3, 3>> ELSE fCache.value
          /\ fInvalid' = IF fPage = "settings" THEN {} ELSE fInvalid
    /\ UNCHANGED <<fPage, fOpen, fServer, fReqs, fSaves>>

FRetry ==
    /\ FOffersRetry /\ ~fFetch
    /\ fFetch' = TRUE
    /\ fError' = (fError /\ fCache # FNone)
    /\ UNCHANGED <<fPage, fOpen, fServer, fCache, fDraft, fInvalid, fReqs, fSaves, fChanged>>

(* handleContextCapChange, handleMaxRegenChange, and the threshold inputs *)
FType(i, text) ==
    /\ fPage \in Forms /\ FView = "form"
    /\ fDraft' = [fDraft EXCEPT ![i] = parseThresholdValue(text)]
    /\ fInvalid' = IF fPage # "settings" THEN fInvalid
                   ELSE IF text # FNaN /\ text \notin (i - 1)..10 THEN fInvalid \cup {i} ELSE fInvalid \ {i}
    /\ UNCHANGED <<fPage, fOpen, fServer, fQuery, fReqs, fSaves, fChanged>>

(* handleReset of the detection page *)
FReset ==
    /\ fPage = "detection" /\ FView = "form"
    /\ fCache # FNone /\ isDirty /\ ~FPending
    /\ fDraft' = fCache.value /\ fInvalid' = {}
    /\ UNCHANGED <<fPage, fOpen, fServer, fQuery, fReqs, fSaves, fChanged>>

(* handleSave: an invalid draft is not sent *)
handleSave ==
    /\ fPage \in Forms /\ FView = "form" /\ ~FPending /\ fSaves < FMaxSaves
    /\ fInvalid' = FInvalidFields(fDraft)
    /\ IF FValid(fDraft)
       THEN /\ fReqs' = fReqs \cup {[here |-> TRUE, id |-> fSaves, value |-> fDraft]}
            /\ fSaves' = fSaves + 1
       ELSE UNCHANGED <<fReqs, fSaves>>
    /\ UNCHANGED <<fPage, fOpen, fServer, fQuery, fDraft, fChanged>>

(* handleVerify: the server finds out what the value is *)
FVerify ==
    /\ fPage = "audit" /\ fOpen /\ ~FPending /\ FView # "loading" /\ fSaves < FMaxSaves
    /\ \E found \in {"intact", "broken"} :
           fReqs' = fReqs \cup {[here |-> TRUE, id |-> fSaves, value |-> found]}
    /\ fSaves' = fSaves + 1
    /\ UNCHANGED <<fPage, fOpen, fServer, fQuery, fDraft, fInvalid, fChanged>>

(* mutant of FInvalidate *)
SuccessKeepsCache == UNCHANGED fFetch

(* onSuccess: invalidateQueries fetches again if the page is open *)
FInvalidate == fFetch' = fOpen

(* The mutation ends: applied, applied with a lost answer, or refused *)
FMutationEnds(q) ==
    /\ fReqs' = fReqs \ {q}
    /\ \/ /\ fServer' = FUpdated(fPage, q.value) /\ fChanged' = TRUE
          /\ FInvalidate
          /\ fInvalid' = IF fPage = "detection" /\ q.here THEN {} ELSE fInvalid
       \/ /\ fServer' \in {fServer, FUpdated(fPage, q.value)}
          /\ UNCHANGED <<fFetch, fInvalid, fChanged>>
    /\ UNCHANGED <<fPage, fOpen, fCache, fError, fDraft, fSaves>>

(* The page is left and opened again: a mutation goes on without it *)
FLeave ==
    /\ fOpen
    /\ fOpen' = FALSE /\ fFetch' = FALSE
    /\ fReqs' = {[q EXCEPT !.here = FALSE] : q \in fReqs}
    /\ fDraft' = FInitialDraft(fPage) /\ fInvalid' = {}
    /\ UNCHANGED <<fPage, fServer, fCache, fError, fSaves, fChanged>>

FReturn ==
    /\ ~fOpen
    /\ fOpen' = TRUE
    /\ fFetch' \in {TRUE} \cup {x \in {FALSE} : fCache # FNone /\ ~fChanged}
    /\ fError' = (fError /\ fCache # FNone)
    /\ fDraft' = IF fPage = "audit" \/ fCache = FNone THEN FInitialDraft(fPage) ELSE fCache.value
    /\ UNCHANGED <<fPage, fServer, fCache, fInvalid, fReqs, fSaves, fChanged>>

FOtherAdmin(value) ==
    /\ fSaves < FMaxSaves /\ fSaves' = fSaves + 1
    /\ fServer' = FUpdated(fPage, value)
    /\ UNCHANGED <<fPage, fOpen, fQuery, fDraft, fInvalid, fReqs, fChanged>>

FormsNext ==
    \/ FQuerySettles \/ FRetry \/ FReset \/ handleSave \/ FVerify \/ FLeave \/ FReturn
    \/ \E i \in {1, 2}, text \in FTexts \cup {FNaN} : FType(i, text)
    \/ \E q \in fReqs : FMutationEnds(q)
    \/ \E value \in FStored(fPage) : FOtherAdmin(value)

(* Fetches settle and mutations end: the client has deadlines *)
FormsFairness ==
    /\ WF_fVars(FQuerySettles)
    /\ WF_fVars(\E q \in fReqs : FMutationEnds(q))

FormsSpec == FormsInit /\ [][FormsNext]_fVars /\ FormsFairness

-----------------------------------------------------------------------------
(* Properties *)

(* Every variable has its type; what the server stores was validated: two  *)
(* numbers in range and, for thresholds, block above flag.                 *)
FormsTypeOK ==
    /\ fPage \in FPages /\ fOpen \in BOOLEAN
    /\ fServer \in [value : FStored(fPage), at : 0..FMaxSaves]
    /\ fCache \in [value : FStored(fPage), at : 0..FMaxSaves] \cup {FNone}
    /\ fFetch \in BOOLEAN /\ fError \in BOOLEAN /\ fInvalid \subseteq {1, 2} /\ fChanged \in BOOLEAN
    /\ fPage \in Forms => fDraft \in (FTexts \cup {FNaN, 3, 5, 8}) \X (FTexts \cup {FNaN, 3, 5, 8})
    /\ fSaves \in 0..FMaxSaves

(* What is being typed is only replaced by the admin, by leaving, or by    *)
(* what an update that the page had not read has stored: neither a refetch *)
(* nor a save that was refused or came from an earlier mount wipes the     *)
(* fields of its own.  For the thresholds every update counts, also one    *)
(* that stored the values the page knows, because updated_at makes the     *)
(* answer another object; for the settings only one with other values.     *)
(* (The settings form is also lost to a failed refetch, which hides it.)   *)
DraftKeptUnlessNews ==
    [][fDraft' # fDraft =>
          \/ \E i \in {1, 2}, text \in FTexts \cup {FNaN} : FType(i, text)
          \/ FReset \/ FLeave \/ FReturn
          \/ fServer # fCache /\ fDraft' = fServer.value
          \/ fPage = "settings" /\ fError']_fVars

(* After a mutation of this tab the page catches up with the server, unless *)
(* it is closed or says that it could not refresh.                          *)
FormCatchesUp == fChanged ~> (~fChanged \/ ~fOpen \/ fError)
=============================================================================
