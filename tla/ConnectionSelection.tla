-------------------------- MODULE ConnectionSelection --------------------------
(***************************************************************************)
(* Which database a question goes to: useConnectionSelection, the          *)
(* automatic selection of DatabaseSelector.tsx, the bookmark's connection  *)
(* (WorkspacePage.tsx), and the prompt that sends (PromptInput.tsx). The   *)
(* session detail, the connection list and the question limit arrive in    *)
(* any order, also before the effects of the last render have run; what    *)
(* the user does comes after them.                                         *)
(***************************************************************************)
EXTENDS Naturals, Sequences, FiniteSets

CONSTANTS
    KLists,         \* the connection lists the server may answer with
    KNone,          \* nothing, not known
    KTexts,         \* the questions typed, by length after canonicalization; 0 is blank
    KLimit,         \* max_question_length
    KMaxChoices     \* bound: the user's selections and questions

VARIABLES
    kServer,        \* server: sessions.connection_id, or KNone
    kSession,       \* activeSessionId is set
    kDetail,        \* the session detail has been read: its connection, "null", or KNone before
    kList,          \* availableConnections: KNone before the first answer, <<>> after an error
    kSel,           \* selectedConnectionId
    kUser,          \* userSelectedRef
    kSkip,          \* skipNextPatchRef
    kPrev,          \* prevSelectedRef
    kAuto,          \* autoSelectedRef of the selector
    kPrefill,       \* the bookmark's connection to be consumed, or KNone
    kLimit,         \* questionLimit: "loading", "error" or "ready"
    kText,          \* the prompt's text, by length
    kSent,          \* the question in flight: its length and its connection, or KNone
    kPatches,       \* the PATCH requests in flight
    kChoices,       \* bound
    kChosen,        \* history: the last connection chosen by the user, the selector or the bookmark
    kMissed         \* history: a PATCH failed, overlapped another one, or was skipped for a sync in the same render

kVars == <<kServer, kSession, kDetail, kList, kSel, kUser, kSkip, kPrev, kAuto, kPrefill, kLimit,
           kText, kSent, kPatches, kChoices, kChosen, kMissed>>
kRefs == <<kSel, kUser, kSkip, kPrev, kAuto, kPrefill, kChosen>>
kPrompt == <<kLimit, kText, kSent>>

KConns == UNION {{list[i] : i \in 1..Len(list)} : list \in KLists}
KMaybe == KConns \cup {KNone}
available == IF kList = KNone THEN <<>> ELSE kList
KAvailable == {available[i] : i \in 1..Len(available)}
initialConnectionId == IF kDetail \in KConns THEN kDetail ELSE KNone
KPatch(conn) == [conn |-> conn, done |-> FALSE]
-------------------------------------------------------------------------------
(* The effects of a render, children first *)

(* DatabaseSelector's effect: the only connection there is, once *)
KSelectorChooses ==
    Len(available) = 1 /\ kSel = KNone /\ kAuto # available[1]

(* mutant of KSyncs *)
SyncOverridesUser(user) == initialConnectionId # KNone /\ kSel # initialConnectionId

(* useConnectionSelection's sync effect; an earlier effect may have counted as the user's selection *)
KSyncs(user) == ~user /\ initialConnectionId # KNone /\ kSel # initialConnectionId

(* useConnectionSelection's own automatic selection *)
KHookChooses(user) ==
    ~user /\ kSel = KNone /\ initialConnectionId = KNone /\ Len(available) = 1

(* mutant of KConsumes *)
WaitsForItsConnection == kPrefill # KNone /\ kPrefill \in KAvailable

(* The bookmark waits for the connection list when it names a connection *)
KConsumes == kPrefill # KNone /\ kList # KNone
KPrefillChooses == KConsumes /\ kPrefill \in KAvailable /\ kPrefill # kSel

KSelectionMoved == kPrev # kSel

(* mutant of KSendsPatch *)
NeverSkips == kSession /\ kSel # KNone

(* The PATCH effect sends the rendered selection unless a prop brought it *)
KSendsPatch == kSession /\ kSel # KNone /\ ~kSkip

(* mutant of KSkipAfter *)
SkipIsKept(syncs) == kSkip \/ syncs

(* skipNextPatchRef after the render's effects: consumed by the PATCH effect, set by the next sync *)
KSkipAfter(syncs) ==
    syncs \/ (kSkip /\ ~(KSelectionMoved /\ kSession /\ kSel # KNone))

KQuiet == ~KSelectorChooses /\ ~KSyncs(kUser) /\ ~KHookChooses(kUser) /\ ~KSelectionMoved /\ ~KConsumes

KEffects ==
    LET user == kUser \/ KSelectorChooses
        syncs == KSyncs(user)
        hook == KHookChooses(user) IN
    /\ ~KQuiet
    /\ kSel' = IF KPrefillChooses THEN kPrefill
               ELSE IF syncs THEN initialConnectionId
               ELSE IF KSelectorChooses \/ hook THEN available[1] ELSE kSel
    /\ kUser' = (user \/ KPrefillChooses)
    /\ kAuto' = IF KSelectorChooses THEN available[1] ELSE kAuto
    /\ kSkip' = KSkipAfter(syncs \/ hook)
    /\ kPrev' = kSel
    /\ kPatches' = IF KSelectionMoved /\ KSendsPatch THEN kPatches \cup {KPatch(kSel)} ELSE kPatches
    /\ kMissed' = (kMissed \/ (KSelectionMoved /\ KSendsPatch /\ kPatches # {}) \/ (KPrefillChooses /\ syncs))
    /\ kPrefill' = IF KConsumes THEN KNone ELSE kPrefill
    /\ kChosen' = IF KPrefillChooses THEN kPrefill ELSE IF KSelectorChooses THEN available[1] ELSE kChosen
    /\ UNCHANGED <<kServer, kSession, kDetail, kList, kPrompt, kChoices>>
-------------------------------------------------------------------------------
(* The answers *)

(* The session detail is read, the first time or after an invalidation *)
KDetailArrives ==
    /\ kSession
    /\ kDetail' = IF kServer = KNone THEN "null" ELSE kServer
    /\ kDetail' # kDetail
    /\ UNCHANGED <<kServer, kSession, kList, kRefs, kPrompt, kPatches, kChoices, kMissed>>

(* The connection list is answered, or its query fails *)
KListArrives ==
    /\ \E list \in KLists \cup {<<>>} : list # kList /\ kList' = list
    /\ UNCHANGED <<kServer, kSession, kDetail, kRefs, kPrompt, kPatches, kChoices, kMissed>>

(* useQueryLimits; the prompt's retry starts it again *)
KLimitSettles ==
    /\ KQuiet
    /\ \/ kLimit = "loading" /\ kLimit' \in {"error", "ready"}
       \/ kLimit = "error" /\ kLimit' = "loading"
    /\ UNCHANGED <<kServer, kSession, kDetail, kList, kRefs, kText, kSent, kPatches, kChoices, kMissed>>

(* The server stores the connection of a PATCH, in any order; it refuses one that is no longer usable *)
KServerStores(p) ==
    /\ ~p.done
    /\ kServer' = p.conn
    /\ kPatches' = (kPatches \ {p}) \cup {[p EXCEPT !.done = TRUE]}
    /\ UNCHANGED <<kSession, kDetail, kList, kRefs, kPrompt, kChoices, kMissed>>

(* The mutation settles; only a success invalidates the session detail, a failure leaves the selection *)
KPatchEnds(p) ==
    /\ KQuiet
    /\ kPatches' = kPatches \ {p}
    /\ kMissed' = (kMissed \/ ~p.done)
    /\ UNCHANGED <<kServer, kSession, kDetail, kList, kRefs, kPrompt, kChoices>>
-------------------------------------------------------------------------------
(* The user *)

(* setSelectedConnectionId, from the selector's listbox *)
setSelectedConnectionId(conn) ==
    /\ KQuiet /\ kChoices < KMaxChoices
    /\ kUser' = TRUE /\ kSel' = conn /\ kChosen' = conn
    /\ kChoices' = kChoices + 1
    /\ UNCHANGED <<kServer, kSession, kDetail, kList, kSkip, kPrev, kAuto, kPrefill, kPrompt, kPatches, kMissed>>

isPromptDisabled == kList = KNone \/ available = <<>> \/ kSel = KNone \/ kLimit # "ready" \/ kSent # KNone

(* mutant of canSubmitPrompt *)
OverLimitAllowed == kText # 0 /\ ~isPromptDisabled

canSubmitPrompt == kText # 0 /\ ~isPromptDisabled /\ kText <= KLimit

KType(text) ==
    /\ KQuiet /\ ~isPromptDisabled /\ text # kText
    /\ kText' = text
    /\ UNCHANGED <<kServer, kSession, kDetail, kList, kRefs, kLimit, kSent, kPatches, kChoices, kMissed>>

(* submitPrompt: the text is cleared before the request *)
submitPrompt ==
    /\ KQuiet /\ canSubmitPrompt /\ kChoices < KMaxChoices
    /\ kSent' = [text |-> kText, conn |-> kSel] /\ kText' = 0
    /\ kChoices' = kChoices + 1
    /\ UNCHANGED <<kServer, kSession, kDetail, kList, kRefs, kLimit, kPatches, kMissed>>

(* The question is answered, or fails. The first answer of a new chat makes its session the active
   one; the server creates that session without a connection. *)
KAnswered ==
    /\ KQuiet /\ kSent # KNone
    /\ kSent' = KNone
    /\ kSession' \in {kSession, TRUE}
    /\ UNCHANGED <<kServer, kDetail, kList, kRefs, kLimit, kText, kPatches, kChoices, kMissed>>

KAnswersArrive == KListArrives \/ KLimitSettles \/ KDetailArrives

SelectionInit ==
    /\ kSession \in BOOLEAN
    /\ kServer \in IF kSession THEN KMaybe ELSE {KNone}
    /\ kDetail \in {KNone} \cup (IF kSession THEN {IF kServer = KNone THEN "null" ELSE kServer} ELSE {})
    /\ kList \in KLists \cup {KNone}
    /\ kSel = initialConnectionId /\ kPrev = kSel                  \* useState(initialConnectionId)
    /\ kUser = FALSE /\ kSkip = FALSE /\ kAuto = KNone
    /\ kPrefill \in KMaybe
    /\ kLimit = "loading" /\ kText = 0 /\ kSent = KNone
    /\ kPatches = {} /\ kChoices = 0 /\ kChosen = KNone /\ kMissed = FALSE

SelectionNext ==
    \/ KEffects \/ KAnswersArrive \/ KAnswered \/ submitPrompt
    \/ \E p \in kPatches : KServerStores(p) \/ KPatchEnds(p)
    \/ \E conn \in KAvailable \ {kSel} : setSelectedConnectionId(conn)
    \/ \E text \in KTexts : KType(text)

(* Effects run after every render; a query is answered or fails *)
SelectionFairness ==
    WF_kVars(KEffects) /\ WF_kVars(kList = KNone /\ KListArrives) /\ WF_kVars(KAnswered)
SelectionSpec == SelectionInit /\ [][SelectionNext]_kVars /\ SelectionFairness
-------------------------------------------------------------------------------
(* Types; a question in flight is not blank and fits the limit the server enforces, and names the
   connection that was selected for it. *)
SelectionTypeOK ==
    /\ kServer \in KMaybe /\ kSession \in BOOLEAN /\ kDetail \in KMaybe \cup {"null"}
    /\ kList \in KLists \cup {KNone, <<>>} /\ kSel \in KMaybe /\ kPrev \in KMaybe /\ kAuto \in KMaybe
    /\ {kUser, kSkip, kMissed} \subseteq BOOLEAN /\ kPrefill \in KMaybe /\ kChosen \in KMaybe
    /\ kLimit \in {"loading", "error", "ready"} /\ kText \in KTexts \cup {0} /\ kChoices \in 0..KMaxChoices
    /\ kPatches \subseteq [conn : KConns, done : BOOLEAN]
    /\ kSent # KNone => kSent.text \in 1..KLimit /\ kSent.conn \in KConns

(* "Sync initialConnectionId prop to state when it arrives or changes, unless the user has already
   made an explicit selection": once the effects have run, a choice is never overridden by what is
   read of the session later, and without a choice the session's own connection is selected. *)
ChoiceBeatsSync ==
    KQuiet => IF kUser THEN kSel = kChosen
              ELSE initialConnectionId # KNone => kSel = initialConnectionId

(* "Track whether the next selection change was driven by prop sync so we can skip PATCH": only a
   choice is ever sent to the server, and reading a session never writes to it. *)
OnlyChoicesArePatched == kPatches # {} => kUser

(* A choice made in an existing session reaches the server: with no PATCH in flight, and none failed
   or overlapped, the server has it. (A bookmark's choice made in the render that also syncs the
   session's connection takes over the mark that skips the PATCH of the sync; kMissed notes it.) *)
ChoiceIsStored ==
    KQuiet /\ kSession /\ kUser /\ kServer # KNone /\ kPatches = {} /\ ~kMissed => kServer = kSel

(* The bookmark's connection is consumed, whether the list names it, does not, or cannot be read. *)
PrefillIsConsumed == <>[](kPrefill = KNone)

(* FR-094: "The selected connection_id MUST be stored on the session record." *)
SelectionIsStored ==
    KQuiet /\ kSession /\ kSel # KNone /\ kPatches = {} /\ ~kMissed => kServer = kSel
===============================================================================
