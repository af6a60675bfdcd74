--------------------------- MODULE DatabaseSelector ---------------------------
(***************************************************************************)
(* DatabaseSelector.tsx: the listbox beside the prompt. The connection     *)
(* list and the selection are props that change under an open popup; the   *)
(* option the keyboard acts on is derived from them in every render, and   *)
(* an effect after the render moves the DOM focus to it.                   *)
(***************************************************************************)
EXTENDS Integers, SequencesExt

CONSTANTS
    LLists,         \* the connection lists the server answers with, in order
    LName,          \* display name of each connection, a sequence of letters
    LNone           \* no connection

ASSUME SelectorAssumption ==
    \A list \in LLists : \A i \in 1..Len(list) : list[i] \in DOMAIN LName /\ Len(LName[list[i]]) > 0

VARIABLES
    connections,    \* prop: the available connections
    selectedId,     \* prop: the selected connection, or LNone
    open,           \* the popup is open
    requestedFocusedId,
    lFocus,         \* DOM focus: an option's connection, "trigger" or "elsewhere"
    lFocused,       \* <<open, activeId>> of the last run of the focus effect
    lBuffer,        \* typeaheadRef: the letters typed so far
    autoSelected    \* autoSelectedRef

lVars == <<connections, selectedId, open, requestedFocusedId, lFocus, lFocused, lBuffer, autoSelected>>

LIds == DOMAIN LName
LListed(id) == Contains(connections, id)
LIndex(id) == SelectInSeq(connections, LAMBDA c : c = id)       \* 0 when it is not listed
LFirst == IF LListed(selectedId) THEN selectedId
          ELSE IF connections = <<>> THEN LNone ELSE connections[1]

(* mutant of activeId *)
RequestedOnly == IF requestedFocusedId # LNone THEN requestedFocusedId ELSE LFirst

(* activeId: the option focused last while it is listed, else the selected one, else the first *)
activeId == IF LListed(requestedFocusedId) THEN requestedFocusedId ELSE LFirst

(* The effects a render leaves to run: the automatic selection and the focus *)
LAutoSelects == Len(connections) = 1 /\ selectedId = LNone /\ autoSelected # connections[1]
LRefocuses == lFocused # <<open, activeId>>
LQuiet == ~LAutoSelects /\ ~LRefocuses

(* mutant of LShowsList *)
ListWithoutOptions == open

LShowsList == open /\ connections # <<>>                        \* connections.length === 0 renders no listbox

(* The effects of a render, in the order of their hooks *)
LEffects ==
    /\ ~LQuiet
    /\ IF LAutoSelects THEN selectedId' = connections[1] /\ autoSelected' = connections[1]
       ELSE UNCHANGED <<selectedId, autoSelected>>
    /\ lFocused' = <<open, activeId>>
    /\ lFocus' = IF LRefocuses /\ LShowsList THEN activeId ELSE lFocus
    /\ UNCHANGED <<connections, open, requestedFocusedId, lBuffer>>

(* The connection list is read again; the browser drops the focus of a removed option *)
LListChanges ==
    /\ LQuiet
    /\ \E list \in LLists \ {connections} :
        /\ connections' = list
        /\ lFocus' = IF list = <<>> \/ (lFocus \in LIds /\ ~Contains(list, lFocus)) THEN "elsewhere" ELSE lFocus
    /\ UNCHANGED <<selectedId, open, requestedFocusedId, lFocused, lBuffer, autoSelected>>

(* Another selection arrives as a prop: the session's, or the one of a bookmark *)
LSelectionChanges ==
    /\ LQuiet
    /\ selectedId' \in LIds \ {selectedId}
    /\ UNCHANGED <<connections, open, requestedFocusedId, lFocus, lFocused, lBuffer, autoSelected>>

(* openListbox, from a click on the trigger or an arrow key *)
openListbox ==
    /\ LQuiet /\ ~open /\ connections # <<>>
    /\ open' = TRUE /\ requestedFocusedId' = LFirst /\ lFocus' = "trigger"
    /\ UNCHANGED <<connections, selectedId, lFocused, lBuffer, autoSelected>>

(* closeListbox: Escape gives the focus back to the trigger, Tab lets it go on *)
closeListbox ==
    /\ LQuiet /\ LShowsList
    /\ open' = FALSE /\ lBuffer' = <<>> /\ lFocus' \in {"trigger", "elsewhere"}
    /\ UNCHANGED <<connections, selectedId, requestedFocusedId, lFocused, autoSelected>>

(* A click on the trigger of an open listbox, or outside of it; without the listbox's container
   no click is outside of it *)
LClickCloses ==
    /\ LQuiet /\ LShowsList
    /\ open' = FALSE /\ lFocus' \in {"trigger", "elsewhere"}
    /\ UNCHANGED <<connections, selectedId, requestedFocusedId, lFocused, lBuffer, autoSelected>>

(* handleSelect, from a click on an option or from Enter on the active one *)
handleSelect(id) ==
    /\ LQuiet /\ LShowsList
    /\ selectedId' = id /\ open' = FALSE /\ lFocus' = "trigger"
    /\ UNCHANGED <<connections, requestedFocusedId, lFocused, lBuffer, autoSelected>>

(* moveActive clamps the index *)
moveActive(next) ==
    requestedFocusedId' = connections[IF next < 1 THEN 1 ELSE IF next > Len(connections) THEN Len(connections) ELSE next]

(* handleListKeyDown: the arrow keys, Home and End *)
LArrowKey ==
    /\ LQuiet /\ LShowsList
    /\ \E next \in {LIndex(activeId) + 1, LIndex(activeId) - 1, 1, Len(connections)} : moveActive(next)
    /\ UNCHANGED <<connections, selectedId, open, lFocus, lFocused, lBuffer, autoSelected>>

LMatches(typed) == {c \in LIds : LListed(c) /\ IsPrefix(typed, LName[c])}

(* mutant of LNextMatch *)
NeverGoesRound(typed) ==
    LET later == {i \in (LIndex(activeId) + 1)..Len(connections) : connections[i] \in LMatches(typed)} IN
    IF later = {} THEN activeId ELSE connections[CHOOSE i \in later : \A j \in later : i <= j]

(* The first match after the current option, going round once *)
LNextMatch(typed) ==
    LET n == Len(connections)
        at(step) == connections[((LIndex(activeId) + step - 1) % n) + 1]
        step == CHOOSE s \in 1..n : at(s) \in LMatches(typed) /\ \A t \in 1..(s - 1) : at(t) \notin LMatches(typed)
    IN at(step)

(* handleTypeahead: the letters typed within the reset time are tried first, then the last letter alone *)
LTried(typed, key) == IF LMatches(typed) # {} THEN typed ELSE <<key>>

handleTypeahead(key, inTime) ==
    LET typed == (IF inTime THEN lBuffer ELSE <<>>) \o <<key>> IN
    /\ LQuiet /\ LShowsList
    /\ lBuffer' = typed
    /\ requestedFocusedId' = IF LMatches(LTried(typed, key)) = {} THEN requestedFocusedId
                             ELSE LNextMatch(LTried(typed, key))
    /\ UNCHANGED <<connections, selectedId, open, lFocus, lFocused, autoSelected>>

LMaxTyped == 2                                                  \* bound: letters in the buffer
LLetters == UNION {ToSet(LName[c]) : c \in LIds}

SelectorInit ==
    /\ connections = <<>>                                       \* the list is not there before it is read
    /\ selectedId \in LIds \cup {LNone}
    /\ open = FALSE /\ requestedFocusedId = LNone /\ lFocus = "elsewhere"
    /\ lFocused = <<FALSE, LNone>> /\ lBuffer = <<>> /\ autoSelected = LNone

SelectorNext ==
    \/ LEffects \/ LListChanges \/ LSelectionChanges \/ openListbox \/ closeListbox \/ LClickCloses
    \/ \E id \in LIds : LListed(id) /\ handleSelect(id)
    \/ activeId # LNone /\ handleSelect(activeId)
    \/ LArrowKey
    \/ \E key \in LLetters, inTime \in BOOLEAN :
        (inTime => Len(lBuffer) < LMaxTyped) /\ handleTypeahead(key, inTime)

SelectorSpec == SelectorInit /\ [][SelectorNext]_lVars
-------------------------------------------------------------------------------
(* Types; the popup is given up or an option is focused, never neither: the focus effect of an
   open popup has an option to go to whenever a connection is listed. *)
SelectorTypeOK ==
    /\ connections \in LLists /\ selectedId \in LIds \cup {LNone} /\ open \in BOOLEAN
    /\ requestedFocusedId \in LIds \cup {LNone} /\ lFocus \in LIds \cup {"trigger", "elsewhere"}
    /\ lFocused \in BOOLEAN \X (LIds \cup {LNone}) /\ Len(lBuffer) <= LMaxTyped
    /\ autoSelected \in LIds \cup {LNone}
    /\ LShowsList => activeId \in LIds

(* "connection-list changes never leave stale focus or selection state behind while the popup is
   open": once the effects have run, the option Enter would select is listed and has the focus. *)
FocusIsOnActiveOption == LQuiet /\ LShowsList => LListed(activeId) /\ lFocus = activeId

(* A typed letter finds what it can: the option it makes active begins with all the letters typed
   when some option does, else with the letter alone, and nothing moves when none does. *)
TypeaheadFindsMatch ==
    [][\A key \in LLetters, inTime \in BOOLEAN :
        handleTypeahead(key, inTime) =>
            LET all == LMatches(lBuffer')
                one == LMatches(<<key>>) IN
            IF all # {} THEN activeId' \in all ELSE IF one # {} THEN activeId' \in one ELSE activeId' = activeId]_lVars
===============================================================================
