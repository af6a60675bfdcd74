-------------------------------- MODULE Locale --------------------------------
(***************************************************************************)
(* The active language of one browser tab: i18n/locale.ts, i18n.ts and     *)
(* LanguageToggle.tsx. The language is resolved once per load of the       *)
(* document from the address, the device preference in localStorage, the   *)
(* navigator and <html lang>; the toggle changes it afterwards. The device *)
(* preference is shared with other tabs, and the browser's history keeps   *)
(* addresses that were left before a choice. The toggle rewrites the       *)
(* address behind the router's back, and the router writes it again when   *)
(* the workspace has taken a prefilled question out of it.                 *)
(***************************************************************************)
EXTENDS Naturals, Sequences

CONSTANTS
    TTags,          \* raw language tags: [base, region]
    TNavigators,    \* the values of navigator.languages, sequences of tags
    TNone,          \* no tag, no language
    TMaxEntries,    \* bound: entries of the tab's history
    TMaxSteps       \* bound: reloads, choices and changes by other tabs

APP_LANGUAGES == {"en", "ar"}

ASSUME LocaleAssumption ==
    /\ TNone \notin TTags /\ TNone \notin APP_LANGUAGES
    /\ \A lang \in APP_LANGUAGES : [base |-> lang, region |-> ""] \in TTags
    /\ TMaxEntries \in Nat \ {0} /\ TMaxSteps \in Nat

VARIABLES
    tEntries,       \* the entries of the history: [lng, prefill]
    tAt,            \* the entry shown
    tRouter,        \* the ?lng= value of the router's location, or TNone
    tStored,        \* localStorage querycraft.language, or TNone
    tDenied,        \* storage access throws
    tNavigator,     \* navigator.languages
    tLang,          \* i18n.language
    tDoc,           \* documentElement.lang and dir
    tActive,        \* active of the mounted toggle, or TNone
    tForeign,       \* ghost: another tab changed the preference since this tab's last one
    tLeft,          \* ghost: entries that were not shown when this tab last changed its language
    tReverted,      \* ghost: entries whose address the router wrote from before a choice
    tSteps          \* bound

tVars == <<tEntries, tAt, tRouter, tStored, tDenied, tNavigator, tLang, tDoc, tActive, tForeign, tLeft,
           tReverted, tSteps>>

TTag(lang) == [base |-> lang, region |-> ""]

(* The address of an entry: its lng, and whether it holds a question or a  *)
(* connection for the workspace, as its own parameters or those of /ask    *)
TPrefills == {"none", "workspace", "ask"}
TEntry(lng, prefill) == [lng |-> lng, prefill |-> prefill]
TLng == tEntries[tAt].lng

TStep == tSteps < TMaxSteps /\ tSteps' = tSteps + 1

(* A tag of a supported language, whatever its region, is that language *)
normalizeAppLanguage(tag) == IF tag # TNone /\ tag.base \in APP_LANGUAGES THEN tag.base ELSE TNone

(* mutant of directionFor *)
LeftToRight(lang) == "ltr"

directionFor(lang) == IF lang = "ar" THEN "rtl" ELSE "ltr"

readStoredLanguage == IF tDenied THEN TNone ELSE normalizeAppLanguage(tStored)

(* mutant of persistLanguage *)
NotPersisted(lang) == tStored

persistLanguage(lang) == IF tDenied THEN tStored ELSE TTag(lang)

applyDocumentLanguage(lang) == [lang |-> lang, dir |-> directionFor(lang)]

(* The first of the navigator's tags that is supported; index.html says en *)
TOfNavigator ==
    LET known == {i \in 1..Len(tNavigator) : normalizeAppLanguage(tNavigator[i]) # TNone}
    IN  IF known = {} THEN "en"
        ELSE normalizeAppLanguage(tNavigator[CHOOSE i \in known : \A j \in known : i <= j])

(* resolveInitialLanguage of the address [lng]: the language and whether it is persisted *)
resolveInitialLanguage(lng) ==
    LET query == normalizeAppLanguage(lng)
    IN  IF query # TNone THEN [lang |-> query, persist |-> TRUE]
        ELSE [lang |-> IF readStoredLanguage # TNone THEN readStoredLanguage ELSE TOfNavigator,
              persist |-> FALSE]

(* The document is loaded at the entry shown: i18n.ts resolves, persists and applies *)
TLoadAt(lng, first) ==
    LET found == resolveInitialLanguage(lng) IN
    /\ tLang' = found.lang
    /\ tDoc' = applyDocumentLanguage(found.lang)
    /\ tActive' = TNone /\ tRouter' = lng
    /\ tStored' = IF found.persist THEN persistLanguage(found.lang) ELSE tStored
    /\ tForeign' = FALSE
    /\ tLeft' = IF first \/ found.lang # tLang THEN 1..Len(tEntries) \ {tAt} ELSE tLeft
    /\ tReverted' = tReverted \ {tAt}

LocaleInit ==
    /\ \E lng \in TTags \cup {TNone}, prefill \in TPrefills : tEntries = <<TEntry(lng, prefill)>>
    /\ tAt = 1 /\ tRouter = TNone
    /\ tStored \in TTags \cup {TNone} /\ tDenied \in BOOLEAN /\ tNavigator \in TNavigators
    /\ tLang = TNone /\ tDoc = [lang |-> "en", dir |-> "ltr"] /\ tActive = TNone
    /\ tForeign = FALSE /\ tLeft = {} /\ tReverted = {} /\ tSteps = 0

TLoad ==
    /\ tLang = TNone
    /\ TLoadAt(TLng, TRUE)
    /\ UNCHANGED <<tEntries, tAt, tDenied, tNavigator, tSteps>>

TReload ==
    /\ tLang # TNone
    /\ TStep
    /\ TLoadAt(TLng, FALSE)
    /\ UNCHANGED <<tEntries, tAt, tDenied, tNavigator>>

(* The sign-in page or the application shell mounts the toggle, or unmounts it; *)
(* /ask renders nothing                                                         *)
TMount ==
    /\ tLang # TNone /\ tEntries[tAt].prefill # "ask"
    /\ tActive' = IF tActive = TNone THEN tLang ELSE TNone
    /\ UNCHANGED <<tEntries, tAt, tRouter, tStored, tDenied, tNavigator, tLang, tDoc, tForeign, tLeft,
                    tReverted, tSteps>>

(* mutant of TAddressAfter *)
AddressIsKept(next) == TLng

(* The lng parameter of the address after a choice: rewritten where there is one *)
TAddressAfter(next) == IF TLng = TNone THEN TNone ELSE TTag(next)

(***************************************************************************)
(* handleChange. The two languages are bundled, so changeLanguage sets the *)
(* language and emits languageChanged at once, and the continuation runs   *)
(* before the browser's next event: one step.                              *)
(***************************************************************************)
handleChange(next) ==
    /\ tActive # TNone /\ next # tActive
    /\ TStep
    /\ tActive' = next /\ tLang' = next
    /\ tStored' = persistLanguage(next)
    /\ tDoc' = applyDocumentLanguage(next)
    /\ tEntries' = [tEntries EXCEPT ![tAt].lng = TAddressAfter(next)]
    /\ tForeign' = FALSE
    /\ tLeft' = 1..Len(tEntries) \ {tAt}
    /\ tReverted' = tReverted \ {tAt}
    /\ UNCHANGED <<tAt, tRouter, tDenied, tNavigator>>

(* A link of the application: a new entry without lng; a link of the       *)
(* history carries a question                                              *)
TPush(prefill) ==
    /\ tLang # TNone
    /\ tAt < TMaxEntries
    /\ tEntries' = Append(SubSeq(tEntries, 1, tAt), TEntry(TNone, prefill))
    /\ tAt' = tAt + 1 /\ tRouter' = TNone
    /\ tLeft' = tLeft \cap 1..tAt /\ tReverted' = tReverted \cap 1..tAt
    /\ tActive' = TNone
    /\ UNCHANGED <<tStored, tDenied, tNavigator, tLang, tDoc, tForeign, tSteps>>

(* The router replaces the entry shown *)
TReplace(lng) ==
    /\ tEntries' = [tEntries EXCEPT ![tAt] = TEntry(lng, "none")]
    /\ tRouter' = lng /\ tActive' = TNone
    /\ tReverted' = IF lng \in {TNone, TLng} THEN tReverted \ {tAt} ELSE tReverted \cup {tAt}
    /\ UNCHANGED <<tAt, tStored, tDenied, tNavigator, tLang, tDoc, tForeign, tSteps>>

(* A redirect of a guard (Navigate replace) drops the parameters of the entry *)
TRedirect ==
    /\ tLang # TNone /\ tEntries[tAt].prefill # "ask"
    /\ TReplace(TNone)
    /\ tLeft' = tLeft \ {tAt}

(* LegacyAskRedirect takes the question and the connection out of the      *)
(* address at once, and leaves lng                                         *)
LegacyAskRedirect ==
    /\ tLang # TNone /\ tEntries[tAt].prefill = "ask"
    /\ TReplace(tRouter)
    /\ UNCHANGED tLeft

(* The mounted workspace has taken the question and, once the connections  *)
(* are known, the connection.  What is left of the address is what the     *)
(* router saw last, not what the toggle has written since.                 *)
withoutWorkspacePrefillParams ==
    /\ tActive # TNone /\ tEntries[tAt].prefill = "workspace"
    /\ TReplace(tRouter)
    /\ UNCHANGED tLeft

(* Back and forward inside the application do not load the document *)
TGo(i) ==
    /\ tLang # TNone
    /\ i \in 1..Len(tEntries) \ {tAt}
    /\ tAt' = i /\ tActive' = TNone /\ tRouter' = tEntries[i].lng
    /\ UNCHANGED <<tEntries, tStored, tDenied, tNavigator, tLang, tDoc, tForeign, tLeft, tReverted, tSteps>>

(* Another tab chooses a language *)
TOtherTab(lang) ==
    /\ ~tDenied /\ tLang # TNone
    /\ TStep
    /\ tStored' = TTag(lang) /\ tForeign' = TRUE
    /\ UNCHANGED <<tEntries, tAt, tRouter, tDenied, tNavigator, tLang, tDoc, tActive, tLeft, tReverted>>

LocaleNext ==
    \/ TLoad \/ TReload \/ TMount \/ TRedirect \/ LegacyAskRedirect \/ withoutWorkspacePrefillParams
    \/ \E prefill \in {"none", "workspace"} : TPush(prefill)
    \/ \E lang \in APP_LANGUAGES : handleChange(lang) \/ TOtherTab(lang)
    \/ \E i \in 1..TMaxEntries : TGo(i)

LocaleSpec == LocaleInit /\ [][LocaleNext]_tVars

(***************************************************************************)
(* Properties                                                              *)
(***************************************************************************)

(* Types; and the text, the document and the pressed button name one       *)
(* language, the document with its direction (applyDocumentLanguage).      *)
LocaleTypeOK ==
    /\ tLang \in APP_LANGUAGES \cup {TNone}
    /\ tStored \in TTags \cup {TNone} /\ tRouter \in TTags \cup {TNone}
    /\ tEntries \in Seq([lng : TTags \cup {TNone}, prefill : TPrefills]) /\ tAt \in 1..Len(tEntries)
    /\ tLeft \cup tReverted \subseteq 1..Len(tEntries)
    /\ tLang # TNone => /\ tDoc = [lang |-> tLang, dir |-> IF tLang = "ar" THEN "rtl" ELSE "ltr"]
                        /\ tActive \in {TNone, tLang}

(* The entry shown was not left, with its own ?lng=, before the language   *)
(* was last changed                                                        *)
TIsCurrent == tLang # TNone /\ (tAt \in tLeft => TLng = TNone)

(* A reload cannot revert the language in use, whether it came from the    *)
(* address, from a choice or from the navigator, where storage works, no   *)
(* other tab changed the preference, and no choice was made while the      *)
(* workspace had still to take a question out of the address.              *)
ReloadKeepsLanguage ==
    TIsCurrent /\ ~tDenied /\ ~tForeign /\ tAt \notin tReverted
        => resolveInitialLanguage(TLng).lang = tLang

(* Where storage is denied the address alone carries a choice: on the      *)
(* entry where it was made, a reload keeps it if the address had a ?lng=   *)
(* (the rewrite in handleChange), with the same exception.                 *)
AddressCarriesChoice ==
    TIsCurrent /\ tAt \notin tReverted /\ normalizeAppLanguage(TLng) # TNone
        => normalizeAppLanguage(TLng) = tLang

(* The comment of LanguageToggle: a stale ?lng= is rewritten so reloads    *)
(* cannot revert a choice.  Without the exception this does not hold: the  *)
(* router puts the old value back when the prefilled question is taken.    *)
ChoiceSurvivesPrefill ==
    TIsCurrent /\ ~tDenied /\ ~tForeign => resolveInitialLanguage(TLng).lang = tLang
=============================================================================
