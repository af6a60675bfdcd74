----------------------------- MODULE SqlHighlight -----------------------------
(***************************************************************************)
(* SqlCodeBlock.tsx and ShikiHighlighter.tsx: the SQL of an answer. Every  *)
(* block shares one lazy import of the highlighter component, and every    *)
(* component one construction of the shiki highlighter; both are settled   *)
(* once per page load and may fail. A block expands, collapses, changes    *)
(* its SQL (a regenerated answer) or unmounts while they are pending. A    *)
(* callback on a settled promise runs before the next event of the         *)
(* browser, so it belongs to the step that registers it.                   *)
(***************************************************************************)
EXTENDS Naturals

CONSTANTS
    UBlocks,        \* code blocks on the page
    UCodes,         \* SQL texts
    UNone           \* nothing

VARIABLES
    uModule,        \* highlighterModulePromise: "none", "pending", "ok" or "failed"
    uReady,         \* highlighterReady, likewise
    uBlock          \* per block: its state below, or UNone when it is not mounted

uVars == <<uModule, uReady, uBlock>>

(***************************************************************************)
(* code, isExpanded, unavailable: the block's; awaits: its callback on the *)
(* import is live; inner: Highlighter, the component it was handed; html,  *)
(* failed: the state of that component while it is mounted; builds: its    *)
(* callback on the construction is live.                                   *)
(***************************************************************************)
UBlock == [code : UCodes, isExpanded : BOOLEAN, unavailable : BOOLEAN, awaits : BOOLEAN,
           inner : BOOLEAN, html : UCodes \cup {UNone}, failed : BOOLEAN, builds : BOOLEAN]
UMounted == {b \in UBlocks : uBlock[b] # UNone}
UShowsInner(s) == s.isExpanded /\ s.inner

(* The effect of the mounted component; codeToHtml may throw *)
UHighlights(s, ready, throws) ==
    CASE ~UShowsInner(s)                      -> s
      [] UShowsInner(s) /\ ready = "pending"  -> [s EXCEPT !.builds = TRUE]
      [] UShowsInner(s) /\ ready = "ok" /\ ~throws -> [s EXCEPT !.html = s.code, !.builds = FALSE]
      [] OTHER                                -> [s EXCEPT !.failed = TRUE, !.builds = FALSE]

(* mutant of UAsks *)
FirstBlockOnly(s) == s.isExpanded /\ ~s.inner /\ ~s.unavailable /\ uModule = "none"

(* The effect of the block asks for the component *)
UAsks(s) == s.isExpanded /\ ~s.inner /\ ~s.unavailable

(* getHighlighter and loadHighlighter start what was never started *)
UStarted(promise) == IF promise = "none" THEN "pending" ELSE promise

(* The block's callbacks on the import *)
UHanded(s, module) ==
    CASE module = "ok"     -> [s EXCEPT !.inner = TRUE, !.awaits = FALSE]
      [] module = "failed" -> [s EXCEPT !.unavailable = TRUE, !.awaits = FALSE]
      [] OTHER             -> [s EXCEPT !.awaits = TRUE]

(* A render of block [b] in state [s] and the effects it runs *)
URender(b, s) ==
    LET module == IF UAsks(s) THEN UStarted(uModule) ELSE uModule
        handed == IF UAsks(s) THEN UHanded(s, module) ELSE s
        ready  == IF UShowsInner(handed) THEN UStarted(uReady) ELSE uReady
    IN  /\ uModule' = module /\ uReady' = ready
        /\ \E throws \in BOOLEAN : uBlock' = [uBlock EXCEPT ![b] = UHighlights(handed, ready, throws)]

HighlightInit == uModule = "none" /\ uReady = "none" /\ uBlock = [b \in UBlocks |-> UNone]

UMount(b) ==
    /\ uBlock[b] = UNone
    /\ \E code \in UCodes :
          uBlock' = [uBlock EXCEPT ![b] = [code |-> code, isExpanded |-> FALSE, unavailable |-> FALSE,
                                           awaits |-> FALSE, inner |-> FALSE, html |-> UNone,
                                           failed |-> FALSE, builds |-> FALSE]]
    /\ UNCHANGED <<uModule, uReady>>

(* Both cleanups set cancelled: the callbacks of the unmounted block do nothing *)
UUnmount(b) ==
    /\ b \in UMounted
    /\ uBlock' = [uBlock EXCEPT ![b] = UNone]
    /\ UNCHANGED <<uModule, uReady>>

(* setIsExpanded: collapsing cancels the block's callback and unmounts the component *)
UToggle(b) ==
    /\ b \in UMounted
    /\ URender(b, [uBlock[b] EXCEPT !.isExpanded = ~@, !.awaits = FALSE,
                                    !.html = UNone, !.failed = FALSE, !.builds = FALSE])

(* mutant of UNewCode *)
HtmlIsKept(b, code) ==
    /\ b \in UMounted
    /\ uBlock' = [uBlock EXCEPT ![b].code = code]
    /\ UNCHANGED <<uModule, uReady>>

(* The SQL changes: the component's effect depends on code, the block's does not *)
UNewCode(b, code) ==
    /\ b \in UMounted /\ code # uBlock[b].code
    /\ \E throws \in BOOLEAN :
          uBlock' = [uBlock EXCEPT ![b] = UHighlights([uBlock[b] EXCEPT !.code = code], uReady, throws)]
    /\ UNCHANGED <<uModule, uReady>>

(* The import settles and runs the live callbacks; the components it mounts start the construction *)
UModuleSettles(to) ==
    /\ uModule = "pending"
    /\ uModule' = to
    /\ LET handed == [b \in UBlocks |-> IF b \in UMounted /\ uBlock[b].awaits THEN UHanded(uBlock[b], to)
                                        ELSE uBlock[b]]
           shows  == {b \in UMounted : UShowsInner(handed[b])}
       IN  /\ uBlock' = [b \in UBlocks |-> IF b \in shows THEN [handed[b] EXCEPT !.builds = TRUE] ELSE handed[b]]
           /\ uReady' = IF shows # {} THEN UStarted(uReady) ELSE uReady

UReadySettles(to) ==
    /\ uReady = "pending"
    /\ uReady' = to
    /\ \E throwing \in SUBSET {b \in UMounted : uBlock[b].builds} :
          uBlock' = [b \in UBlocks |-> IF b \in UMounted /\ uBlock[b].builds
                                       THEN UHighlights(uBlock[b], to, b \in throwing) ELSE uBlock[b]]
    /\ UNCHANGED uModule

HighlightNext ==
    \/ \E b \in UBlocks : UMount(b) \/ UUnmount(b) \/ UToggle(b) \/ \E code \in UCodes : UNewCode(b, code)
    \/ \E to \in {"ok", "failed"} : UModuleSettles(to) \/ UReadySettles(to)

(* The browser settles an import and a construction it started *)
HighlightFairness == WF_uVars(\E to \in {"ok", "failed"} : UModuleSettles(to) \/ UReadySettles(to))

HighlightSpec == HighlightInit /\ [][HighlightNext]_uVars /\ HighlightFairness

(***************************************************************************)
(* Properties                                                              *)
(***************************************************************************)
URead(s) == s.unavailable \/ (s.inner /\ (s.failed \/ s.html # UNone))

(* Types; and the highlighted text on the screen is the SQL of the answer, *)
(* never that of the answer it replaced (the component's effect on code).  *)
HighlightTypeOK ==
    /\ {uModule, uReady} \subseteq {"none", "pending", "ok", "failed"}
    /\ \A b \in UMounted : /\ uBlock[b] \in UBlock
                           /\ uBlock[b].failed \/ uBlock[b].html \in {UNone, uBlock[b].code}

(* An expanded block that shows a skeleton or an empty island has a live   *)
(* callback on a promise that is still pending, however often blocks were  *)
(* collapsed, expanded and replaced before: once both promises are settled *)
(* every expanded block shows its SQL, highlighted or plain.               *)
BlankIsAwaited ==
    \A b \in UMounted : (uBlock[b].isExpanded /\ ~URead(uBlock[b])) =>
        \/ uBlock[b].awaits /\ uModule = "pending"
        \/ uBlock[b].builds /\ uReady = "pending"

(* A block that stays expanded comes to show its SQL. *)
SqlIsShown ==
    \A b \in UBlocks : (b \in UMounted /\ uBlock[b].isExpanded) ~>
        (b \notin UMounted \/ ~uBlock[b].isExpanded \/ URead(uBlock[b]))
=============================================================================
