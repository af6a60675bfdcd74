----------------------------- MODULE PagedLists -----------------------------
(***************************************************************************)
(* The lists the client reads page by page: the history, the sessions of   *)
(* the sidebar (the attempts of a session are read in the same way) and    *)
(* the quota status.  The server orders the entries by a key and gives a   *)
(* cursor, the key of the page's last entry; useInfiniteQuery keeps the    *)
(* pages, reads one more after the last cursor, and reads them all again   *)
(* from the first, each with the cursor of the page before it, when the    *)
(* list is invalidated.  Meanwhile entries are added and deleted, and they *)
(* move: an answer that is regenerated and a session that is used go to    *)
(* the top, a role that is renamed goes anywhere.                          *)
(*                                                                         *)
(* A greater key comes first; an entry of key 0 does not exist.            *)
(***************************************************************************)
EXTENDS Integers, SequencesExt

CONSTANTS
    BIds,        \* entries
    BPageSize,   \* entries of a page
    BNone,       \* no cursor; no fetch
    BMaxKey,     \* bound: keys
    BMaxChanges  \* bound: changes of the server

ASSUME PagedAssumption == BPageSize \in Nat \ {0} /\ BMaxKey \in Nat

VARIABLES
    bList,    \* which list this is
    bKey,     \* server: the key of every entry
    bPages,   \* client: the pages that were read, BNone before the first
    bError,   \* client: the last fetch failed
    bFetch,   \* client: the fetch that is on its way: [more, pages, changed], or BNone
    bChanges, \* bound
    bChanged, \* history: entries changed since the first of bPages was read
    bOwed     \* history: this tab's own changes the list has not been read again for

bVars == <<bList, bKey, bPages, bError, bFetch, bChanges, bChanged, bOwed>>

BLists == {"history", "sessions", "status"}

-----------------------------------------------------------------------------
(* The server's pages *)

BAfter(cursor) ==
    {e \in BIds : bKey[e] > 0 /\ (cursor = BNone \/ bKey[e] < cursor)}

(* mutant of BCursor: the cursor is the key of the first entry left out,   *)
(* which the next page then begins after                                   *)
CursorOfTheRest(rows) == bKey[rows[BPageSize + 1]]

BCursor(rows) == bKey[rows[BPageSize]]

(* page_by_user, list_by_user and status_page: limit + 1 rows tell whether *)
(* there is a next page                                                    *)
BPage(cursor) ==
    LET rows == SetToSortSeq(BAfter(cursor), LAMBDA e, f : bKey[e] > bKey[f])
    IN  IF Len(rows) <= BPageSize THEN [items |-> rows, next |-> BNone]
        ELSE [items |-> SubSeq(rows, 1, BPageSize), next |-> BCursor(rows)]

-----------------------------------------------------------------------------
(* What the client shows *)

BItems(pages) == FlattenSeq([i \in DOMAIN pages |-> pages[i].items])

(* mutant of uniqueById: every page is taken as it is *)
NotUnique(items) == items

(* Only an entry's first place is kept *)
uniqueById(items) ==
    LET first == {i \in DOMAIN items : \A j \in 1..(i - 1) : items[j] # items[i]}
    IN  [k \in 1..Cardinality(first) |-> items[SetToSortSeq(first, <)[k]]]

(* useHistory flattens the pages; flattenedSessionList and                 *)
(* flattenedQuotaStatus also look for duplicates                           *)
BShown ==
    IF bPages = BNone THEN <<>>
    ELSE IF bList = "history" THEN BItems(bPages)
    ELSE uniqueById(BItems(bPages))

hasNextPage == bPages # BNone /\ Last(bPages).next # BNone

BFetchingMore == bFetch # BNone /\ bFetch.more

(* HistoryPage puts an error in the place of its list, whatever was read *)
HistoryPanel ==
    IF bError THEN "error"
    ELSE IF bPages = BNone THEN "loading"
    ELSE IF BShown = <<>> THEN "empty" ELSE "rows"

(* The sidebar and the quota status keep the rows they have *)
SidebarPanel ==
    IF BShown # <<>> THEN "rows"
    ELSE IF bError THEN "error"
    ELSE IF bPages = BNone THEN "loading" ELSE "empty"

StatusPanel ==
    IF bPages = BNone /\ ~bError THEN "loading"
    ELSE IF bError /\ BShown = <<>> THEN "error"
    ELSE IF BShown = <<>> THEN "empty" ELSE "rows"

BPanel ==
    CASE bList = "history"  -> HistoryPanel
      [] bList = "sessions" -> SidebarPanel
      [] bList = "status"   -> StatusPanel

(* mutant of BOffersMore: the history's button, disabled like the others *)
ButtonStays == BPanel = "rows" /\ hasNextPage /\ ~BFetchingMore

(* mutant of BOffersMore: the button does not go with the last page *)
ButtonOutlivesList == BPanel = "rows" /\ ~BFetchingMore

(* HistoryList hides its button while anything is fetched; the other two   *)
(* only disable it while a page is added                                   *)
BOffersMore ==
    /\ BPanel = "rows" /\ hasNextPage /\ ~BFetchingMore
    /\ bList = "history" => bFetch = BNone

-----------------------------------------------------------------------------
(* Fetches *)

(* A fetch of everything gives up the one that is on its way *)
BRefetch == [more |-> FALSE, pages |-> <<>>, changed |-> {}]

BMount ==
    /\ bPages = BNone /\ bFetch = BNone /\ ~bError
    /\ bFetch' = BRefetch
    /\ UNCHANGED <<bList, bKey, bPages, bError, bChanges, bChanged, bOwed>>

(* fetchNextPage cancels a fetch that is on its way (cancelRefetch), and   *)
(* the list counts as read when the page arrives                           *)
BLoadMore ==
    /\ BOffersMore
    /\ bFetch' = [more |-> TRUE, pages |-> bPages, changed |-> bChanged]
    /\ UNCHANGED <<bList, bKey, bPages, bError, bChanges, bChanged, bOwed>>

(* An error is forgotten when a fetch starts, unless pages were read:      *)
(* then it stays until one succeeds                                        *)
BErrorAtStart == bError /\ bPages # BNone

(* ClientQueryState's retry, which also gives up a fetch on its way *)
BRetry ==
    /\ bError
    /\ bFetch' = BRefetch /\ bError' = BErrorAtStart
    /\ UNCHANGED <<bList, bKey, bPages, bChanges, bChanged, bOwed>>

(* getNextPageParam of the last page; undefined for the first *)
BParam(pages) == IF pages = <<>> THEN BNone ELSE Last(pages).next

(* Everything is read once as many pages were read as were shown, or no    *)
(* page is left                                                            *)
BIsLast(pages) ==
    \/ bFetch.more \/ bPages = BNone
    \/ Len(pages) >= Len(bPages) \/ Last(pages).next = BNone

BPageArrives ==
    /\ bFetch # BNone
    /\ LET pages == Append(bFetch.pages, BPage(BParam(bFetch.pages)))
       IN  IF BIsLast(pages)
           THEN /\ bPages' = pages /\ bFetch' = BNone /\ bError' = FALSE
                /\ bChanged' = bFetch.changed
                /\ bOwed' = IF bFetch.more THEN bOwed ELSE {}
           ELSE /\ bFetch' = [bFetch EXCEPT !.pages = pages]
                /\ UNCHANGED <<bPages, bError, bChanged, bOwed>>
    /\ UNCHANGED <<bList, bKey, bChanges>>

BFetchFails ==
    /\ bFetch # BNone /\ bFetch' = BNone /\ bError' = TRUE
    /\ UNCHANGED <<bList, bKey, bPages, bChanges, bChanged, bOwed>>

-----------------------------------------------------------------------------
(* Changes *)

BTop == 1 + Max({bKey[e] : e \in BIds} \cup {0})

BFree(e) == (1..BMaxKey) \ {bKey[f] : f \in BIds \ {e}}

(* Where an entry may be put: a regenerated answer and a session in use    *)
(* become the newest, a role's name may be any                             *)
BPlaces(e) ==
    {k \in BFree(e) : k # bKey[e] /\ (bList = "status" \/ k = BTop)}
        \cup (IF bKey[e] = 0 THEN {} ELSE {0})

(* Another tab or user does it: nobody tells this client                   *)
BChange(e, key) ==
    /\ bChanges < BMaxChanges /\ bChanges' = bChanges + 1
    /\ key \in BPlaces(e)
    /\ bKey' = [bKey EXCEPT ![e] = key]
    /\ bChanged' = bChanged \cup {e}

BOtherChange(e, key) ==
    /\ BChange(e, key)
    /\ bFetch' = IF bFetch # BNone /\ bFetch.pages # <<>>
                 THEN [bFetch EXCEPT !.changed = @ \cup {e}] ELSE bFetch
    /\ UNCHANGED <<bList, bPages, bError, bOwed>>

(* This client does it and invalidates the list, whose pages are all read  *)
(* again, at once or, in the history, when its page is opened              *)
BOwnChange(e, key) ==
    /\ bPages # BNone
    /\ BChange(e, key)
    /\ bFetch' = BRefetch /\ bError' = BErrorAtStart
    /\ bOwed' = bOwed \cup {e}
    /\ UNCHANGED <<bList, bPages>>

PagedInit ==
    /\ bList \in BLists
    /\ bKey \in {[e \in BIds |-> IF e <= n THEN e ELSE 0] : n \in 0..Cardinality(BIds)}
    /\ bPages = BNone /\ bError = FALSE /\ bFetch = BNone /\ bChanges = 0
    /\ bChanged = {} /\ bOwed = {}

PagedNext ==
    \/ BMount \/ BLoadMore \/ BRetry \/ BPageArrives \/ BFetchFails
    \/ \E e \in BIds, key \in 0..BMaxKey : BOtherChange(e, key) \/ BOwnChange(e, key)

PagedSpec == PagedInit /\ [][PagedNext]_bVars

-----------------------------------------------------------------------------
(* Pages hold entries and the cursor of their last one, and a page that is *)
(* not the last is full                                                    *)
PagedTypeOK ==
    /\ bList \in BLists /\ bError \in BOOLEAN
    /\ bKey \in [BIds -> 0..BMaxKey] /\ bChanges \in 0..BMaxChanges
    /\ bChanged \subseteq BIds /\ bOwed \subseteq BIds
    /\ bPages # BNone =>
         /\ Len(bPages) > 0
         /\ \A i \in DOMAIN bPages :
              /\ Len(bPages[i].items) <= BPageSize
              /\ i < Len(bPages) => /\ Len(bPages[i].items) = BPageSize
                                    /\ bPages[i].next \in 1..BMaxKey
    /\ bFetch # BNone /\ bFetch.more => hasNextPage

(* No entry is shown twice, although the quota status can read a renamed   *)
(* role again on a later page, and although the history does not look for  *)
(* duplicates: its entries only ever move up (flattenedQuotaStatus)        *)
NoEntryTwice == IsInjective(BShown)

(* Once every page was read, every entry that did not change since the     *)
(* first of them was read is shown: a cursor neither skips entries when    *)
(* pages shift nor ends the list early (getNextPageParam)                  *)
NothingIsSkipped ==
    bPages # BNone /\ ~hasNextPage =>
        \A e \in BIds \ bChanged : bKey[e] > 0 => e \in ToSet(BShown)

(* The history is read again for this tab's own changes: pressing "load    *)
(* more" cannot take the place of the reading an invalidation has asked    *)
(* for (HistoryList hides the button meanwhile).  In the sidebar and the   *)
(* quota status it can, and the list then counts as up to date             *)
OwnChangeIsReread ==
    bList = "history" /\ bFetch = BNone /\ ~bError => bOwed = {}
=============================================================================
