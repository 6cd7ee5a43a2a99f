--------------------------- MODULE TransactionsPager ---------------------------
(***************************************************************************)
(* The page that shows a user's transactions: pages of a log that grows,   *)
(* filtered by type, asked for one after another.  The API reads the count *)
(* and the rows of a page in two steps; replies come in any order, and the *)
(* page knows a stale one by its request number.                           *)
(***************************************************************************)
EXTENDS Naturals, Sequences, FiniteSets

CONSTANTS
    Types,           \* TransactionType: OPEN, CANCEL
    All,             \* the filter that lets every type through
    PageSize,        \* PAGE_SIZE
    MaxRows,         \* bound: how long the log grows
    MaxFetches       \* bound: how many pages are asked for

ASSUME TransactionsPagerAssumption ==
    /\ All \notin Types
    /\ PageSize \in Nat \ {0} /\ MaxRows \in Nat /\ MaxFetches \in Nat \ {0}

VARIABLES
    log,             \* transactions: the type of each row, oldest first
    filter,          \* activeFilter
    items,           \* the rows shown, by their place in the log
    total,           \* filteredTotal
    isLoadingInitial, isLoadingMore, loadError,
    requestId,       \* requestIdRef
    request,         \* what became of each request so far
    torn,            \* history: a row came between a count and its rows
    overtaken        \* history: the filter changed while more was loading

pagerVars ==
    <<log, filter, items, total, isLoadingInitial, isLoadingMore, loadError,
      requestId, request, torn, overtaken>>

Filters == Types \cup {All}
Fetches == 1..MaxFetches

(* list_for_user: the rows its query lets through, the newest first.       *)
Matching(f) == {row \in 1..Len(log) : f = All \/ log[row] = f}

Place(rows, row) == Cardinality({other \in rows : other >= row})

NewestFirst(rows) ==
    [i \in 1..Cardinality(rows) |-> CHOOSE row \in rows : Place(rows, row) = i]

(* Its skip and limit.                                                     *)
Page(s, skip) ==
    SubSeq(s, skip + 1, IF skip + PageSize < Len(s) THEN skip + PageSize ELSE Len(s))

BugLastRowLeft == Len(items) + 1 < total

hasMore == Len(items) < total

Asked(f, skip, append) ==
    [filter |-> f, skip |-> skip, append |-> append, at |-> "count",
     total |-> 0, items |-> <<>>]

(* fetchPage, up to its await.                                             *)
FetchPage(f, skip, append) ==
    /\ requestId + 1 \in Fetches
    /\ requestId' = requestId + 1
    /\ request' = [request EXCEPT ![requestId + 1] = Asked(f, skip, append)]
    /\ isLoadingMore' = (append \/ isLoadingMore)
    /\ isLoadingInitial' = (~append \/ isLoadingInitial)
    /\ loadError' = FALSE

Gone == [Asked(All, 0, FALSE) EXCEPT !.at = "over"]

(* The page opens: its effect asks for the first page of everything.       *)
PagerInit ==
    /\ log \in UNION {[1..n -> Types] : n \in 0..MaxRows}
    /\ filter = All
    /\ items = <<>> /\ total = 0
    /\ isLoadingInitial = TRUE /\ isLoadingMore = FALSE /\ loadError = FALSE
    /\ requestId = 1
    /\ request = [k \in Fetches |-> IF k = 1 THEN Asked(All, 0, FALSE) ELSE Gone]
    /\ torn = FALSE /\ overtaken = FALSE

----------------------------------------------------------------------------
(* handleFilterChange and the effect that follows it.                      *)
FilterChange(f) ==
    /\ f # filter
    /\ filter' = f
    /\ items' = <<>> /\ total' = 0
    /\ FetchPage(f, 0, FALSE)
    /\ overtaken' = (overtaken \/ isLoadingMore)
    /\ UNCHANGED <<log, torn>>

(* The button is there when some rows are shown and there are more.        *)
LoadMore ==
    /\ items # <<>> /\ hasMore /\ ~isLoadingMore
    /\ FetchPage(filter, Len(items), TRUE)
    /\ UNCHANGED <<log, filter, items, total, torn, overtaken>>

(* The API's side of a request.                                            *)
Count(k) ==
    /\ request[k].at = "count"
    /\ request' = [request EXCEPT ![k].at = "find",
                                  ![k].total = Cardinality(Matching(request[k].filter))]
    /\ UNCHANGED <<log, filter, items, total, isLoadingInitial, isLoadingMore,
                   loadError, requestId, torn, overtaken>>

Find(k) ==
    /\ request[k].at = "find"
    /\ request' = [request EXCEPT ![k].at = "reply",
           ![k].items = Page(NewestFirst(Matching(request[k].filter)),
                              request[k].skip)]
    /\ UNCHANGED <<log, filter, items, total, isLoadingInitial, isLoadingMore,
                   loadError, requestId, torn, overtaken>>

(* A subscription opens or closes meanwhile.                               *)
Grow(t) ==
    /\ Len(log) < MaxRows
    /\ log' = Append(log, t)
    /\ torn' = (torn \/ \E k \in Fetches : request[k].at = "find")
    /\ UNCHANGED <<filter, items, total, isLoadingInitial, isLoadingMore,
                   loadError, requestId, request, overtaken>>

----------------------------------------------------------------------------
BugAlwaysFresh(k) == TRUE

Fresh(k) == k = requestId

BugIndicatorStays(k) == UNCHANGED <<isLoadingInitial, isLoadingMore>>

(* The finally block.                                                      *)
Settle(k) ==
    IF request[k].append
    THEN isLoadingMore' = FALSE /\ UNCHANGED isLoadingInitial
    ELSE isLoadingInitial' = FALSE /\ UNCHANGED isLoadingMore

Reply(k) ==
    /\ request[k].at = "reply"
    /\ request' = [request EXCEPT ![k] = Gone]
    /\ IF Fresh(k)
       THEN /\ total' = request[k].total
            /\ items' = IF request[k].append THEN items \o request[k].items
                                             ELSE request[k].items
            /\ Settle(k)
       ELSE UNCHANGED <<total, items, isLoadingInitial, isLoadingMore>>
    /\ UNCHANGED <<log, filter, loadError, requestId, torn, overtaken>>

(* The call fails, or its time-out runs out.                               *)
Fail(k) ==
    /\ request[k].at # "over"
    /\ request' = [request EXCEPT ![k] = Gone]
    /\ IF Fresh(k)
       THEN loadError' = TRUE /\ Settle(k)
       ELSE UNCHANGED <<loadError, isLoadingInitial, isLoadingMore>>
    /\ UNCHANGED <<log, filter, items, total, requestId, torn, overtaken>>

PagerNext ==
    \/ LoadMore
    \/ \E f \in Filters : FilterChange(f)
    \/ \E t \in Types : Grow(t)
    \/ \E k \in Fetches : Count(k) \/ Find(k) \/ Reply(k) \/ Fail(k)

PagerSpec == PagerInit /\ [][PagerNext]_pagerVars

(* httpClient gives every call a time-out: each one ends.                  *)
FairSpec == PagerSpec /\ \A k \in Fetches : WF_pagerVars(Reply(k) \/ Fail(k))

----------------------------------------------------------------------------
Shown == {items[i] : i \in 1..Len(items)}
Selected == Matching(filter)

(* Whatever replies overtake each other, and however many rows come in at  *)
(* the top between two pages, the page shows rows of its filter only and   *)
(* leaves none out between the newest row of its first page and the oldest *)
(* it shows.  (Of the rows that came in since, a later page shows some.)   *)
NoRowSkipped ==
    /\ Shown \subseteq Selected
    /\ \A old \in Shown, row \in Selected :
           old < row /\ row <= items[1] => row \in Shown

(* When the page says there are no more transactions it has shown the      *)
(* oldest of its filter, unless a row came in between the API's count and  *)
(* its read of a page.                                                     *)
EndIsTrue ==
    items # <<>> /\ ~hasMore /\ ~torn =>
        \E row \in Shown : \A other \in Selected : row <= other

(* A spinner ends, except that of a page of more rows whose filter was     *)
(* changed under way: its stale reply does not end it.                     *)
LoadsSettle ==
    /\ isLoadingInitial ~> ~isLoadingInitial
    /\ isLoadingMore /\ ~overtaken ~> ~isLoadingMore \/ overtaken
===============================================================================
