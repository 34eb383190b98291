------------------------- MODULE TransactionHistory -------------------------
(***************************************************************************)
(* The history of the home page: TransactionService with its pages, the    *)
(* pull to refresh and waitForNew, and the route that serves a page as two *)
(* concurrent queries, one for the rows and one for their number.          *)
(*                                                                         *)
(* The rows themselves are left out: the query orders them by the time of  *)
(* their block alone, so which of those of one block are on a page is      *)
(* anybody's guess.  What is kept of a page is how many rows it has.       *)
(***************************************************************************)
EXTENDS Integers

CONSTANTS PAGE_SIZE,
          MaxIndexed,      \* bounds: transactions of the account,
          MaxReorgs,       \* reorganisations of the chain,
          MaxRequests,     \* and requests for a page under way at once
          Undefined        \* what a query has not answered yet

HistoryAssumption ==
  /\ PAGE_SIZE \in Nat \ {0} /\ MaxIndexed \in Nat /\ MaxReorgs \in Nat
  /\ MaxRequests \in Nat \ {0}
  /\ Undefined \notin Nat

VARIABLES
  indexed,         \* rows of the account in bim_transactions
  reorgs,          \* counted against MaxReorgs
  transactions,    \* the list: "undefined" before its first page, "empty" or "some"
  hasMore, isLoadingMore, offset,     \* TransactionService
  isRefreshing,    \* PullRefreshContainerComponent
  requests,        \* the requests for a page under way
  watching         \* waitForNew asks for new transactions

table == <<indexed, reorgs>>
service == <<transactions, hasMore, isLoadingMore, offset>>
vars == <<table, service, isRefreshing, requests, watching>>

Slots == 1 .. MaxRequests

\* A free slot, or a request for the rows from offset with its two queries.
NoRequest == [for |-> "nothing", offset |-> 0, rows |-> Undefined, total |-> Undefined]

\* Requests that overlap may each advance the offset by a page.
Offsets == 0 .. MaxIndexed + MaxRequests * PAGE_SIZE

Request == [for : {"nothing", "loadNext", "refresh"}, offset : Offsets,
            rows : 0 .. PAGE_SIZE \cup {Undefined},
            total : 0 .. MaxIndexed \cup {Undefined}]

TypeOK ==
  /\ indexed \in 0 .. MaxIndexed /\ reorgs \in 0 .. MaxReorgs
  /\ transactions \in {"undefined", "empty", "some"}
  /\ hasMore \in BOOLEAN /\ isLoadingMore \in BOOLEAN /\ offset \in Offsets
  /\ isRefreshing \in BOOLEAN
  /\ requests \in [Slots -> Request]
  /\ watching \in BOOLEAN

Init ==
  /\ indexed \in 0 .. MaxIndexed /\ reorgs = 0
  /\ transactions = "undefined" /\ hasMore = TRUE /\ isLoadingMore = FALSE /\ offset = 0
  /\ isRefreshing = FALSE
  /\ requests = [r \in Slots |-> NoRequest] /\ watching = FALSE

UnderWay == {r \in Slots : requests[r].for # "nothing"}

-----------------------------------------------------------------------------
(* transaction.service.ts.                                                 *)

\* GET /api/user/transactions?limit=10&offset=...
GetTransactions(for, from) ==
  \E r \in Slots \ UnderWay :
    requests' = [requests EXCEPT ![r] = [NoRequest EXCEPT !.for = for, !.offset = from]]

LoadNext(from) == isLoadingMore' = TRUE /\ GetTransactions("loadNext", from)

LoadFirst ==
  /\ offset' = 0 /\ transactions' = "undefined" /\ hasMore' = TRUE
  /\ LoadNext(0)

SetEmpty ==
  /\ offset' = 0 /\ transactions' = "empty" /\ hasMore' = FALSE
  /\ UNCHANGED <<isLoadingMore, requests>>

\* The home page has been opened, hence its data asked for.
PageOpened == isLoadingMore \/ transactions # "undefined"

LoadMore ==
  /\ PageOpened /\ ~isLoadingMore /\ hasMore
  /\ LoadNext(offset)
  /\ UNCHANGED <<table, transactions, hasMore, offset, isRefreshing, watching>>

Answered(r, for) ==
  requests[r].for = for /\ requests[r].rows # Undefined /\ requests[r].total # Undefined

Forget(r) == requests' = [requests EXCEPT ![r] = NoRequest]

\* Faulty: the offset is set, not advanced.
NextOffsetOfPage(response) == response.rows

NextOffset(response) == offset + response.rows

LoadNextReturns(r) ==
  /\ Answered(r, "loadNext")
  /\ LET response == requests[r] IN
     /\ transactions' = IF transactions = "some" \/ response.rows > 0 THEN "some" ELSE "empty"
     /\ offset' = NextOffset(response)
     /\ hasMore' = (offset' < response.total)
  /\ isLoadingMore' = FALSE
  /\ Forget(r)
  /\ UNCHANGED <<table, isRefreshing, watching>>

\* No answer comes.  The queries only read, so it is the same whether they ran.
LoadNextFails(r) ==
  /\ Answered(r, "loadNext")
  /\ isLoadingMore' = FALSE
  /\ transactions' = IF transactions = "undefined" THEN "empty" ELSE transactions
  /\ Forget(r)
  /\ UNCHANGED <<table, hasMore, offset, isRefreshing, watching>>

-----------------------------------------------------------------------------
(* home.page.ts and the container that is pulled.                          *)

\* ngOnInit: the page is created with a container of its own.
LoadData ==
  /\ \/ LoadFirst
     \/ SetEmpty /\ transactions = "undefined" /\ UnderWay = {}     \* isNewUser, once
  /\ isRefreshing' = FALSE
  /\ UNCHANGED <<table, watching>>

\* The poll of a swap has been answered "completed".
SwapCompleted ==
  /\ LoadFirst
  /\ UNCHANGED <<table, isRefreshing, watching>>

\* onTouchEnd past the threshold, then onRefresh.
PullToRefresh ==
  /\ PageOpened /\ ~isRefreshing
  /\ isRefreshing' = TRUE
  /\ offset' = 0 /\ hasMore' = TRUE
  /\ GetTransactions("refresh", 0)
  /\ UNCHANGED <<table, transactions, isLoadingMore, watching>>

RefreshReturns(r) ==
  /\ Answered(r, "refresh")
  /\ transactions' = IF requests[r].rows > 0 THEN "some" ELSE "empty"
  /\ offset' = requests[r].rows
  /\ hasMore' = (offset' < requests[r].total)
  /\ Forget(r)
  /\ isRefreshing' = FALSE
  /\ UNCHANGED <<table, isLoadingMore, watching>>

\* The page or the balance that is refreshed with it (forkJoin) fails: the
\* other is dropped and the container is never told to stop.
RefreshFails(r) ==
  /\ Answered(r, "refresh")
  /\ Forget(r)
  /\ UNCHANGED <<table, service, isRefreshing, watching>>

-----------------------------------------------------------------------------
(* waitForNew: it asks for the total of the account, then again and again. *)

WaitForNew ==
  /\ ~watching /\ watching' = TRUE
  /\ UNCHANGED <<table, service, isRefreshing, requests>>

\* A total is greater than the first: one of the rows that came is enough, and
\* it may be gone by now.
Detects ==
  /\ watching /\ watching' = FALSE
  /\ LoadFirst
  /\ UNCHANGED <<table, isRefreshing>>

\* maxAttempts are over, or a request fails.
GivesUpWaiting ==
  /\ watching /\ watching' = FALSE
  /\ UNCHANGED <<table, service, isRefreshing, requests>>

-----------------------------------------------------------------------------
(* The API: TransactionReader.fetchForAccount, two queries in any order.   *)

\* LIMIT PAGE_SIZE OFFSET from, of as many rows as there are now.
SizeOfPage(from) ==
  IF indexed <= from THEN 0
  ELSE IF indexed - from < PAGE_SIZE THEN indexed - from ELSE PAGE_SIZE

\* The offset is of no use afterwards.
FindByAccountId(r) ==
  /\ requests[r].for # "nothing" /\ requests[r].rows = Undefined
  /\ requests' = [requests EXCEPT ![r].rows = SizeOfPage(requests[r].offset), ![r].offset = 0]
  /\ UNCHANGED <<table, service, isRefreshing, watching>>

CountByAccountId(r) ==
  /\ requests[r].for # "nothing" /\ requests[r].total = Undefined
  /\ requests' = [requests EXCEPT ![r].total = indexed]
  /\ UNCHANGED <<table, service, isRefreshing, watching>>

\* The indexer inserts the row of a newer block.
IndexTransaction ==
  /\ indexed < MaxIndexed
  /\ indexed' = indexed + 1
  /\ UNCHANGED <<reorgs, service, isRefreshing, requests, watching>>

\* The storage plugin of the indexer removes the rows of abandoned blocks.
Invalidate ==
  /\ reorgs < MaxReorgs /\ reorgs' = reorgs + 1
  /\ indexed' \in 0 .. indexed
  /\ UNCHANGED <<service, isRefreshing, requests, watching>>

RequestGoesOn(r) ==
  \/ FindByAccountId(r) \/ CountByAccountId(r)
  \/ LoadNextReturns(r) \/ LoadNextFails(r) \/ RefreshReturns(r) \/ RefreshFails(r)

Next ==
  \/ LoadData \/ SwapCompleted \/ LoadMore \/ PullToRefresh
  \/ WaitForNew \/ Detects \/ GivesUpWaiting
  \/ \E r \in Slots : RequestGoesOn(r)
  \/ IndexTransaction \/ Invalidate

\* The user opens the page and goes on scrolling; the API answers each request
\* or it fails, and a page is answered now and then.
Fairness ==
  /\ WF_vars(~PageOpened /\ LoadData)
  /\ SF_vars(LoadMore) /\ SF_vars(\E r \in Slots : LoadNextReturns(r))
  /\ \A r \in Slots : WF_vars(RequestGoesOn(r))

\* The page of an account without transactions, which asks for no more.
Closed ==
  /\ indexed = 0 /\ reorgs = 0
  /\ transactions = "empty" /\ hasMore = FALSE /\ isLoadingMore = FALSE /\ offset = 0
  /\ isRefreshing = FALSE
  /\ requests = [r \in Slots |-> NoRequest] /\ watching = FALSE

-----------------------------------------------------------------------------
\* The list is begun again.
Restarts == LoadData \/ SwapCompleted \/ PullToRefresh \/ Detects

\* Scrolling comes to an end: who goes on scrolling gets to see that there is
\* no more, again and again, unless the list is begun again for ever.  Pages
\* and refreshes may overlap, each advancing the offset, requests fail, and
\* rows come and go between the count of a request and its rows.
ScrollEnds == []<>~hasMore \/ []<><<Restarts>>_vars
=============================================================================
