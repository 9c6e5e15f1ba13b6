------------------------------ MODULE StockPage ------------------------------
(***************************************************************************)
(* The inventory list of the web client                                    *)
(* (crates/web/src/routes/inventory/list.rs): pages that are loaded as the *)
(* user scrolls, filters, a selection, and its deletion or edit in bulk.   *)
(*                                                                         *)
(* The client runs on one thread: a handler, an effect or the rest of a    *)
(* task after its await runs to its end, so each is one step; the answers  *)
(* of the server come in any order.  The server is the part of it that the *)
(* page sees: the rows, which it answers with in the order of the list.    *)
(***************************************************************************)
EXTENDS Integers, FiniteSets, SequencesExt

CONSTANTS
    StockRows,  \* ids of rows, the newest the lowest
    Views,      \* filters; lists are in the order of creation, newest first
    Listing,    \* the rows that match a filter
    PerPage,    \* limit=50
    Fetches,    \* requests for a page, each made once at a time
    Bulks,      \* bulk requests, likewise
    Nothing

\* A request for a page with its answer, and a bulk request.
PageCall == [view : Views, cursor : StockRows \cup {Nothing}, served : BOOLEAN, page : Seq(StockRows)]
BulkCall == [op : {"delete", "edit"}, ids : SUBSET StockRows, served : BOOLEAN]

ASSUME StockPageAssumption ==
    /\ PerPage \in Nat \ {0}
    /\ StockRows \subseteq Nat /\ IsFiniteSet(StockRows)
    /\ \A v \in Views : Listing[v] \subseteq StockRows
    /\ Nothing \notin StockRows /\ Nothing \notin PageCall /\ Nothing \notin BulkCall

VARIABLES
    present,    \* the rows that the server has
    filter, loaded, nextCursor, isLoading, selected, showBulkEdit,  \* signals of the page
    fetching,   \* requests for pages, with the answer once the server has given it
    bulks,      \* bulk requests
    mixed,      \* history: the list was begun while a page was on its way
    unread      \* history: the first page of the list could not be read

listVars == <<filter, loaded, nextCursor, isLoading>>
stockPageVars == <<present, listVars, selected, showBulkEdit, fetching, bulks, mixed, unread>>

Shown == ToSet(loaded)
InFlight == {s \in Fetches : fetching[s] # Nothing}

\* A finite set of numbers as a sequence, from the least to the greatest, and the
\* elements of a sequence that are none of these (Vec::retain).
Rank(S, i) == Cardinality({j \in S : j < i})
InOrder(S) == [n \in 1..Cardinality(S) |-> CHOOSE i \in S : Rank(S, i) = n - 1]
Without(s, ids) ==
    LET kept == InOrder({n \in DOMAIN s : s[n] \notin ids}) IN [n \in DOMAIN kept |-> s[kept[n]]]

\* What the server answers: the first rows after the cursor, and a cursor if the
\* page is full.
After(v, c) == {i \in Listing[v] \cap present : c = Nothing \/ c < i}
PageAt(v, c) == InOrder({i \in After(v, c) : Rank(After(v, c), i) < PerPage})
CursorOf(page) == IF Len(page) = PerPage THEN Last(page) ELSE Nothing

Request(v, c) == [view |-> v, cursor |-> c, served |-> FALSE, page |-> <<>>]

StockPageInit ==
    /\ present = StockRows
    /\ filter \in Views
    /\ loaded = <<>> /\ nextCursor = Nothing /\ selected = {} /\ showBulkEdit = FALSE
    /\ isLoading = TRUE
    /\ \E s \in Fetches : fetching = [t \in Fetches |-> IF t = s THEN Request(filter, Nothing) ELSE Nothing]
    /\ bulks = [b \in Bulks |-> Nothing]
    /\ mixed = FALSE /\ unread = FALSE

-----------------------------------------------------------------------------
(* Loading.                                                                *)

\* What the effect sets when a list begins anew.
Cleared == selected' = {}

\* The effect on the filter: a request that is on its way is not called off.
Begin(s, v) ==
    /\ fetching[s] = Nothing
    /\ filter' = v
    /\ loaded' = <<>> /\ nextCursor' = Nothing /\ Cleared /\ showBulkEdit' = FALSE
    /\ isLoading' = TRUE
    /\ fetching' = [fetching EXCEPT ![s] = Request(v, Nothing)]
    /\ mixed' = (InFlight # {})
    /\ unread' = FALSE

ChangeFilter(s, v) == Begin(s, v) /\ UNCHANGED <<present, bulks>>

\* The guard of load_more; the mutant does not look at is_loading.
MayLoadMore_Always == nextCursor # Nothing
MayLoadMore == ~isLoading /\ nextCursor # Nothing

\* The last row comes into view.
LoadMore(s) ==
    /\ fetching[s] = Nothing
    /\ MayLoadMore
    /\ isLoading' = TRUE
    /\ fetching' = [fetching EXCEPT ![s] = Request(filter, nextCursor)]
    /\ UNCHANGED <<present, filter, loaded, nextCursor, selected, showBulkEdit, bulks, mixed, unread>>

ServePage(s) ==
    /\ fetching[s] # Nothing /\ ~fetching[s].served
    /\ fetching' = [fetching EXCEPT ![s].served = TRUE,
                                    ![s].page = PageAt(fetching[s].view, fetching[s].cursor)]
    /\ UNCHANGED <<present, listVars, selected, showBulkEdit, bulks, mixed, unread>>

\* The answer is added to whatever list there is now.
ReceivePage(s) ==
    /\ fetching[s] # Nothing /\ fetching[s].served
    /\ loaded' = loaded \o fetching[s].page
    /\ nextCursor' = CursorOf(fetching[s].page)
    /\ isLoading' = FALSE
    /\ fetching' = [fetching EXCEPT ![s] = Nothing]
    /\ UNCHANGED <<present, filter, selected, showBulkEdit, bulks, mixed, unread>>

\* Logged only: the page shows an empty list, or asks again where it was.
FetchFails(s) ==
    /\ fetching[s] # Nothing
    /\ isLoading' = FALSE
    /\ unread' = (unread \/ fetching[s].cursor = Nothing)
    /\ fetching' = [fetching EXCEPT ![s] = Nothing]
    /\ UNCHANGED <<present, filter, loaded, nextCursor, selected, showBulkEdit, bulks, mixed>>

-----------------------------------------------------------------------------
(* The selection.                                                          *)

ToggleSelect(i) ==
    /\ i \in Shown
    /\ selected' = (selected \cup {i}) \ (selected \cap {i})
    /\ UNCHANGED <<present, listVars, showBulkEdit, fetching, bulks, mixed, unread>>

SelectAll ==
    /\ selected' = Shown
    /\ UNCHANGED <<present, listVars, showBulkEdit, fetching, bulks, mixed, unread>>

ClearSelection ==
    /\ selected # {}
    /\ selected' = {} /\ showBulkEdit' = FALSE
    /\ UNCHANGED <<present, listVars, fetching, bulks, mixed, unread>>

ToggleEdit ==
    /\ selected # {} \/ showBulkEdit
    /\ showBulkEdit' = ~showBulkEdit
    /\ UNCHANGED <<present, listVars, selected, fetching, bulks, mixed, unread>>

-----------------------------------------------------------------------------
(* bulk_delete and BulkEditForm: the ids are those of the moment.          *)

SubmitBulk(b, op) ==
    /\ bulks[b] = Nothing
    /\ CASE op = "delete" -> selected # {}
         [] op = "edit" -> showBulkEdit
    /\ bulks' = [bulks EXCEPT ![b] = [op |-> op, ids |-> selected, served |-> FALSE]]
    /\ UNCHANGED <<present, listVars, selected, showBulkEdit, fetching, mixed, unread>>

ServeBulk(b) ==
    /\ bulks[b] # Nothing /\ ~bulks[b].served
    /\ present' = IF bulks[b].op = "delete" THEN present \ bulks[b].ids ELSE present
    /\ bulks' = [bulks EXCEPT ![b].served = TRUE]
    /\ UNCHANGED <<listVars, selected, showBulkEdit, fetching, mixed, unread>>

\* The whole selection is cleared, whatever has been selected since.
DeleteDone(b) ==
    /\ bulks[b] # Nothing /\ bulks[b].served /\ bulks[b].op = "delete"
    /\ loaded' = Without(loaded, bulks[b].ids)
    /\ selected' = {}
    /\ bulks' = [bulks EXCEPT ![b] = Nothing]
    /\ UNCHANGED <<present, filter, nextCursor, isLoading, showBulkEdit, fetching, mixed, unread>>

\* The filter is set to itself, and the list begins anew.
EditDone(b, s) ==
    /\ bulks[b] # Nothing /\ bulks[b].served /\ bulks[b].op = "edit"
    /\ Begin(s, filter)
    /\ bulks' = [bulks EXCEPT ![b] = Nothing]
    /\ UNCHANGED present

BulkFails(b) ==
    /\ bulks[b] # Nothing
    /\ bulks' = [bulks EXCEPT ![b] = Nothing]
    /\ UNCHANGED <<present, listVars, selected, showBulkEdit, fetching, mixed, unread>>

\* A row is sold, or deleted by another member.
RowVanishes(i) ==
    /\ i \in present
    /\ present' = present \ {i}
    /\ UNCHANGED <<listVars, selected, showBulkEdit, fetching, bulks, mixed, unread>>

StockPageStep ==
    \/ \E s \in Fetches : \/ \E v \in Views : ChangeFilter(s, v)
                          \/ LoadMore(s) \/ ServePage(s) \/ ReceivePage(s) \/ FetchFails(s)
    \/ \E i \in StockRows : ToggleSelect(i) \/ RowVanishes(i)
    \/ SelectAll \/ ClearSelection \/ ToggleEdit
    \/ \E b \in Bulks : \/ \E op \in {"delete", "edit"} : SubmitBulk(b, op)
                        \/ ServeBulk(b) \/ DeleteDone(b) \/ BulkFails(b)
                        \/ \E s \in Fetches : EditDone(b, s)

-----------------------------------------------------------------------------
(* Properties.                                                             *)

StockPageTypeOK ==
    /\ present \subseteq StockRows /\ selected \subseteq StockRows
    /\ filter \in Views /\ loaded \in Seq(StockRows)
    /\ nextCursor \in StockRows \cup {Nothing}
    /\ {isLoading, showBulkEdit, mixed, unread} \subseteq BOOLEAN
    /\ fetching \in [Fetches -> PageCall \cup {Nothing}]
    /\ bulks \in [Bulks -> BulkCall \cup {Nothing}]

\* What is shown is the beginning of the list that the filter asks for, in its
\* order and each row once, without a gap where a row still exists, and all of it
\* when the page asks for no more: whatever is deleted, by whom, and whatever
\* requests fail on the way (InventoryListPage: the effect, load_more,
\* bulk_delete).  Not so if the list was begun while a page was on its way: that
\* page is added to it.
ListFaithful ==
    LET there == Listing[filter] \cap present IN
    ~mixed =>
        /\ Shown \subseteq Listing[filter]
        /\ \A m, n \in DOMAIN loaded : m < n => loaded[m] < loaded[n]
        /\ \A i \in Shown : {j \in there : j < i} \subseteq Shown
        /\ InFlight = {} /\ nextCursor = Nothing /\ ~unread => there \subseteq Shown

\* Only rows on the page are selected, so that a bulk deletion never takes a row
\* that the user has filtered out of sight (the effect, bulk_delete).
SelectionShown == selected \subseteq Shown
=============================================================================
