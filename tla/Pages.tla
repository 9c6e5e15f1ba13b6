-------------------------------- MODULE Pages --------------------------------
(***************************************************************************)
(* A client that reads a list page by page with the cursor of each page,   *)
(* while rows are inserted and deleted: the inventory                      *)
(* (crates/api/src/catalogue/inventory.rs) and the risk flags              *)
(* (crates/api/src/fraud/routes.rs).                                       *)
(*                                                                         *)
(* Both cursors hold the creation time and the id of the last row, and     *)
(* both queries take the rows below it in that order, whatever the order   *)
(* of the list.  The inventory keeps the time as it is, and gives a cursor *)
(* with every full page; the flags keep milliseconds only, and give a      *)
(* cursor if there is another row.                                         *)
(***************************************************************************)
EXTENDS Integers, FiniteSets

CONSTANTS
    Ids,       \* ids of rows, in the order of UUIDs
    Absent,    \* no row, no cursor
    Ranks,     \* what a list may be sorted by instead: values, severities
    PageSize,  \* LIMIT
    Milli,     \* microseconds in a millisecond
    LastTime   \* bound: the clock, in microseconds

PageRow == [created : Nat, rank : Ranks]
PageCursor == [created : Nat, id : Ids]

ASSUME PagesAssumption ==
    /\ Absent \notin PageRow /\ Absent \notin PageCursor
    /\ Ids \subseteq Nat /\ Ranks \subseteq Nat
    /\ PageSize \in Nat \ {0} /\ Milli \in Nat \ {0} /\ LastTime \in Nat

VARIABLES
    rows,     \* the table
    micros,   \* the clock
    list,     \* which list is read, and its order
    cursor,   \* the cursor of the next page, Absent for the first
    shown,    \* how often each row has been shown
    reading,  \* "before", "during" or "after" the pages are read
    steady,   \* history: rows that have been there since the first page
    crowded   \* history: two rows were created in the same millisecond

pageVars == <<rows, micros, list, cursor, shown, reading, steady, crowded>>

Lists == [of : {"inventory", "flags"}, by : {"date", "rank"}, dir : {"desc", "asc"}]

PagesInit ==
    /\ rows = [i \in Ids |-> Absent]
    /\ micros = 0
    /\ list \in {l \in Lists : l.of = "flags" => l.dir = "desc"}
    /\ cursor = Absent
    /\ shown = [i \in Ids |-> 0]
    /\ reading = "before"
    /\ steady = {}
    /\ crowded = FALSE

Present == {i \in Ids : rows[i] # Absent}
Trunc(t) == t - (t % Milli)

PassTime ==
    /\ micros < LastTime
    /\ micros' = micros + 1
    /\ UNCHANGED <<rows, list, cursor, shown, reading, steady, crowded>>

InsertRow(i, rank) ==
    /\ rows[i] = Absent /\ shown[i] = 0
    /\ rows' = [rows EXCEPT ![i] = [created |-> micros, rank |-> rank]]
    /\ crowded' = (crowded \/ \E j \in Present : Trunc(rows[j].created) = Trunc(micros))
    /\ UNCHANGED <<micros, list, cursor, shown, reading, steady>>

DeleteRow(i) ==
    /\ i \in Present
    /\ rows' = [rows EXCEPT ![i] = Absent]
    /\ steady' = steady \ {i}
    /\ UNCHANGED <<micros, list, cursor, shown, reading, crowded>>

\* (created_at, id) < (cursor.created_at, cursor.id).  The mutant compares the
\* times alone.
Below_TimeAlone(created, i, c) == created < c.created
Below(created, i, c) == created < c.created \/ (created = c.created /\ i < c.id)

Selected == {i \in Present : cursor = Absent \/ Below(rows[i].created, i, cursor)}

\* ORDER BY: the columns of the order, and whether i comes before j.
Key(i) ==
    CASE list.by = "date" -> <<rows[i].created, i, i>>
      [] list.by = "rank" /\ list.of = "inventory" -> <<rows[i].rank, i, i>>
      [] list.by = "rank" /\ list.of = "flags" -> <<rows[i].rank, rows[i].created, i>>
Exceeds(k, l) == \E n \in 1..3 : k[n] > l[n] /\ \A m \in 1..(n - 1) : k[m] = l[m]
Precedes(i, j) == IF list.dir = "desc" THEN Exceeds(Key(i), Key(j)) ELSE Exceeds(Key(j), Key(i))

Page == {i \in Selected : Cardinality({j \in Selected : Precedes(j, i)}) < PageSize}

\* encode_cursor of the last row of the page.
CursorAfter(i) ==
    [created |-> IF list.of = "flags" THEN Trunc(rows[i].created) ELSE rows[i].created, id |-> i]

MorePages ==
    IF list.of = "flags" THEN Cardinality(Selected) > PageSize ELSE Cardinality(Page) = PageSize

ReadPage ==
    /\ reading # "after"
    /\ shown' = [i \in Ids |-> IF i \in Page THEN shown[i] + 1 ELSE shown[i]]
    /\ IF MorePages
       THEN /\ \E i \in Page : /\ \A j \in Page \ {i} : Precedes(j, i)
                               /\ cursor' = CursorAfter(i)
            /\ reading' = "during"
       ELSE reading' = "after" /\ UNCHANGED cursor
    /\ steady' = IF reading = "before" THEN Present ELSE steady
    /\ UNCHANGED <<rows, micros, list, crowded>>

PagesStep ==
    \/ PassTime \/ ReadPage
    \/ \E i \in Ids : DeleteRow(i) \/ \E r \in Ranks : InsertRow(i, r)

-----------------------------------------------------------------------------
(* Properties.                                                             *)

ByDate == list.by = "date" /\ list.dir = "desc"

\* Read newest first, a list shows no row twice, and in the end every row that
\* was there all along, whatever is inserted and deleted between the pages; the
\* flags only if no two of them were created in one millisecond (build_list_query,
\* encode_cursor, list_flags).  The other orders of the lists are not served by
\* this cursor.
PagesComplete ==
    ByDate => /\ \A i \in Ids : shown[i] <= 1
              /\ (reading = "after" /\ (list.of = "flags" => ~crowded)) =>
                    \A i \in steady : shown[i] = 1
=============================================================================
