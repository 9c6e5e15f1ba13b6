------------------------------ MODULE Inventory ------------------------------
(***************************************************************************)
(* The stock of one workspace: raw items, whose key is a printing and a    *)
(* condition, and graded cards, whose key is a certificate; adding,        *)
(* editing with optimistic concurrency, bulk edits, and deletion           *)
(* (crates/api/src/catalogue/inventory.rs and items.rs).                   *)
(*                                                                         *)
(* A deletion keeps a row that a line of a sale refers to and marks it.    *)
(* No line does: the one statement that inserts lines, in ingest_sales,    *)
(* names no item.  So no row is ever marked here, and deletion removes.    *)
(*                                                                         *)
(* updated_at is the version of a row: NOW() is a clock that differs from  *)
(* statement to statement.  Of what can be edited, acquisition cost stands *)
(* for the fields without constraints.                                     *)
(***************************************************************************)
EXTENDS Integers, Sequences, FiniteSets

CONSTANTS
    Items,        \* ids of rows, of both tables
    Printings,
    Conditions,
    Certs,        \* certificates: grader and number
    Costs,
    Clients,      \* who edits: each holds a copy of one row
    Requests,     \* requests and background jobs in progress at once
    None,         \* SQL NULL, "no row yet"
    Gone,         \* a row that was removed: its id is not used again
    MaxQuantity,  \* the largest INTEGER
    MaxTime       \* bound: the clock

\* A raw item has a printing, a condition and a quantity; a graded card has a
\* certificate, and may have a printing and get a condition.
RowType ==
    [kind : {"raw"}, printing : Printings, cond : Conditions, qty : 1..MaxQuantity,
     cost : Costs \cup {None}, version : 1..MaxTime]
      \cup [kind : {"graded"}, printing : Printings \cup {None}, cert : Certs,
            cond : Conditions \cup {None}, qty : {1},
            cost : Costs \cup {None}, version : 1..MaxTime]

ASSUME InventoryAssumption ==
    /\ MaxQuantity \in Nat \ {0} /\ MaxTime \in Nat
    /\ None # Gone /\ None \notin Conditions \cup Costs \cup Nat \cup Printings
    /\ None \notin RowType /\ Gone \notin RowType

VARIABLES
    items,    \* inventory_items and card_instances
    now,      \* the clock
    held,     \* the copy of a row that each client holds
    req,      \* the program state of each request
    overtaken \* history: edits whose row was written to after they had checked it

stockVars == <<items, now, held, overtaken>>

Idle == [pc |-> "idle"]
IsIdle(q) == req[q].pc = "idle"
ReqBecomes(q, state) == req' = [req EXCEPT ![q] = state]
Ends(q) == ReqBecomes(q, Idle)

InventoryInit ==
    /\ items = [i \in Items |-> None]
    /\ now = 0
    /\ held = [c \in Clients |-> None]
    /\ req = [q \in Requests |-> Idle]
    /\ overtaken = {}

Rows == {i \in Items : items[i] \notin {None, Gone}}
Unused == {i \in Items : items[i] = None}
Raw == {i \in Rows : items[i].kind = "raw"}
Graded == Rows \ Raw
NewRaw(p, cond, n, cost) ==
    [kind |-> "raw", printing |-> p, cond |-> cond, qty |-> n, cost |-> cost, version |-> now + 1]
NewGraded(cert, p) ==
    [kind |-> "graded", printing |-> p, cert |-> cert, cond |-> None, qty |-> 1, cost |-> None,
     version |-> now + 1]

Content(row) == [cond |-> row.cond, qty |-> row.qty, cost |-> row.cost]
Copy(i) == [item |-> i, version |-> items[i].version, content |-> Content(items[i])]
Coalesce(new, old) == IF new = None THEN old ELSE new

\* A statement that writes takes the time.
Stamp == now < MaxTime /\ now' = now + 1

\* The edits of these items that are between their check and their UPDATE.
Editing(S) == {q \in Requests : req[q].pc = "update" /\ req[q].item \in S}
Overtakes(S) == overtaken' = overtaken \cup Editing(S)

-----------------------------------------------------------------------------
(* get_item, and the rows of a list                                        *)

Fetch(c, i) ==
    /\ i \in Rows
    /\ held' = [held EXCEPT ![c] = Copy(i)]
    /\ UNCHANGED <<items, now, req, overtaken>>

-----------------------------------------------------------------------------
(* add_item                                                                *)

At(p, cond) == {i \in Raw : items[i].printing = p /\ items[i].cond = cond}

\* ON CONFLICT DO UPDATE; the mutant does not set updated_at.
Increased_Unversioned(row, n, cost) ==
    [row EXCEPT !.qty = @ + n, !.cost = Coalesce(cost, @)]
Increased(row, n, cost) ==
    [row EXCEPT !.qty = @ + n, !.cost = Coalesce(cost, @), !.version = now + 1]

\* INSERT .. ON CONFLICT (workspace_id, printing_id, condition).
Upsert(p, cond, n, cost) ==
    /\ n > 0
    /\ Overtakes(At(p, cond))
    /\ Stamp
    /\ \/ /\ At(p, cond) = {}
          /\ \E i \in Unused :
               items' = [items EXCEPT ![i] = NewRaw(p, cond, n, cost)]
       \/ \E i \in At(p, cond) :
            /\ items[i].qty + n <= MaxQuantity
            /\ items' = [items EXCEPT ![i] = Increased(@, n, cost)]

AddRaw(p, cond, n, cost) ==
    /\ Upsert(p, cond, n, cost)
    /\ UNCHANGED <<held, req>>

\* add_card_instance looks for the certificate, and inserts.
Registered(cert) == \E i \in Graded : items[i].cert = cert

BeginAddGraded(q, cert, p) ==
    /\ IsIdle(q)
    /\ ~Registered(cert)
    /\ ReqBecomes(q, [pc |-> "addGraded", cert |-> cert, printing |-> p])
    /\ UNCHANGED stockVars

\* The index on certificates refuses a second row.
InsertGraded(cert, p) ==
    /\ ~Registered(cert)
    /\ Stamp
    /\ \E i \in Unused : items' = [items EXCEPT ![i] = NewGraded(cert, p)]

AddGraded(q) ==
    /\ req[q].pc = "addGraded"
    /\ \/ InsertGraded(req[q].cert, req[q].printing)
       \/ Registered(req[q].cert) /\ UNCHANGED <<items, now>>
    /\ Ends(q)
    /\ UNCHANGED <<held, overtaken>>

-----------------------------------------------------------------------------
(* patch_item: SELECT updated_at and compare, UPDATE, get_item             *)

\* server_ts = req.version; the mutant does not compare.
Fresh_Any(i, copy) == TRUE
Fresh(i, copy) == items[i].version = copy.version

BeginPatch(q, c, patch) ==
    /\ IsIdle(q)
    /\ held[c] # None
    /\ LET i == held[c].item IN
         /\ i \in Rows /\ Fresh(i, held[c])
         /\ ReqBecomes(q, [pc |-> "update", item |-> i, client |-> c, patch |-> patch,
                           seen |-> held[c].content])
    /\ overtaken' = overtaken \ {q}
    /\ UNCHANGED <<items, now, held>>

Patched(row, patch) ==
    [row EXCEPT !.cond = Coalesce(patch.cond, @),
                !.qty = IF row.kind = "raw" THEN Coalesce(patch.qty, @) ELSE @,
                !.cost = Coalesce(patch.cost, @),
                !.version = now + 1]

\* The CHECK and the unique index of inventory_items.
Permitted(i, row) ==
    row.kind = "raw" => row.qty \in 1..MaxQuantity /\ At(row.printing, row.cond) \subseteq {i}

\* The UPDATE does not ask for the version.
ApplyPatch(q) ==
    LET i == req[q].item IN
    /\ req[q].pc = "update"
    /\ \/ /\ i \in Rows /\ Permitted(i, Patched(items[i], req[q].patch))
          /\ Stamp
          /\ items' = [items EXCEPT ![i] = Patched(@, req[q].patch)]
          /\ overtaken' = (overtaken \cup Editing({i})) \ {q}
          /\ ReqBecomes(q, [req[q] EXCEPT !.pc = "reload"])
       \/ /\ i \in Rows /\ ~Permitted(i, Patched(items[i], req[q].patch))
          /\ Ends(q)
          /\ UNCHANGED <<items, now, overtaken>>
       \/ /\ i \notin Rows
          /\ ReqBecomes(q, [req[q] EXCEPT !.pc = "reload"])
          /\ UNCHANGED <<items, now, overtaken>>
    /\ UNCHANGED held

Reload(q) ==
    /\ req[q].pc = "reload"
    /\ held' = IF req[q].item \in Rows
               THEN [held EXCEPT ![req[q].client] = Copy(req[q].item)] ELSE held
    /\ Ends(q)
    /\ UNCHANGED <<items, now, overtaken>>

-----------------------------------------------------------------------------
(* bulk_items, Edit: one UPDATE of each table.                             *)

Edited(row, cond, cost) ==
    [row EXCEPT !.cond = Coalesce(cond, @), !.cost = Coalesce(cost, @), !.version = now + 1]

\* No two of the rows come to have one printing and condition.
Collides(ids, cond) ==
    cond # None /\ \E i, j \in Raw : /\ i # j /\ i \in ids /\ items[i].printing = items[j].printing
                                     /\ j \in ids \/ items[j].cond = cond

BulkEditRaw(q, ids, cond, cost) ==
    /\ IsIdle(q)
    /\ ids # {} /\ (cond # None \/ cost # None)
    /\ ~Collides(ids, cond)
    /\ Overtakes(Raw \cap ids)
    /\ Stamp
    /\ items' = [i \in Items |-> IF i \in Raw \cap ids THEN Edited(items[i], cond, cost) ELSE items[i]]
    /\ ReqBecomes(q, [pc |-> "bulkGraded", ids |-> ids, cond |-> cond, cost |-> cost])
    /\ UNCHANGED held

BulkEditGraded(q) ==
    /\ req[q].pc = "bulkGraded"
    /\ Overtakes(Graded \cap req[q].ids)
    /\ Stamp
    /\ items' = [i \in Items |-> IF i \in Graded \cap req[q].ids
                                 THEN Edited(items[i], req[q].cond, req[q].cost) ELSE items[i]]
    /\ Ends(q)
    /\ UNCHANGED held

-----------------------------------------------------------------------------
(* delete_item and bulk_items, Delete: SELECT the lines that refer to the  *)
(* items, which finds none, then a DELETE of each table.                   *)

BeginDelete(q, ids) ==
    /\ IsIdle(q)
    /\ ids # {}
    /\ ReqBecomes(q, [pc |-> "deleteRaw", ids |-> ids])
    /\ UNCHANGED stockVars

Deletes(S) == items' = [i \in Items |-> IF i \in S THEN Gone ELSE items[i]]

DeleteRaw(q) ==
    /\ req[q].pc = "deleteRaw"
    /\ Deletes(Raw \cap req[q].ids)
    /\ ReqBecomes(q, [req[q] EXCEPT !.pc = "deleteGraded"])
    /\ UNCHANGED <<now, held, overtaken>>

DeleteGraded(q) ==
    /\ req[q].pc = "deleteGraded"
    /\ Deletes(Graded \cap req[q].ids)
    /\ Ends(q)
    /\ UNCHANGED <<now, held, overtaken>>

Patches == [cond : Conditions \cup {None}, qty : (0..MaxQuantity) \cup {None}, cost : Costs \cup {None}]

EditStep ==
    \/ \E p \in Printings, cond \in Conditions, n \in 1..MaxQuantity, cost \in Costs \cup {None} :
         AddRaw(p, cond, n, cost)
    \/ \E c \in Clients, i \in Items : Fetch(c, i)
    \/ \E q \in Requests :
         \/ AddGraded(q) \/ ApplyPatch(q) \/ Reload(q) \/ BulkEditGraded(q)
         \/ \E cert \in Certs, p \in Printings \cup {None} : BeginAddGraded(q, cert, p)
         \/ \E c \in Clients, patch \in Patches : BeginPatch(q, c, patch)
         \/ \E ids \in SUBSET Items, cond \in Conditions \cup {None}, cost \in Costs \cup {None} :
              BulkEditRaw(q, ids, cond, cost)

DeleteStep ==
    \E q \in Requests :
      DeleteRaw(q) \/ DeleteGraded(q) \/ \E ids \in SUBSET Items : BeginDelete(q, ids)

-----------------------------------------------------------------------------
(* Properties.                                                             *)

\* "Client must echo back the updated_at it currently holds": an edit that takes
\* effect replaces exactly the content that its client has seen, whichever of the
\* other writers (an addition, an import, a bulk edit, another edit) has been at
\* the row since, unless one was there between the SELECT and the UPDATE of this
\* very edit (patch_item; every UPDATE sets updated_at).
NoLostEdit ==
    [][\A q \in Requests \ overtaken :
         req[q].pc = "update" /\ req'[q].pc = "reload" /\ req[q].item \in Rows =>
           Content(items[req[q].item]) = req[q].seen]_<<items, req>>
=============================================================================
