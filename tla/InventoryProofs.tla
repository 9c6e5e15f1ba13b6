--------------------------- MODULE InventoryProofs ---------------------------
(***************************************************************************)
(* Theorems about the stock of a workspace, in the composition of all that *)
(* works on it, for any rows, clients, requests, files and jobs: no edit    *)
(* overwrites what its client has not seen, imports count what becomes of  *)
(* each record, and exports hold every row that was there all along.       *)
(*                                                                         *)
(* A step is described once by what it does to the rows and to the         *)
(* requests (RowsStep, ReqStep); the first invariant follows from that, and *)
(* the jobs need it for all the work beside them.                          *)
(***************************************************************************)
EXTENDS Catalogue, FiniteSetTheorems, TLAPS

-----------------------------------------------------------------------------
(* Types.                                                                  *)

ContentType == [cond : Conditions \cup {None}, qty : 1..MaxQuantity, cost : Costs \cup {None}]
CopyRow == [item : Items, version : Nat, content : ContentType]

AddReq == [pc : {"addGraded"}, cert : Certs, printing : Printings \cup {None}]
UpdateReq == [pc : {"update", "reload"}, item : Items, client : Clients, patch : Patches, seen : ContentType]
BulkReq == [pc : {"bulkGraded"}, ids : SUBSET Items, cond : Conditions \cup {None}, cost : Costs \cup {None}]
DeleteReq == [pc : {"deleteRaw", "deleteGraded"}, ids : SUBSET Items]
BeginReq == [pc : {"start", "read"}, job : Jobs, map : SUBSET DOMAIN Candidates]
RecordReq == [pc : {"record", "insert", "progress"}, job : Jobs, map : SUBSET DOMAIN Candidates,
              n : Nat \ {0}, imported : Nat, skipped : Nat]
RemoveReq == [pc : {"remove"}, job : Jobs]
ExportReq == [pc : {"exportStart"}, export : Exports]
SelectReq == [pc : {"exportRaw", "exportGraded", "exportWrite", "exportDone"}, export : Exports,
              rows : SUBSET Items]
StockReq ==
    {Idle} \cup AddReq \cup UpdateReq \cup BulkReq \cup DeleteReq \cup BeginReq \cup RecordReq
      \cup RemoveReq \cup ExportReq \cup SelectReq

ItemsOK == items \in [Items -> RowType \cup {None, Gone}] /\ now \in Nat
HeldOK == held \in [Clients -> CopyRow \cup {None}]
ReqOK == req \in [Requests -> StockReq]
JobsOK == jobs \in [Jobs -> JobRow \cup {None}]

Importing(q) == req[q].pc \in {"start", "read", "record", "insert", "progress"}

\* A run of a job has its file, and a record that is to be inserted is in it.
Insertable(q) == CertOf(q) # None /\ PrintingOf(q) \in Printings \cup {None}
RunsOK ==
    \A q \in Requests :
        /\ Importing(q) => jobs[req[q].job] # None
        /\ req[q].pc = "insert" => req[q].n \in 1..Len(jobs[req[q].job].file.records) /\ Insertable(q)

StockTypes == ItemsOK /\ HeldOK /\ ReqOK /\ JobsOK /\ RunsOK

LEMMA ReqIs ==
    ASSUME ReqOK, NEW q \in Requests
    PROVE  /\ req[q].pc = "idle" => req[q] = Idle
           /\ req[q].pc = "addGraded" => req[q] \in AddReq
           /\ req[q].pc \in {"update", "reload"} => req[q] \in UpdateReq
           /\ req[q].pc = "bulkGraded" => req[q] \in BulkReq
           /\ req[q].pc \in {"deleteRaw", "deleteGraded"} => req[q] \in DeleteReq
           /\ req[q].pc \in {"start", "read"} => req[q] \in BeginReq
           /\ req[q].pc \in {"record", "insert", "progress"} => req[q] \in RecordReq
           /\ req[q].pc = "remove" => req[q] \in RemoveReq
           /\ req[q].pc = "exportStart" => req[q] \in ExportReq
           /\ req[q].pc \in {"exportRaw", "exportGraded", "exportWrite", "exportDone"} =>
                req[q] \in SelectReq
<1>1. req[q] \in StockReq
  BY DEF ReqOK
<1> QED
  BY <1>1 DEF StockReq, Idle, AddReq, UpdateReq, BulkReq, DeleteReq, BeginReq, RecordReq, RemoveReq,
     ExportReq, SelectReq

LEMMA BecomesOne ==
    ASSUME ReqOK, NEW q \in Requests, NEW x, ReqBecomes(q, x)
    PROVE  /\ req'[q] = x
           /\ \A p \in Requests \ {q} : req'[p] = req[p]
           /\ x \in StockReq => ReqOK'
  BY DEF ReqBecomes, ReqOK

LEMMA RowIs ==
    ASSUME ItemsOK, NEW i \in Items
    PROVE  i \in Rows <=> items[i] \in RowType
  BY InventoryAssumption DEF ItemsOK, Rows

-----------------------------------------------------------------------------
(* What a statement writes.                                                *)

RawRow ==
    [kind : {"raw"}, printing : Printings, cond : Conditions, qty : 1..MaxQuantity,
     cost : Costs \cup {None}, version : 1..MaxTime]
GradedRow ==
    [kind : {"graded"}, printing : Printings \cup {None}, cert : Certs,
     cond : Conditions \cup {None}, qty : {1}, cost : Costs \cup {None}, version : 1..MaxTime]

LEMMA RowKinds ==
    /\ RowType = RawRow \cup GradedRow
    /\ \A row \in RowType : /\ row.kind = "raw" => row \in RawRow
                            /\ row.kind # "raw" => row \in GradedRow
  BY DEF RowType, RawRow, GradedRow

LEMMA NewRawIs ==
    ASSUME ItemsOK, Stamp, NEW p \in Printings, NEW cond \in Conditions, NEW n \in 1..MaxQuantity,
           NEW cost \in Costs \cup {None}
    PROVE  LET row == NewRaw(p, cond, n, cost) IN row \in RowType /\ row.version = now + 1
  BY InventoryAssumption DEF ItemsOK, Stamp, NewRaw, RowType

LEMMA NewGradedIs ==
    ASSUME ItemsOK, Stamp, NEW cert \in Certs, NEW p \in Printings \cup {None}
    PROVE  LET row == NewGraded(cert, p) IN row \in RowType /\ row.version = now + 1
  BY InventoryAssumption DEF ItemsOK, Stamp, NewGraded, RowType

LEMMA Stamped == ASSUME ItemsOK, Stamp PROVE now + 1 \in 1..MaxTime
  BY InventoryAssumption DEF ItemsOK, Stamp

LEMMA IncreasedIs ==
    ASSUME ItemsOK, Stamp, NEW row \in RowType, row.kind = "raw", NEW n \in 1..MaxQuantity,
           NEW cost \in Costs \cup {None}, row.qty + n <= MaxQuantity
    PROVE  /\ Increased(row, n, cost) \in RowType
           /\ Increased(row, n, cost).version = now + 1
           /\ Increased(row, n, cost).kind = row.kind
<1> DEFINE k == Coalesce(cost, row.cost)
           qty == row.qty + n
           v == now + 1
           new == Increased(row, n, cost)
<1>1. row \in RawRow /\ v \in 1..MaxTime
  BY RowKinds, Stamped
<1>2. k \in Costs \cup {None} /\ qty \in 1..MaxQuantity
  BY <1>1, InventoryAssumption DEF Coalesce, RawRow
<1>3. new = [row EXCEPT !.qty = qty, !.cost = k, !.version = v]
  BY DEF Increased
<1> HIDE DEF k, qty, v, new
<1>4. new \in RawRow /\ new.version = v /\ new.kind = row.kind
  BY <1>1, <1>2, <1>3 DEF RawRow
<1> QED BY <1>4, RowKinds DEF new, v

LEMMA EditedIs ==
    ASSUME ItemsOK, Stamp, NEW row \in RowType, NEW cond \in Conditions \cup {None},
           NEW cost \in Costs \cup {None}
    PROVE  /\ Edited(row, cond, cost) \in RowType
           /\ Edited(row, cond, cost).version = now + 1
           /\ Edited(row, cond, cost).kind = row.kind
<1> DEFINE c == Coalesce(cond, row.cond)
           k == Coalesce(cost, row.cost)
           v == now + 1
           new == Edited(row, cond, cost)
<1>1. v \in 1..MaxTime
  BY Stamped
<1>2. new = [row EXCEPT !.cond = c, !.cost = k, !.version = v]
  BY DEF Edited
<1>3. CASE row \in RawRow
  <2>1. k \in Costs \cup {None} /\ c \in Conditions
    BY <1>3 DEF Coalesce, RawRow
  <2> HIDE DEF c, k, v, new
  <2>2. new \in RawRow /\ new.version = v /\ new.kind = row.kind
    BY <1>1, <1>2, <1>3, <2>1 DEF RawRow
  <2> QED BY <2>2, RowKinds DEF new, v
<1>4. CASE row \in GradedRow
  <2>1. k \in Costs \cup {None} /\ c \in Conditions \cup {None}
    BY <1>4 DEF Coalesce, GradedRow
  <2> HIDE DEF c, k, v, new
  <2>2. new \in GradedRow /\ new.version = v /\ new.kind = row.kind
    BY <1>1, <1>2, <1>4, <2>1 DEF GradedRow
  <2> QED BY <2>2, RowKinds DEF new, v
<1> QED BY <1>3, <1>4, RowKinds

LEMMA PatchedIs ==
    ASSUME ItemsOK, Stamp, NEW row \in RowType, NEW patch \in Patches, NEW i, Permitted(i, Patched(row, patch))
    PROVE  /\ Patched(row, patch) \in RowType
           /\ Patched(row, patch).version = now + 1
           /\ Patched(row, patch).kind = row.kind
<1> DEFINE c == Coalesce(patch.cond, row.cond)
           n == IF row.kind = "raw" THEN Coalesce(patch.qty, row.qty) ELSE row.qty
           k == Coalesce(patch.cost, row.cost)
           v == now + 1
           new == Patched(row, patch)
<1>1. v \in 1..MaxTime
  BY Stamped
<1>2. new = [row EXCEPT !.cond = c, !.qty = n, !.cost = k, !.version = v]
  BY DEF Patched
<1>3. CASE row \in RawRow
  <2>1. k \in Costs \cup {None} /\ c \in Conditions
    BY <1>3 DEF Coalesce, RawRow, Patches
  <2>2. new.kind = "raw" => new.qty \in 1..MaxQuantity
    BY DEF Permitted
  <2> HIDE DEF c, n, k, v, new
  <2>3. new.kind = "raw" /\ new.qty = n
    BY <1>2, <1>3 DEF RawRow
  <2>4. new \in RawRow /\ new.version = v /\ new.kind = row.kind
    BY <1>1, <1>2, <1>3, <2>1, <2>2, <2>3 DEF RawRow
  <2> QED BY <2>4, RowKinds DEF new, v
<1>4. CASE row \in GradedRow
  <2>1. k \in Costs \cup {None} /\ c \in Conditions \cup {None} /\ n = 1
    BY <1>4 DEF Coalesce, GradedRow, Patches
  <2> HIDE DEF c, n, k, v, new
  <2>2. new \in GradedRow /\ new.version = v /\ new.kind = row.kind
    BY <1>1, <1>2, <1>4, <2>1 DEF GradedRow
  <2> QED BY <2>2, RowKinds DEF new, v
<1> QED BY <1>3, <1>4, RowKinds

-----------------------------------------------------------------------------
(* What a step does to the rows.                                           *)

Appears(i) ==
    items[i] = None /\ items'[i] \in RowType /\ items'[i].version = now + 1

\* Every other edit of a row that is written is marked, or is past its UPDATE.
Rewritten(i) ==
    /\ items[i] \in RowType /\ items'[i] \in RowType
    /\ items'[i].version = now + 1 /\ items'[i].kind = items[i].kind
    /\ \A q \in Editing({i}) : q \in overtaken' \/ req'[q].pc # "update"

Removed(i) == items[i] \in RowType /\ items'[i] = Gone

RowsStep ==
    /\ \A i \in Items : \/ items'[i] = items[i]
                        \/ (Appears(i) \/ Rewritten(i)) /\ now' = now + 1
                        \/ Removed(i)
    /\ now' \in {now, now + 1}
    /\ ItemsOK'

LEMMA RowsKept == ASSUME ItemsOK, UNCHANGED <<items, now>> PROVE RowsStep
  BY DEF RowsStep, ItemsOK

\* One row is written.
LEMMA OneRow ==
    ASSUME ItemsOK, Stamp, NEW i \in Items, NEW row \in RowType, items' = [items EXCEPT ![i] = row],
           Appears(i) \/ Rewritten(i)
    PROVE  RowsStep
  BY DEF RowsStep, ItemsOK, Stamp

LEMMA UpsertRows ==
    ASSUME ItemsOK, NEW p \in Printings, NEW cond \in Conditions, NEW n \in 1..MaxQuantity,
           NEW cost \in Costs \cup {None}, Upsert(p, cond, n, cost)
    PROVE  RowsStep
<1>1. Stamp /\ Overtakes(At(p, cond))
  BY DEF Upsert
<1>2. ASSUME NEW i \in Unused, items' = [items EXCEPT ![i] = NewRaw(p, cond, n, cost)] PROVE RowsStep
  <2> DEFINE row == NewRaw(p, cond, n, cost)
  <2>1. row \in RowType /\ row.version = now + 1
    BY <1>1, NewRawIs
  <2>2. i \in Items /\ items[i] = None
    BY DEF Unused
  <2> HIDE DEF row
  <2>3. items' = [items EXCEPT ![i] = row]
    BY <1>2 DEF row
  <2>4. Appears(i)
    BY <2>1, <2>2, <2>3 DEF Appears, ItemsOK
  <2> QED BY <1>1, <2>1, <2>2, <2>3, <2>4, OneRow
<1>3. ASSUME NEW i \in At(p, cond), items[i].qty + n <= MaxQuantity,
             items' = [items EXCEPT ![i] = Increased(@, n, cost)]
      PROVE  RowsStep
  <2> DEFINE row == Increased(items[i], n, cost)
  <2>1. i \in Items /\ i \in Rows /\ items[i].kind = "raw" /\ items[i] \in RowType
    BY RowIs DEF At, Raw, Rows
  <2>2. /\ row \in RowType /\ row.version = now + 1
        /\ row.kind = items[i].kind
    BY <1>1, <1>3, <2>1, IncreasedIs
  <2> HIDE DEF row
  <2>3. items' = [items EXCEPT ![i] = row]
    BY <1>3 DEF row
  <2>4. Rewritten(i)
    BY <1>1, <2>1, <2>2, <2>3 DEF Rewritten, ItemsOK, Overtakes, Editing
  <2> QED BY <1>1, <2>1, <2>2, <2>3, <2>4, OneRow
<1> QED BY <1>2, <1>3 DEF Upsert

LEMMA InsertGradedRows ==
    ASSUME ItemsOK, NEW cert \in Certs, NEW p \in Printings \cup {None}, InsertGraded(cert, p)
    PROVE  RowsStep
<1>1. PICK i \in Unused : items' = [items EXCEPT ![i] = NewGraded(cert, p)]
  BY DEF InsertGraded
<1> DEFINE row == NewGraded(cert, p)
<1>2. row \in RowType /\ row.version = now + 1 /\ Stamp
  BY NewGradedIs DEF InsertGraded
<1> HIDE DEF row
<1>3. i \in Items /\ items[i] = None /\ items' = [items EXCEPT ![i] = row]
  BY <1>1 DEF Unused, row
<1>4. Appears(i)
  BY <1>2, <1>3 DEF Appears, ItemsOK
<1> QED BY <1>2, <1>3, <1>4, OneRow

LEMMA ApplyPatchRows ==
    ASSUME StockTypes, NEW q \in Requests, ApplyPatch(q)
    PROVE  RowsStep
<1> DEFINE i == req[q].item
           row == Patched(items[i], req[q].patch)
<1>1. req[q] \in UpdateReq /\ i \in Items /\ req[q].patch \in Patches /\ req[q].pc = "update"
  BY ReqIs DEF ApplyPatch, StockTypes, UpdateReq
<1>2. CASE UNCHANGED <<items, now>>
  BY <1>2, RowsKept DEF StockTypes
<1>3. CASE /\ i \in Rows /\ Permitted(i, row) /\ Stamp
           /\ items' = [items EXCEPT ![i] = Patched(@, req[q].patch)]
           /\ overtaken' = (overtaken \cup Editing({i})) \ {q}
           /\ ReqBecomes(q, [req[q] EXCEPT !.pc = "reload"])
  <2>1. items[i] \in RowType
    BY <1>1, <1>3, RowIs DEF StockTypes
  <2>2. /\ row \in RowType /\ row.version = now + 1
        /\ row.kind = items[i].kind
    BY <1>1, <1>3, <2>1, PatchedIs DEF StockTypes
  <2> HIDE DEF row
  <2>3. items' = [items EXCEPT ![i] = row]
    BY <1>3 DEF row
  <2>4. req'[q].pc = "reload"
    BY <1>1, <1>3, BecomesOne DEF UpdateReq, StockTypes
  <2>5. Rewritten(i)
    BY <1>1, <1>3, <2>1, <2>2, <2>3, <2>4 DEF Rewritten, StockTypes, ItemsOK
  <2> QED BY <1>1, <1>3, <2>2, <2>3, <2>5, OneRow DEF StockTypes
<1> QED BY <1>2, <1>3 DEF ApplyPatch

\* Some rows are edited at once.
LEMMA BulkRows ==
    ASSUME ItemsOK, Stamp, NEW S \in SUBSET Rows, NEW cond \in Conditions \cup {None},
           NEW cost \in Costs \cup {None}, Overtakes(S),
           items' = [i \in Items |-> IF i \in S THEN Edited(items[i], cond, cost) ELSE items[i]]
    PROVE  RowsStep
<1>1. \A i \in Items \ S : items'[i] = items[i]
  OBVIOUS
<1>2. \A i \in S : i \in Items /\ items[i] \in RowType /\ items'[i] = Edited(items[i], cond, cost)
  BY RowIs DEF Rows
<1>3. \A i \in S : Rewritten(i) /\ items'[i] \in RowType
  <2> SUFFICES ASSUME NEW i \in S PROVE Rewritten(i) /\ items'[i] \in RowType
    OBVIOUS
  <2>1. Editing({i}) \subseteq overtaken'
    BY DEF Overtakes, Editing
  <2> QED BY <1>2, <2>1, EditedIs DEF Rewritten
<1>4. now' = now + 1
  BY DEF Stamp
<1>5. ItemsOK'
  BY <1>1, <1>3, <1>4 DEF ItemsOK
<1> QED BY <1>1, <1>3, <1>4, <1>5 DEF RowsStep

\* Some rows are removed at once.
LEMMA DeletesRows ==
    ASSUME ItemsOK, NEW S \in SUBSET Rows, Deletes(S), UNCHANGED now
    PROVE  RowsStep
<1>1. \A i \in Rows : i \in Items /\ items[i] \in RowType
  BY RowIs DEF Rows
<1>2. \A i \in Items : items'[i] = items[i] \/ (Removed(i) /\ items'[i] = Gone)
  BY <1>1 DEF Removed, Deletes
<1>3. items' = [i \in Items |-> items'[i]]
  BY DEF Deletes
<1> QED BY <1>2, <1>3 DEF RowsStep, ItemsOK

-----------------------------------------------------------------------------
(* What a step does to the requests and the copies.                        *)

\* An edit begins with the version of its client's copy.
Checked(q) ==
    LET i == req'[q].item IN
    /\ i \in Rows /\ UNCHANGED <<items, held>>
    /\ \A p \in Requests \ {q} : req'[p] = req[p]
    /\ \E c \in Clients : /\ held[c] # None /\ held[c].item = i
                          /\ held[c].version = items[i].version /\ req'[q].seen = held[c].content

ReqStep ==
    \A q \in Requests : \/ req'[q] = req[q]
                        \/ req'[q].pc # "update"
                        \/ req'[q].pc = "update" /\ Checked(q)

\* An edit that was marked stays so to its UPDATE.
MarksStep ==
    \A q \in overtaken : q \in Requests /\ req'[q].pc = "update" => q \in overtaken' \/ Checked(q)

HeldStep ==
    /\ \A c \in Clients : \/ held'[c] = held[c]
                          \/ UNCHANGED <<items, now>> /\ \E i \in Rows : held'[c] = Copy(i)
    /\ HeldOK'

StepOK == RowsStep /\ ReqOK' /\ JobsOK' /\ RunsOK' /\ ReqStep /\ HeldStep /\ MarksStep

LEMMA HeldKept == ASSUME HeldOK, UNCHANGED held PROVE HeldStep
  BY DEF HeldStep, HeldOK

\* A request goes on with something that is neither an edit nor a run of an import.
LEMMA GoesOn ==
    ASSUME StockTypes, NEW q \in Requests, NEW x \in StockReq, ReqBecomes(q, x), UNCHANGED jobs,
           x.pc \notin {"update", "start", "read", "record", "insert", "progress"}
    PROVE  ReqOK' /\ JobsOK' /\ RunsOK' /\ ReqStep
<1>1. req'[q] = x /\ (\A p \in Requests \ {q} : req'[p] = req[p]) /\ ReqOK'
  BY BecomesOne DEF StockTypes
<1>2. JobsOK'
  BY DEF StockTypes, JobsOK
<1>3. RunsOK'
  <2>1. \A p \in Requests \ {q} : Insertable(p)' = Insertable(p)
    BY <1>1 DEF Insertable, CertOf, PrintingOf, Record
  <2> QED BY <1>1, <2>1 DEF StockTypes, RunsOK, Importing
<1>4. ReqStep
  BY <1>1 DEF ReqStep
<1> QED BY <1>1, <1>2, <1>3, <1>4

LEMMA ReqKept == ASSUME StockTypes, UNCHANGED <<req, jobs>> PROVE ReqOK' /\ JobsOK' /\ RunsOK' /\ ReqStep
  BY DEF StockTypes, ReqOK, JobsOK, RunsOK, ReqStep, Importing, Insertable, CertOf, PrintingOf, Record

LEMMA IdleReq == Idle \in StockReq /\ Idle.pc = "idle"
  BY DEF StockReq, Idle

LEMMA EndsOn ==
    ASSUME StockTypes, NEW q \in Requests, Ends(q), UNCHANGED jobs
    PROVE  ReqOK' /\ JobsOK' /\ RunsOK' /\ ReqStep
  BY IdleReq, GoesOn DEF Ends

\* The rest of a step that changes requests only.
LEMMA RestKept ==
    ASSUME StockTypes, UNCHANGED stockVars, ReqOK' /\ JobsOK' /\ RunsOK' /\ ReqStep
    PROVE  StepOK
  BY RowsKept, HeldKept DEF StockTypes, stockVars, StepOK, MarksStep

-----------------------------------------------------------------------------
(* Edits.                                                                  *)

LEMMA CopyIs ==
    ASSUME ItemsOK, NEW i \in Rows
    PROVE  /\ Copy(i) \in CopyRow /\ Copy(i).item = i /\ Copy(i).version = items[i].version
           /\ Copy(i).content = Content(items[i])
<1>1. i \in Items /\ items[i] \in RowType
  BY RowIs DEF Rows
<1>2. items[i].version \in Nat /\ Content(items[i]) \in ContentType
  BY <1>1, InventoryAssumption DEF RowType, Content, ContentType
<1> QED BY <1>1, <1>2 DEF Copy, CopyRow

LEMMA AddRawOK ==
    ASSUME StockTypes, NEW p \in Printings, NEW cond \in Conditions, NEW n \in 1..MaxQuantity,
           NEW cost \in Costs \cup {None}, AddRaw(p, cond, n, cost), UNCHANGED jobs
    PROVE  StepOK
<1>1. RowsStep
  BY UpsertRows DEF AddRaw, StockTypes
<1> QED BY <1>1, ReqKept, HeldKept DEF AddRaw, Upsert, Overtakes, StockTypes, StepOK, MarksStep

LEMMA FetchOK ==
    ASSUME StockTypes, NEW c \in Clients, NEW i \in Items, Fetch(c, i), UNCHANGED jobs
    PROVE  StepOK
<1>1. HeldStep
  BY CopyIs DEF Fetch, StockTypes, HeldOK, HeldStep
<1> QED BY <1>1, ReqKept, RowsKept DEF Fetch, StockTypes, StepOK, MarksStep

LEMMA AddGradedOK ==
    ASSUME StockTypes, NEW q \in Requests, AddGraded(q), UNCHANGED jobs
    PROVE  StepOK
<1>1. req[q].cert \in Certs /\ req[q].printing \in Printings \cup {None}
  BY ReqIs DEF AddGraded, AddReq, StockTypes
<1>2. RowsStep
  BY <1>1, InsertGradedRows, RowsKept DEF AddGraded, StockTypes
<1> QED BY <1>2, EndsOn, HeldKept DEF AddGraded, StockTypes, StepOK, MarksStep

LEMMA BeginAddGradedOK ==
    ASSUME StockTypes, NEW q \in Requests, NEW cert \in Certs, NEW p \in Printings \cup {None},
           BeginAddGraded(q, cert, p), UNCHANGED jobs
    PROVE  StepOK
<1> DEFINE x == [pc |-> "addGraded", cert |-> cert, printing |-> p]
<1>1. x \in StockReq /\ x.pc = "addGraded"
  BY DEF StockReq, AddReq
<1>2. ReqBecomes(q, x) /\ UNCHANGED stockVars
  BY DEF BeginAddGraded
<1> HIDE DEF x
<1> QED BY <1>1, <1>2, GoesOn, RestKept

LEMMA BeginPatchOK ==
    ASSUME StockTypes, NEW q \in Requests, NEW c \in Clients, NEW patch \in Patches, BeginPatch(q, c, patch),
           UNCHANGED jobs
    PROVE  StepOK
<1> DEFINE i == held[c].item
           x == [pc |-> "update", item |-> i, client |-> c, patch |-> patch, seen |-> held[c].content]
<1>1. /\ held[c] \in CopyRow /\ i \in Items /\ i \in Rows
      /\ held[c] # None /\ held[c].version = items[i].version
      /\ UNCHANGED <<items, now, held>> /\ overtaken' = overtaken \ {q} /\ ReqBecomes(q, x)
  BY DEF BeginPatch, StockTypes, HeldOK, CopyRow, Fresh
<1>2. x \in UpdateReq /\ x.pc = "update" /\ x.item = i /\ x.seen = held[c].content
  BY <1>1 DEF UpdateReq, CopyRow
<1>3. x \in StockReq
  BY <1>2 DEF StockReq
<1> HIDE DEF x
<1>4. req'[q] = x /\ (\A p \in Requests \ {q} : req'[p] = req[p]) /\ ReqOK'
  BY <1>1, <1>3, BecomesOne DEF StockTypes
<1>5. Checked(q)
  BY <1>1, <1>2, <1>4 DEF Checked
<1>6. ReqStep
  BY <1>2, <1>4, <1>5 DEF ReqStep
<1>7. JobsOK' /\ RunsOK'
  <2>1. \A p \in Requests \ {q} : Insertable(p)' = Insertable(p)
    BY <1>4 DEF Insertable, CertOf, PrintingOf, Record
  <2> QED BY <1>2, <1>4, <2>1 DEF StockTypes, JobsOK, RunsOK, Importing
<1>8. MarksStep
  BY <1>1, <1>5 DEF MarksStep
<1> QED BY <1>1, <1>4, <1>6, <1>7, <1>8, RowsKept, HeldKept DEF StockTypes, StepOK

LEMMA ApplyPatchOK ==
    ASSUME StockTypes, NEW q \in Requests, ApplyPatch(q), UNCHANGED jobs
    PROVE  StepOK
<1> DEFINE x == [req[q] EXCEPT !.pc = "reload"]
<1>1. req[q] \in UpdateReq
  BY ReqIs DEF ApplyPatch, StockTypes
<1>2. x \in StockReq /\ x.pc = "reload"
  BY <1>1 DEF UpdateReq, StockReq
<1>3. ReqBecomes(q, x) \/ Ends(q)
  BY DEF ApplyPatch
<1> HIDE DEF x
<1>4. ReqOK' /\ JobsOK' /\ RunsOK' /\ ReqStep
  BY <1>2, <1>3, GoesOn, EndsOn
<1>5. RowsStep
  BY ApplyPatchRows
<1>6. req'[q].pc # "update"
  BY <1>2, <1>3, IdleReq, BecomesOne DEF Ends, StockTypes
<1>7. MarksStep
  BY <1>6 DEF ApplyPatch, MarksStep
<1> QED BY <1>4, <1>5, <1>7, HeldKept DEF ApplyPatch, StockTypes, StepOK

LEMMA ReloadOK ==
    ASSUME StockTypes, NEW q \in Requests, Reload(q), UNCHANGED jobs
    PROVE  StepOK
<1>1. req[q] \in UpdateReq /\ req[q].client \in Clients
  BY ReqIs DEF Reload, StockTypes, UpdateReq
<1>2. HeldStep
  BY <1>1, CopyIs DEF Reload, StockTypes, HeldOK, HeldStep
<1> QED BY <1>2, EndsOn, RowsKept DEF Reload, StockTypes, StepOK, MarksStep

LEMMA BulkEditRawOK ==
    ASSUME StockTypes, NEW q \in Requests, NEW ids \in SUBSET Items, NEW cond \in Conditions \cup {None},
           NEW cost \in Costs \cup {None}, BulkEditRaw(q, ids, cond, cost), UNCHANGED jobs
    PROVE  StepOK
<1> DEFINE x == [pc |-> "bulkGraded", ids |-> ids, cond |-> cond, cost |-> cost]
<1>1. x \in StockReq /\ x.pc = "bulkGraded"
  BY DEF StockReq, BulkReq
<1>2. ReqBecomes(q, x)
  BY DEF BulkEditRaw
<1> HIDE DEF x
<1>3. ReqOK' /\ JobsOK' /\ RunsOK' /\ ReqStep
  BY <1>1, <1>2, GoesOn
<1>4. RowsStep
  <2>1. Raw \cap ids \subseteq Rows
    BY DEF Raw
  <2> QED BY <2>1, BulkRows DEF BulkEditRaw, StockTypes
<1> QED BY <1>3, <1>4, HeldKept DEF BulkEditRaw, Overtakes, StockTypes, StepOK, MarksStep

LEMMA BulkEditGradedOK ==
    ASSUME StockTypes, NEW q \in Requests, BulkEditGraded(q), UNCHANGED jobs
    PROVE  StepOK
<1>1. /\ req[q].ids \in SUBSET Items /\ req[q].cond \in Conditions \cup {None}
      /\ req[q].cost \in Costs \cup {None}
  BY ReqIs DEF BulkEditGraded, StockTypes, BulkReq
<1>2. RowsStep
  <2>1. Graded \cap req[q].ids \subseteq Rows
    BY DEF Graded
  <2> QED BY <1>1, <2>1, BulkRows DEF BulkEditGraded, StockTypes
<1> QED BY <1>2, EndsOn, HeldKept DEF BulkEditGraded, Overtakes, StockTypes, StepOK, MarksStep

-----------------------------------------------------------------------------
(* Deletions.                                                              *)

LEMMA BeginDeleteOK ==
    ASSUME StockTypes, NEW q \in Requests, NEW ids \in SUBSET Items, BeginDelete(q, ids), UNCHANGED jobs
    PROVE  StepOK
<1> DEFINE x == [pc |-> "deleteRaw", ids |-> ids]
<1>1. x \in StockReq /\ x.pc = "deleteRaw"
  BY DEF StockReq, DeleteReq
<1>2. ReqBecomes(q, x) /\ UNCHANGED stockVars
  BY DEF BeginDelete
<1> HIDE DEF x
<1> QED BY <1>1, <1>2, GoesOn, RestKept

LEMMA DeleteRawOK ==
    ASSUME StockTypes, NEW q \in Requests, DeleteRaw(q), UNCHANGED jobs
    PROVE  StepOK
<1> DEFINE x == [req[q] EXCEPT !.pc = "deleteGraded"]
<1>1. x \in StockReq /\ x.pc = "deleteGraded"
  BY ReqIs DEF DeleteRaw, StockTypes, StockReq, DeleteReq
<1>2. ReqBecomes(q, x)
  BY DEF DeleteRaw
<1> HIDE DEF x
<1>3. RowsStep
  BY DeletesRows DEF DeleteRaw, Raw, StockTypes
<1> QED BY <1>1, <1>2, <1>3, GoesOn, HeldKept DEF DeleteRaw, StockTypes, StepOK, MarksStep

LEMMA DeleteGradedOK ==
    ASSUME StockTypes, NEW q \in Requests, DeleteGraded(q), UNCHANGED jobs
    PROVE  StepOK
<1>1. RowsStep
  BY DeletesRows DEF DeleteGraded, Graded, StockTypes
<1> QED BY <1>1, EndsOn, HeldKept DEF DeleteGraded, StockTypes, StepOK, MarksStep

-----------------------------------------------------------------------------
(* Imports.                                                                *)

LEMMA JobKinds ==
    ASSUME JobsOK, NEW j \in Jobs, jobs[j] # None
    PROVE  jobs[j] \in JobRow /\ jobs[j].file \in Files
  BY DEF JobsOK, JobRow

\* Runs that are not of this request keep their files.
LEMMA FilesKept ==
    ASSUME StockTypes, NEW q \in Requests, NEW x \in StockReq, ReqBecomes(q, x), JobsOK',
           \A j \in Jobs : jobs[j] # None => jobs'[j] # None /\ jobs'[j].file = jobs[j].file,
           x.pc \in {"start", "read", "record", "insert", "progress"} => jobs'[x.job] # None,
           x.pc = "insert" => x.n \in 1..Len(jobs'[x.job].file.records) /\ Insertable(q)',
           x.pc # "update"
    PROVE  ReqOK' /\ RunsOK' /\ ReqStep
<1>1. req'[q] = x /\ (\A p \in Requests \ {q} : req'[p] = req[p]) /\ ReqOK'
  BY BecomesOne DEF StockTypes
<1>2. RunsOK'
  <2> SUFFICES ASSUME NEW p \in Requests
               PROVE  /\ Importing(p)' => jobs'[req'[p].job] # None
                      /\ req'[p].pc = "insert" => /\ req'[p].n \in 1..Len(jobs'[req'[p].job].file.records)
                                                  /\ Insertable(p)'
    BY DEF RunsOK
  <2>1. CASE p = q
    BY <1>1, <2>1 DEF Importing
  <2>2. CASE p # q
    <3>1. Importing(p) => req[p].job \in Jobs /\ jobs[req[p].job] # None
      BY ReqIs DEF Importing, StockTypes, RunsOK, BeginReq, RecordReq
    <3>2. req'[p] = req[p]
      BY <1>1, <2>2
    <3>3. Importing(p) => jobs'[req[p].job] # None /\ jobs'[req[p].job].file = jobs[req[p].job].file
      BY <3>1
    <3>4. Importing(p) => Insertable(p)' = Insertable(p)
      BY <3>2, <3>3 DEF Insertable, CertOf, PrintingOf, Record
    <3>5. req[p].pc = "insert" => /\ req[p].n \in 1..Len(jobs[req[p].job].file.records)
                                  /\ Insertable(p)
      BY DEF StockTypes, RunsOK
    <3> QED BY <3>1, <3>2, <3>3, <3>4, <3>5 DEF Importing
  <2> QED BY <2>1, <2>2
<1>3. ReqStep
  BY <1>1 DEF ReqStep
<1> QED BY <1>1, <1>2, <1>3

\* A request that goes on with its run, the jobs staying as they are.
LEMMA RunsOn ==
    ASSUME StockTypes, NEW q \in Requests, NEW x \in StockReq, ReqBecomes(q, x), UNCHANGED jobs,
           x.pc \in {"start", "read", "record", "insert", "progress"} => jobs[x.job] # None,
           x.pc = "insert" => x.n \in 1..Len(jobs[x.job].file.records) /\ Insertable(q)',
           x.pc # "update"
    PROVE  ReqOK' /\ JobsOK' /\ RunsOK' /\ ReqStep
<1>1. JobsOK'
  BY DEF StockTypes, JobsOK
<1> QED BY <1>1, FilesKept

\* A job's row changes in what its run writes.
LEMMA JobChanged ==
    ASSUME JobsOK, NEW j \in Jobs, jobs[j] # None, NEW row \in JobRow, row.file = jobs[j].file,
           jobs' = [jobs EXCEPT ![j] = row]
    PROVE  /\ JobsOK'
           /\ \A k \in Jobs : jobs[k] # None => jobs'[k] # None /\ jobs'[k].file = jobs[k].file
  BY CsvAssumption DEF JobsOK

LEMMA DetectedIs == ASSUME NEW headers PROVE Detected(headers) \in SUBSET DOMAIN Candidates
  BY DEF Detected

LEMMA RunIs ==
    ASSUME NEW j \in Jobs, NEW map \in SUBSET DOMAIN Candidates
    PROVE  Run(j, map) \in StockReq /\ Run(j, map).pc = "start" /\ Run(j, map).job = j
  BY DEF Run, StockReq, BeginReq

LEMMA StartImportOK ==
    ASSUME StockTypes, NEW q \in Requests, NEW j \in Jobs, NEW file \in Files,
           NEW given \in {None} \cup SUBSET DOMAIN Candidates, StartImport(q, j, file, given)
    PROVE  StepOK
<1> DEFINE map == IF given = None THEN Detected(file.headers) ELSE given
           row == [status |-> "queued", file |-> file, total |-> None,
                   processed |-> 0, imported |-> 0, skipped |-> 0, report |-> FALSE]
<1>1. row \in JobRow
  BY DEF JobRow
<1>2. jobs' = [jobs EXCEPT ![j] = row] /\ jobs[j] = None /\ UNCHANGED stockVars
  BY DEF StartImport
<1> HIDE DEF row
<1>3. /\ JobsOK' /\ jobs'[j] # None
      /\ \A k \in Jobs : jobs[k] # None => jobs'[k] # None /\ jobs'[k].file = jobs[k].file
  BY <1>1, <1>2, CsvAssumption DEF StockTypes, JobsOK
<1>4. CASE ReqBecomes(q, Run(j, map))
  <2> DEFINE x == Run(j, map)
  <2>1. x \in StockReq /\ x.pc = "start" /\ x.job = j
    <3>1. map \in SUBSET DOMAIN Candidates
      BY DetectedIs
    <3> HIDE DEF map
    <3> QED BY <3>1, RunIs
  <2> HIDE DEF x
  <2>2. ReqOK' /\ RunsOK' /\ ReqStep
    BY <1>3, <1>4, <2>1, FilesKept DEF x
  <2> QED BY <1>2, <1>3, <2>2, RestKept
<1>5. CASE UNCHANGED req
  <2>1. ReqOK' /\ ReqStep
    BY <1>5 DEF StockTypes, ReqOK, ReqStep
  <2>2. RunsOK'
    <3> SUFFICES ASSUME NEW p \in Requests, Importing(p)
                 PROVE  /\ jobs'[req[p].job] # None
                        /\ req[p].pc = "insert" => /\ req[p].n \in 1..Len(jobs'[req[p].job].file.records)
                                                   /\ Insertable(p)'
      BY <1>5 DEF RunsOK, Importing
    <3>1. req[p].job \in Jobs /\ jobs[req[p].job] # None
      BY ReqIs DEF Importing, StockTypes, RunsOK, BeginReq, RecordReq
    <3>2. jobs'[req[p].job] # None /\ jobs'[req[p].job].file = jobs[req[p].job].file
      BY <1>3, <3>1
    <3>3. Insertable(p)' = Insertable(p)
      BY <1>5, <3>2 DEF Insertable, CertOf, PrintingOf, Record
    <3> QED BY <3>2, <3>3 DEF StockTypes, RunsOK
  <2> QED BY <1>2, <1>3, <2>1, <2>2, RestKept
<1> QED BY <1>4, <1>5 DEF StartImport

LEMMA ConfirmOK ==
    ASSUME StockTypes, NEW q \in Requests, NEW j \in Jobs, NEW map \in SUBSET DOMAIN Candidates,
           Confirm(q, j, map)
    PROVE  StepOK
<1> DEFINE x == Run(j, map)
<1>1. x \in StockReq /\ x.pc = "start" /\ x.job = j
  BY RunIs
<1>2. ReqBecomes(q, x) /\ jobs[j] # None /\ UNCHANGED stockVars /\ UNCHANGED jobs
  BY DEF Confirm, csvVars
<1> HIDE DEF x
<1> QED BY <1>1, <1>2, RunsOn, RestKept

LEMMA SetRunningOK == ASSUME StockTypes, NEW q \in Requests, SetRunning(q) PROVE StepOK
<1> DEFINE j == req[q].job
           x == [req[q] EXCEPT !.pc = "read"]
           row == [jobs[j] EXCEPT !.status = "running"]
<1>1. req[q] \in BeginReq /\ j \in Jobs /\ jobs[j] # None /\ jobs[j] \in JobRow
  BY ReqIs, JobKinds DEF SetRunning, StockTypes, RunsOK, Importing, BeginReq
<1>2. ReqBecomes(q, x) /\ jobs' = [jobs EXCEPT ![j] = row] /\ UNCHANGED stockVars
  BY DEF SetRunning
<1>3. x \in BeginReq /\ x.pc = "read" /\ x.job = j
  BY <1>1 DEF BeginReq
<1>4. row \in JobRow /\ row.file = jobs[j].file
  BY <1>1 DEF JobRow
<1> HIDE DEF x, row
<1>5. x \in StockReq
  BY <1>3 DEF StockReq
<1>6. JobsOK' /\ \A k \in Jobs : jobs[k] # None => jobs'[k] # None /\ jobs'[k].file = jobs[k].file
  BY <1>1, <1>2, <1>4, JobChanged DEF StockTypes
<1>7. ReqOK' /\ RunsOK' /\ ReqStep
  BY <1>1, <1>2, <1>3, <1>5, <1>6, FilesKept
<1> QED BY <1>2, <1>6, <1>7, RestKept

LEMMA ReadFileOK == ASSUME StockTypes, NEW q \in Requests, ReadFile(q) PROVE StepOK
<1> DEFINE j == req[q].job
           x == [pc |-> "record", job |-> j, map |-> req[q].map, n |-> 1, imported |-> 0, skipped |-> 0]
           row == [jobs[j] EXCEPT !.total = Len(jobs[j].file.records)]
<1>1. req[q] \in BeginReq /\ j \in Jobs /\ jobs[j] # None /\ jobs[j] \in JobRow /\ jobs[j].file \in Files
  BY ReqIs, JobKinds DEF ReadFile, StockTypes, RunsOK, Importing, BeginReq
<1>2. UNCHANGED stockVars
  BY DEF ReadFile
<1>3. CASE jobs' = [jobs EXCEPT ![j].total = Len(jobs[j].file.records)] /\ ReqBecomes(q, x)
  <2>1. jobs' = [jobs EXCEPT ![j] = row]
    BY <1>3
  <2>2. x \in RecordReq /\ x.pc = "record" /\ x.job = j
    BY <1>1 DEF BeginReq, RecordReq
  <2>3. row \in JobRow /\ row.file = jobs[j].file
    <3> DEFINE n == Len(jobs[j].file.records)
    <3>1. n \in {Len(file.records) : file \in Files} /\ row = [jobs[j] EXCEPT !.total = n]
      BY <1>1
    <3> HIDE DEF n, row
    <3> QED BY <1>1, <3>1 DEF JobRow
  <2> HIDE DEF x, row
  <2>4. x \in StockReq
    BY <2>2 DEF StockReq
  <2>5. JobsOK' /\ \A k \in Jobs : jobs[k] # None => jobs'[k] # None /\ jobs'[k].file = jobs[k].file
    BY <1>1, <2>1, <2>3, JobChanged DEF StockTypes
  <2>6. ReqOK' /\ RunsOK' /\ ReqStep
    BY <1>1, <1>3, <2>2, <2>4, <2>5, FilesKept DEF x
  <2> QED BY <1>2, <2>5, <2>6, RestKept
<1>4. CASE Ends(q) /\ UNCHANGED jobs
  BY <1>2, <1>4, EndsOn, RestKept
<1> QED BY <1>3, <1>4 DEF ReadFile

\* A record that is read and what the next state of its run is.
LEMMA RecordRuns ==
    ASSUME StockTypes, NEW q \in Requests, Importing(q), req[q].pc \in {"record", "insert", "progress"}
    PROVE  /\ req[q] \in RecordReq /\ req[q].job \in Jobs
           /\ jobs[req[q].job] # None /\ jobs[req[q].job] \in JobRow /\ jobs[req[q].job].file \in Files
  BY ReqIs, JobKinds DEF StockTypes, RunsOK, RecordReq

LEMMA SkippedOn ==
    ASSUME StockTypes, NEW q \in Requests, req[q].pc = "record", Skipped(q), UNCHANGED jobs
    PROVE  ReqOK' /\ JobsOK' /\ RunsOK' /\ ReqStep
<1> DEFINE n == req[q].n + 1
           s == req[q].skipped + 1
           x == [req[q] EXCEPT !.n = n, !.skipped = s]
<1>1. req[q] \in RecordReq /\ jobs[req[q].job] # None
  BY RecordRuns DEF Importing
<1>2. n \in Nat \ {0} /\ s \in Nat
  BY <1>1 DEF RecordReq
<1>3. ReqBecomes(q, x)
  BY DEF Skipped
<1> HIDE DEF n, s
<1>4. x \in RecordReq /\ x.pc = "record" /\ x.job = req[q].job
  BY <1>1, <1>2 DEF RecordReq
<1> HIDE DEF x
<1>5. x \in StockReq
  BY <1>4 DEF StockReq
<1> QED BY <1>1, <1>3, <1>4, <1>5, RunsOn

LEMMA ImportedOn ==
    ASSUME StockTypes, NEW q \in Requests, req[q].pc \in {"record", "insert"}, Imported(q), UNCHANGED jobs
    PROVE  ReqOK' /\ JobsOK' /\ RunsOK' /\ ReqStep
<1> DEFINE n == req[q].n + 1
           s == req[q].imported + 1
           pc == IF req[q].n % ProgressEvery = 0 THEN "progress" ELSE "record"
           x == [req[q] EXCEPT !.pc = pc, !.n = n, !.imported = s]
<1>1. req[q] \in RecordReq /\ jobs[req[q].job] # None
  BY RecordRuns DEF Importing
<1>2. n \in Nat \ {0} /\ s \in Nat /\ pc \in {"progress", "record"}
  BY <1>1 DEF RecordReq
<1>3. ReqBecomes(q, x)
  BY DEF Imported
<1> HIDE DEF n, s, pc
<1>4. x \in RecordReq /\ x.pc = pc /\ x.job = req[q].job
  BY <1>1, <1>2 DEF RecordReq
<1> HIDE DEF x
<1>5. x \in StockReq
  BY <1>4 DEF StockReq
<1>6. x.pc \notin {"insert", "update"}
  BY <1>2, <1>4
<1> QED BY <1>1, <1>3, <1>4, <1>5, <1>6, RunsOn

LEMMA SkipRecordOK == ASSUME StockTypes, NEW q \in Requests, SkipRecord(q) PROVE StepOK
<1>1. req[q].pc = "record" /\ Skipped(q) /\ UNCHANGED stockVars /\ UNCHANGED jobs
  BY DEF SkipRecord, Reading, csvVars
<1> QED BY <1>1, SkippedOn, RestKept

LEMMA ImportRawOK == ASSUME StockTypes, NEW q \in Requests, ImportRaw(q) PROVE StepOK
<1> DEFINE p == PrintingOf(q)
<1>1. /\ req[q].pc = "record" /\ p \in Printings \cup {None}
      /\ Record(q).cond \in Conditions /\ Record(q).qty \in 1..MaxQuantity
      /\ UNCHANGED <<held, jobs>>
  BY DEF ImportRaw, Readable, Reading
<1>2. CASE p # None /\ Upsert(p, Record(q).cond, Record(q).qty, None) /\ Imported(q)
  <2>1. RowsStep
    <3> DEFINE cond == Record(q).cond
               n == Record(q).qty
    <3> HIDE DEF p, cond, n
    <3>1. p \in Printings /\ cond \in Conditions /\ n \in 1..MaxQuantity /\ Upsert(p, cond, n, None)
      BY <1>1, <1>2 DEF p, cond, n
    <3> QED BY <3>1, UpsertRows DEF StockTypes
  <2>2. ReqOK' /\ JobsOK' /\ RunsOK' /\ ReqStep
    BY <1>1, <1>2, ImportedOn
  <2> QED BY <1>1, <1>2, <2>1, <2>2, HeldKept DEF Upsert, Overtakes, StockTypes, StepOK, MarksStep
<1>3. CASE Ends(q) /\ UNCHANGED <<items, now, overtaken>>
  BY <1>1, <1>3, EndsOn, RestKept DEF stockVars
<1> QED BY <1>2, <1>3 DEF ImportRaw

LEMMA CheckCertOK == ASSUME StockTypes, NEW q \in Requests, CheckCert(q) PROVE StepOK
<1> DEFINE x == [req[q] EXCEPT !.pc = "insert"]
<1>1. /\ req[q].pc = "record" /\ Insertable(q) /\ UNCHANGED stockVars /\ UNCHANGED jobs
      /\ req[q].n <= Len(jobs[req[q].job].file.records)
  BY DEF CheckCert, Readable, Reading, csvVars, Insertable
<1>2. CASE Skipped(q)
  BY <1>1, <1>2, SkippedOn, RestKept
<1>3. CASE ReqBecomes(q, x)
  <2>1. req[q] \in RecordReq /\ jobs[req[q].job] # None /\ jobs[req[q].job].file \in Files
    BY <1>1, RecordRuns DEF Importing
  <2>2. /\ x \in RecordReq /\ x.pc = "insert" /\ x.job = req[q].job /\ x.n = req[q].n
        /\ x.map = req[q].map
    BY <2>1 DEF RecordReq
  <2> HIDE DEF x
  <2>3. x \in StockReq
    BY <2>2 DEF StockReq
  <2>4. Insertable(q)' = Insertable(q)
    <3>1. req'[q] = x
      BY <1>3, <2>3, BecomesOne DEF StockTypes
    <3> QED BY <1>1, <2>2, <3>1 DEF Insertable, CertOf, PrintingOf, Record
  <2>5. x.n \in 1..Len(jobs[x.job].file.records)
    <3>1. req[q].n \in Nat \ {0}
      BY <2>1 DEF RecordReq
    <3>2. Len(jobs[req[q].job].file.records) \in Nat
      BY <2>1, CsvAssumption
    <3> QED BY <1>1, <2>2, <3>1, <3>2
  <2> QED BY <1>1, <1>3, <2>1, <2>2, <2>3, <2>4, <2>5, RunsOn, RestKept
<1> QED BY <1>2, <1>3 DEF CheckCert

LEMMA ImportGradedOK == ASSUME StockTypes, NEW q \in Requests, ImportGraded(q) PROVE StepOK
<1>1. req[q].pc = "insert" /\ UNCHANGED <<held, overtaken, jobs>> /\ Imported(q)
  BY DEF ImportGraded
<1>2. CertOf(q) \in Certs
  <2>1. jobs[req[q].job].file \in Files /\ req[q].n \in 1..Len(jobs[req[q].job].file.records)
    BY <1>1, RecordRuns DEF StockTypes, RunsOK, Importing
  <2>2. Record(q).cert \in Certs \cup {None}
    BY <2>1, CsvAssumption DEF Record
  <2>3. CertOf(q) # None
    BY <1>1 DEF StockTypes, RunsOK, Insertable
  <2> QED BY <2>2, <2>3 DEF CertOf
<1>3. RowsStep
  <2> DEFINE p == PrintingOf(q)
             cert == CertOf(q)
  <2>1. InsertGraded(cert, p) \/ UNCHANGED <<items, now>>
    BY DEF ImportGraded
  <2>2. p \in Printings \cup {None}
    BY <1>1 DEF StockTypes, RunsOK, Insertable
  <2>3. cert \in Certs
    BY <1>2
  <2> HIDE DEF p, cert
  <2>4. CASE InsertGraded(cert, p)
    BY <2>2, <2>3, <2>4, InsertGradedRows DEF StockTypes
  <2>5. CASE UNCHANGED <<items, now>>
    BY <2>5, RowsKept DEF StockTypes
  <2> QED BY <2>1, <2>4, <2>5
<1>4. ReqOK' /\ JobsOK' /\ RunsOK' /\ ReqStep
  BY <1>1, ImportedOn
<1> QED BY <1>1, <1>3, <1>4, HeldKept DEF StockTypes, StepOK, MarksStep

\* The counts that a run writes to its job's row.
LEMMA CountsAre ==
    ASSUME StockTypes, NEW q \in Requests, req[q].pc \in {"progress", "record"}
    PROVE  LET row == Counts(jobs[req[q].job], q) IN
           row \in JobRow /\ row.file = jobs[req[q].job].file
<1> DEFINE old == jobs[req[q].job]
           n == req[q].n - 1
           row == Counts(old, q)
<1>1. old \in JobRow /\ req[q] \in RecordReq
  BY RecordRuns DEF Importing
<1>2. n \in Nat /\ req[q].imported \in Nat /\ req[q].skipped \in Nat
  BY <1>1 DEF RecordReq
<1>3. row = [old EXCEPT !.processed = n, !.imported = req[q].imported, !.skipped = req[q].skipped]
  BY DEF Counts
<1> HIDE DEF n, row, old
<1>4. row \in JobRow /\ row.file = old.file
  BY <1>1, <1>2, <1>3 DEF JobRow
<1> QED BY <1>4 DEF row, old

LEMMA ReportProgressOK == ASSUME StockTypes, NEW q \in Requests, ReportProgress(q) PROVE StepOK
<1> DEFINE j == req[q].job
           x == [req[q] EXCEPT !.pc = "record"]
           row == Counts(jobs[j], q)
<1>1. req[q].pc = "progress" /\ ReqBecomes(q, x) /\ jobs' = [jobs EXCEPT ![j] = row] /\ UNCHANGED stockVars
  BY DEF ReportProgress
<1>2. req[q] \in RecordReq /\ j \in Jobs /\ jobs[j] # None
  BY <1>1, RecordRuns DEF Importing
<1>3. x \in RecordReq /\ x.pc = "record" /\ x.job = j
  BY <1>2 DEF RecordReq
<1>4. row \in JobRow /\ row.file = jobs[j].file
  BY <1>1, CountsAre
<1> HIDE DEF x, row
<1>5. x \in StockReq
  BY <1>3 DEF StockReq
<1>6. JobsOK' /\ \A k \in Jobs : jobs[k] # None => jobs'[k] # None /\ jobs'[k].file = jobs[k].file
  BY <1>1, <1>2, <1>4, JobChanged DEF StockTypes
<1>7. ReqOK' /\ RunsOK' /\ ReqStep
  BY <1>1, <1>2, <1>3, <1>5, <1>6, FilesKept
<1> QED BY <1>1, <1>6, <1>7, RestKept

LEMMA FinishImportOK == ASSUME StockTypes, NEW q \in Requests, FinishImport(q) PROVE StepOK
<1> DEFINE j == req[q].job
           x == [pc |-> "remove", job |-> j]
           counts == Counts(jobs[j], q)
           report == req[q].skipped > 0
           row == [counts EXCEPT !.status = "done", !.report = report]
<1>1. /\ req[q].pc = "record" /\ ReqBecomes(q, x) /\ UNCHANGED stockVars
      /\ jobs' = [jobs EXCEPT ![j] = row]
  BY DEF FinishImport
<1>2. req[q] \in RecordReq /\ j \in Jobs /\ jobs[j] # None
  BY <1>1, RecordRuns DEF Importing
<1>3. x \in RemoveReq /\ x.pc = "remove"
  BY <1>2 DEF RemoveReq
<1>4. row \in JobRow /\ row.file = jobs[j].file
  <2>1. counts \in JobRow /\ counts.file = jobs[j].file
    BY <1>1, CountsAre
  <2>2. report \in BOOLEAN
    BY DEF report
  <2> HIDE DEF counts, report
  <2> QED BY <2>1, <2>2 DEF JobRow
<1> HIDE DEF x, row
<1>5. x \in StockReq
  BY <1>3 DEF StockReq
<1>6. JobsOK' /\ \A k \in Jobs : jobs[k] # None => jobs'[k] # None /\ jobs'[k].file = jobs[k].file
  BY <1>1, <1>2, <1>4, JobChanged DEF StockTypes
<1>7. ReqOK' /\ RunsOK' /\ ReqStep
  BY <1>1, <1>2, <1>3, <1>5, <1>6, FilesKept
<1> QED BY <1>1, <1>6, <1>7, RestKept

LEMMA RemoveFileOK == ASSUME StockTypes, NEW q \in Requests, RemoveFile(q) PROVE StepOK
  BY EndsOn, RestKept DEF RemoveFile

LEMMA ImportStepOK == ASSUME StockTypes, ImportStep PROVE StepOK
  BY StartImportOK, ConfirmOK, SetRunningOK, ReadFileOK, SkipRecordOK, ImportRawOK, CheckCertOK,
     ImportGradedOK, ReportProgressOK, FinishImportOK, RemoveFileOK DEF ImportStep

-----------------------------------------------------------------------------
(* Exports, and the end of a request.                                      *)

LEMMA ExportsOn ==
    ASSUME StockTypes, NEW q \in Requests, NEW x \in ExportReq \cup SelectReq, ReqBecomes(q, x),
           UNCHANGED stockVars, UNCHANGED jobs
    PROVE  StepOK
<1>1. x \in StockReq /\ x.pc \notin {"update", "start", "read", "record", "insert", "progress"}
  BY DEF StockReq, ExportReq, SelectReq
<1> QED BY <1>1, GoesOn, RestKept

LEMMA ExportStepOK == ASSUME StockTypes, ExportStep PROVE StepOK
<1>1. ASSUME NEW q \in Requests, NEW e \in Exports, NEW f \in Filters, StartExport(q, e, f) PROVE StepOK
  <2> DEFINE x == [pc |-> "exportStart", export |-> e]
  <2>1. x \in ExportReq
    BY DEF ExportReq
  <2>2. ReqBecomes(q, x) /\ UNCHANGED stockVars /\ UNCHANGED jobs
    BY <1>1 DEF StartExport
  <2> QED BY <2>1, <2>2, ExportsOn
<1>2. ASSUME NEW q \in Requests, BeginExport(q) PROVE StepOK
  <2> DEFINE x == [pc |-> "exportRaw", export |-> req[q].export, rows |-> {}]
  <2>1. req[q] \in ExportReq
    BY <1>2, ReqIs DEF BeginExport, StockTypes
  <2>2. x \in SelectReq
    BY <2>1 DEF SelectReq, ExportReq
  <2>3. ReqBecomes(q, x) /\ UNCHANGED stockVars /\ UNCHANGED jobs
    BY <1>2 DEF BeginExport
  <2> QED BY <2>2, <2>3, ExportsOn
<1>3. ASSUME NEW q \in Requests, SelectRows(q) PROVE StepOK
  <2> DEFINE f == exports[req[q].export].filter
             x == [req[q] EXCEPT !.pc = "exportGraded", !.rows = SelectedRaw(f)]
             y == [req[q] EXCEPT !.pc = "exportWrite", !.rows = @ \cup SelectedGraded(f)]
  <2>1. req[q] \in SelectReq /\ UNCHANGED stockVars /\ UNCHANGED jobs
    BY <1>3, ReqIs DEF SelectRows, StockTypes, csvVars
  <2>2. SelectedRaw(f) \in SUBSET Items /\ SelectedGraded(f) \in SUBSET Items
    BY DEF SelectedRaw, SelectedGraded, Raw, Graded, Rows
  <2>3. x \in SelectReq /\ y \in SelectReq
    BY <2>1, <2>2 DEF SelectReq
  <2>4. ReqBecomes(q, x) \/ ReqBecomes(q, y)
    BY <1>3 DEF SelectRows
  <2> HIDE DEF x, y
  <2> QED BY <2>1, <2>3, <2>4, ExportsOn
<1>4. ASSUME NEW q \in Requests, WriteOutput(q) PROVE StepOK
  <2> DEFINE x == [req[q] EXCEPT !.pc = "exportDone"]
  <2>1. req[q] \in SelectReq
    BY <1>4, ReqIs DEF WriteOutput, StockTypes
  <2>2. x \in SelectReq
    BY <2>1 DEF SelectReq
  <2>3. ReqBecomes(q, x) /\ UNCHANGED stockVars /\ UNCHANGED jobs
    BY <1>4 DEF WriteOutput
  <2> QED BY <2>2, <2>3, ExportsOn
<1>5. ASSUME NEW q \in Requests, FinishExport(q) PROVE StepOK
  BY <1>5, EndsOn, RestKept DEF FinishExport
<1> QED BY <1>1, <1>2, <1>3, <1>4, <1>5 DEF ExportStep

LEMMA StopJobOK == ASSUME StockTypes, NEW q \in Requests, StopJob(q) PROVE StepOK
  BY EndsOn, RestKept DEF StopJob, csvVars

LEMMA EditStepOK == ASSUME StockTypes, EditStep, UNCHANGED jobs PROVE StepOK
  BY AddRawOK, FetchOK, AddGradedOK, BeginAddGradedOK, BeginPatchOK, ApplyPatchOK, ReloadOK,
     BulkEditRawOK, BulkEditGradedOK DEF EditStep

LEMMA DeleteStepOK == ASSUME StockTypes, DeleteStep, UNCHANGED jobs PROVE StepOK
  BY BeginDeleteOK, DeleteRawOK, DeleteGradedOK DEF DeleteStep

LEMMA StockKept == ASSUME StockTypes, UNCHANGED <<stockVars, req, csvVars>> PROVE StepOK
  BY ReqKept, RestKept DEF csvVars

\* Every step is as described above.
LEMMA NextOK == ASSUME StockTypes, [Next]_vars PROVE StepOK
<1>1. CASE Edit
  BY <1>1, EditStepOK DEF Edit, JobsUntouched
<1>2. CASE Delete
  BY <1>2, DeleteStepOK DEF Delete, JobsUntouched
<1>3. CASE Import
  BY <1>3, ImportStepOK DEF Import
<1>4. CASE Export
  BY <1>4, ExportStepOK DEF Export
<1>5. CASE Read \/ Browse \/ Reconcile \/ UNCHANGED vars
  <2>1. UNCHANGED <<stockVars, req, csvVars>>
    BY <1>5 DEF Read, Browse, Reconcile, vars
  <2> QED BY <2>1, StockKept
<1>6. ASSUME NEW q \in Requests, Stop(q) PROVE StepOK
  BY <1>6, StopJobOK DEF Stop
<1> QED BY <1>1, <1>2, <1>3, <1>4, <1>5, <1>6 DEF Next

LEMMA StockTypesInit == Init => StockTypes
<1> SUFFICES ASSUME Init PROVE StockTypes
  OBVIOUS
<1>1. ItemsOK /\ HeldOK /\ ReqOK /\ JobsOK
  BY IdleReq DEF Init, InventoryInit, CsvInit, ItemsOK, HeldOK, ReqOK, JobsOK
<1>2. RunsOK
  BY DEF Init, InventoryInit, RunsOK, Importing, Idle
<1> QED BY <1>1, <1>2 DEF StockTypes

LEMMA StockTypesStep == ASSUME StockTypes, [Next]_vars PROVE StockTypes'
  BY NextOK DEF StepOK, RowsStep, HeldStep, StockTypes

\* In every state of the catalogue, the rows, the copies that clients hold, the
\* requests and the jobs are what the code makes them, a run of an import has its
\* job's file and a record that is about to be inserted is in it and has a certificate.
THEOREM StockSound == Spec => []StockTypes
<1>1. Init => StockTypes
  BY StockTypesInit
<1>2. StockTypes /\ [Next]_vars => StockTypes'
  BY StockTypesStep
<1> QED BY <1>1, <1>2, PTL DEF Spec

-----------------------------------------------------------------------------
(* No edit overwrites what its client has not seen.                        *)

Updating(q) == req[q].pc = "update"

\* What is seen is there: an update that was checked and is not marked, and a copy
\* whose version is that of its row, have the content of the row.
SeenIsThere ==
    \A q \in Requests \ overtaken : Updating(q) /\ req[q].item \in Rows =>
      Content(items[req[q].item]) = req[q].seen
CopiesTrue ==
    \A c \in Clients : held[c] # None /\ held[c].item \in Rows /\ items[held[c].item].version = held[c].version =>
      Content(items[held[c].item]) = held[c].content
VersionsPast ==
    /\ \A i \in Rows : items[i].version <= now
    /\ \A c \in Clients : held[c] # None => held[c].version <= now
Known ==
    /\ \A q \in Requests : Updating(q) => items[req[q].item] # None
    /\ \A c \in Clients : held[c] # None => items[held[c].item] # None

EditInv == StockTypes /\ SeenIsThere /\ CopiesTrue /\ VersionsPast /\ Known

\* A row that was known and is still there either stays as it is or is written anew.
LEMMA KnownRow ==
    ASSUME StockTypes, RowsStep, NEW i \in Items, items[i] # None
    PROVE  /\ items'[i] # None
           /\ i \in Rows' => /\ i \in Rows
                             /\ \/ /\ Content(items'[i]) = Content(items[i])
                                   /\ items'[i].version = items[i].version
                                \/ Rewritten(i)
<1>1. CASE items'[i] = items[i]
  BY <1>1 DEF Rows
<1>2. CASE Rewritten(i)
  BY <1>2, RowIs, InventoryAssumption DEF Rewritten, StockTypes
<1>3. CASE Removed(i)
  BY <1>3, InventoryAssumption DEF Removed, Rows
<1> QED BY <1>1, <1>2, <1>3 DEF RowsStep, Appears

LEMMA SeenStep ==
    ASSUME EditInv, StepOK, NEW q \in Requests, q \notin overtaken', Updating(q)', req'[q].item \in Rows'
    PROVE  Content(items'[req'[q].item]) = req'[q].seen
<1>1. CASE req'[q] = req[q] /\ ~Checked(q)
  <2> DEFINE i == req[q].item
  <2>1. req[q] \in UpdateReq /\ i \in Items /\ Updating(q) /\ items[i] # None
    BY <1>1, ReqIs DEF Updating, EditInv, StockTypes, UpdateReq, Known
  <2>2. ~Rewritten(i)
    BY <1>1, <2>1 DEF Rewritten, Editing, Updating
  <2>3. i \in Rows /\ Content(items'[i]) = Content(items[i])
    BY <1>1, <2>1, <2>2, KnownRow DEF EditInv, StepOK
  <2>4. q \notin overtaken
    BY <1>1 DEF StepOK, MarksStep, Updating
  <2> QED BY <1>1, <2>1, <2>3, <2>4 DEF EditInv, SeenIsThere
<1>2. CASE Checked(q)
  <2>1. PICK c \in Clients : /\ held[c] # None /\ held[c].item = req'[q].item
                             /\ held[c].version = items[req'[q].item].version
                             /\ req'[q].seen = held[c].content
    BY <1>2 DEF Checked
  <2>2. req'[q].item \in Rows /\ items' = items
    BY <1>2 DEF Checked
  <2> QED BY <2>1, <2>2 DEF EditInv, CopiesTrue
<1> QED BY <1>1, <1>2 DEF StepOK, ReqStep, Updating

LEMMA CopyTypes ==
    ASSUME StockTypes, NEW c \in Clients, held[c] # None
    PROVE  held[c] \in CopyRow /\ held[c].item \in Items /\ held[c].version \in Nat
  BY DEF StockTypes, HeldOK, CopyRow

LEMMA CopiesStep ==
    ASSUME EditInv, StepOK, NEW c \in Clients, held'[c] # None
    PROVE  /\ items'[held'[c].item] # None
           /\ held'[c].version <= now'
           /\ held'[c].item \in Rows' /\ items'[held'[c].item].version = held'[c].version =>
                Content(items'[held'[c].item]) = held'[c].content
<1>1. now \in Nat /\ now' \in {now, now + 1}
  BY DEF StepOK, RowsStep, EditInv, StockTypes, ItemsOK
<1>2. CASE held'[c] = held[c]
  <2> DEFINE i == held[c].item
  <2>1. i \in Items /\ held[c].version \in Nat /\ held[c].version <= now /\ items[i] # None
    BY <1>2, CopyTypes DEF EditInv, VersionsPast, Known
  <2>2. items'[i] # None
    BY <2>1, KnownRow DEF EditInv, StepOK
  <2>3. held[c].version <= now'
    BY <1>1, <2>1
  <2>4. ASSUME i \in Rows', items'[i].version = held[c].version PROVE Content(items'[i]) = held[c].content
    <3>1. ~Rewritten(i)
      BY <1>1, <2>1, <2>4 DEF Rewritten
    <3>2. i \in Rows /\ Content(items'[i]) = Content(items[i]) /\ items'[i].version = items[i].version
      BY <2>1, <2>4, <3>1, KnownRow DEF EditInv, StepOK
    <3> QED BY <1>2, <2>4, <3>2 DEF EditInv, CopiesTrue
  <2> QED BY <1>2, <2>2, <2>3, <2>4
<1>3. CASE UNCHANGED <<items, now>> /\ \E i \in Rows : held'[c] = Copy(i)
  <2>1. PICK i \in Rows : held'[c] = Copy(i)
    BY <1>3
  <2>2. /\ held'[c].item = i /\ held'[c].version = items[i].version
        /\ held'[c].content = Content(items[i])
    BY <2>1, CopyIs DEF EditInv, StockTypes
  <2>3. items[i] # None /\ items[i].version <= now
    BY DEF Rows, EditInv, VersionsPast
  <2> QED BY <1>3, <2>2, <2>3
<1> QED BY <1>2, <1>3 DEF StepOK, HeldStep

LEMMA VersionsStep == ASSUME EditInv, StepOK, NEW i \in Rows' PROVE items'[i].version <= now'
<1>1. i \in Items /\ items'[i] \in RowType /\ now \in Nat /\ now' \in {now, now + 1} /\ now' \in Nat
  <2>1. ItemsOK' /\ now' \in {now, now + 1} /\ now \in Nat
    BY DEF StepOK, RowsStep, EditInv, StockTypes, ItemsOK
  <2> QED BY <2>1, InventoryAssumption DEF ItemsOK, Rows
<1>2. CASE items'[i] = items[i]
  <2>1. i \in Rows /\ items[i].version <= now /\ items[i].version \in Nat
    BY <1>1, <1>2, InventoryAssumption DEF Rows, EditInv, VersionsPast, RowType
  <2> QED BY <1>1, <1>2, <2>1
<1>3. CASE items'[i].version = now + 1 /\ now' = now + 1
  BY <1>1, <1>3
<1>4. CASE Removed(i)
  BY <1>1, <1>4, InventoryAssumption DEF Removed
<1> QED BY <1>1, <1>2, <1>3, <1>4 DEF StepOK, RowsStep, Appears, Rewritten

LEMMA UpdatesKnown ==
    ASSUME EditInv, StepOK, NEW q \in Requests, Updating(q)'
    PROVE  items'[req'[q].item] # None
<1>1. CASE req'[q] = req[q]
  <2>1. req[q].item \in Items /\ items[req[q].item] # None
    BY <1>1, ReqIs DEF Updating, EditInv, StockTypes, UpdateReq, Known
  <2> QED BY <1>1, <2>1, KnownRow DEF EditInv, StepOK
<1>2. CASE Checked(q)
  BY <1>2 DEF Checked, Rows
<1> QED BY <1>1, <1>2 DEF StepOK, ReqStep, Updating

LEMMA EditInvStep == ASSUME EditInv, [Next]_vars PROVE EditInv'
<1>1. StockTypes' /\ StepOK
  BY StockTypesStep, NextOK DEF EditInv
<1>2. SeenIsThere'
  BY <1>1, SeenStep DEF SeenIsThere
<1>3. CopiesTrue'
  BY <1>1, CopiesStep DEF CopiesTrue
<1>4. VersionsPast'
  BY <1>1, CopiesStep, VersionsStep DEF VersionsPast
<1>5. Known'
  BY <1>1, CopiesStep, UpdatesKnown DEF Known
<1> QED BY <1>1, <1>2, <1>3, <1>4, <1>5 DEF EditInv

\* "Client must echo back the updated_at it currently holds": an edit that takes
\* effect replaces exactly what its client has seen, whatever additions, imports,
\* bulk edits and other edits have done to the row before its check, and unless one
\* of them wrote to it between that check and the UPDATE of this edit.
THEOREM EditsReplaceWhatWasSeen == Spec => NoLostEdit
<1>1. Init => EditInv
  <2> SUFFICES ASSUME Init PROVE EditInv
    OBVIOUS
  <2>1. SeenIsThere /\ CopiesTrue /\ VersionsPast /\ Known
    BY InventoryAssumption DEF Init, InventoryInit, SeenIsThere, CopiesTrue, VersionsPast, Known,
       Updating, Rows, Idle
  <2> QED BY <2>1, StockTypesInit DEF EditInv
<1>2. EditInv /\ [Next]_vars => EditInv'
  BY EditInvStep
<1>3. EditInv /\ [Next]_vars =>
        [\A q \in Requests \ overtaken :
           req[q].pc = "update" /\ req'[q].pc = "reload" /\ req[q].item \in Rows =>
             Content(items[req[q].item]) = req[q].seen]_<<items, req>>
  BY DEF EditInv, SeenIsThere, Updating
<1> QED BY <1>1, <1>2, <1>3, PTL DEF Spec, NoLostEdit

-----------------------------------------------------------------------------
(* Every record of a file enters the stock once, and is accounted for.     *)

Size(j) == Len(jobs[j].file.records)
Accounted(j) == Took(j) \cup preempted[j]
NothingDone(j) == Accounted(j) = {} /\ \A n \in DOMAIN effects[j] : effects[j][n] = 0

\* A run that has read its file goes through it from the first record to the
\* last: what it counts is what is in the stock or was there by another way.
RunOK(q) ==
    LET j == req[q].job IN
    /\ req[q].pc = "start" => jobs[j].status = "queued"
    /\ req[q].pc \in {"read", "record", "insert", "progress"} => jobs[j].status = "running"
    /\ req[q].pc = "read" => NothingDone(j)
    /\ req[q].pc \in {"record", "insert", "progress"} =>
         /\ req[q].n <= Size(j) + 1
         /\ \A n \in req[q].n..Size(j) : effects[j][n] = 0
         /\ Accounted(j) \subseteq 1..(req[q].n - 1)
         /\ Cardinality(Accounted(j)) = req[q].imported
         /\ req[q].imported + req[q].skipped = req[q].n - 1

JobOK(j) ==
    /\ jobs[j] = None => effects[j] = <<>> /\ preempted[j] = {}
    /\ jobs[j] # None => /\ effects[j] \in [1..Size(j) -> {0, 1}]
                         /\ preempted[j] \subseteq 1..Size(j)
                         /\ jobs[j].status = "queued" => NothingDone(j)
    /\ jobs[j] # None /\ jobs[j].status = "done" =>
         /\ jobs[j].processed = Size(j)
         /\ jobs[j].imported = Cardinality(Accounted(j))
         /\ jobs[j].skipped = jobs[j].processed - jobs[j].imported
         /\ jobs[j].report <=> jobs[j].skipped > 0

\* Of a job that is not contested there is one run.
RunsApart ==
    \A p, q \in Requests :
        Importing(p) /\ Importing(q) /\ req[p].job = req[q].job /\ req[p].job \notin contested => p = q

ImportInv ==
    /\ StockTypes
    /\ DOMAIN effects = Jobs /\ DOMAIN preempted = Jobs
    /\ RunsApart
    /\ \A q \in Requests : Importing(q) /\ req[q].job \notin contested => RunOK(q)
    /\ \A j \in Jobs \ contested : JobOK(j)

LEMMA RunFrame ==
    ASSUME NEW q \in Requests, req'[q] = req[q], RunOK(q),
           jobs'[req[q].job] = jobs[req[q].job], effects'[req[q].job] = effects[req[q].job],
           preempted'[req[q].job] = preempted[req[q].job]
    PROVE  RunOK(q)'
  BY DEF RunOK, NothingDone, Accounted, Took, Size

LEMMA JobFrame ==
    ASSUME NEW j \in Jobs, JobOK(j), jobs'[j] = jobs[j], effects'[j] = effects[j], preempted'[j] = preempted[j]
    PROVE  JobOK(j)'
  BY DEF JobOK, NothingDone, Accounted, Took, Size

SameJobs(S) ==
    /\ UNCHANGED contested
    /\ DOMAIN effects' = Jobs /\ DOMAIN preempted' = Jobs
    /\ \A j \in S : jobs'[j] = jobs[j] /\ effects'[j] = effects[j] /\ preempted'[j] = preempted[j]

LEMMA RunJob ==
    ASSUME StockTypes, NEW q \in Requests, Importing(q)
    PROVE  req[q].job \in Jobs /\ jobs[req[q].job] \in JobRow /\ jobs[req[q].job] # None
  BY ReqIs DEF StockTypes, RunsOK, Importing, BeginReq, RecordReq, JobsOK

\* A step of one request at a job that is contested.
LEMMA StepContested ==
    ASSUME ImportInv, StockTypes', NEW q \in Requests, NEW j \in Jobs,
           \A p \in Requests \ {q} : req'[p] = req[p],
           DOMAIN effects' = Jobs, DOMAIN preempted' = Jobs,
           \A k \in Jobs \ {j} : jobs'[k] = jobs[k] /\ effects'[k] = effects[k] /\ preempted'[k] = preempted[k],
           j \in contested', contested \subseteq contested',
           Importing(q)' => req'[q].job = j
    PROVE  ImportInv'
<1>1. RunsApart'
  <2> SUFFICES ASSUME NEW p \in Requests, NEW r \in Requests, Importing(p)', Importing(r)',
                      req'[p].job = req'[r].job, req'[p].job \notin contested', p # r
               PROVE  FALSE
    BY DEF RunsApart
  <2> QED BY DEF Importing, ImportInv, RunsApart
<1>2. ASSUME NEW p \in Requests, Importing(p)', req'[p].job \notin contested' PROVE RunOK(p)'
  <2>1. req'[p] = req[p] /\ Importing(p) /\ RunOK(p)
    BY <1>2 DEF Importing, ImportInv
  <2>2. req[p].job \in Jobs \ {j}
    BY <1>2, <2>1, RunJob DEF ImportInv
  <2> QED BY <2>1, <2>2, RunFrame
<1>3. ASSUME NEW k \in Jobs \ contested' PROVE JobOK(k)'
  BY JobFrame DEF ImportInv
<1> QED BY <1>1, <1>2, <1>3 DEF ImportInv

\* A step of one request at a job that is not, which no other request runs.
LEMMA StepAtJob ==
    ASSUME ImportInv, StockTypes', NEW q \in Requests, NEW j \in Jobs,
           \A p \in Requests \ {q} : req'[p] = req[p],
           \A p \in Requests \ {q} : Importing(p) => req[p].job # j,
           SameJobs(Jobs \ {j}), j \notin contested,
           Importing(q)' => req'[q].job = j /\ RunOK(q)',
           JobOK(j)'
    PROVE  ImportInv'
<1>1. RunsApart'
  <2> SUFFICES ASSUME NEW p \in Requests, NEW r \in Requests, Importing(p)', Importing(r)',
                      req'[p].job = req'[r].job, req'[p].job \notin contested', p # r
               PROVE  FALSE
    BY DEF RunsApart
  <2>1. CASE p = q
    BY <2>1 DEF Importing
  <2>2. CASE r = q
    BY <2>2 DEF Importing
  <2>3. CASE p # q /\ r # q
    BY <2>3 DEF Importing, ImportInv, RunsApart, SameJobs
  <2> QED BY <2>1, <2>2, <2>3
<1>2. ASSUME NEW p \in Requests, Importing(p)', req'[p].job \notin contested' PROVE RunOK(p)'
  <2>1. CASE p = q
    BY <1>2, <2>1
  <2>2. CASE p # q
    <3>1. req'[p] = req[p] /\ Importing(p) /\ RunOK(p)
      BY <1>2, <2>2 DEF Importing, ImportInv, SameJobs
    <3>2. req[p].job \in Jobs \ {j}
      BY <2>2, <3>1, RunJob DEF ImportInv
    <3> QED BY <3>1, <3>2, RunFrame DEF SameJobs
  <2> QED BY <2>1, <2>2
<1>3. ASSUME NEW k \in Jobs \ contested' PROVE JobOK(k)'
  BY JobFrame DEF ImportInv, SameJobs
<1> QED BY <1>1, <1>2, <1>3 DEF ImportInv, SameJobs

\* A step that is none of an import's.
LEMMA StepElsewhere ==
    ASSUME ImportInv, StockTypes', SameJobs(Jobs),
           \A p \in Requests : req'[p] = req[p] \/ ~Importing(p)'
    PROVE  ImportInv'
<1>1. RunsApart'
  BY DEF RunsApart, ImportInv, Importing, SameJobs
<1>2. ASSUME NEW p \in Requests, Importing(p)', req'[p].job \notin contested' PROVE RunOK(p)'
  <2>1. req'[p] = req[p] /\ Importing(p) /\ RunOK(p)
    BY <1>2 DEF Importing, ImportInv, SameJobs
  <2> QED BY <2>1, RunFrame, RunJob DEF SameJobs, ImportInv
<1>3. ASSUME NEW k \in Jobs \ contested' PROVE JobOK(k)'
  BY JobFrame DEF ImportInv, SameJobs
<1> QED BY <1>1, <1>2, <1>3 DEF ImportInv, SameJobs

LEMMA RunAlone ==
    ASSUME ImportInv, NEW q \in Requests, Importing(q), req[q].job \notin contested
    PROVE  /\ req[q].job \in Jobs /\ jobs[req[q].job] \in JobRow /\ RunOK(q) /\ JobOK(req[q].job)
           /\ \A p \in Requests \ {q} : Importing(p) => req[p].job # req[q].job
  BY RunJob DEF ImportInv, RunsApart

LEMMA AccountedFinite ==
    ASSUME NEW j \in Jobs, JobOK(j), jobs[j] # None
    PROVE  /\ IsFiniteSet(Accounted(j)) /\ Cardinality(Accounted(j)) \in Nat
           /\ Accounted(j) \subseteq 1..Size(j)
<1>1. Accounted(j) \subseteq 1..Size(j)
  BY DEF JobOK, Accounted, Took
<1>2. IsFiniteSet(1..Size(j))
  BY FS_Interval DEF Size
<1> QED BY <1>1, <1>2, FS_Subset, FS_CardinalityType

LEMMA CountOne ==
    ASSUME NEW L \in Nat, NEW f \in [1..L -> {0, 1}], NEW n \in 1..L, f[n] = 0
    PROVE  LET g == [f EXCEPT ![n] = @ + 1] IN
           /\ g \in [1..L -> {0, 1}]
           /\ \A m \in 1..L : m # n => g[m] = f[m]
           /\ {m \in 1..L : g[m] = 1} = {m \in 1..L : f[m] = 1} \cup {n}
  OBVIOUS

\* After record n: it was skipped, or it is accounted for.
LEMMA AdvanceOK ==
    ASSUME ImportInv, NEW q \in Requests, NEW j \in Jobs, req[q].job = j, j \notin contested,
           req[q].pc \in {"record", "insert"}, req[q].n <= Size(j),
           NEW x \in RecordReq, x.pc \in {"record", "progress"}, x.job = j, x.n = req[q].n + 1,
           req'[q] = x, UNCHANGED <<jobs, contested>>,
           LET n == req[q].n
           IN  \/ /\ effects' = effects /\ preempted' = preempted
                  /\ x.imported = req[q].imported /\ x.skipped = req[q].skipped + 1
               \/ /\ x.imported = req[q].imported + 1 /\ x.skipped = req[q].skipped
                  /\ \/ /\ effects' = [effects EXCEPT ![j][n] = @ + 1]
                        /\ preempted' = preempted
                     \/ /\ effects' = effects
                        /\ preempted' = [preempted EXCEPT ![j] = @ \cup {n}]
    PROVE  RunOK(q)' /\ JobOK(j)' /\ SameJobs(Jobs \ {j})
<1> DEFINE n == req[q].n
           L == Size(j)
           A == Accounted(j)
<1>1. /\ Importing(q) /\ j \in Jobs /\ jobs[j] \in JobRow /\ jobs[j] # None /\ RunOK(q) /\ JobOK(j)
      /\ DOMAIN effects = Jobs /\ DOMAIN preempted = Jobs
  <2>1. Importing(q)
    BY DEF Importing
  <2> QED BY <2>1, RunAlone, RunJob DEF ImportInv
<1>2. n \in Nat \ {0} /\ req[q].imported \in Nat /\ req[q].skipped \in Nat
  BY ReqIs DEF ImportInv, StockTypes, RecordReq
<1>3. /\ n <= L /\ L \in Nat /\ jobs[j].status = "running"
      /\ \A m \in n..L : effects[j][m] = 0
      /\ A \subseteq 1..(n - 1) /\ Cardinality(A) = req[q].imported
      /\ req[q].imported + req[q].skipped = n - 1
  <2>1. L \in Nat
    BY <1>1, CsvAssumption DEF JobRow, Size
  <2> QED BY <1>1, <2>1 DEF RunOK
<1>4. /\ effects[j] \in [1..L -> {0, 1}] /\ preempted[j] \subseteq 1..L
      /\ A = {m \in 1..L : effects[j][m] = 1} \cup preempted[j]
  BY <1>1 DEF JobOK, Accounted, Took
<1>5. IsFiniteSet(A) /\ n \notin A /\ Cardinality(A \cup {n}) = Cardinality(A) + 1
  <2>1. n \notin A
    BY <1>2, <1>3
  <2>2. IsFiniteSet(A)
    BY <1>1, AccountedFinite
  <2> HIDE DEF A
  <2> QED BY <2>1, <2>2, FS_AddElement
<1>6. SameJobs(Jobs \ {j}) /\ L' = L
  BY <1>1 DEF SameJobs, Size
<1> DEFINE D == IF x.imported = req[q].imported THEN {} ELSE {n}
<1>7. /\ effects'[j] \in [1..L -> {0, 1}] /\ preempted'[j] \subseteq 1..L
      /\ \A m \in (n + 1)..L : effects'[j][m] = 0
      /\ Accounted(j)' = A \cup D
      /\ x.imported = Cardinality(A \cup D) /\ x.imported + x.skipped = n
  <2>1. CASE /\ effects' = effects /\ preempted' = preempted
             /\ x.imported = req[q].imported /\ x.skipped = req[q].skipped + 1
    <3>1. Accounted(j)' = A /\ D = {}
      BY <2>1 DEF Accounted, Took
    <3>2. A \cup D = A
      BY <3>1
    <3>3. \A m \in (n + 1)..L : effects'[j][m] = 0
      BY <1>2, <1>3, <2>1
    <3>4. x.imported = Cardinality(A \cup D) /\ x.imported + x.skipped = n
      BY <1>2, <1>3, <2>1, <3>2
    <3> QED BY <1>4, <2>1, <3>1, <3>2, <3>3, <3>4
  <2>2. CASE /\ x.imported = req[q].imported + 1 /\ x.skipped = req[q].skipped
             /\ effects' = [effects EXCEPT ![j][n] = @ + 1] /\ preempted' = preempted
    <3> DEFINE f == effects[j]
               g == [f EXCEPT ![n] = @ + 1]
    <3>1. n \in 1..L /\ f[n] = 0 /\ f \in [1..L -> {0, 1}]
      BY <1>2, <1>3, <1>4
    <3>2. effects'[j] = g
      BY <1>1, <2>2
    <3>3. /\ g \in [1..L -> {0, 1}]
          /\ \A m \in 1..L : m # n => g[m] = f[m]
          /\ {m \in 1..L : g[m] = 1} = {m \in 1..L : f[m] = 1} \cup {n}
      <4> HIDE DEF f, n, L
      <4> QED BY <1>3, <3>1, CountOne
    <3> HIDE DEF f, g
    <3>4. Accounted(j)' = {m \in 1..L : g[m] = 1} \cup preempted[j]
      BY <2>2, <3>2, <3>3 DEF Accounted, Took
    <3>5. A = {m \in 1..L : f[m] = 1} \cup preempted[j]
      BY <1>4 DEF f
    <3>6. D = {n}
      BY <1>2, <2>2
    <3>7. Accounted(j)' = A \cup D
      <4> HIDE DEF A, D, n, L
      <4> QED BY <3>3, <3>4, <3>5, <3>6
    <3>8. \A m \in (n + 1)..L : effects'[j][m] = 0
      <4> SUFFICES ASSUME NEW m \in (n + 1)..L PROVE g[m] = 0
        BY <3>2
      <4>1. m \in n..L /\ m \in 1..L /\ m # n
        BY <1>2, <1>3
      <4> QED BY <1>3, <3>3, <4>1 DEF f
    <3>9. x.imported = Cardinality(A \cup D) /\ x.imported + x.skipped = n
      <4>1. A \cup D = A \cup {n}
        BY <3>6
      <4>2. Cardinality(A \cup D) = Cardinality(A \cup {n})
        BY <4>1
      <4>3. Cardinality(A \cup {n}) = req[q].imported + 1
        BY <1>3, <1>5
      <4>4. x.imported + x.skipped = n
        BY <1>2, <1>3, <2>2
      <4> QED BY <2>2, <4>2, <4>3, <4>4
    <3> HIDE DEF A, D
    <3> QED BY <1>4, <2>2, <3>2, <3>3, <3>7, <3>8, <3>9
  <2>3. CASE /\ x.imported = req[q].imported + 1 /\ x.skipped = req[q].skipped
             /\ effects' = effects /\ preempted' = [preempted EXCEPT ![j] = @ \cup {n}]
    <3>1. preempted'[j] = preempted[j] \cup {n} /\ n \in 1..L
      BY <1>1, <1>2, <1>3, <2>3
    <3>2. Accounted(j)' = A \cup {n} /\ D = {n}
      <4>1. Accounted(j)' = Took(j) \cup preempted'[j] /\ A = Took(j) \cup preempted[j]
        BY <2>3 DEF Accounted, Took
      <4>2. D = {n}
        BY <1>2, <2>3
      <4> QED BY <3>1, <4>1, <4>2
    <3>3. A \cup D = A \cup {n}
      BY <3>2
    <3>4. \A m \in (n + 1)..L : effects'[j][m] = 0
      BY <1>2, <1>3, <2>3
    <3>5. preempted'[j] \subseteq 1..L
      BY <1>4, <3>1
    <3>6. Cardinality(A \cup D) = Cardinality(A \cup {n})
      BY <3>3
    <3>7. Cardinality(A \cup {n}) = req[q].imported + 1
      BY <1>3, <1>5
    <3>8. x.imported + x.skipped = n
      BY <1>2, <1>3, <2>3
    <3> HIDE DEF D
    <3> QED BY <1>4, <2>3, <3>2, <3>3, <3>4, <3>5, <3>6, <3>7, <3>8
  <2> QED BY <2>1, <2>2, <2>3
<1>8. Accounted(j)' \subseteq 1..n
  BY <1>2, <1>3, <1>7
<1> HIDE DEF A, D, L
<1>9. RunOK(q)'
  <2>1. /\ req'[q].pc \in {"record", "progress"} /\ req'[q].job = j /\ req'[q].n = n + 1
        /\ req'[q].imported = x.imported /\ req'[q].skipped = x.skipped
    OBVIOUS
  <2>2. jobs'[j].status = "running"
    BY <1>3
  <2>3. Cardinality(Accounted(j)') = x.imported
    BY <1>7
  <2>4. n + 1 <= Size(j)' + 1 /\ \A m \in (n + 1)..Size(j)' : effects'[j][m] = 0
    BY <1>2, <1>3, <1>6, <1>7 DEF L
  <2>5. Accounted(j)' \subseteq 1..((n + 1) - 1) /\ x.imported + x.skipped = (n + 1) - 1
    BY <1>2, <1>7, <1>8
  <2> DEFINE r == req'[q]
  <2>6. r.pc \in {"record", "progress"} /\ r.job = j /\ r.n = n + 1 /\ r.imported = x.imported
        /\ r.skipped = x.skipped
    BY <2>1
  <2> HIDE DEF r, n
  <2> QED BY <2>2, <2>3, <2>4, <2>5, <2>6 DEF RunOK, r, Size, Accounted, Took
<1>10. JobOK(j)'
  BY <1>1, <1>3, <1>6, <1>7 DEF JobOK, L
<1> QED BY <1>6, <1>9, <1>10

LEMMA StartImportInv ==
    ASSUME ImportInv, StockTypes', NEW q \in Requests, NEW j \in Jobs, NEW file \in Files,
           NEW given \in {None} \cup SUBSET DOMAIN Candidates, StartImport(q, j, file, given)
    PROVE  ImportInv'
<1> DEFINE row == [status |-> "queued", file |-> file, total |-> None,
                   processed |-> 0, imported |-> 0, skipped |-> 0, report |-> FALSE]
           L == Len(file.records)
           map == IF given = None THEN Detected(file.headers) ELSE given
<1>1. row \in JobRow /\ row.status = "queued" /\ row.file = file /\ row # None
  <2>1. row \in JobRow
    BY DEF JobRow
  <2> QED BY <2>1, CsvAssumption
<1>2. /\ jobs[j] = None /\ jobs' = [jobs EXCEPT ![j] = row] /\ ~Importing(q)
      /\ effects' = [effects EXCEPT ![j] = [n \in DOMAIN file.records |-> 0]] /\ UNCHANGED <<preempted, contested>>
  BY DEF StartImport, IsIdle, Importing
<1> HIDE DEF row
<1>3. jobs'[j] = row /\ SameJobs(Jobs \ {j})
  BY <1>2 DEF SameJobs, ImportInv, StockTypes, JobsOK
<1>8. /\ \A p \in Requests \ {q} : req'[p] = req[p]
      /\ Importing(q)' => req'[q].pc = "start" /\ req'[q].job = j
  <2>1. CASE ReqBecomes(q, Run(j, map))
    <3>1. map \in SUBSET DOMAIN Candidates
      BY DetectedIs
    <3> HIDE DEF map
    <3> QED BY <2>1, <3>1, BecomesOne, RunIs DEF ImportInv, StockTypes
  <2>2. CASE UNCHANGED req
    BY <1>2, <2>2 DEF Importing
  <2> QED BY <2>1, <2>2 DEF StartImport
<1>10. CASE j \in contested
  BY <1>2, <1>3, <1>8, <1>10, StepContested DEF SameJobs
<1>11. SUFFICES ASSUME j \notin contested PROVE ImportInv'
  BY <1>10
<1>4. effects'[j] = [n \in 1..L |-> 0] /\ preempted'[j] = {}
  BY <1>2, <1>11, CsvAssumption DEF ImportInv, JobOK
<1>5. NothingDone(j)'
  BY <1>4 DEF NothingDone, Accounted, Took
<1>6. JobOK(j)'
  BY <1>1, <1>3, <1>4, <1>5 DEF JobOK, Size
<1>7. \A p \in Requests \ {q} : Importing(p) => req[p].job # j
  BY <1>2, RunJob DEF ImportInv
<1>9. Importing(q)' => RunOK(q)'
  <2> SUFFICES ASSUME Importing(q)' PROVE RunOK(q)'
    OBVIOUS
  <2> DEFINE r == req'[q]
  <2>1. r.pc = "start" /\ r.job = j /\ jobs'[j].status = "queued"
    BY <1>1, <1>3, <1>8
  <2> HIDE DEF r
  <2> QED BY <2>1 DEF RunOK, r
<1> QED BY <1>3, <1>6, <1>7, <1>8, <1>9, <1>11, StepAtJob

LEMMA ConfirmInv ==
    ASSUME ImportInv, StockTypes', NEW q \in Requests, NEW j \in Jobs,
           NEW map \in SUBSET DOMAIN Candidates, Confirm(q, j, map)
    PROVE  ImportInv'
<1>1. /\ ~Importing(q) /\ jobs[j] # None /\ jobs[j].status = "queued"
      /\ contested' = contested \cup {i \in {j} : Unbegun(i)}
      /\ ReqBecomes(q, Run(j, map)) /\ UNCHANGED <<jobs, effects, preempted>>
  BY DEF Confirm, Confirmable, IsIdle, Importing, csvVars
<1>3. /\ \A p \in Requests \ {q} : req'[p] = req[p]
      /\ req'[q].pc = "start" /\ req'[q].job = j
  BY <1>1, BecomesOne, RunIs DEF ImportInv, StockTypes
<1>7. CASE j \in contested'
  BY <1>1, <1>3, <1>7, StepContested DEF ImportInv
<1>8. SUFFICES ASSUME j \notin contested, ~Unbegun(j) PROVE ImportInv'
  BY <1>1, <1>7
<1>2. SameJobs(Jobs) /\ SameJobs(Jobs \ {j})
  BY <1>1, <1>8 DEF SameJobs, ImportInv
<1>4. ASSUME NEW p \in Requests \ {q}, Importing(p), req[p].job = j PROVE FALSE
  <2>1. req[p].pc # "start"
    BY <1>4, <1>8 DEF Unbegun
  <2>2. RunOK(p)
    BY <1>4, <1>8 DEF ImportInv
  <2> QED BY <1>1, <1>4, <2>1, <2>2 DEF RunOK, Importing
<1>5. JobOK(j)'
  BY <1>2, <1>8, JobFrame DEF SameJobs, ImportInv
<1>6. RunOK(q)'
  <2> DEFINE r == req'[q]
  <2>1. r.pc = "start" /\ r.job = j /\ jobs'[j].status = "queued"
    BY <1>1, <1>3
  <2> HIDE DEF r
  <2> QED BY <2>1 DEF RunOK, r
<1> QED BY <1>2, <1>3, <1>4, <1>5, <1>6, <1>8, StepAtJob

\* A run that writes the status of its job, which the counts do not depend on.
LEMMA SetRunningInv ==
    ASSUME ImportInv, StockTypes', NEW q \in Requests, req[q].job \notin contested, SetRunning(q)
    PROVE  ImportInv'
<1> DEFINE x == [req[q] EXCEPT !.pc = "read"]
<1>1. PICK j \in Jobs : j = req[q].job
  BY RunJob DEF SetRunning, Importing, ImportInv
<1> DEFINE row == [jobs[j] EXCEPT !.status = "running"]
<1>2. /\ Importing(q) /\ req[q].pc = "start" /\ ReqBecomes(q, x) /\ jobs' = [jobs EXCEPT ![j] = row]
      /\ UNCHANGED <<effects, preempted, contested>>
  BY <1>1 DEF SetRunning, Importing
<1>3. /\ jobs[j] \in JobRow /\ jobs[j] # None /\ RunOK(q) /\ JobOK(j) /\ req[q] \in BeginReq
      /\ \A p \in Requests \ {q} : Importing(p) => req[p].job # j
  BY <1>1, <1>2, RunAlone, RunJob, ReqIs DEF ImportInv, StockTypes
<1>4. x.pc = "read" /\ x.job = j /\ x \in StockReq
  BY <1>1, <1>3 DEF BeginReq, StockReq
<1>5. row.status = "running" /\ row.file = jobs[j].file /\ row \in JobRow
  BY <1>3 DEF JobRow
<1> HIDE DEF x, row
<1>6. req'[q] = x /\ \A p \in Requests \ {q} : req'[p] = req[p]
  BY <1>2, <1>4, BecomesOne DEF ImportInv, StockTypes
<1>7. jobs'[j] = row /\ row # None /\ SameJobs(Jobs \ {j})
  BY <1>2, <1>5, CsvAssumption DEF SameJobs, ImportInv, StockTypes, JobsOK
<1>8. NothingDone(j)
  BY <1>1, <1>2, <1>3 DEF RunOK, JobOK
<1>9. RunOK(q)'
  <2> DEFINE r == req'[q]
  <2>1. r.pc = "read" /\ r.job = j /\ jobs'[j].status = "running" /\ effects'[j] = effects[j]
        /\ preempted'[j] = preempted[j]
    BY <1>2, <1>4, <1>5, <1>6, <1>7
  <2> HIDE DEF r
  <2> QED BY <1>8, <2>1 DEF RunOK, NothingDone, Accounted, Took, r
<1>10. JobOK(j)'
  BY <1>2, <1>3, <1>5, <1>7 DEF JobOK, Size
<1> QED BY <1>1, <1>3, <1>4, <1>6, <1>7, <1>9, <1>10, StepAtJob

LEMMA ReadFileInv ==
    ASSUME ImportInv, StockTypes', NEW q \in Requests, req[q].job \notin contested, ReadFile(q)
    PROVE  ImportInv'
<1>1. PICK j \in Jobs : j = req[q].job
  BY RunJob DEF ReadFile, Importing, ImportInv
<1>2. /\ Importing(q) /\ req[q].pc = "read" /\ UNCHANGED <<effects, preempted, contested>>
      /\ jobs[j] \in JobRow /\ jobs[j] # None /\ RunOK(q) /\ JobOK(j)
      /\ \A p \in Requests \ {q} : Importing(p) => req[p].job # j
  <2>1. Importing(q) /\ req[q].pc = "read" /\ UNCHANGED <<effects, preempted, contested>>
    BY DEF ReadFile, Importing
  <2> QED BY <1>1, <2>1, RunAlone, RunJob DEF ImportInv
<1>3. CASE Ends(q) /\ UNCHANGED jobs
  <2>1. SameJobs(Jobs) /\ \A p \in Requests : req'[p] = req[p] \/ ~Importing(p)'
    BY <1>2, <1>3, BecomesOne DEF Ends, Idle, Importing, SameJobs, ImportInv, StockTypes
  <2> QED BY <2>1, StepElsewhere
<1> DEFINE x == [pc |-> "record", job |-> j, map |-> req[q].map, n |-> 1, imported |-> 0, skipped |-> 0]
           L == Size(j)
           row == [jobs[j] EXCEPT !.total = L]
<1>4. CASE ReqBecomes(q, x) /\ jobs' = [jobs EXCEPT ![j] = row]
  <2>1. req[q] \in BeginReq
    BY <1>2, ReqIs DEF ImportInv, StockTypes
  <2>2. x \in StockReq
    <3>1. x \in RecordReq
      BY <2>1 DEF BeginReq, RecordReq
    <3> QED BY <3>1 DEF StockReq
  <2>3. x.pc = "record" /\ x.job = j /\ x.n = 1 /\ x.imported = 0 /\ x.skipped = 0
    OBVIOUS
  <2>4. L \in Nat
    BY <1>2, CsvAssumption DEF JobRow, Size
  <2> HIDE DEF L
  <2>5. row.status = jobs[j].status /\ row.file = jobs[j].file /\ row.processed = jobs[j].processed
        /\ row.imported = jobs[j].imported /\ row.skipped = jobs[j].skipped /\ row.report = jobs[j].report
    BY <1>2 DEF JobRow
  <2> HIDE DEF x, row
  <2>6. req'[q] = x /\ \A p \in Requests \ {q} : req'[p] = req[p]
    BY <1>4, <2>2, BecomesOne DEF ImportInv, StockTypes
  <2>7. jobs'[j] = row /\ row # None /\ SameJobs(Jobs \ {j})
    <3>1. jobs'[j] = row /\ SameJobs(Jobs \ {j})
      BY <1>2, <1>4 DEF SameJobs, ImportInv, StockTypes, JobsOK
    <3>2. Importing(q)' /\ req'[q].job = j
      BY <2>3, <2>6 DEF Importing
    <3>3. jobs'[j] # None
      BY <3>2 DEF StockTypes, RunsOK
    <3> QED BY <3>1, <3>3
  <2>8. NothingDone(j) /\ jobs[j].status = "running"
    BY <1>1, <1>2 DEF RunOK
  <2>9. /\ Accounted(j)' = {} /\ Cardinality({}) = 0 /\ Size(j)' = L
        /\ \A n \in 1..L : effects'[j][n] = 0
    <3>1. \A n \in 1..L : effects[j][n] = 0
      BY <1>2, <2>8 DEF NothingDone, JobOK, L
    <3> QED BY <1>2, <2>5, <2>7, <2>8, <3>1, FS_EmptySet DEF NothingDone, Accounted, Took, Size, L
  <2>10. RunOK(q)'
    <3> DEFINE r == req'[q]
    <3>1. /\ r.pc = "record" /\ r.job = j /\ r.n = 1 /\ r.imported = 0 /\ r.skipped = 0
          /\ jobs'[j].status = "running"
      BY <2>3, <2>5, <2>6, <2>7, <2>8
    <3>2. 1 <= L + 1 /\ {} \subseteq 1..(1 - 1) /\ 0 + 0 = 1 - 1
      BY <2>4
    <3> HIDE DEF r
    <3> QED BY <2>9, <3>1, <3>2 DEF RunOK, NothingDone, Accounted, Took, Size, r
  <2>11. JobOK(j)'
    BY <1>2, <2>5, <2>7, <2>8, <2>9 DEF JobOK, L
  <2> QED BY <1>1, <1>2, <2>3, <2>6, <2>7, <2>10, <2>11, StepAtJob
<1> QED BY <1>1, <1>3, <1>4 DEF ReadFile, Size

\* A record that is done with, in each of the ways there are.
LEMMA RecordIs ==
    ASSUME ImportInv, NEW q \in Requests, req[q].pc \in {"record", "insert", "progress"}
    PROVE  /\ req[q] \in RecordReq /\ Importing(q)
           /\ req[q].job \notin contested =>
                \E j \in Jobs : /\ req[q].job = j /\ jobs[j] \in JobRow /\ jobs[j] # None
                                /\ RunOK(q) /\ JobOK(j)
                                /\ \A p \in Requests \ {q} : Importing(p) => req[p].job # j
<1>1. req[q] \in RecordReq /\ Importing(q)
  BY ReqIs DEF ImportInv, StockTypes, Importing
<1> QED BY <1>1, RunAlone, RunJob DEF ImportInv

LEMMA SkippedIs ==
    ASSUME ImportInv, NEW q \in Requests, req[q].pc = "record", Skipped(q)
    PROVE  /\ req'[q] \in RecordReq /\ req'[q].pc = "record" /\ req'[q].job = req[q].job
           /\ req'[q].n = req[q].n + 1
           /\ req'[q].imported = req[q].imported /\ req'[q].skipped = req[q].skipped + 1
           /\ \A p \in Requests \ {q} : req'[p] = req[p]
<1> DEFINE n == req[q].n + 1
           s == req[q].skipped + 1
           x == [req[q] EXCEPT !.n = n, !.skipped = s]
<1>1. req[q] \in RecordReq
  BY RecordIs
<1>2. n \in Nat \ {0} /\ s \in Nat
  BY <1>1 DEF RecordReq
<1>3. ReqBecomes(q, x)
  BY DEF Skipped
<1> HIDE DEF n, s
<1>4. /\ x \in RecordReq /\ x.pc = "record" /\ x.job = req[q].job /\ x.n = n
      /\ x.imported = req[q].imported /\ x.skipped = s
  BY <1>1, <1>2 DEF RecordReq
<1> HIDE DEF x
<1>5. req'[q] = x /\ \A p \in Requests \ {q} : req'[p] = req[p]
  BY <1>3, BecomesOne DEF ImportInv, StockTypes
<1> QED BY <1>4, <1>5 DEF n, s

LEMMA ImportedIs ==
    ASSUME ImportInv, NEW q \in Requests, req[q].pc \in {"record", "insert"}, Imported(q)
    PROVE  /\ req'[q] \in RecordReq /\ req'[q].pc \in {"record", "progress"} /\ req'[q].job = req[q].job
           /\ req'[q].n = req[q].n + 1
           /\ req'[q].imported = req[q].imported + 1 /\ req'[q].skipped = req[q].skipped
           /\ \A p \in Requests \ {q} : req'[p] = req[p]
<1> DEFINE n == req[q].n + 1
           s == req[q].imported + 1
           pc == IF req[q].n % ProgressEvery = 0 THEN "progress" ELSE "record"
           x == [req[q] EXCEPT !.pc = pc, !.n = n, !.imported = s]
<1>1. req[q] \in RecordReq
  BY RecordIs
<1>2. n \in Nat \ {0} /\ s \in Nat /\ pc \in {"progress", "record"}
  BY <1>1 DEF RecordReq
<1>3. ReqBecomes(q, x)
  BY DEF Imported
<1> HIDE DEF n, s, pc
<1>4. /\ x \in RecordReq /\ x.pc = pc /\ x.job = req[q].job /\ x.n = n
      /\ x.imported = s /\ x.skipped = req[q].skipped
  BY <1>1, <1>2 DEF RecordReq
<1> HIDE DEF x
<1>5. req'[q] = x /\ \A p \in Requests \ {q} : req'[p] = req[p]
  BY <1>3, BecomesOne DEF ImportInv, StockTypes
<1> QED BY <1>2, <1>4, <1>5 DEF n, s

LEMMA SkipInv ==
    ASSUME ImportInv, StockTypes', NEW q \in Requests, req[q].job \notin contested, Reading(q), Skipped(q),
           UNCHANGED <<jobs, effects, preempted, contested>>
    PROVE  ImportInv'
<1>1. PICK j \in Jobs : /\ req[q].job = j /\ \A p \in Requests \ {q} : Importing(p) => req[p].job # j
  BY RecordIs DEF Reading
<1>2. req[q].pc = "record" /\ req[q].n <= Size(j)
  BY <1>1 DEF Reading, Size
<1>3. RunOK(q)' /\ JobOK(j)' /\ SameJobs(Jobs \ {j})
  BY <1>1, <1>2, SkippedIs, AdvanceOK
<1> QED BY <1>1, <1>2, <1>3, SkippedIs, StepAtJob

\* Of a record that is imported, either the stock has it or it was preempted.
LEMMA TakeInv ==
    ASSUME ImportInv, StockTypes', NEW q \in Requests, req[q].job \notin contested, Imported(q), UNCHANGED <<jobs, contested>>,
           req[q].pc \in {"record", "insert"}, req[q].n <= Size(req[q].job),
           \/ Effect(q) /\ UNCHANGED preempted
           \/ preempted' = [preempted EXCEPT ![req[q].job] = @ \cup {req[q].n}] /\ UNCHANGED effects
    PROVE  ImportInv'
<1>1. PICK j \in Jobs : /\ req[q].job = j /\ \A p \in Requests \ {q} : Importing(p) => req[p].job # j
  BY RecordIs
<1>2. req[q].n <= Size(j)
  BY <1>1
<1>3. RunOK(q)' /\ JobOK(j)' /\ SameJobs(Jobs \ {j})
  BY <1>1, <1>2, ImportedIs, AdvanceOK DEF Effect
<1> QED BY <1>1, <1>3, ImportedIs, StepAtJob

\* A request that ends changes nothing in the jobs.
LEMMA EndInv ==
    ASSUME ImportInv, StockTypes', NEW q \in Requests, Ends(q), UNCHANGED <<jobs, effects, preempted, contested>>
    PROVE  ImportInv'
<1>1. SameJobs(Jobs)
  BY DEF SameJobs, ImportInv
<1>2. \A p \in Requests : req'[p] = req[p] \/ ~Importing(p)'
  BY BecomesOne DEF Ends, Idle, Importing, ImportInv, StockTypes
<1> QED BY <1>1, <1>2, StepElsewhere

LEMMA ImportRawInv ==
    ASSUME ImportInv, StockTypes', NEW q \in Requests, req[q].job \notin contested, ImportRaw(q)
    PROVE  ImportInv'
<1>1. /\ req[q].pc = "record" /\ req[q].n <= Size(req[q].job) /\ UNCHANGED <<jobs, preempted, contested>>
  BY DEF ImportRaw, Readable, Reading, Size
<1>2. CASE Imported(q) /\ Effect(q)
  BY <1>1, <1>2, TakeInv
<1>3. CASE Ends(q) /\ UNCHANGED effects
  BY <1>1, <1>3, EndInv
<1> QED BY <1>2, <1>3 DEF ImportRaw

LEMMA CheckCertInv ==
    ASSUME ImportInv, StockTypes', NEW q \in Requests, req[q].job \notin contested, CheckCert(q)
    PROVE  ImportInv'
<1>1. Reading(q) /\ UNCHANGED <<jobs, effects, preempted, contested>> /\ req[q].pc = "record"
  BY DEF CheckCert, Readable, Reading, csvVars
<1>2. CASE Skipped(q)
  BY <1>1, <1>2, SkipInv
<1> DEFINE x == [req[q] EXCEPT !.pc = "insert"]
<1>3. CASE ReqBecomes(q, x)
  <2>1. PICK j \in Jobs : /\ req[q].job = j /\ jobs[j] # None /\ RunOK(q) /\ JobOK(j)
                          /\ \A p \in Requests \ {q} : Importing(p) => req[p].job # j
    BY <1>1, RecordIs
  <2>2. req[q] \in RecordReq
    BY <1>1, RecordIs
  <2>3. /\ x \in RecordReq /\ x.pc = "insert" /\ x.job = j /\ x.n = req[q].n
        /\ x.imported = req[q].imported /\ x.skipped = req[q].skipped
    BY <2>1, <2>2 DEF RecordReq
  <2> HIDE DEF x
  <2>4. x \in StockReq
    BY <2>3 DEF StockReq
  <2>5. req'[q] = x /\ \A p \in Requests \ {q} : req'[p] = req[p]
    BY <1>3, <2>4, BecomesOne DEF ImportInv, StockTypes
  <2>6. SameJobs(Jobs \ {j}) /\ jobs'[j] = jobs[j] /\ effects'[j] = effects[j] /\ preempted'[j] = preempted[j]
    BY <1>1 DEF SameJobs, ImportInv
  <2>7. JobOK(j)'
    BY <2>1, <2>6, JobFrame
  <2>8. RunOK(q)'
    <3> DEFINE r == req'[q]
    <3>1. /\ r.pc = "insert" /\ r.job = j /\ r.n = req[q].n
          /\ r.imported = req[q].imported /\ r.skipped = req[q].skipped
      BY <2>3, <2>5
    <3>2. /\ jobs[j].status = "running" /\ req[q].n <= Size(j) + 1
          /\ \A n \in req[q].n..Size(j) : effects[j][n] = 0
          /\ Accounted(j) \subseteq 1..(req[q].n - 1)
          /\ Cardinality(Accounted(j)) = req[q].imported
          /\ req[q].imported + req[q].skipped = req[q].n - 1
      BY <1>1, <2>1 DEF RunOK
    <3> HIDE DEF r
    <3> QED BY <2>6, <3>1, <3>2 DEF RunOK, Accounted, Took, Size, r
  <2> QED BY <2>1, <2>3, <2>5, <2>6, <2>7, <2>8, StepAtJob
<1> QED BY <1>2, <1>3 DEF CheckCert

LEMMA ImportGradedInv ==
    ASSUME ImportInv, StockTypes', NEW q \in Requests, req[q].job \notin contested, ImportGraded(q)
    PROVE  ImportInv'
<1>1. req[q].pc = "insert" /\ UNCHANGED <<jobs, contested>> /\ Imported(q)
  BY DEF ImportGraded
<1>2. req[q].n <= Size(req[q].job)
  <2>1. req[q].n \in 1..Size(req[q].job) /\ req[q].n \in Nat /\ Size(req[q].job) \in Nat
    BY <1>1, RecordIs, CsvAssumption DEF ImportInv, StockTypes, RunsOK, Size, JobRow, RecordReq
  <2> QED BY <2>1
<1> QED BY <1>1, <1>2, TakeInv DEF ImportGraded

LEMMA ReportProgressInv ==
    ASSUME ImportInv, StockTypes', NEW q \in Requests, req[q].job \notin contested, ReportProgress(q)
    PROVE  ImportInv'
<1>1. PICK j \in Jobs : /\ req[q].job = j /\ jobs[j] # None /\ jobs[j] \in JobRow /\ RunOK(q) /\ JobOK(j)
                        /\ \A p \in Requests \ {q} : Importing(p) => req[p].job # j
  BY RecordIs DEF ReportProgress
<1> DEFINE x == [req[q] EXCEPT !.pc = "record"]
           n == req[q].n - 1
           row == Counts(jobs[j], q)
<1>2. /\ req[q].pc = "progress" /\ ReqBecomes(q, x) /\ jobs' = [jobs EXCEPT ![j] = row]
      /\ UNCHANGED <<effects, preempted, contested>>
  BY <1>1 DEF ReportProgress
<1>3. req[q] \in RecordReq /\ n \in Nat
  <2>1. req[q] \in RecordReq
    BY <1>2, RecordIs
  <2> QED BY <2>1 DEF RecordReq
<1>4. row.file = jobs[j].file /\ row.status = "running" /\ row # None
  <2>1. row = [jobs[j] EXCEPT !.processed = n, !.imported = req[q].imported, !.skipped = req[q].skipped]
    BY DEF Counts
  <2>2. jobs[j].status = "running"
    BY <1>1, <1>2 DEF RunOK
  <2>3. req[q].imported \in Nat /\ req[q].skipped \in Nat
    BY <1>3 DEF RecordReq
  <2> HIDE DEF row, n
  <2>4. row \in JobRow /\ row.file = jobs[j].file /\ row.status = jobs[j].status
    BY <1>1, <1>3, <2>1, <2>3 DEF JobRow
  <2> QED BY <2>2, <2>4, CsvAssumption
<1>5. /\ x \in RecordReq /\ x.pc = "record" /\ x.job = j /\ x.n = req[q].n
      /\ x.imported = req[q].imported /\ x.skipped = req[q].skipped
  BY <1>1, <1>3 DEF RecordReq
<1> HIDE DEF x, row
<1>6. x \in StockReq
  BY <1>5 DEF StockReq
<1>7. req'[q] = x /\ \A p \in Requests \ {q} : req'[p] = req[p]
  BY <1>2, <1>6, BecomesOne DEF ImportInv, StockTypes
<1>8. jobs'[j] = row /\ SameJobs(Jobs \ {j})
  BY <1>2 DEF SameJobs, ImportInv, StockTypes, JobsOK
<1>9. RunOK(q)'
  <2> DEFINE r == req'[q]
  <2>1. /\ r.pc = "record" /\ r.job = j /\ r.n = req[q].n
        /\ r.imported = req[q].imported /\ r.skipped = req[q].skipped
    BY <1>5, <1>7
  <2>2. /\ jobs'[j].status = "running" /\ req[q].n <= Size(j) + 1
        /\ \A m \in req[q].n..Size(j) : effects[j][m] = 0
        /\ Accounted(j) \subseteq 1..(req[q].n - 1)
        /\ Cardinality(Accounted(j)) = req[q].imported
        /\ req[q].imported + req[q].skipped = req[q].n - 1
    BY <1>1, <1>2, <1>4, <1>8 DEF RunOK
  <2>3. jobs'[j].file = jobs[j].file /\ effects'[j] = effects[j] /\ preempted'[j] = preempted[j]
    BY <1>2, <1>4, <1>8
  <2> HIDE DEF r
  <2> QED BY <2>1, <2>2, <2>3 DEF RunOK, Accounted, Took, Size, r
<1>10. JobOK(j)'
  BY <1>1, <1>2, <1>4, <1>8 DEF JobOK, Size
<1> QED BY <1>1, <1>5, <1>7, <1>8, <1>9, <1>10, StepAtJob

LEMMA FinishImportInv ==
    ASSUME ImportInv, StockTypes', NEW q \in Requests, req[q].job \notin contested, FinishImport(q)
    PROVE  ImportInv'
<1>1. PICK j \in Jobs : /\ req[q].job = j /\ jobs[j] # None /\ jobs[j] \in JobRow /\ RunOK(q) /\ JobOK(j)
                        /\ \A p \in Requests \ {q} : Importing(p) => req[p].job # j
  BY RecordIs DEF FinishImport
<1> DEFINE x == [pc |-> "remove", job |-> j]
           n == req[q].n - 1
           counts == Counts(jobs[j], q)
           report == req[q].skipped > 0
           row == [counts EXCEPT !.status = "done", !.report = report]
<1>2. /\ req[q].pc = "record" /\ ~(req[q].n <= Size(j)) /\ ReqBecomes(q, x)
      /\ jobs' = [jobs EXCEPT ![j] = row]
      /\ UNCHANGED <<effects, preempted, contested>>
  BY <1>1 DEF FinishImport, Reading, Size
<1>3. req[q] \in RecordReq /\ n \in Nat /\ req[q].imported \in Nat /\ req[q].skipped \in Nat
  <2>1. req[q] \in RecordReq
    BY <1>2, RecordIs
  <2> QED BY <2>1 DEF RecordReq
<1>4. /\ row \in JobRow /\ row.file = jobs[j].file /\ row.status = "done" /\ row # None
      /\ row.processed = n /\ row.imported = req[q].imported /\ row.skipped = req[q].skipped
      /\ row.report = report
  <2>1. counts = [jobs[j] EXCEPT !.processed = n, !.imported = req[q].imported, !.skipped = req[q].skipped]
    BY DEF Counts
  <2> HIDE DEF counts, n
  <2>2. /\ counts \in JobRow /\ counts.file = jobs[j].file
        /\ counts.processed = n /\ counts.imported = req[q].imported /\ counts.skipped = req[q].skipped
    BY <1>1, <1>3, <2>1 DEF JobRow
  <2>3. report \in BOOLEAN
    BY DEF report
  <2> HIDE DEF report
  <2>4. row \in JobRow
    BY <2>2, <2>3 DEF JobRow
  <2>5. row # None
    BY <2>4, CsvAssumption
  <2> QED BY <2>2, <2>3, <2>4, <2>5 DEF JobRow
<1>5. n = Size(j) /\ Cardinality(Accounted(j)) = req[q].imported /\ req[q].imported + req[q].skipped = n
  <2>1. Size(j) \in Nat /\ req[q].n \in Nat
    BY <1>1, <1>3, CsvAssumption DEF JobRow, RecordReq, Size
  <2> QED BY <1>1, <1>2, <1>3, <2>1 DEF RunOK
<1>6. x \in StockReq /\ x.pc = "remove"
  BY <1>1 DEF StockReq, RemoveReq
<1> HIDE DEF x, row
<1>7. req'[q] = x /\ \A p \in Requests \ {q} : req'[p] = req[p]
  BY <1>2, <1>6, BecomesOne DEF ImportInv, StockTypes
<1>8. jobs'[j] = row /\ SameJobs(Jobs \ {j})
  BY <1>2 DEF SameJobs, ImportInv, StockTypes, JobsOK
<1>9. JobOK(j)'
  <2>1. Size(j)' = Size(j) /\ effects'[j] = effects[j] /\ preempted'[j] = preempted[j]
    BY <1>2, <1>4, <1>8 DEF Size
  <2>2. /\ jobs'[j].processed = Size(j) /\ jobs'[j].imported = Cardinality(Accounted(j))
        /\ jobs'[j].skipped = jobs'[j].processed - jobs'[j].imported
        /\ jobs'[j].report <=> jobs'[j].skipped > 0
    <3>1. jobs'[j].report <=> req[q].skipped > 0
      BY <1>4, <1>8 DEF report
    <3> HIDE DEF n, report
    <3> QED BY <1>3, <1>4, <1>5, <1>8, <3>1
  <2> HIDE DEF n
  <2>3. jobs'[j] # None /\ jobs'[j].status = "done"
    BY <1>4, <1>8
  <2>4. Accounted(j)' = Accounted(j)
    BY <2>1 DEF Accounted, Took
  <2>5. effects[j] \in [1..Size(j) -> {0, 1}] /\ preempted[j] \subseteq 1..Size(j)
    BY <1>1 DEF JobOK
  <2> QED BY <2>1, <2>2, <2>3, <2>4, <2>5 DEF JobOK
<1>10. ~Importing(q)'
  BY <1>6, <1>7 DEF Importing
<1> QED BY <1>1, <1>7, <1>8, <1>9, <1>10, StepAtJob

\* What every step of a run leaves alone.
Moves(q) ==
    /\ \A p \in Requests \ {q} : req'[p] = req[p]
    /\ SameJobs(Jobs \ {req[q].job})
    /\ Importing(q)' => req'[q].job = req[q].job

LEMMA RunMoves ==
    ASSUME ImportInv, NEW q \in Requests, NEW x, ReqBecomes(q, x),
           SameJobs(Jobs \ {req[q].job}),
           x.pc = "idle" \/ x.pc = "remove" \/ x.job = req[q].job
    PROVE  Moves(q)
  BY BecomesOne DEF Moves, Importing, ImportInv, StockTypes

LEMMA BeginMoves ==
    ASSUME ImportInv, NEW q \in Requests, SetRunning(q) \/ ReadFile(q)
    PROVE  Moves(q) /\ Importing(q)
<1>1. Importing(q) /\ req[q] \in BeginReq /\ UNCHANGED <<effects, preempted, contested>>
  <2>1. req[q].pc \in {"start", "read"} /\ UNCHANGED <<effects, preempted, contested>>
    BY DEF SetRunning, ReadFile
  <2> QED BY <2>1, ReqIs DEF Importing, ImportInv, StockTypes
<1>2. SameJobs(Jobs \ {req[q].job})
  BY <1>1 DEF SameJobs, ImportInv, StockTypes, JobsOK, SetRunning, ReadFile
<1> DEFINE x == [req[q] EXCEPT !.pc = "read"]
           y == [pc |-> "record", job |-> req[q].job, map |-> req[q].map, n |-> 1, imported |-> 0, skipped |-> 0]
<1>3. x.job = req[q].job /\ y.job = req[q].job /\ Idle.pc = "idle"
  BY <1>1 DEF BeginReq, Idle
<1>4. ReqBecomes(q, x) \/ ReqBecomes(q, y) \/ ReqBecomes(q, Idle)
  BY DEF SetRunning, ReadFile, Ends
<1> HIDE DEF x, y
<1> QED BY <1>1, <1>2, <1>3, <1>4, RunMoves

LEMMA RecordMoves ==
    ASSUME ImportInv, NEW q \in Requests,
           \/ SkipRecord(q) \/ ImportRaw(q) \/ CheckCert(q) \/ ImportGraded(q)
           \/ ReportProgress(q) \/ FinishImport(q)
    PROVE  Moves(q) /\ Importing(q)
<1>1. req[q].pc \in {"record", "insert", "progress"} /\ UNCHANGED contested
  <2>1. CASE SkipRecord(q) \/ ImportRaw(q) \/ CheckCert(q)
    BY <2>1 DEF SkipRecord, ImportRaw, CheckCert, Readable, Reading, csvVars
  <2>2. CASE ImportGraded(q) \/ ReportProgress(q) \/ FinishImport(q)
    BY <2>2 DEF ImportGraded, ReportProgress, FinishImport
  <2> QED BY <2>1, <2>2
<1>2. req[q] \in RecordReq /\ Importing(q)
  BY <1>1, RecordIs
<1>3. SameJobs(Jobs \ {req[q].job})
  BY <1>1 DEF SameJobs, ImportInv, StockTypes, JobsOK, Effect, csvVars,
     SkipRecord, ImportRaw, CheckCert, ImportGraded, ReportProgress, FinishImport
<1> DEFINE Going == \E x : ReqBecomes(q, x) /\ x.job = req[q].job
<1>4. /\ Skipped(q) => Going
      /\ Imported(q) => Going
      /\ CheckCert(q) => Going
      /\ ReportProgress(q) => Going
  <2>1. ASSUME Skipped(q) PROVE Going
    <3> DEFINE x == [req[q] EXCEPT !.n = @ + 1, !.skipped = @ + 1]
    <3>1. ReqBecomes(q, x) /\ x.job = req[q].job
      BY <1>2, <2>1 DEF Skipped, RecordReq
    <3> QED BY <3>1
  <2>2. ASSUME Imported(q) PROVE Going
    <3> DEFINE pc == IF req[q].n % ProgressEvery = 0 THEN "progress" ELSE "record"
               x == [req[q] EXCEPT !.pc = pc, !.n = @ + 1, !.imported = @ + 1]
    <3>1. ReqBecomes(q, x) /\ x.job = req[q].job
      BY <1>2, <2>2 DEF Imported, RecordReq
    <3> QED BY <3>1
  <2>3. ASSUME CheckCert(q) PROVE Going
    <3> DEFINE x == [req[q] EXCEPT !.pc = "insert"]
    <3>1. x.job = req[q].job
      BY <1>2 DEF RecordReq
    <3> QED BY <2>1, <2>3, <3>1 DEF CheckCert
  <2>4. ASSUME ReportProgress(q) PROVE Going
    <3> DEFINE x == [req[q] EXCEPT !.pc = "record"]
    <3>1. ReqBecomes(q, x) /\ x.job = req[q].job
      BY <1>2, <2>4 DEF ReportProgress, RecordReq
    <3> QED BY <3>1
  <2> QED BY <2>1, <2>2, <2>3, <2>4
<1>5. FinishImport(q) => \E x : ReqBecomes(q, x) /\ x.pc = "remove"
  BY DEF FinishImport
<1>6. Ends(q) => \E x : ReqBecomes(q, x) /\ x.pc = "idle"
  BY DEF Ends, Idle
<1>7. \E x : ReqBecomes(q, x) /\ (x.pc = "idle" \/ x.pc = "remove" \/ x.job = req[q].job)
  BY <1>4, <1>5, <1>6 DEF SkipRecord, ImportRaw, ImportGraded
<1> QED BY <1>2, <1>3, <1>7, RunMoves

LEMMA ContestedInv ==
    ASSUME ImportInv, StockTypes', NEW q \in Requests, Moves(q), Importing(q), req[q].job \in contested
    PROVE  ImportInv'
  BY StepContested, RunJob DEF Moves, SameJobs, ImportInv

LEMMA ImportStepInv == ASSUME ImportInv, StockTypes', ImportStep PROVE ImportInv'
<1>1. ASSUME NEW q \in Requests, SkipRecord(q), req[q].job \notin contested PROVE ImportInv'
  BY <1>1, SkipInv DEF SkipRecord, csvVars
<1>2. ASSUME NEW q \in Requests, RemoveFile(q) PROVE ImportInv'
  BY <1>2, EndInv DEF RemoveFile
<1>3. ASSUME NEW q \in Requests, SetRunning(q) \/ ReadFile(q) PROVE ImportInv'
  BY <1>3, BeginMoves, ContestedInv, SetRunningInv, ReadFileInv
<1>4. ASSUME NEW q \in Requests,
             \/ SkipRecord(q) \/ ImportRaw(q) \/ CheckCert(q) \/ ImportGraded(q)
             \/ ReportProgress(q) \/ FinishImport(q)
      PROVE  ImportInv'
  BY <1>1, <1>4, RecordMoves, ContestedInv, ImportRawInv, CheckCertInv, ImportGradedInv,
     ReportProgressInv, FinishImportInv
<1> QED
  BY <1>2, <1>3, <1>4, StartImportInv, ConfirmInv DEF ImportStep

-----------------------------------------------------------------------------
(* What the other work on the stock does to the requests.                  *)

StockWork == {"idle", "addGraded", "update", "reload", "bulkGraded", "deleteRaw", "deleteGraded"}
OthersGoOn == \A p \in Requests : req'[p] = req[p] \/ req'[p].pc \in StockWork

LEMMA OneGoesOn ==
    ASSUME StockTypes, NEW q \in Requests, NEW x, ReqBecomes(q, x), x.pc \in StockWork
    PROVE  OthersGoOn
  BY BecomesOne DEF OthersGoOn, StockTypes

LEMMA EditGoesOn == ASSUME StockTypes, EditStep PROVE OthersGoOn
<1>1. ASSUME NEW q \in Requests, AddGraded(q) \/ Reload(q) \/ BulkEditGraded(q) PROVE OthersGoOn
  BY <1>1, OneGoesOn DEF AddGraded, Reload, BulkEditGraded, Ends, Idle, StockWork
<1>2. ASSUME NEW q \in Requests, ApplyPatch(q) PROVE OthersGoOn
  <2> DEFINE x == [req[q] EXCEPT !.pc = "reload"]
  <2>1. x.pc = "reload"
    BY <1>2, ReqIs DEF ApplyPatch, StockTypes, UpdateReq
  <2>2. ReqBecomes(q, x) \/ ReqBecomes(q, Idle)
    BY <1>2 DEF ApplyPatch, Ends
  <2> HIDE DEF x
  <2> QED BY <2>1, <2>2, OneGoesOn DEF Idle, StockWork
<1>3. ASSUME NEW q \in Requests, NEW cert \in Certs, NEW p \in Printings \cup {None},
             BeginAddGraded(q, cert, p)
      PROVE  OthersGoOn
  BY <1>3, OneGoesOn DEF BeginAddGraded, StockWork
<1>4. ASSUME NEW q \in Requests, NEW c \in Clients, NEW patch \in Patches, BeginPatch(q, c, patch)
      PROVE  OthersGoOn
  BY <1>4, OneGoesOn DEF BeginPatch, StockWork
<1>5. ASSUME NEW q \in Requests, NEW ids \in SUBSET Items, NEW cond, NEW cost, BulkEditRaw(q, ids, cond, cost)
      PROVE  OthersGoOn
  BY <1>5, OneGoesOn DEF BulkEditRaw, StockWork
<1>6. ASSUME UNCHANGED req PROVE OthersGoOn
  BY <1>6 DEF OthersGoOn
<1> QED
  BY <1>1, <1>2, <1>3, <1>4, <1>5, <1>6 DEF EditStep, AddRaw, Fetch

LEMMA DeleteGoesOn == ASSUME StockTypes, DeleteStep PROVE OthersGoOn
<1>1. ASSUME NEW q \in Requests, DeleteRaw(q) PROVE OthersGoOn
  <2> DEFINE x == [req[q] EXCEPT !.pc = "deleteGraded"]
  <2>1. x.pc = "deleteGraded" /\ ReqBecomes(q, x)
    BY <1>1, ReqIs DEF DeleteRaw, StockTypes, DeleteReq
  <2> HIDE DEF x
  <2> QED BY <2>1, OneGoesOn DEF StockWork
<1>2. ASSUME NEW q \in Requests, NEW ids \in SUBSET Items, BeginDelete(q, ids) PROVE OthersGoOn
  BY <1>2, OneGoesOn DEF BeginDelete, StockWork
<1>3. ASSUME NEW q \in Requests, DeleteGraded(q) PROVE OthersGoOn
  BY <1>3, OneGoesOn DEF DeleteGraded, Ends, Idle, StockWork
<1> QED BY <1>1, <1>2, <1>3 DEF DeleteStep

LEMMA ExportGoesOn ==
    ASSUME StockTypes, ExportStep
    PROVE  \A p \in Requests : req'[p] = req[p] \/ ~Importing(p)'
<1> DEFINE GoesOnOK == \A p \in Requests : req'[p] = req[p] \/ ~Importing(p)'
<1>1. ASSUME NEW q \in Requests, NEW x, ReqBecomes(q, x),
             x.pc \notin {"start", "read", "record", "insert", "progress"}
      PROVE  GoesOnOK
  BY <1>1, BecomesOne DEF StockTypes, Importing
<1>2. ASSUME NEW q \in Requests, NEW e \in Exports, NEW f \in Filters, StartExport(q, e, f) PROVE GoesOnOK
  <2>1. ReqBecomes(q, [pc |-> "exportStart", export |-> e])
    BY <1>2 DEF StartExport
  <2> HIDE DEF GoesOnOK
  <2> QED BY <1>1, <2>1
<1>3. ASSUME NEW q \in Requests, BeginExport(q) PROVE GoesOnOK
  <2>1. ReqBecomes(q, [pc |-> "exportRaw", export |-> req[q].export, rows |-> {}])
    BY <1>3 DEF BeginExport
  <2> HIDE DEF GoesOnOK
  <2> QED BY <1>1, <2>1
<1>4. ASSUME NEW q \in Requests, SelectRows(q) PROVE GoesOnOK
  <2> DEFINE f == exports[req[q].export].filter
             x == [req[q] EXCEPT !.pc = "exportGraded", !.rows = SelectedRaw(f)]
             y == [req[q] EXCEPT !.pc = "exportWrite", !.rows = @ \cup SelectedGraded(f)]
  <2>1. req[q] \in SelectReq
    BY <1>4, ReqIs DEF SelectRows, StockTypes
  <2>2. x.pc = "exportGraded" /\ y.pc = "exportWrite"
    BY <2>1 DEF SelectReq
  <2>3. ReqBecomes(q, x) \/ ReqBecomes(q, y)
    BY <1>4 DEF SelectRows
  <2> HIDE DEF x, y, GoesOnOK
  <2> QED BY <1>1, <2>2, <2>3
<1>5. ASSUME NEW q \in Requests, WriteOutput(q) PROVE GoesOnOK
  <2> DEFINE x == [req[q] EXCEPT !.pc = "exportDone"]
  <2>1. req[q] \in SelectReq
    BY <1>5, ReqIs DEF WriteOutput, StockTypes
  <2>2. x.pc = "exportDone" /\ ReqBecomes(q, x)
    BY <1>5, <2>1 DEF SelectReq, WriteOutput
  <2> HIDE DEF x, GoesOnOK
  <2> QED BY <1>1, <2>2
<1>6. ASSUME NEW q \in Requests, FinishExport(q) PROVE GoesOnOK
  <2>1. ReqBecomes(q, Idle) /\ Idle.pc = "idle"
    BY <1>6 DEF FinishExport, Ends, Idle
  <2> HIDE DEF GoesOnOK
  <2> QED BY <1>1, <2>1
<1> HIDE DEF GoesOnOK
<1>7. GoesOnOK
  BY <1>2, <1>3, <1>4, <1>5, <1>6 DEF ExportStep
<1> QED BY <1>7 DEF GoesOnOK

-----------------------------------------------------------------------------
(* Imports beside everything else.                                         *)

LEMMA ImportInvStep == ASSUME ImportInv, [Next]_vars PROVE ImportInv'
<1>1. StockTypes /\ StockTypes'
  BY StockTypesStep DEF ImportInv
<1>2. CASE Import
  BY <1>1, <1>2, ImportStepInv DEF Import
<1>3. CASE Edit \/ Delete
  <2>1. OthersGoOn /\ UNCHANGED <<jobs, effects, preempted, contested>>
    BY <1>1, <1>3, EditGoesOn, DeleteGoesOn DEF Edit, Delete, JobsUntouched
  <2>2. SameJobs(Jobs) /\ \A p \in Requests : req'[p] = req[p] \/ ~Importing(p)'
    BY <2>1 DEF SameJobs, ImportInv, OthersGoOn, StockWork, Importing
  <2> QED BY <1>1, <2>2, StepElsewhere
<1>4. CASE Export
  <2>1. ExportStep
    BY <1>4 DEF Export
  <2>2. UNCHANGED <<jobs, effects, preempted, contested>>
    BY <2>1 DEF ExportStep, StartExport, BeginExport, SelectRows, WriteOutput, FinishExport, csvVars
  <2>3. SameJobs(Jobs)
    BY <2>2 DEF SameJobs, ImportInv
  <2> QED BY <1>1, <2>1, <2>3, ExportGoesOn, StepElsewhere
<1>5. CASE Read \/ Browse \/ Reconcile \/ UNCHANGED vars
  <2>1. UNCHANGED <<req, jobs, effects, preempted, contested>>
    BY <1>5 DEF Read, Browse, Reconcile, vars, csvVars
  <2>2. SameJobs(Jobs)
    BY <2>1 DEF SameJobs, ImportInv
  <2> QED BY <1>1, <2>1, <2>2, StepElsewhere
<1>6. ASSUME NEW q \in Requests, Stop(q) PROVE ImportInv'
  BY <1>1, <1>6, EndInv DEF Stop, StopJob, csvVars
<1> QED BY <1>2, <1>3, <1>4, <1>5, <1>6 DEF Next

\* Whatever is added, edited, deleted, exported, confirmed and stopped meanwhile: a
\* record of an uploaded file enters the stock once at most, and a job that is done
\* has counted each of its records for what has become of it, unless it was confirmed
\* while a run of it had yet to begin.
THEOREM ImportsAreExact == Spec => []ImportExact
<1>1. Init => ImportInv
  <2> SUFFICES ASSUME Init PROVE ImportInv
    OBVIOUS
  <2>1. StockTypes
    BY StockTypesInit
  <2>2. \A q \in Requests : ~Importing(q)
    BY DEF Init, InventoryInit, Idle, Importing
  <2>3. \A j \in Jobs : JobOK(j)
    BY DEF Init, CsvInit, JobOK
  <2>4. DOMAIN effects = Jobs /\ DOMAIN preempted = Jobs
    BY DEF Init, CsvInit
  <2> QED BY <2>1, <2>2, <2>3, <2>4 DEF ImportInv, RunsApart
<1>2. ImportInv /\ [Next]_vars => ImportInv'
  BY ImportInvStep
<1>3. ImportInv => ImportExact
  <2> SUFFICES ASSUME ImportInv, NEW j \in Jobs \ contested
               PROVE  /\ \A n \in DOMAIN effects[j] : effects[j][n] <= 1
                      /\ jobs[j] # None /\ jobs[j].status = "done" =>
                           /\ jobs[j].processed = Len(jobs[j].file.records)
                           /\ jobs[j].imported = Cardinality(Took(j) \cup preempted[j])
                           /\ jobs[j].skipped = jobs[j].processed - jobs[j].imported
                           /\ jobs[j].report <=> jobs[j].skipped > 0
    BY DEF ImportExact
  <2>1. JobOK(j)
    BY DEF ImportInv
  <2>2. \A n \in DOMAIN effects[j] : effects[j][n] <= 1
    <3>1. CASE jobs[j] = None
      BY <2>1, <3>1 DEF JobOK
    <3>2. CASE jobs[j] # None
      <4>1. effects[j] \in [1..Size(j) -> {0, 1}]
        BY <2>1, <3>2 DEF JobOK
      <4>2. \A n \in DOMAIN effects[j] : effects[j][n] \in {0, 1}
        BY <4>1
      <4> QED BY <4>2
    <3> QED BY <3>1, <3>2
  <2> QED BY <2>1, <2>2 DEF JobOK, Size, Accounted
<1> QED BY <1>1, <1>2, <1>3, PTL DEF Spec

-----------------------------------------------------------------------------
(* An export holds every row that was there all along, and no other that   *)
(* never matched.                                                          *)

Exporting(q) == req[q].pc \in {"exportStart", "exportRaw", "exportGraded", "exportWrite", "exportDone"}

\* A row that was there when the job began and still matches is in one of the
\* two answers, or is to be in the second.
SelectOK(q) ==
    LET e == req[q].export
        f == exports[e].filter
    IN
    /\ exports[e] # None
    /\ exports[e].status = IF req[q].pc = "exportStart" THEN "queued" ELSE "running"
    /\ req[q].pc = "exportGraded" => remains[e] \subseteq req[q].rows \cup SelectedGraded(f)
    /\ req[q].pc \in {"exportWrite", "exportDone"} => remains[e] \subseteq req[q].rows
    /\ req[q].pc \in {"exportGraded", "exportWrite", "exportDone"} => req[q].rows \subseteq matched[e]
    /\ req[q].pc = "exportDone" => outputs[e] = req[q].rows

ExportOK(e) ==
    /\ exports[e] = None => remains[e] = {}
    /\ exports[e] # None => remains[e] \subseteq Wanted(exports[e].filter)
    /\ exports[e] # None /\ exports[e].status = "running" => Wanted(exports[e].filter) \subseteq matched[e]
    /\ exports[e] # None /\ exports[e].status = "done" =>
         /\ outputs[e] \in SUBSET Items
         /\ Cardinality(outputs[e]) = exports[e].count
         /\ remains[e] \subseteq outputs[e] /\ outputs[e] \subseteq matched[e]

ExportsApart == \A p, q \in Requests : Exporting(p) /\ Exporting(q) /\ req[p].export = req[q].export => p = q

ExportInv ==
    /\ StockTypes
    /\ exports \in [Exports -> ExportRow \cup {None}]
    /\ DOMAIN outputs = Exports /\ DOMAIN remains = Exports /\ DOMAIN matched = Exports
    /\ ExportsApart
    /\ \A q \in Requests : Exporting(q) => SelectOK(q)
    /\ \A e \in Exports : ExportOK(e)

\* What an export is asked for is what its two SELECTs are for.
LEMMA WantedIs ==
    ASSUME NEW f
    PROVE  /\ Wanted(f) = SelectedRaw(f) \cup SelectedGraded(f)
           /\ Wanted(f)' = SelectedRaw(f)' \cup SelectedGraded(f)'
  BY DEF Wanted, SelectedRaw, SelectedGraded, InSet, Raw, Graded, Rows

LEMMA SelectedKept ==
    ASSUME UNCHANGED items, NEW f
    PROVE  /\ Wanted(f)' = Wanted(f) /\ SelectedRaw(f)' = SelectedRaw(f)
           /\ SelectedGraded(f)' = SelectedGraded(f)
  BY DEF Wanted, SelectedRaw, SelectedGraded, InSet, Raw, Graded, Rows

KindsKept == \A i \in Rows : i \in Rows' => items'[i].kind = items[i].kind

LEMMA KindsStep == ASSUME StockTypes, RowsStep PROVE KindsKept
<1> SUFFICES ASSUME NEW i \in Rows, i \in Rows' PROVE items'[i].kind = items[i].kind
  BY DEF KindsKept
<1>1. i \in Items /\ items[i] \in RowType /\ items'[i] \notin {None, Gone} /\ items[i] # None
  BY RowIs DEF Rows, StockTypes
<1> QED BY <1>1 DEF RowsStep, Appears, Rewritten, Removed

\* Of what an export is to hold, less or as much is left, and the second answer
\* lacks nothing of it that the first has not; what is asked for now is recorded.
Observed ==
    /\ DOMAIN remains' = Exports /\ DOMAIN matched' = Exports
    /\ \A e \in Exports :
         /\ remains'[e] \subseteq remains[e] /\ matched[e] \subseteq matched'[e]
         /\ \A f : exports[e] # None /\ f = exports[e].filter =>
              /\ remains'[e] \subseteq Wanted(f)'
              /\ remains'[e] \cap SelectedGraded(f) \subseteq SelectedGraded(f)'
              /\ exports[e].status = "running" => Wanted(f)' \subseteq matched'[e]

LEMMA BesideExports ==
    ASSUME ExportInv, StepOK, StockTypes', UNCHANGED <<exports, outputs>>, Observed,
           \A p \in Requests : req'[p] = req[p] \/ ~Exporting(p)'
    PROVE  ExportInv'
<1>1. ExportsApart'
  BY DEF ExportsApart, ExportInv, Exporting
<1>2. ASSUME NEW p \in Requests, Exporting(p)' PROVE SelectOK(p)'
  <2>1. req'[p] = req[p] /\ Exporting(p) /\ SelectOK(p)
    BY <1>2 DEF Exporting, ExportInv
  <2>2. PICK e \in Exports : e = req[p].export
    BY <2>1, ReqIs DEF Exporting, ExportInv, StockTypes, ExportReq, SelectReq
  <2>3. PICK f : f = exports[e].filter
    OBVIOUS
  <2>4. exports'[e] = exports[e] /\ outputs'[e] = outputs[e] /\ exports[e] # None
    BY <2>1, <2>2 DEF SelectOK
  <2>5. /\ remains'[e] \subseteq remains[e] /\ remains'[e] \cap SelectedGraded(f) \subseteq SelectedGraded(f)'
        /\ matched[e] \subseteq matched'[e]
    BY <2>3, <2>4 DEF Observed
  <2>6. /\ req[p].pc = "exportGraded" => remains[e] \subseteq req[p].rows \cup SelectedGraded(f)
        /\ req[p].pc \in {"exportWrite", "exportDone"} => remains[e] \subseteq req[p].rows
        /\ req[p].pc \in {"exportGraded", "exportWrite", "exportDone"} => req[p].rows \subseteq matched[e]
    BY <2>1, <2>2, <2>3 DEF SelectOK
  <2>7. /\ req[p].pc = "exportGraded" => remains'[e] \subseteq req[p].rows \cup SelectedGraded(f)'
        /\ req[p].pc \in {"exportWrite", "exportDone"} => remains'[e] \subseteq req[p].rows
        /\ req[p].pc \in {"exportGraded", "exportWrite", "exportDone"} => req[p].rows \subseteq matched'[e]
    BY <2>5, <2>6
  <2>8. SelectedGraded(f)' = SelectedGraded(exports[e].filter)'
    BY <2>3, <2>4 DEF SelectedGraded, InSet
  <2> QED BY <2>1, <2>2, <2>3, <2>4, <2>7, <2>8 DEF SelectOK
<1>3. ASSUME NEW e \in Exports PROVE ExportOK(e)'
  <2>1. PICK f : f = exports[e].filter
    OBVIOUS
  <2>2. Wanted(f)' = Wanted(exports[e].filter)' /\ exports'[e] = exports[e] /\ outputs'[e] = outputs[e]
    BY <2>1 DEF Wanted
  <2>3. ExportOK(e)
    BY DEF ExportInv
  <2>4. /\ remains'[e] \subseteq remains[e] /\ matched[e] \subseteq matched'[e]
        /\ exports[e] # None => remains'[e] \subseteq Wanted(f)'
        /\ exports[e] # None /\ exports[e].status = "running" => Wanted(f)' \subseteq matched'[e]
    BY <2>1 DEF Observed
  <2> QED BY <2>1, <2>2, <2>3, <2>4 DEF ExportOK
<1> QED BY <1>1, <1>2, <1>3 DEF ExportInv, Observed

\* A step that writes to the rows is observed by the exports.
LEMMA WorkObserved ==
    ASSUME ExportInv, StepOK, ExportsObserve, UNCHANGED exports
    PROVE  Observed
<1>1. KindsKept
  BY KindsStep DEF ExportInv, StepOK
<1>2. DOMAIN remains' = Exports /\ DOMAIN matched' = Exports
  BY DEF ExportsObserve
<1> SUFFICES ASSUME NEW e \in Exports
             PROVE  /\ remains'[e] \subseteq remains[e] /\ matched[e] \subseteq matched'[e]
                    /\ \A f : exports[e] # None /\ f = exports[e].filter =>
                         /\ remains'[e] \subseteq Wanted(f)'
                         /\ remains'[e] \cap SelectedGraded(f) \subseteq SelectedGraded(f)'
                         /\ exports[e].status = "running" => Wanted(f)' \subseteq matched'[e]
  BY <1>2 DEF Observed
<1>3. remains'[e] \subseteq remains[e] /\ matched[e] \subseteq matched'[e]
  BY DEF ExportsObserve
<1>4. ASSUME NEW f, exports[e] # None, f = exports[e].filter
      PROVE  /\ remains'[e] \subseteq Wanted(f)'
             /\ remains'[e] \cap SelectedGraded(f) \subseteq SelectedGraded(f)'
             /\ Wanted(f)' \subseteq matched'[e]
  <2>1. Wanted(f)' = Wanted(exports[e].filter)'
    BY <1>4 DEF Wanted
  <2>2. /\ remains'[e] = remains[e] \cap Wanted(exports[e].filter)'
        /\ matched'[e] = matched[e] \cup Wanted(exports[e].filter)'
    BY <1>4 DEF ExportsObserve
  <2>3. ASSUME NEW i \in remains'[e] \cap SelectedGraded(f) PROVE i \in SelectedGraded(f)'
    <3>1. i \in Wanted(f)' /\ i \in Rows /\ items[i].kind # "raw"
      BY <2>1, <2>2 DEF SelectedGraded, Graded, Raw
    <3>2. i \notin Raw'
      BY <1>1, <3>1 DEF KindsKept, Raw
    <3> QED BY <3>1, <3>2, WantedIs DEF SelectedRaw
  <2> QED BY <2>1, <2>2, <2>3
<1> QED BY <1>3, <1>4

LEMMA RestObserved ==
    ASSUME ExportInv, UNCHANGED <<items, exports, observed>>
    PROVE  Observed
<1> SUFFICES ASSUME NEW e \in Exports, NEW f, exports[e] # None, f = exports[e].filter
             PROVE  /\ remains[e] \subseteq Wanted(f)'
                    /\ remains[e] \cap SelectedGraded(f) \subseteq SelectedGraded(f)'
                    /\ exports[e].status = "running" => Wanted(f)' \subseteq matched[e]
  BY DEF Observed, observed, ExportInv
<1>1. ExportOK(e)
  BY DEF ExportInv
<1> QED BY <1>1, SelectedKept DEF ExportOK

\* A step of one request at one export, which no other request runs.
LEMMA StepAtExport ==
    ASSUME ExportInv, StockTypes', UNCHANGED items, NEW q \in Requests, NEW e \in Exports,
           \A p \in Requests \ {q} : req'[p] = req[p],
           \A p \in Requests \ {q} : Exporting(p) => req[p].export # e,
           \A k \in Exports \ {e} : /\ exports'[k] = exports[k] /\ outputs'[k] = outputs[k]
                                    /\ remains'[k] = remains[k] /\ matched'[k] = matched[k],
           exports' \in [Exports -> ExportRow \cup {None}],
           DOMAIN outputs' = Exports /\ DOMAIN remains' = Exports /\ DOMAIN matched' = Exports,
           Exporting(q)' => req'[q].export = e /\ SelectOK(q)',
           ExportOK(e)'
    PROVE  ExportInv'
<1>1. ExportsApart'
  <2> SUFFICES ASSUME NEW p \in Requests, NEW r \in Requests, Exporting(p)', Exporting(r)',
                      req'[p].export = req'[r].export, p # r
               PROVE  FALSE
    BY DEF ExportsApart
  <2>1. CASE p = q
    BY <2>1 DEF Exporting
  <2>2. CASE r = q
    BY <2>2 DEF Exporting
  <2>3. CASE p # q /\ r # q
    BY <2>3 DEF Exporting, ExportInv, ExportsApart
  <2> QED BY <2>1, <2>2, <2>3
<1>2. ASSUME NEW p \in Requests, Exporting(p)' PROVE SelectOK(p)'
  <2>1. CASE p = q
    BY <1>2, <2>1
  <2>2. CASE p # q
    <3>1. req'[p] = req[p] /\ Exporting(p) /\ SelectOK(p)
      BY <1>2, <2>2 DEF Exporting, ExportInv
    <3>2. req[p].export \in Exports \ {e}
      BY <2>2, <3>1, ReqIs DEF Exporting, ExportInv, StockTypes, ExportReq, SelectReq
    <3>3. PICK f : f = exports[req[p].export].filter
      OBVIOUS
    <3>4. SelectedGraded(f)' = SelectedGraded(exports[req[p].export].filter)'
      BY <3>1, <3>2, <3>3 DEF SelectedGraded, InSet
    <3>5. SelectedGraded(f)' = SelectedGraded(f)
      BY SelectedKept
    <3> QED BY <3>1, <3>2, <3>3, <3>4, <3>5 DEF SelectOK
  <2> QED BY <2>1, <2>2
<1>3. ASSUME NEW k \in Exports PROVE ExportOK(k)'
  <2>1. CASE k # e
    <3>1. PICK f : f = exports[k].filter
      OBVIOUS
    <3>2. Wanted(f)' = Wanted(exports[k].filter)'
      BY <2>1, <3>1 DEF Wanted
    <3>3. Wanted(f)' = Wanted(f)
      BY SelectedKept
    <3>4. ExportOK(k)
      BY DEF ExportInv
    <3> QED BY <2>1, <3>1, <3>2, <3>3, <3>4 DEF ExportOK
  <2> QED BY <2>1
<1> QED BY <1>1, <1>2, <1>3 DEF ExportInv

LEMMA ExportAlone ==
    ASSUME ExportInv, NEW q \in Requests, Exporting(q)
    PROVE  \E e \in Exports : /\ req[q].export = e /\ exports[e] # None /\ exports[e] \in ExportRow
                              /\ SelectOK(q) /\ ExportOK(e)
                              /\ \A p \in Requests \ {q} : Exporting(p) => req[p].export # e
<1>1. req[q].export \in Exports /\ SelectOK(q)
  BY ReqIs DEF Exporting, ExportInv, StockTypes, ExportReq, SelectReq
<1> QED BY <1>1 DEF ExportInv, ExportsApart, SelectOK

LEMMA StartExportInv ==
    ASSUME ExportInv, StockTypes', NEW q \in Requests, NEW e \in Exports, NEW f \in Filters, StartExport(q, e, f)
    PROVE  ExportInv'
<1> DEFINE x == [pc |-> "exportStart", export |-> e]
           row == [status |-> "queued", filter |-> f, count |-> None]
<1>1. /\ exports[e] = None /\ ReqBecomes(q, x) /\ exports' = [exports EXCEPT ![e] = row]
      /\ UNCHANGED <<items, outputs, remains, matched>>
  BY DEF StartExport, stockVars, observed
<1>2. row \in ExportRow /\ row.status = "queued" /\ x.pc = "exportStart" /\ x.export = e
  BY DEF ExportRow
<1>3. row # None
  BY <1>2, CsvAssumption
<1> HIDE DEF x, row
<1>4. req'[q] = x /\ \A p \in Requests \ {q} : req'[p] = req[p]
  BY <1>1, BecomesOne DEF ExportInv, StockTypes
<1>5. /\ exports' \in [Exports -> ExportRow \cup {None}] /\ exports'[e] = row
      /\ \A k \in Exports \ {e} : exports'[k] = exports[k]
  BY <1>1, <1>2 DEF ExportInv
<1>6. \A p \in Requests \ {q} : Exporting(p) => req[p].export # e
  BY <1>1, ExportAlone
<1>7. ExportOK(e)'
  BY <1>1, <1>2, <1>3, <1>5 DEF ExportInv, ExportOK
<1>8. SelectOK(q)'
  <2> DEFINE r == req'[q]
  <2>1. r.pc = "exportStart" /\ r.export = e
    BY <1>2, <1>4
  <2> HIDE DEF r
  <2> QED BY <1>2, <1>3, <1>5, <2>1 DEF SelectOK, r
<1> QED BY <1>1, <1>2, <1>4, <1>5, <1>6, <1>7, <1>8, StepAtExport DEF ExportInv

LEMMA BeginExportInv == ASSUME ExportInv, StockTypes', NEW q \in Requests, BeginExport(q) PROVE ExportInv'
<1>1. PICK e \in Exports : /\ req[q].export = e /\ exports[e] # None /\ exports[e] \in ExportRow
                           /\ ExportOK(e)
                           /\ \A p \in Requests \ {q} : Exporting(p) => req[p].export # e
  BY ExportAlone DEF BeginExport, Exporting
<1>2. PICK f : f = exports[e].filter
  OBVIOUS
<1> DEFINE x == [pc |-> "exportRaw", export |-> e, rows |-> {}]
           row == [exports[e] EXCEPT !.status = "running"]
<1>3. /\ ReqBecomes(q, x) /\ exports' = [exports EXCEPT ![e] = row]
      /\ remains' = [remains EXCEPT ![e] = Wanted(f)]
      /\ matched' = [matched EXCEPT ![e] = Wanted(f)]
      /\ UNCHANGED <<items, outputs>>
  BY <1>1, <1>2 DEF BeginExport, stockVars
<1>4. row \in ExportRow /\ row.status = "running" /\ row.filter = f /\ x.pc = "exportRaw" /\ x.export = e
  BY <1>1, <1>2 DEF ExportRow
<1>5. row # None
  BY <1>4, CsvAssumption
<1> HIDE DEF x, row
<1>6. req'[q] = x /\ \A p \in Requests \ {q} : req'[p] = req[p]
  BY <1>3, BecomesOne DEF ExportInv, StockTypes
<1>7. /\ exports' \in [Exports -> ExportRow \cup {None}] /\ exports'[e] = row
      /\ DOMAIN remains' = Exports /\ DOMAIN matched' = Exports
      /\ remains'[e] = Wanted(f) /\ matched'[e] = Wanted(f)
      /\ \A k \in Exports \ {e} : /\ exports'[k] = exports[k] /\ remains'[k] = remains[k]
                                  /\ matched'[k] = matched[k]
  BY <1>3, <1>4 DEF ExportInv
<1>8. ExportOK(e)'
  <2>1. Wanted(f) = Wanted(exports[e].filter)'
    <3>1. exports'[e].filter = f
      BY <1>4, <1>7
    <3> QED BY <1>3, <3>1 DEF Wanted, Rows
  <2> QED BY <1>4, <1>5, <1>7, <2>1 DEF ExportOK
<1>9. SelectOK(q)'
  <2> DEFINE r == req'[q]
  <2>1. r.pc = "exportRaw" /\ r.export = e
    BY <1>4, <1>6
  <2> HIDE DEF r
  <2> QED BY <1>4, <1>5, <1>7, <2>1 DEF SelectOK, r
<1> QED BY <1>1, <1>3, <1>4, <1>6, <1>7, <1>8, <1>9, StepAtExport DEF ExportInv

LEMMA SelectRowsInv == ASSUME ExportInv, StockTypes', NEW q \in Requests, SelectRows(q) PROVE ExportInv'
<1>1. PICK e \in Exports : /\ req[q].export = e /\ exports[e] # None /\ exports[e] \in ExportRow
                           /\ SelectOK(q) /\ ExportOK(e)
                           /\ \A p \in Requests \ {q} : Exporting(p) => req[p].export # e
  BY ExportAlone DEF SelectRows, Exporting
<1>2. PICK f : f = exports[e].filter
  OBVIOUS
<1>3. UNCHANGED <<items, exports, outputs, remains, matched>> /\ req[q] \in SelectReq
  BY ReqIs DEF SelectRows, stockVars, csvVars, observed, ExportInv, StockTypes
<1> DEFINE R == SelectedRaw(f)
           G == SelectedGraded(f)
           x == [req[q] EXCEPT !.pc = "exportGraded", !.rows = R]
           y == [req[q] EXCEPT !.pc = "exportWrite", !.rows = @ \cup G]
<1>4. \/ req[q].pc = "exportRaw" /\ ReqBecomes(q, x)
      \/ req[q].pc = "exportGraded" /\ ReqBecomes(q, y)
  BY <1>1, <1>2 DEF SelectRows
<1>5. /\ x.pc = "exportGraded" /\ x.export = e /\ x.rows = R
      /\ y.pc = "exportWrite" /\ y.export = e /\ y.rows = req[q].rows \cup G
  BY <1>1, <1>3 DEF SelectReq
<1> HIDE DEF x, y
<1>6. ExportOK(e)'
  <2>1. Wanted(f) = Wanted(exports[e].filter)'
    BY <1>2, <1>3 DEF Wanted, Rows
  <2> QED BY <1>1, <1>2, <1>3, <2>1 DEF ExportOK
<1>7. /\ \A p \in Requests \ {q} : req'[p] = req[p]
      /\ \/ req[q].pc = "exportRaw" /\ req'[q] = x
         \/ req[q].pc = "exportGraded" /\ req'[q] = y
  BY <1>4, BecomesOne DEF ExportInv, StockTypes
<1>8. exports[e].status = "running" /\ remains[e] \subseteq R \cup G /\ R \cup G \subseteq matched[e]
      /\ (req[q].pc = "exportGraded" =>
            remains[e] \subseteq req[q].rows \cup G /\ req[q].rows \subseteq matched[e])
  BY <1>1, <1>2, <1>7, WantedIs DEF SelectOK, ExportOK
<1>9. SelectOK(q)'
  <2> DEFINE r == req'[q]
  <2>1. CASE req[q].pc = "exportRaw" /\ r = x
    <3>1. r.pc = "exportGraded" /\ r.export = e /\ r.rows = R
      BY <1>5, <2>1
    <3>2. G = SelectedGraded(exports[e].filter)'
      BY <1>2, <1>3 DEF SelectedGraded, InSet, Graded, Raw, Rows
    <3> HIDE DEF r, R, G
    <3> QED BY <1>1, <1>3, <1>8, <3>1, <3>2 DEF SelectOK, r
  <2>2. CASE req[q].pc = "exportGraded" /\ r = y
    <3>1. r.pc = "exportWrite" /\ r.export = e /\ r.rows = req[q].rows \cup G
      BY <1>5, <2>2
    <3> HIDE DEF r, R, G
    <3> QED BY <1>1, <1>3, <1>8, <2>2, <3>1 DEF SelectOK, r
  <2> QED BY <1>7, <2>1, <2>2
<1>10. req'[q].export = e
  BY <1>5, <1>7
<1> QED BY <1>1, <1>3, <1>6, <1>7, <1>9, <1>10, StepAtExport DEF ExportInv

LEMMA WriteOutputInv == ASSUME ExportInv, StockTypes', NEW q \in Requests, WriteOutput(q) PROVE ExportInv'
<1>1. PICK e \in Exports : /\ req[q].export = e /\ exports[e] # None /\ exports[e] \in ExportRow
                           /\ SelectOK(q) /\ ExportOK(e)
                           /\ \A p \in Requests \ {q} : Exporting(p) => req[p].export # e
  BY ExportAlone DEF WriteOutput, Exporting
<1> DEFINE x == [req[q] EXCEPT !.pc = "exportDone"]
<1>2. /\ req[q].pc = "exportWrite" /\ ReqBecomes(q, x) /\ outputs' = [outputs EXCEPT ![e] = req[q].rows]
      /\ UNCHANGED <<items, exports, remains, matched>> /\ req[q] \in SelectReq
  BY <1>1, ReqIs DEF WriteOutput, stockVars, observed, ExportInv, StockTypes
<1>3. x.pc = "exportDone" /\ x.export = e /\ x.rows = req[q].rows
  BY <1>1, <1>2 DEF SelectReq
<1> HIDE DEF x
<1>4. req'[q] = x /\ \A p \in Requests \ {q} : req'[p] = req[p]
  BY <1>2, BecomesOne DEF ExportInv, StockTypes
<1>5. /\ outputs'[e] = req[q].rows /\ DOMAIN outputs' = Exports
      /\ \A k \in Exports \ {e} : outputs'[k] = outputs[k]
  BY <1>2 DEF ExportInv
<1>6. exports[e].status = "running" /\ remains[e] \subseteq req[q].rows /\ req[q].rows \subseteq matched[e]
  BY <1>1, <1>2 DEF SelectOK
<1>9. PICK f : f = exports[e].filter
  OBVIOUS
<1>7. ExportOK(e)'
  <2>1. Wanted(f) = Wanted(exports[e].filter)'
    BY <1>2, <1>9 DEF Wanted, Rows
  <2> QED BY <1>1, <1>2, <1>6, <1>9, <2>1 DEF ExportOK
<1>8. SelectOK(q)'
  <2> DEFINE r == req'[q]
  <2>1. r.pc = "exportDone" /\ r.export = e /\ r.rows = req[q].rows
    BY <1>3, <1>4
  <2> HIDE DEF r
  <2> QED BY <1>1, <1>2, <1>5, <1>6, <2>1 DEF SelectOK, r
<1> QED BY <1>1, <1>2, <1>3, <1>4, <1>5, <1>7, <1>8, StepAtExport DEF ExportInv

LEMMA FinishExportInv == ASSUME ExportInv, StockTypes', NEW q \in Requests, FinishExport(q) PROVE ExportInv'
<1>1. PICK e \in Exports : /\ req[q].export = e /\ exports[e] # None /\ exports[e] \in ExportRow
                           /\ SelectOK(q) /\ ExportOK(e)
                           /\ \A p \in Requests \ {q} : Exporting(p) => req[p].export # e
  BY ExportAlone DEF FinishExport, Exporting
<1> DEFINE c == Cardinality(req[q].rows)
           row == [exports[e] EXCEPT !.status = "done", !.count = c]
<1>2. /\ req[q].pc = "exportDone" /\ ReqBecomes(q, Idle) /\ exports' = [exports EXCEPT ![e] = row]
      /\ UNCHANGED <<items, outputs, remains, matched>> /\ req[q] \in SelectReq
  BY <1>1, ReqIs DEF FinishExport, Ends, stockVars, observed, ExportInv, StockTypes
<1>3. c \in Nat /\ req[q].rows \in SUBSET Items
  <2>1. req[q].rows \in SUBSET Items
    BY <1>2 DEF SelectReq
  <2> QED BY <2>1, CsvAssumption, FS_Subset, FS_CardinalityType
<1>4. /\ remains[e] \subseteq req[q].rows /\ req[q].rows \subseteq matched[e]
      /\ outputs[e] = req[q].rows /\ Cardinality(outputs[e]) = c
  BY <1>1, <1>2 DEF SelectOK
<1> HIDE DEF c
<1>5. row \in ExportRow /\ row.status = "done" /\ row.filter = exports[e].filter /\ row.count = c
  BY <1>1, <1>3 DEF ExportRow
<1> HIDE DEF row
<1>6. ~Exporting(q)' /\ \A p \in Requests \ {q} : req'[p] = req[p]
  BY <1>2, BecomesOne DEF ExportInv, StockTypes, Exporting, Idle
<1>7. /\ exports' \in [Exports -> ExportRow \cup {None}] /\ exports'[e] = row
      /\ \A k \in Exports \ {e} : exports'[k] = exports[k]
  BY <1>2, <1>5 DEF ExportInv
<1>9. PICK f : f = exports[e].filter
  OBVIOUS
<1>8. ExportOK(e)'
  <2>1. Wanted(f) = Wanted(exports[e].filter)'
    <3>1. exports'[e].filter = f
      BY <1>5, <1>7, <1>9
    <3> QED BY <1>2, <3>1 DEF Wanted, Rows
  <2>2. row # None
    BY <1>5, CsvAssumption
  <2> QED BY <1>1, <1>2, <1>3, <1>4, <1>5, <1>7, <1>9, <2>1, <2>2 DEF ExportOK
<1> QED BY <1>1, <1>2, <1>6, <1>7, <1>8, StepAtExport DEF ExportInv

\* Imports are not exports.
LEMMA ImportGoesOn ==
    ASSUME StockTypes, ImportStep
    PROVE  \A p \in Requests : req'[p] = req[p] \/ ~Exporting(p)'
<1> DEFINE GoesOnOK == \A p \in Requests : req'[p] = req[p] \/ ~Exporting(p)'
           Pcs == {"idle", "start", "read", "record", "insert", "progress", "remove"}
<1>1. ASSUME NEW q \in Requests, NEW x, ReqBecomes(q, x), x.pc \in Pcs PROVE GoesOnOK
  BY <1>1, BecomesOne DEF StockTypes, Exporting
<1>2. ASSUME NEW q \in Requests, NEW j \in Jobs, NEW map \in SUBSET DOMAIN Candidates, ReqBecomes(q, Run(j, map))
      PROVE  GoesOnOK
  <2> HIDE DEF GoesOnOK
  <2> QED BY <1>1, <1>2, RunIs
<1>3. ASSUME NEW q \in Requests, NEW pc \in Pcs, req[q] \in BeginReq \cup RecordReq, ReqBecomes(q, [req[q] EXCEPT !.pc = pc])
      PROVE  GoesOnOK
  <2> DEFINE x == [req[q] EXCEPT !.pc = pc]
  <2>1. x.pc = pc
    BY <1>3 DEF BeginReq, RecordReq
  <2> HIDE DEF x, GoesOnOK, Pcs
  <2> QED BY <1>1, <1>3, <2>1 DEF x
<1>4. ASSUME NEW q \in Requests, Ends(q) PROVE GoesOnOK
  <2>1. ReqBecomes(q, Idle) /\ Idle.pc = "idle"
    BY <1>4 DEF Ends, Idle
  <2> HIDE DEF GoesOnOK
  <2> QED BY <1>1, <2>1
<1>5. ASSUME NEW q \in Requests, req[q] \in RecordReq, Skipped(q) \/ Imported(q) PROVE GoesOnOK
  <2> DEFINE x == [req[q] EXCEPT !.n = @ + 1, !.skipped = @ + 1]
             y == [req[q] EXCEPT !.pc = IF req[q].n % ProgressEvery = 0 THEN "progress" ELSE "record",
                                 !.n = @ + 1, !.imported = @ + 1]
  <2>1. x.pc = req[q].pc /\ y.pc \in {"progress", "record"} /\ req[q].pc \in Pcs
    BY <1>5 DEF RecordReq
  <2>2. ReqBecomes(q, x) \/ ReqBecomes(q, y)
    BY <1>5 DEF Skipped, Imported
  <2> HIDE DEF x, y, GoesOnOK
  <2> QED BY <1>1, <2>1, <2>2
<1> HIDE DEF GoesOnOK
<1>6. ASSUME NEW q \in Requests PROVE req[q].pc \in {"start", "read"} => req[q] \in BeginReq
  BY ReqIs DEF StockTypes
<1>7. ASSUME NEW q \in Requests PROVE req[q].pc \in {"record", "insert", "progress"} => req[q] \in RecordReq
  BY ReqIs DEF StockTypes
<1>8. ASSUME NEW q \in Requests, NEW j \in Jobs, NEW file \in Files,
             NEW given \in {None} \cup SUBSET DOMAIN Candidates, StartImport(q, j, file, given)
      PROVE  GoesOnOK
  <2>1. CASE UNCHANGED req
    BY <2>1 DEF GoesOnOK
  <2> DEFINE map == IF given = None THEN Detected(file.headers) ELSE given
  <2>2. map \in SUBSET DOMAIN Candidates
    BY DetectedIs
  <2>3. UNCHANGED req \/ ReqBecomes(q, Run(j, map))
    BY <1>8 DEF StartImport
  <2> HIDE DEF map
  <2> QED BY <1>2, <2>1, <2>2, <2>3
<1>9. ASSUME NEW q \in Requests, SetRunning(q) \/ ReportProgress(q) PROVE GoesOnOK
  BY <1>3, <1>6, <1>7, <1>9 DEF SetRunning, ReportProgress
<1>10. ASSUME NEW q \in Requests, ReadFile(q) PROVE GoesOnOK
  <2>1. ASSUME NEW j, NEW map, ReqBecomes(q, [pc |-> "record", job |-> j, map |-> map, n |-> 1,
                                              imported |-> 0, skipped |-> 0])
        PROVE  GoesOnOK
    BY <1>1, <2>1
  <2> QED BY <1>4, <1>10, <2>1 DEF ReadFile
<1>11. ASSUME NEW q \in Requests, CheckCert(q) PROVE GoesOnOK
  BY <1>3, <1>5, <1>7, <1>11 DEF CheckCert, Readable, Reading
<1>12. ASSUME NEW q \in Requests, FinishImport(q) PROVE GoesOnOK
  <2>1. ReqBecomes(q, [pc |-> "remove", job |-> req[q].job])
    BY <1>12 DEF FinishImport
  <2> QED BY <1>1, <2>1
<1>13. ASSUME NEW q \in Requests, SkipRecord(q) \/ ImportRaw(q) \/ ImportGraded(q) \/ RemoveFile(q) PROVE GoesOnOK
  BY <1>4, <1>5, <1>7, <1>13 DEF SkipRecord, ImportRaw, ImportGraded, RemoveFile, Readable, Reading
<1>14. GoesOnOK
  BY <1>2, <1>8, <1>9, <1>10, <1>11, <1>12, <1>13 DEF ImportStep, Confirm
<1> QED BY <1>14 DEF GoesOnOK

LEMMA ExportStepInv == ASSUME ExportInv, StockTypes', ExportStep PROVE ExportInv'
  BY StartExportInv, BeginExportInv, SelectRowsInv, WriteOutputInv, FinishExportInv DEF ExportStep

-----------------------------------------------------------------------------
(* Exports beside everything else.                                         *)

LEMMA ExportInvStep == ASSUME ExportInv, [Next]_vars PROVE ExportInv'
<1>1. StockTypes /\ StockTypes' /\ StepOK
  BY NextOK, StockTypesStep DEF ExportInv
<1>2. CASE Export
  BY <1>1, <1>2, ExportStepInv DEF Export
<1>3. CASE Edit \/ Delete
  <2>1. OthersGoOn /\ JobsUntouched
    BY <1>1, <1>3, EditGoesOn, DeleteGoesOn DEF Edit, Delete
  <2>2. ExportsObserve /\ UNCHANGED <<exports, outputs>>
    BY <2>1 DEF JobsUntouched
  <2>3. \A p \in Requests : req'[p] = req[p] \/ ~Exporting(p)'
    BY <2>1 DEF OthersGoOn, StockWork, Exporting
  <2> QED BY <1>1, <2>2, <2>3, WorkObserved, BesideExports
<1>4. CASE Import
  <2>1. ImportStep
    BY <1>4 DEF Import
  <2>2. /\ UNCHANGED <<exports, outputs>>
        /\ ExportsObserve \/ UNCHANGED <<items, observed>>
    BY <2>1 DEF ImportStep, StartImport, Confirm, SetRunning, ReadFile, SkipRecord, ImportRaw, CheckCert,
       ImportGraded, ReportProgress, FinishImport, RemoveFile, csvVars, stockVars
  <2>3. Observed
    BY <1>1, <2>2, WorkObserved, RestObserved
  <2> QED BY <1>1, <2>1, <2>2, <2>3, ImportGoesOn, BesideExports
<1>5. ASSUME UNCHANGED <<items, csvVars>>, \A p \in Requests : req'[p] = req[p] \/ ~Exporting(p)'
      PROVE  ExportInv'
  <2>1. UNCHANGED <<items, exports, outputs, observed>>
    BY <1>5 DEF csvVars
  <2> QED BY <1>1, <1>5, <2>1, RestObserved, BesideExports
<1>6. CASE Read \/ Browse \/ Reconcile \/ UNCHANGED vars
  <2>1. UNCHANGED <<items, req, csvVars>>
    BY <1>6 DEF Read, Browse, Reconcile, vars, stockVars
  <2> QED BY <1>5, <2>1
<1>7. ASSUME NEW q \in Requests, Stop(q) PROVE ExportInv'
  <2>1. UNCHANGED <<items, csvVars>> /\ ReqBecomes(q, Idle)
    BY <1>7 DEF Stop, StopJob, Ends, stockVars
  <2>2. \A p \in Requests : req'[p] = req[p] \/ ~Exporting(p)'
    BY <1>1, <2>1, BecomesOne DEF StockTypes, Idle, Exporting
  <2> QED BY <1>5, <2>1, <2>2
<1> QED BY <1>2, <1>3, <1>4, <1>6, <1>7 DEF Next

\* Whatever is added, edited, deleted, imported and stopped while an export runs:
\* one that is done has its file, of as many rows as the job says, and in it every
\* row that was there, and as the filters ask for, from the job's beginning on, and
\* none that never was so.
THEOREM ExportsAreComplete == Spec => []ExportComplete
<1>1. Init => ExportInv
  <2> SUFFICES ASSUME Init PROVE ExportInv
    OBVIOUS
  <2>1. StockTypes
    BY StockTypesInit
  <2>2. \A q \in Requests : ~Exporting(q)
    BY DEF Init, InventoryInit, Idle, Exporting
  <2>3. \A e \in Exports : ExportOK(e)
    BY DEF Init, CsvInit, ExportOK
  <2>4. /\ exports \in [Exports -> ExportRow \cup {None}]
        /\ DOMAIN outputs = Exports /\ DOMAIN remains = Exports /\ DOMAIN matched = Exports
    BY DEF Init, CsvInit
  <2> QED BY <2>1, <2>2, <2>3, <2>4 DEF ExportInv, ExportsApart
<1>2. ExportInv /\ [Next]_vars => ExportInv'
  BY ExportInvStep
<1>3. ExportInv => ExportComplete
  BY CsvAssumption DEF ExportInv, ExportOK, ExportComplete
<1> QED BY <1>1, <1>2, <1>3, PTL DEF Spec
=============================================================================
