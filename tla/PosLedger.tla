----------------------------- MODULE PosLedger -----------------------------
(***************************************************************************)
(* The sale ledger of one POS connection: what run_reconciliation ingests  *)
(* (crates/api/src/pos/reconcile.rs) and what the mapping service does to  *)
(* the same rows (crates/api/src/pos/mapping.rs).                          *)
(*                                                                         *)
(* The database pool autocommits, so one SQL statement is one action and   *)
(* everything in progress interleaves between statements: the hourly       *)
(* scheduler, "sync now" requests, and create/update/delete mapping        *)
(* requests.  A run or a request may also end between two statements (an   *)
(* error returned by the database or the provider, a dropped connection,   *)
(* a crash); nothing in the code undoes the statements already made.       *)
(*                                                                         *)
(* printings.quantity is represented by its history: charge[p][row] is the *)
(* number of times the quantity of that transaction line has been added to *)
(* the quantity of printing p, so quantity[p] is its initial value plus    *)
(* the sum over rows of charge[p][row] * quantity(row).  Every statement   *)
(* that changes a quantity here adds or subtracts a sum over line rows, so *)
(* the representation loses nothing that the ledger does.                  *)
(***************************************************************************)
EXTENDS Integers

CONSTANTS
    Runs,         \* reconciliation runs in progress at once: scheduler, sync now
    Scheduler,    \* the run of the hourly task, the only one that always returns
    Admins,       \* mapping requests in progress at once
    Sales,        \* sales by external id
    Lines,        \* the lines of those sales
    Skus,
    Printings,
    SaleOf,       \* the sale of a line
    SkuOf,        \* the pos_sku of a line
    None,         \* SQL NULL, and "no row"
    Ops,          \* the mapping requests made: "create", "update", "delete"
    Pulls,        \* connection.pulls_from_pos()
    MappingAlone, \* mapping requests are made only while nothing else is in progress
    MaxRequests,  \* bound: mapping requests made
    MaxStops      \* bound: runs and requests that end early

MappingRow == [id : Nat, printing : Printings]
UnmappedLine == [printing |-> None, mapping |-> None]
LineRow == [printing : Printings, mapping : Nat] \cup {UnmappedLine}

ASSUME ConstantsAssumption ==
    /\ Scheduler \in Runs
    /\ SaleOf \in [Lines -> Sales]
    /\ SkuOf \in [Lines -> Skus]
    /\ None \notin Sales \cup Lines \cup Skus \cup Printings
    /\ None \notin MappingRow \cup LineRow
    /\ Ops \subseteq {"create", "update", "delete"}
    /\ Pulls \in BOOLEAN
    /\ MappingAlone \in BOOLEAN
    /\ MaxRequests \in Nat
    /\ MaxStops \in Nat

VARIABLES
    made,      \* sales rung up at the POS so far
    behind,    \* sales dated before pos_connections.last_synced_at
    txns,      \* rows of transactions: the sale and the run that inserted it
    lines,     \* rows of transaction_lines, by line and inserting run
    mappings,  \* rows of pos_product_mappings, by SKU
    queued,    \* SKUs with a row in unmapped_pos_skus
    charge,    \* the quantity column of printings, as a history
    run,       \* the program state of each run
    admin,     \* the program state of each mapping request
    requests,  \* mapping requests so far; the n-th, if it inserts, inserts id n
    stops,     \* runs and requests that ended early
    unseen     \* history: sales that a run that advanced the watermark may not have seen

rows == <<made, behind, txns, lines, mappings, queued, charge>>
vars == <<made, behind, txns, lines, mappings, queued, charge,
          run, admin, requests, stops, unseen>>

RowKeys == Lines \X Runs

LinesOf(s) == {l \in Lines : SaleOf[l] = s}
Recorded == {t.sale : t \in txns}
Posted(k) == lines[k] # None
MappingExists(id) == \E k \in Skus : mappings[k] # None /\ mappings[k].id = id

IdleRun == [pc |-> "idle", since |-> {}, batch |-> {}, sale |-> None,
            todo |-> {}, line |-> None, found |-> None, skus |-> {}]
IdleAdmin == [pc |-> "idle", op |-> None, sku |-> None, id |-> None,
              old |-> None, new |-> None, sum |-> {}]

RunsIdle == \A r \in Runs : run[r].pc = "idle"
AdminsIdle == \A a \in Admins : admin[a].pc = "idle"
Quiet == RunsIdle /\ AdminsIdle

\* The run has fetched its sales and has not yet advanced the watermark.
Ingesting(r) == run[r].pc \in {"pick", "insert", "line", "queue", "write", "charge"}

Init ==
    /\ made = {} /\ behind = {} /\ txns = {} /\ queued = {} /\ unseen = {}
    /\ lines = [k \in RowKeys |-> None]
    /\ mappings = [k \in Skus |-> None]
    /\ charge = [p \in Printings |-> [k \in RowKeys |-> 0]]
    /\ run = [r \in Runs |-> IdleRun]
    /\ admin = [a \in Admins |-> IdleAdmin]
    /\ requests = 0 /\ stops = 0

RunBecomes(r, state) == run' = [run EXCEPT ![r] = state]
AdminBecomes(a, state) == admin' = [admin EXCEPT ![a] = state]

\* The quantities of the lines in ks are added n times to that of printing p.
AddToCharge(p, ks, n) ==
    charge' = [charge EXCEPT ![p] =
                 [k \in RowKeys |-> IF k \in ks THEN charge[p][k] + n ELSE charge[p][k]]]

-----------------------------------------------------------------------------
(* The POS.  A sale made while some run is between its fetch and its       *)
(* watermark is remembered in "unseen".                                    *)

MakeSale(s) ==
    /\ s \notin made
    /\ made' = made \cup {s}
    /\ unseen' = IF \E r \in Runs : Ingesting(r) THEN unseen \cup {s} ELSE unseen
    /\ UNCHANGED <<behind, txns, lines, mappings, queued, charge,
                   run, admin, requests, stops>>

-----------------------------------------------------------------------------
(* run_reconciliation: the connection row is read first, and ingest_sales  *)
(* asks for the sales since the last_synced_at of that row.                *)

BeginRun(r) ==
    /\ run[r].pc = "idle"
    /\ MappingAlone => AdminsIdle
    /\ RunBecomes(r, [run[r] EXCEPT !.pc = "fetch", !.since = behind])
    /\ UNCHANGED <<rows, admin, requests, stops, unseen>>

\* Square's adapter reads a failure to answer for its locations as no sales, which are
\* then remembered in "unseen" too.
GetSales(r) ==
    LET there == made \ run[r].since IN
    /\ run[r].pc = "fetch"
    /\ \E sales \in {there, {}} :
         /\ RunBecomes(r, [run[r] EXCEPT !.pc = "pick", !.since = {}, !.batch = sales])
         /\ unseen' = unseen \cup (there \ sales)
    /\ UNCHANGED <<rows, admin, requests, stops>>

(* The EXISTS guard on (connection_id, external_id).                       *)
PickSale(r) ==
    /\ run[r].pc = "pick"
    /\ \E s \in run[r].batch :
         RunBecomes(r, [run[r] EXCEPT !.batch = @ \ {s},
                                      !.pc = IF s \in Recorded THEN "pick" ELSE "insert",
                                      !.sale = IF s \in Recorded THEN None ELSE s])
    /\ UNCHANGED <<rows, admin, requests, stops, unseen>>

(* After the last line of a sale the loop goes on with the next sale.      *)
LineDone(r, todo) ==
    IF todo = {}
    THEN [run[r] EXCEPT !.pc = "pick", !.sale = None, !.todo = {},
                        !.line = None, !.found = None]
    ELSE [run[r] EXCEPT !.pc = "line", !.todo = todo,
                        !.line = None, !.found = None]

\* The UNIQUE (connection_id, external_id) constraint; in the mutant the table
\* has none.
KeyTaken_NoConstraint(s) == FALSE
KeyTaken(s) == s \in Recorded

InsertTxn(r) ==
    /\ run[r].pc = "insert"
    /\ LET s == run[r].sale IN
         /\ ~KeyTaken(s)
         /\ txns' = txns \cup {[sale |-> s, by |-> r]}
         /\ RunBecomes(r, LineDone(r, LinesOf(s)))
    /\ UNCHANGED <<made, behind, lines, mappings, queued, charge,
                   admin, requests, stops, unseen>>

(* Another run inserted the sale since the EXISTS check: the UNIQUE        *)
(* constraint rejects the row and the error ends the run.                  *)
InsertTxnRejected(r) ==
    /\ run[r].pc = "insert"
    /\ KeyTaken(run[r].sale)
    /\ RunBecomes(r, IdleRun)
    /\ UNCHANGED <<rows, admin, requests, stops, unseen>>

\* A SKU without mapping is queued before its line is written.
AfterLookup(m) == IF m = None THEN "queue" ELSE "write"

(* find_mapping *)
FindMapping(r) ==
    /\ run[r].pc = "line"
    /\ \E l \in run[r].todo :
         LET m == mappings[SkuOf[l]] IN
         RunBecomes(r, [run[r] EXCEPT !.pc = AfterLookup(m),
                                      !.todo = @ \ {l}, !.line = l, !.found = m])
    /\ UNCHANGED <<rows, admin, requests, stops, unseen>>

(* queue_unmapped *)
QueueUnmapped(r) ==
    /\ run[r].pc = "queue"
    /\ queued' = queued \cup {SkuOf[run[r].line]}
    /\ RunBecomes(r, [run[r] EXCEPT !.pc = "write"])
    /\ UNCHANGED <<made, behind, txns, lines, mappings, charge,
                   admin, requests, stops, unseen>>

\* The line carries the mapping as it was read; the foreign key requires that
\* the mapping row is still there.
MappingGone(r) == run[r].found # None /\ ~MappingExists(run[r].found.id)

\* After the INSERT of a mapped line its quantity is applied; not so in the
\* mutant.
LineWritten_NotApplied(r) == LineDone(r, run[r].todo)
LineWritten(r) == IF run[r].found = None THEN LineDone(r, run[r].todo)
                                         ELSE [run[r] EXCEPT !.pc = "charge"]

InsertLine(r) ==
    /\ run[r].pc = "write"
    /\ ~MappingGone(r)
    /\ LET m == run[r].found IN
         lines' = [lines EXCEPT ![<<run[r].line, r>>] =
                     IF m = None THEN UnmappedLine
                                 ELSE [printing |-> m.printing, mapping |-> m.id]]
    /\ RunBecomes(r, LineWritten(r))
    /\ UNCHANGED <<made, behind, txns, mappings, queued, charge,
                   admin, requests, stops, unseen>>

InsertLineRejected(r) ==
    /\ run[r].pc = "write"
    /\ MappingGone(r)
    /\ RunBecomes(r, IdleRun)
    /\ UNCHANGED <<rows, admin, requests, stops, unseen>>

(* UPDATE printings SET quantity = quantity + applied_qty                  *)
ChargeLine(r) ==
    /\ run[r].pc = "charge"
    /\ AddToCharge(run[r].found.printing, {<<run[r].line, r>>}, 1)
    /\ RunBecomes(r, LineDone(r, run[r].todo))
    /\ UNCHANGED <<made, behind, txns, lines, mappings, queued,
                   admin, requests, stops, unseen>>

\* The watermark advances when every fetched sale is done; in the mutant it
\* may advance earlier.
BatchDone_Early(r) == TRUE
BatchDone(r) == run[r].batch = {}

(* last_synced_at = NOW(): everything made so far is now behind it.        *)
AdvanceWatermark(r) ==
    /\ run[r].pc = "pick"
    /\ BatchDone(r)
    /\ behind' = made
    /\ RunBecomes(r, IF Pulls THEN [IdleRun EXCEPT !.pc = "diff"]
                              ELSE IdleRun)
    /\ UNCHANGED <<made, txns, lines, mappings, queued, charge,
                   admin, requests, stops, unseen>>

(* The part of diff_and_write_discrepancies that touches the ledger: POS   *)
(* items whose SKU is not among the mappings it read are queued.           *)
ReadMappings(r) ==
    /\ run[r].pc = "diff"
    /\ \E inventory \in SUBSET Skus :
         LET unmapped == {k \in inventory : mappings[k] = None} IN
         RunBecomes(r, IF unmapped = {} THEN IdleRun
                                        ELSE [run[r] EXCEPT !.pc = "list", !.skus = unmapped])
    /\ UNCHANGED <<rows, admin, requests, stops, unseen>>

QueueItem(r) ==
    /\ run[r].pc = "list"
    /\ \E k \in run[r].skus :
         /\ queued' = queued \cup {k}
         /\ RunBecomes(r, IF run[r].skus = {k} THEN IdleRun
                                               ELSE [run[r] EXCEPT !.skus = @ \ {k}])
    /\ UNCHANGED <<made, behind, txns, lines, mappings, charge,
                   admin, requests, stops, unseen>>

RunStep(r) ==
    \/ GetSales(r) \/ PickSale(r) \/ InsertTxn(r) \/ InsertTxnRejected(r)
    \/ FindMapping(r) \/ QueueUnmapped(r) \/ InsertLine(r) \/ InsertLineRejected(r)
    \/ ChargeLine(r) \/ AdvanceWatermark(r) \/ ReadMappings(r) \/ QueueItem(r)

-----------------------------------------------------------------------------
(* Mapping requests.  Each request that starts is counted.                 *)

MayRequest(a, op) ==
    /\ admin[a].pc = "idle"
    /\ op \in Ops
    /\ requests < MaxRequests
    /\ MappingAlone => Quiet
    /\ requests' = requests + 1

(* create_mapping: INSERT; a second mapping for the SKU is a BadRequest,   *)
(* which changes nothing and is no step.                                   *)
CreateMapping(a, k, p) ==
    /\ MayRequest(a, "create")
    /\ mappings[k] = None
    /\ mappings' = [mappings EXCEPT ![k] = [id |-> requests + 1, printing |-> p]]
    /\ AdminBecomes(a, [IdleAdmin EXCEPT !.pc = "fill",
                                         !.op = "create", !.sku = k,
                                         !.id = requests + 1, !.new = p])
    /\ UNCHANGED <<made, behind, txns, lines, queued, charge, run, stops, unseen>>

(* update_mapping: SELECT the mapping row.                                 *)
ReadMapping(a, k, p) ==
    /\ MayRequest(a, "update")
    /\ mappings[k] # None
    /\ AdminBecomes(a, [IdleAdmin EXCEPT !.pc = "reversible",
                                         !.op = "update", !.sku = k, !.id = mappings[k].id,
                                         !.old = mappings[k].printing, !.new = p])
    /\ UNCHANGED <<rows, run, stops, unseen>>

(* reverse_line_effects: SELECT SUM(quantity) of the mapping's lines.      *)
SumReversible(a) ==
    /\ admin[a].pc = "reversible"
    /\ LET ks == {k \in RowKeys : Posted(k) /\ lines[k].mapping = admin[a].id} IN
         AdminBecomes(a, [admin[a] EXCEPT !.sum = ks,
                                          !.pc = IF ks = {} THEN "remap" ELSE "reverse"])
    /\ UNCHANGED <<rows, run, requests, stops, unseen>>

Reverse(a) ==
    /\ admin[a].pc = "reverse"
    /\ AddToCharge(admin[a].old, admin[a].sum, -1)
    /\ AdminBecomes(a, [admin[a] EXCEPT !.pc = "remap", !.sum = {}])
    /\ UNCHANGED <<made, behind, txns, lines, mappings, queued,
                   run, requests, stops, unseen>>

(* UPDATE pos_product_mappings; no row is an error that ends the request.  *)
Remap(a) ==
    /\ admin[a].pc = "remap"
    /\ \/ /\ MappingExists(admin[a].id)
          /\ mappings' = [k \in Skus |->
                            IF mappings[k] # None /\ mappings[k].id = admin[a].id
                            THEN [mappings[k] EXCEPT !.printing = admin[a].new]
                            ELSE mappings[k]]
          /\ AdminBecomes(a, [admin[a] EXCEPT !.pc = "fill", !.old = None])
       \/ /\ ~MappingExists(admin[a].id)
          /\ AdminBecomes(a, IdleAdmin)
          /\ UNCHANGED mappings
    /\ UNCHANGED <<made, behind, txns, lines, queued, charge, run, requests, stops, unseen>>

(* backfill_unmapped_lines, first statement: the lines of the SKU without  *)
(* a printing get this one.  If the mapping row is gone the foreign key    *)
(* rejects the update of any line.                                         *)
\* The mutant lacks "printing_id IS NULL".
Unresolved_AllLines(k) == {key \in RowKeys : Posted(key) /\ SkuOf[key[1]] = k}
Unresolved(k) == {key \in RowKeys : /\ Posted(key)
                                    /\ SkuOf[key[1]] = k
                                    /\ lines[key].printing = None}

FilledLine(a) == [printing |-> admin[a].new, mapping |-> admin[a].id]

FillLines(a) ==
    /\ admin[a].pc = "fill"
    /\ LET filled == Unresolved(admin[a].sku) IN
       \/ /\ filled = {} \/ MappingExists(admin[a].id)
          /\ lines' = [key \in RowKeys |->
                         IF key \in filled THEN FilledLine(a) ELSE lines[key]]
          /\ AdminBecomes(a, [admin[a] EXCEPT !.pc = "sum"])
       \/ /\ filled # {} /\ ~MappingExists(admin[a].id)
          /\ AdminBecomes(a, IdleAdmin)
          /\ UNCHANGED lines
    /\ UNCHANGED <<made, behind, txns, mappings, queued, charge,
                   run, requests, stops, unseen>>

AfterBackfill(a) ==
    IF admin[a].op = "create" THEN [admin[a] EXCEPT !.pc = "unqueue", !.sum = {}]
                              ELSE IdleAdmin

(* Second statement: SELECT SUM(quantity) over ALL lines of the SKU that   *)
(* have the printing, not only those just filled.                          *)
LinesToCharge(k, p) == {key \in RowKeys : /\ Posted(key)
                                          /\ SkuOf[key[1]] = k
                                          /\ lines[key].printing = p}

SumLines(a) ==
    /\ admin[a].pc = "sum"
    /\ LET ks == LinesToCharge(admin[a].sku, admin[a].new) IN
         AdminBecomes(a, IF ks = {} THEN AfterBackfill(a)
                                    ELSE [admin[a] EXCEPT !.pc = "post", !.sum = ks])
    /\ UNCHANGED <<rows, run, requests, stops, unseen>>

(* Third statement: UPDATE printings SET quantity = quantity + net_delta.  *)
PostSum(a) ==
    /\ admin[a].pc = "post"
    /\ AddToCharge(admin[a].new, admin[a].sum, 1)
    /\ AdminBecomes(a, AfterBackfill(a))
    /\ UNCHANGED <<made, behind, txns, lines, mappings, queued,
                   run, requests, stops, unseen>>

Unqueue(a) ==
    /\ admin[a].pc = "unqueue"
    /\ queued' = queued \ {admin[a].sku}
    /\ AdminBecomes(a, IdleAdmin)
    /\ UNCHANGED <<made, behind, txns, lines, mappings, charge,
                   run, requests, stops, unseen>>

(* delete_mapping: the foreign key of transaction_lines rejects it while   *)
(* any line refers to the mapping; then nothing changes.                   *)
\* Some line refers to the mapping; the mutant does not look.
Referenced_NotChecked(id) == FALSE
Referenced(id) == \E key \in RowKeys : Posted(key) /\ lines[key].mapping = id

DeleteMapping(a, k) ==
    /\ MayRequest(a, "delete")
    /\ mappings[k] # None
    /\ ~Referenced(mappings[k].id)
    /\ mappings' = [mappings EXCEPT ![k] = None]
    /\ UNCHANGED <<made, behind, txns, lines, queued, charge, run, admin, stops, unseen>>

AdminStep(a) ==
    \/ SumReversible(a) \/ Reverse(a) \/ Remap(a)
    \/ FillLines(a) \/ SumLines(a) \/ PostSum(a) \/ Unqueue(a)

Request(a) ==
    \E k \in Skus :
        \/ \E p \in Printings : CreateMapping(a, k, p) \/ ReadMapping(a, k, p)
        \/ DeleteMapping(a, k)

-----------------------------------------------------------------------------
(* A run or a request ends before its next statement.                      *)

StopRun(r) ==
    /\ run[r].pc # "idle"
    /\ stops < MaxStops
    /\ stops' = stops + 1
    /\ RunBecomes(r, IdleRun)
    /\ UNCHANGED <<rows, admin, requests, unseen>>

StopAdmin(a) ==
    /\ admin[a].pc # "idle"
    /\ stops < MaxStops
    /\ stops' = stops + 1
    /\ AdminBecomes(a, IdleAdmin)
    /\ UNCHANGED <<rows, run, requests, unseen>>

Next ==
    \/ \E s \in Sales : MakeSale(s)
    \/ \E r \in Runs : BeginRun(r) \/ RunStep(r) \/ StopRun(r)
    \/ \E a \in Admins : Request(a) \/ AdminStep(a) \/ StopAdmin(a)

Spec == Init /\ [][Next]_vars

(* The hourly task always comes back and the runtime keeps polling it, as  *)
(* it does a mapping request that has begun, until it ends or is dropped.  *)
(* Sync-now runs may hang in the provider, and no request need be made.    *)
FairSpec ==
    /\ Spec
    /\ WF_vars(BeginRun(Scheduler))
    /\ WF_vars(RunStep(Scheduler))
    /\ \A a \in Admins : WF_vars(AdminStep(a))

-----------------------------------------------------------------------------
(* Properties.                                                             *)

RunType ==
    [pc : {"idle", "fetch", "pick", "insert", "line", "queue", "write", "charge",
           "diff", "list"},
     since : SUBSET Sales, batch : SUBSET Sales, sale : Sales \cup {None},
     todo : SUBSET Lines, line : Lines \cup {None},
     found : MappingRow \cup {None}, skus : SUBSET Skus]

AdminType ==
    [pc : {"idle", "reversible", "reverse", "remap", "fill", "sum", "post", "unqueue"},
     op : {"create", "update", None}, sku : Skus \cup {None}, id : Nat \cup {None},
     old : Printings \cup {None}, new : Printings \cup {None}, sum : SUBSET RowKeys]

\* The type invariant of the ledger's rows and of everything in progress.
TypeOK ==
    /\ made \subseteq Sales /\ behind \subseteq Sales /\ unseen \subseteq Sales
    /\ txns \subseteq [sale : Sales, by : Runs]
    /\ lines \in [RowKeys -> LineRow \cup {None}]
    /\ mappings \in [Skus -> MappingRow \cup {None}]
    /\ queued \subseteq Skus
    /\ charge \in [Printings -> [RowKeys -> Int]]
    /\ run \in [Runs -> RunType]
    /\ admin \in [Admins -> AdminType]
    /\ requests \in Nat /\ stops \in Nat

\* Idempotency of ingestion: however many runs overlap, fail and are retried,
\* a line of a POS sale has at most one transaction_lines row, and it belongs
\* to the transaction that the inserting run recorded for the sale.
LinesPostedOnce ==
    \A l \in Lines, r, q \in Runs :
        Posted(<<l, r>>) =>
            /\ [sale |-> SaleOf[l], by |-> r] \in txns
            /\ Posted(<<l, q>>) => q = r

\* A line that carries a mapping carries one that exists, although ingestion
\* and backfill use mapping rows that they read in an earlier statement and
\* that a delete_mapping request may have removed since.
NoDanglingMapping ==
    \A k \in RowKeys :
        Posted(k) /\ lines[k].mapping # None => MappingExists(lines[k].mapping)

\* No sale falls behind the watermark unseen: a sale older than
\* last_synced_at is recorded, unless it was made while a run was between
\* its fetch and its watermark, or there when the fetch of one read a failure as
\* no sales.  Failed and overlapping runs lose none.
NoSaleMissed == behind \subseteq Recorded \cup unseen

\* The quantity of a printing never counts a transaction line twice and never
\* counts a line of another printing: neither two overlapping runs, nor a
\* retry, nor the backfill of a mapping request made between runs.
NoLineChargedTwice ==
    \A p \in Printings, k \in RowKeys :
        /\ charge[p][k] \in {0, 1}
        /\ charge[p][k] = 1 => Posted(k) /\ lines[k].printing = p

\* As long as nothing has ended early, the quantities are exact whenever
\* nothing is in progress: every resolved line is counted once.
QuietLedgerExact ==
    stops = 0 /\ Quiet =>
        \A p \in Printings, k \in RowKeys :
            charge[p][k] = IF Posted(k) /\ lines[k].printing = p THEN 1 ELSE 0

\* A transaction line that has been resolved keeps its printing and its
\* mapping: no backfill, whatever it races with, rewrites history.
ResolvedLinesFrozen ==
    [][\A k \in RowKeys :
         Posted(k) /\ lines[k].printing # None => lines'[k] = lines[k]]_vars

\* Every sale is ingested in the end, unless it is an exception to NoSaleMissed:
\* the hourly run picks up what failed and overlapping runs left.
EventuallyRecorded ==
    \A s \in Sales : s \in made ~> s \in Recorded \cup unseen

-----------------------------------------------------------------------------
(* The inductive invariants of the proofs: what a run or a request in      *)
(* progress may rely on between two of its statements.                     *)

InSale(r) == run[r].pc \in {"line", "queue", "write", "charge"}

\* A run past its lookup holds a sale and a line, a request holds the SKU, the
\* mapping id and the printing that it was made with.
InProgressTyped ==
    /\ \A r \in Runs :
         /\ run[r].pc = "insert" => run[r].sale \in Sales
         /\ run[r].pc \in {"queue", "write", "charge"} => run[r].line \in Lines
    /\ \A a \in Admins :
         admin[a].pc # "idle" => /\ admin[a].sku \in Skus
                                 /\ admin[a].id \in Nat
                                 /\ admin[a].new \in Printings

OneTxnPerSale == \A t, u \in txns : t.sale = u.sale => t = u

\* A run that is posting the lines of a sale inserted the transaction itself,
\* and the lines it has not reached yet have no row of its own.
OwnsItsSale(r) ==
    /\ InSale(r) =>
         /\ [sale |-> run[r].sale, by |-> r] \in txns
         /\ \A l \in run[r].todo : SaleOf[l] = run[r].sale /\ ~Posted(<<l, r>>)
    /\ run[r].pc \in {"queue", "write", "charge"} =>
         SaleOf[run[r].line] = run[r].sale /\ run[r].line \notin run[r].todo
    /\ run[r].pc \in {"queue", "write"} => ~Posted(<<run[r].line, r>>)

RunsOwnTheirSale == \A r \in Runs : OwnsItsSale(r)

\* The watermark a run read has nothing unrecorded behind it, and what was made
\* before its fetch is recorded, in hand, or still in its batch.
CoversSales(r) ==
    /\ run[r].since \subseteq Recorded \cup unseen
    /\ Ingesting(r) =>
         \A s \in made :
            \/ s \in run[r].batch
            \/ s \in Recorded \cup unseen
            \/ run[r].pc = "insert" /\ run[r].sale = s

BatchesCoverSales == \A r \in Runs : CoversSales(r)

\* Everything the theorems need to know of the ledger between two statements.
LedgerInvariant ==
    /\ TypeOK /\ InProgressTyped
    /\ OneTxnPerSale /\ RunsOwnTheirSale /\ LinesPostedOnce
    /\ BatchesCoverSales /\ NoSaleMissed
    /\ NoDanglingMapping

-----------------------------------------------------------------------------
(* What the code's comments say, and overlapping or failing work refutes.  *)

\* "Idempotent: safe to retry after a partial failure": once a recorded sale is
\* behind the watermark and nothing is in progress, all its lines are there.
RetryCompletesSales ==
    Quiet => \A t \in txns : t.sale \in behind =>
                 \A l \in LinesOf(t.sale) : Posted(<<l, t.by>>)

\* create_mapping adjusts the quantity "to account for all historical sales
\* that were unresolved", so never for a line that was counted already.
BackfillCountsUnresolvedOnly ==
    \A p \in Printings, k \in RowKeys : charge[p][k] <= 1

-----------------------------------------------------------------------------
(* What ingestion promises, whatever the mapping requests do: SalePosting  *)
(* with the run that inserted a sale's transaction as its clerk.           *)

ClerkOf(s) == CHOOSE r \in Runs : [sale |-> s, by |-> r] \in txns

PhaseOf(s) ==
    IF s \notin Recorded THEN "new"
    ELSE IF \A l \in LinesOf(s) : Posted(<<l, ClerkOf(s)>>) THEN "whole"
    ELSE IF run[ClerkOf(s)].sale = s THEN "open" ELSE "torn"

Phases == [s \in Sales |-> PhaseOf(s)]
ClerksOfSales == [s \in Sales |-> IF s \in Recorded THEN ClerkOf(s) ELSE None]
PostedRows == {k \in RowKeys : Posted(k)}

Posting == INSTANCE SalePosting WITH
    Clerks <- Runs, phase <- Phases, clerk <- ClerksOfSales, posted <- PostedRows

\* Ingestion, interleaved with everything else, implements SalePosting: each
\* sale is posted by one run, in one attempt, and each line at most once.
ImplementsSalePosting == Posting!Spec
=============================================================================
