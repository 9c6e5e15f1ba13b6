-------------------------- MODULE ReconcileReport --------------------------
(***************************************************************************)
(* The daily reconciliation report of one POS connection: its status, its  *)
(* discrepancies and its two counts (crates/api/src/pos/reconcile.rs).     *)
(*                                                                         *)
(* run_reconciliation moves the report through "syncing" to "completed" or *)
(* "failed", one autocommitted statement at a time; the hourly task and    *)
(* "sync now" requests may do so at the same time, and users resolve       *)
(* discrepancies meanwhile.  What ingestion does to the catalogue is the   *)
(* subject of PosLedger; here it is one of the reasons why a catalogue     *)
(* quantity changes (CatalogueChanges).                                    *)
(***************************************************************************)
EXTENDS Integers, FiniteSets

CONSTANTS
    Runs,          \* reconciliation runs in progress at once
    Scheduler,     \* the run of the hourly task
    Users,         \* resolve requests in progress at once
    Skus,          \* the SKUs that are mapped
    Printings,
    PrintingOf,    \* pos_product_mappings, SKU to printing
    Quantities,    \* the catalogue quantities considered
    None,          \* SQL NULL, "no row", "not in the POS inventory"
    Resolutions,   \* the resolutions users choose, of the four valid ones
    Pulls,         \* connection.pulls_from_pos()
    Pushes,        \* connection.pushes_to_pos()
    MaxStarts,     \* bound: sync-now runs started
    MaxFailures,   \* bound: provider and database errors that the run handles
    MaxStops,      \* bound: runs and requests that are interrupted
    MaxChanges,    \* bound: changes of a quantity from outside
    MaxSwitches    \* bound: (dis)connections, and the end of the day

ValidResolutions == {"accept_pos", "accept_catalogue", "manual_adjust", "investigate"}

ASSUME ReportAssumption ==
    /\ Scheduler \in Runs
    /\ IsFiniteSet(Users) /\ IsFiniteSet(Skus)
    /\ PrintingOf \in [Skus -> Printings]
    /\ Quantities \subseteq Int
    /\ None \notin Int \cup {"pending", "syncing", "completed", "failed"}
    /\ None \notin {"negative_quantity", "quantity_mismatch", "missing"}
    /\ Resolutions \subseteq ValidResolutions
    /\ {Pulls, Pushes} \subseteq BOOLEAN
    /\ {MaxStarts, MaxFailures, MaxStops, MaxChanges, MaxSwitches} \subseteq Nat

VARIABLES
    status,      \* reconciliation_reports.status, None before the row exists
    count,       \* reconciliation_reports.discrepancy_count
    unresolved,  \* reconciliation_reports.unresolved_count
    discs,       \* rows of reconciliation_discrepancies
    quantity,    \* printings.quantity
    posQty,      \* the quantities the POS has, None if it lacks the SKU
    run,         \* the program state of each run
    user,        \* the program state of each resolve request
    standing,    \* whether runs begin on the report: it is of today, its connection active
    starts, failures, stops, changes, switches,
    drifted,     \* history: SKUs with a change since the last inventory snapshot
    cut,         \* history: a resolve request ended early since the last recount
    late,        \* history: a row was resolved between a run's recount and the
                 \* statement that writes it, and not recounted since
    interrupted  \* history: a run ended without a final status, and none has
                 \* written one since

table == <<status, count, unresolved, discs>>
stock == <<quantity, posQty, changes, drifted>>
bounds == <<starts, failures, stops>>
day == <<standing, switches>>
told == <<cut, late, interrupted>>
vars == <<table, stock, run, user, day, bounds, told>>

IdleRun == [pc |-> "idle", snapshot |-> None, todo |-> {}, found |-> 0, pending |-> 0]
IdleUser == [pc |-> "idle", disc |-> None]

RunsIdle == \A r \in Runs : run[r].pc = "idle"
UsersIdle == \A u \in Users : user[u].pc = "idle"
Quiet == RunsIdle /\ UsersIdle

Pending(ds) == {d \in ds : d.res = "pending"}

Init ==
    /\ status = None /\ count = 0 /\ unresolved = 0
    /\ discs = {}
    /\ quantity \in [Printings -> Quantities]
    /\ posQty \in [Skus -> (Quantities \cap Nat) \cup {None}]
    /\ run = [r \in Runs |-> IdleRun]
    /\ user = [u \in Users |-> IdleUser]
    /\ starts = 0 /\ failures = 0 /\ stops = 0 /\ changes = 0 /\ switches = 0
    /\ standing = "current"
    /\ drifted = {} /\ cut = FALSE /\ late = FALSE /\ interrupted = FALSE

RunBecomes(r, state) == run' = [run EXCEPT ![r] = state]
Goto(r, label) == RunBecomes(r, [run[r] EXCEPT !.pc = label])
UserBecomes(u, state) == user' = [user EXCEPT ![u] = state]

SkusOf(p) == {k \in Skus : PrintingOf[k] = p}

-----------------------------------------------------------------------------
(* Quantities change under a run: ingestion, mappings and manual edits     *)
(* change the catalogue, customers change the POS.                         *)

CatalogueChanges(p) ==
    /\ changes < MaxChanges
    /\ changes' = changes + 1
    /\ \E n \in Quantities \ {quantity[p]} : quantity' = [quantity EXCEPT ![p] = n]
    /\ drifted' = drifted \cup SkusOf(p)
    /\ UNCHANGED <<posQty, table, run, user, day, bounds, told>>

PosChanges(k) ==
    /\ changes < MaxChanges
    /\ changes' = changes + 1
    /\ \E n \in ((Quantities \cap Nat) \cup {None}) \ {posQty[k]} :
          posQty' = [posQty EXCEPT ![k] = n]
    /\ drifted' = drifted \cup {k}
    /\ UNCHANGED <<quantity, table, run, user, day, bounds, told>>

-----------------------------------------------------------------------------
(* run_reconciliation *)

(* upsert_report: the row of the day is created, or touched.               *)
UpsertReport(r) ==
    /\ run[r].pc = "idle"
    /\ r = Scheduler \/ starts < MaxStarts
    /\ standing = "current"
    /\ starts' = IF r = Scheduler THEN starts ELSE starts + 1
    /\ status' = IF status = None THEN "pending" ELSE status
    /\ Goto(r, "sync")
    /\ UNCHANGED <<count, unresolved, discs, stock, user, day, failures, stops, told>>

SetSyncing(r) ==
    /\ run[r].pc = "sync"
    /\ status' = "syncing"
    /\ Goto(r, "ingest")
    /\ UNCHANGED <<count, unresolved, discs, stock, user, day, bounds, told>>

IngestSales(r) ==
    /\ run[r].pc = "ingest"
    /\ Goto(r, IF Pulls THEN "clear" ELSE "push")
    /\ UNCHANGED <<table, stock, user, day, bounds, told>>

\* diff_and_write_discrepancies starts by deleting the report's rows; the
\* mutant keeps them.
Cleared_KeepsRows(ds) == ds
Cleared(ds) == {}

ClearDiscrepancies(r) ==
    /\ run[r].pc = "clear"
    /\ discs' = Cleared(discs)
    /\ Goto(r, "inventory")
    /\ UNCHANGED <<status, count, unresolved, stock, user, day, bounds, told>>

GetInventory(r) ==
    /\ run[r].pc = "inventory"
    /\ RunBecomes(r, [run[r] EXCEPT !.pc = "compare", !.snapshot = posQty])
    /\ drifted' = {}
    /\ UNCHANGED <<table, quantity, posQty, changes, user, day, bounds, told>>

\* The discrepancy of a SKU with catalogue quantity n and POS quantity p, if any.
\* The mutant has no arm for a SKU that the POS lacks.
Finding_NoMissing(n, p) ==
    IF n < 0 THEN "negative_quantity"
    ELSE IF p # None /\ p # n THEN "quantity_mismatch" ELSE None
Finding(n, p) ==
    IF n < 0 THEN "negative_quantity"
    ELSE IF p = None THEN "missing"
    ELSE IF p # n THEN "quantity_mismatch" ELSE None

\* The id of a new row, which no row and no request in progress has.
FreshId == CHOOSE i \in 1..(Cardinality(discs) + Cardinality(Users) + 1) :
               /\ \A d \in discs : d.id # i
               /\ \A u \in Users : user[u].pc # "idle" => user[u].disc.id # i

(* The mapped printings are read in one statement and compared with the    *)
(* snapshot; what is found is inserted row by row.                         *)
Compare(r) ==
    /\ run[r].pc = "compare"
    /\ LET finding(k) == Finding(quantity[PrintingOf[k]], run[r].snapshot[k])
           found == {k \in Skus : finding(k) # None}
       IN RunBecomes(r, [run[r] EXCEPT
                           !.todo = {[sku |-> k, kind |-> finding(k),
                                      pos |-> run[r].snapshot[k]] : k \in found},
                           !.pc = IF found = {} THEN "push" ELSE "insert",
                           !.found = 0, !.snapshot = None])
    /\ UNCHANGED <<table, stock, user, day, bounds, told>>

InsertDiscrepancy(r) ==
    /\ run[r].pc = "insert"
    /\ \E t \in run[r].todo :
         /\ discs' = discs \cup {[id |-> FreshId, sku |-> t.sku, kind |-> t.kind,
                                  pos |-> t.pos, res |-> "pending"]}
         /\ RunBecomes(r, [run[r] EXCEPT
                             !.todo = @ \ {t}, !.found = @ + 1,
                             !.pc = IF run[r].todo = {t} THEN "push" ELSE "insert"])
    /\ UNCHANGED <<status, count, unresolved, stock, user, day, bounds, told>>

(* push_to_pos reads the catalogue once and sends it SKU by SKU; a failure *)
(* of either is logged and ends the push only.                             *)
ReadCatalogue(r) ==
    /\ run[r].pc = "push"
    /\ RunBecomes(r, IF Pushes
                     THEN [run[r] EXCEPT !.pc = "send",
                             !.todo = {[sku |-> k, qty |-> quantity[PrintingOf[k]]] : k \in Skus}]
                     ELSE [run[r] EXCEPT !.pc = "count"])
    /\ UNCHANGED <<table, stock, user, day, bounds, told>>

UpdateInventory(r) ==
    /\ run[r].pc = "send"
    /\ \E t \in run[r].todo :
         /\ posQty' = [posQty EXCEPT ![t.sku] = t.qty]
         /\ drifted' = drifted \cup {t.sku}
         /\ RunBecomes(r, [run[r] EXCEPT !.todo = @ \ {t},
                             !.pc = IF run[r].todo = {t} THEN "count" ELSE "send"])
    /\ UNCHANGED <<table, quantity, changes, user, day, bounds, told>>

PushFails(r) ==
    /\ run[r].pc = "send" \/ (run[r].pc = "push" /\ Pushes)
    /\ failures < MaxFailures
    /\ failures' = failures + 1
    /\ RunBecomes(r, [run[r] EXCEPT !.pc = "count", !.todo = {}])
    /\ UNCHANGED <<table, stock, user, day, starts, stops, told>>

CountUnresolved(r) ==
    /\ run[r].pc = "count"
    /\ RunBecomes(r, [run[r] EXCEPT !.pc = "complete", !.pending = Cardinality(Pending(discs))])
    /\ late' = FALSE
    /\ UNCHANGED <<table, stock, user, day, bounds, cut, interrupted>>

\* The last statement writes the counts as the run found them; the mutant keeps
\* the discrepancy_count of the row.
FinalCount_NotWritten(r) == count
FinalCount(r) == run[r].found

\* The mutant forgets the status in that statement.
FinalStatus_NotWritten == status
FinalStatus == "completed"

Complete(r) ==
    /\ run[r].pc = "complete"
    /\ status' = FinalStatus
    /\ count' = FinalCount(r)
    /\ unresolved' = run[r].pending
    /\ cut' = FALSE /\ interrupted' = FALSE
    /\ RunBecomes(r, IdleRun)
    /\ UNCHANGED <<discs, stock, user, day, bounds, late>>

(* An error of ingestion or of the diff is caught and recorded.  An error  *)
(* of the other statements is not (UncaughtError).                         *)
Fails(r) ==
    /\ run[r].pc \in {"ingest", "clear", "inventory", "compare", "insert"}
    /\ failures < MaxFailures
    /\ failures' = failures + 1
    /\ RunBecomes(r, [IdleRun EXCEPT !.pc = "fail"])
    /\ UNCHANGED <<table, stock, user, day, starts, stops, told>>

\* The status that a caught error leaves; the mutant returns before the update.
FailedStatus_NotRecorded == status
FailedStatus == "failed"

SetFailed(r) ==
    /\ run[r].pc = "fail"
    /\ status' = FailedStatus
    /\ interrupted' = FALSE
    /\ RunBecomes(r, IdleRun)
    /\ UNCHANGED <<count, unresolved, discs, stock, user, day, bounds, cut, late>>

RunStep(r) ==
    \/ SetSyncing(r) \/ IngestSales(r) \/ ClearDiscrepancies(r) \/ GetInventory(r)
    \/ Compare(r) \/ InsertDiscrepancy(r) \/ ReadCatalogue(r) \/ UpdateInventory(r)
    \/ CountUnresolved(r) \/ Complete(r) \/ SetFailed(r)

-----------------------------------------------------------------------------
(* resolve_discrepancy *)

Resolve(u, d, res) ==
    /\ user[u].pc = "idle"
    /\ discs' = (discs \ {d}) \cup {[d EXCEPT !.res = res]}
    /\ UserBecomes(u, [pc |-> IF res = "accept_pos" /\ d.pos # None THEN "apply" ELSE "refresh",
                       disc |-> d])
    /\ late' = (late \/ \E r \in Runs : run[r].pc = "complete")
    /\ UNCHANGED <<status, count, unresolved, stock, run, day, bounds, cut, interrupted>>

(* accept_pos: the catalogue takes the POS quantity of the discrepancy.    *)
ApplyPosQuantity(u) ==
    /\ user[u].pc = "apply"
    /\ LET p == PrintingOf[user[u].disc.sku] IN
         /\ quantity' = [quantity EXCEPT ![p] = user[u].disc.pos]
         /\ drifted' = drifted \cup SkusOf(p)
    /\ UserBecomes(u, [user[u] EXCEPT !.pc = "refresh"])
    /\ UNCHANGED <<posQty, changes, table, run, day, bounds, told>>

Recount(ds) == Cardinality(Pending(ds))

(* The report of the discrepancy is found through the row, if it is still  *)
(* there.                                                                  *)
RefreshCount(u) ==
    /\ user[u].pc = "refresh"
    /\ \/ /\ \E d \in discs : d.id = user[u].disc.id
          /\ unresolved' = Recount(discs)
          /\ cut' = FALSE
          /\ late' = (late /\ \E r \in Runs : run[r].pc = "complete")
       \/ /\ \A d \in discs : d.id # user[u].disc.id
          /\ UNCHANGED <<unresolved, cut, late>>
    /\ UserBecomes(u, IdleUser)
    /\ UNCHANGED <<status, count, discs, stock, run, day, bounds, interrupted>>

UserStep(u) == ApplyPosQuantity(u) \/ RefreshCount(u)

-----------------------------------------------------------------------------
(* A run or a request ends before its next statement.                      *)

RunEnds(r) ==
    /\ stops < MaxStops
    /\ stops' = stops + 1
    /\ interrupted' = TRUE
    /\ RunBecomes(r, IdleRun)
    /\ UNCHANGED <<table, stock, user, day, starts, failures, cut, late>>

(* The process is killed, or the client of a sync-now request goes away.   *)
Killed(r) == run[r].pc # "idle" /\ RunEnds(r)

(* The errors that run_reconciliation hands on with "?": of the status     *)
(* updates, of the final count and of the final update.                    *)
UncaughtError(r) == run[r].pc \in {"sync", "fail", "count", "complete"} /\ RunEnds(r)

(* A killed process, a dropped connection or an error of a statement.      *)
StopUser(u) ==
    /\ user[u].pc # "idle"
    /\ stops < MaxStops
    /\ stops' = stops + 1
    /\ cut' = TRUE
    /\ UserBecomes(u, IdleUser)
    /\ UNCHANGED <<table, stock, run, day, starts, failures, late, interrupted>>

-----------------------------------------------------------------------------
(* A run works on the report of its day, and begins only on an active      *)
(* connection: after midnight the report is left as it is.                 *)

Standings == {"current", "inactive", "over"}

DayEnds ==
    /\ standing # "over" /\ switches < MaxSwitches
    /\ switches' = switches + 1
    /\ standing' = "over"
    /\ UNCHANGED <<table, stock, run, user, bounds, told>>

SwitchConnection ==
    /\ standing # "over" /\ switches < MaxSwitches
    /\ switches' = switches + 1
    /\ standing' = IF standing = "current" THEN "inactive" ELSE "current"
    /\ UNCHANGED <<table, stock, run, user, bounds, told>>

RunGoesOn(r) == RunStep(r) \/ PushFails(r) \/ Fails(r) \/ Killed(r) \/ UncaughtError(r)

Next ==
    \/ \E r \in Runs : UpsertReport(r) \/ RunGoesOn(r)
    \/ \E u \in Users : \/ \E d \in discs, res \in Resolutions : Resolve(u, d, res)
                        \/ UserStep(u) \/ StopUser(u)
    \/ \E p \in Printings : CatalogueChanges(p)
    \/ \E k \in Skus : PosChanges(k)
    \/ DayEnds \/ SwitchConnection

Spec == Init /\ [][Next]_vars

(* A run that has begun is polled until it ends, in one way or another; as *)
(* long as the report is of today and the connection active, the hourly    *)
(* timer begins another one.  Nothing says that the day lasts that long.   *)
FairSpec ==
    /\ Spec
    /\ \A r \in Runs : WF_vars(RunGoesOn(r))
    /\ WF_vars(UpsertReport(Scheduler))

-----------------------------------------------------------------------------
(* Properties.                                                             *)

Labels == {"idle", "sync", "ingest", "clear", "inventory", "compare", "insert", "push",
           "send", "count", "complete", "fail"}

Kinds == {"negative_quantity", "quantity_mismatch", "missing"}
Level == Quantities \cup {None}
Discrepancy == [id : Nat, sku : Skus, kind : Kinds, pos : Level, res : {"pending"} \cup Resolutions]
Task == [sku : Skus, kind : Kinds, pos : Level] \cup [sku : Skus, qty : Quantities]

RunType == [pc : Labels, snapshot : [Skus -> Level] \cup {None}, todo : SUBSET Task,
            found : Nat, pending : Nat]
UserType == [pc : {"idle", "apply", "refresh"}, disc : Discrepancy \cup {None}]

\* The rows and the program states are of their types; a run that is to insert
\* or to send has tasks of that sort, and a request its discrepancy.
TypeOK ==
    /\ status \in {None, "pending", "syncing", "completed", "failed"}
    /\ count \in Nat /\ unresolved \in Nat
    /\ discs \subseteq Discrepancy /\ IsFiniteSet(discs)
    /\ quantity \in [Printings -> Quantities]
    /\ posQty \in [Skus -> Level]
    /\ run \in [Runs -> RunType]
    /\ \A r \in Runs : /\ run[r].pc = "compare" => run[r].snapshot \in [Skus -> Level]
                       /\ run[r].pc = "insert" => run[r].todo \subseteq [sku : Skus, kind : Kinds, pos : Level]
                       /\ run[r].pc = "send" => run[r].todo \subseteq [sku : Skus, qty : Quantities]
    /\ user \in [Users -> UserType]
    /\ \A u \in Users : /\ user[u].pc # "idle" => user[u].disc \in Discrepancy
                        /\ user[u].pc = "apply" => user[u].disc.pos # None
    /\ standing \in Standings
    /\ {starts, failures, stops, changes, switches} \subseteq Nat
    /\ cut \in BOOLEAN /\ late \in BOOLEAN /\ interrupted \in BOOLEAN

\* Failing providers, errors of ingestion, of the comparison and of the push, and
\* runs that overlap do not leave the report "pending" or "syncing".  What does is
\* a run that was killed or ended on an error that run_reconciliation does not
\* catch (its status updates, the final count, the final update), and only until
\* a later run writes a final status.
QuietReportSettled ==
    RunsIdle /\ status \in {"pending", "syncing"} => interrupted

\* The catalogue and the POS disagree on a SKU, or the catalogue is impossible.
Disagree(k) ==
    LET n == quantity[PrintingOf[k]] IN n < 0 \/ posQty[k] = None \/ n # posQty[k]

\* A completed report is the truth about its snapshot: a mapped SKU whose
\* quantities have not changed since is reported if and only if the catalogue
\* and the POS disagree on it, after any history of failed and killed runs.
ReportCoversMismatches ==
    RunsIdle /\ status = "completed" =>
        \A k \in Skus \ drifted :
            (\E d \in discs : d.sku = k) <=> Disagree(k)

\* The two counts of a completed report are those of its rows once nothing is in
\* progress, whenever users resolve.  The code has one window for it: a row that is
\* resolved between a run's COUNT and its final UPDATE is written over, until the
\* next recount (late); and a request that ends early does not recount (cut).
CompletedCountsExact ==
    Quiet /\ status = "completed" /\ ~cut /\ ~late =>
        count = Cardinality(discs) /\ unresolved = Cardinality(Pending(discs))

\* "Clears existing discrepancies first so re-runs don't double-count": a SKU has
\* at most one discrepancy in the report.
NoDoubleCount ==
    \A d, e \in discs : d.sku = e.sku => d = e

\* Why QuietReportSettled holds: whoever made the report pending or syncing, or
\* overwrote its status since, is still at work or was interrupted.
SettledInvariant ==
    status \in {"pending", "syncing"} => ~RunsIdle \/ interrupted

\* A report does not stay "syncing": a run settles it, if need be the next one of
\* the hour.  It stays so for good only if a run was interrupted and no other one
\* begins, for the day is over or the connection inactive.
ReportSettles ==
    status = "syncing" ~> \/ status \in {"completed", "failed"}
                          \/ interrupted /\ standing # "current"
=============================================================================
