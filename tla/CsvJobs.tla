------------------------------- MODULE CsvJobs -------------------------------
(***************************************************************************)
(* Import of CSV files into the stock and export from it, by background    *)
(* jobs (crates/api/src/catalogue/csv_import.rs and csv_export.rs).        *)
(*                                                                         *)
(* A file has the names of its columns and its records.  A record has a    *)
(* printing (None where the cells are empty), a condition, a quantity and  *)
(* a certificate (None likewise).                                          *)
(***************************************************************************)
EXTENDS Inventory

CONSTANTS
    Jobs,           \* rows of import_jobs
    Exports,        \* rows of export_jobs
    Files,          \* the files that are uploaded
    Filters,        \* the filters of exports
    ProgressEvery,  \* records between two reports of progress (100 in the code)
    Sets,
    SetOf           \* the set of each printing

JobRow ==
    [status : {"queued", "running", "done"}, file : Files,
     total : {None} \cup {Len(file.records) : file \in Files},
     processed : Nat, imported : Nat, skipped : Nat, report : BOOLEAN]

ExportRow ==
    [status : {"queued", "running", "done"}, filter : Filters, count : Nat \cup {None}]

ASSUME CsvAssumption ==
    /\ IsFiniteSet(Items) /\ ProgressEvery \in Nat \ {0}
    /\ SetOf \in [Printings -> Sets] /\ None \notin Sets
    /\ None \notin JobRow /\ None \notin ExportRow /\ \A ids \in SUBSET Items : ids # None
    /\ \A file \in Files :
         /\ Len(file.records) \in Nat /\ DOMAIN file.records = 1..Len(file.records)
         /\ \A n \in 1..Len(file.records) : file.records[n].cert \in Certs \cup {None}

VARIABLES
    jobs,       \* import_jobs, with the columns that a run works with
    uploads,    \* whether the uploaded file is there
    exports,    \* export_jobs
    outputs,    \* the files of exports: the ids of the rows written
    effects,    \* history: how often each record of a job changed the stock
    preempted,  \* history: records whose certificate came in by another way
    contested,  \* history: jobs that were confirmed while a run of them had yet to begin
    remains,    \* history: rows there since the export began, and matching it
    matched     \* history: rows that matched the export at some time since it began

observed == <<remains, matched>>
csvVars == <<jobs, uploads, exports, outputs, effects, preempted, contested, observed>>

CsvInit ==
    /\ jobs = [j \in Jobs |-> None]
    /\ uploads = [j \in Jobs |-> FALSE]
    /\ exports = [e \in Exports |-> None]
    /\ outputs = [e \in Exports |-> None]
    /\ effects = [j \in Jobs |-> <<>>]
    /\ preempted = [j \in Jobs |-> {}]
    /\ contested = {}
    /\ remains = [e \in Exports |-> {}]
    /\ matched = [e \in Exports |-> {}]

-----------------------------------------------------------------------------
(* What an export is asked for, and what the rows are while it runs.  As   *)
(* the quantity of a row is never zero, in_stock_only asks for nothing.    *)

Wanted(f) ==
    {i \in Rows :
        /\ IF items[i].kind = "raw" THEN f.raw ELSE f.graded
        /\ f.set # None => items[i].printing # None /\ SetOf[items[i].printing] = f.set
        /\ f.cond # None /\ items[i].kind = "raw" => items[i].cond = f.cond}

\* A step that writes to the rows, beside the exports that are under way.
ExportsObserve ==
    LET wanted(e) == IF exports[e] = None THEN {} ELSE Wanted(exports[e].filter)' IN
    /\ remains' = [e \in Exports |-> remains[e] \cap wanted(e)]
    /\ matched' = [e \in Exports |-> matched[e] \cup wanted(e)]

-----------------------------------------------------------------------------
(* ColumnMap: the names under which a column is found, the first match of  *)
(* the candidates, and what must be mapped.                                *)

Candidates ==
    [set_id |-> <<"set_id", "set_code", "set", "set_name">>,
     number |-> <<"number", "collector_number", "card_number", "num">>,
     condition |-> <<"condition", "cond", "grade">>,
     quantity |-> <<"quantity", "qty", "count", "amount">>,
     grader |-> <<"grader", "grading_company">>,
     cert_number |-> <<"cert_number", "cert_no", "cert", "certification_number">>]

Detected(headers) ==
    {f \in DOMAIN Candidates : \E n \in DOMAIN Candidates[f] : Candidates[f][n] \in headers}
Valid(map) == {"condition", "quantity"} \subseteq map

-----------------------------------------------------------------------------
(* start_import and confirm_import.                                        *)

Run(j, map) == [pc |-> "start", job |-> j, map |-> map]
Unbegun(j) == \E q \in Requests : req[q].pc = "start" /\ req[q].job = j

\* The file is written, the job inserted and, if nothing is missing, started: with
\* the columns the client names, or with those that are detected.
StartImport(q, j, file, given) ==
    LET map == IF given = None THEN Detected(file.headers) ELSE given IN
    /\ jobs[j] = None
    /\ IsIdle(q)
    /\ jobs' = [jobs EXCEPT ![j] = [status |-> "queued", file |-> file, total |-> None,
                                    processed |-> 0, imported |-> 0, skipped |-> 0, report |-> FALSE]]
    /\ uploads' = [uploads EXCEPT ![j] = TRUE]
    /\ effects' = [effects EXCEPT ![j] = [n \in DOMAIN file.records |-> 0]]
    /\ IF Valid(map) THEN ReqBecomes(q, Run(j, map)) ELSE UNCHANGED req
    /\ UNCHANGED <<stockVars, exports, outputs, preempted, contested, observed>>

\* status != "queued"; the mutant lets a running job be confirmed.
Confirmable_Running(j) == jobs[j].status \in {"queued", "running"}
Confirmable(j) == jobs[j].status = "queued"

Confirm(q, j, map) ==
    /\ IsIdle(q)
    /\ jobs[j] # None /\ Confirmable(j)
    /\ Valid(map)
    /\ contested' = contested \cup {i \in {j} : Unbegun(i)}
    /\ ReqBecomes(q, Run(j, map))
    /\ UNCHANGED <<stockVars, jobs, uploads, exports, outputs, effects, preempted, observed>>

-----------------------------------------------------------------------------
(* run_import_job                                                          *)

SetRunning(q) ==
    /\ req[q].pc = "start"
    /\ jobs' = [jobs EXCEPT ![req[q].job].status = "running"]
    /\ ReqBecomes(q, [req[q] EXCEPT !.pc = "read"])
    /\ UNCHANGED <<stockVars, uploads, exports, outputs, effects, preempted, contested, observed>>

\* The file is read and its records counted.
ReadFile(q) ==
    LET j == req[q].job IN
    /\ req[q].pc = "read"
    /\ IF uploads[j]
       THEN /\ jobs' = [jobs EXCEPT ![j].total = Len(jobs[j].file.records)]
            /\ ReqBecomes(q, [pc |-> "record", job |-> j, map |-> req[q].map,
                              n |-> 1, imported |-> 0, skipped |-> 0])
       ELSE Ends(q) /\ UNCHANGED jobs
    /\ UNCHANGED <<stockVars, uploads, exports, outputs, effects, preempted, contested, observed>>

Reading(q) == req[q].pc = "record" /\ req[q].n <= Len(jobs[req[q].job].file.records)
Record(q) == jobs[req[q].job].file.records[req[q].n]

PrintingOf(q) == IF {"set_id", "number"} \subseteq req[q].map THEN Record(q).printing ELSE None
CertOf(q) == IF {"grader", "cert_number"} \subseteq req[q].map THEN Record(q).cert ELSE None

\* continue: progress is not reported after a record that is skipped.  The
\* mutant does not count it.
Skipped_Uncounted(q) == ReqBecomes(q, [req[q] EXCEPT !.n = @ + 1])
Skipped(q) == ReqBecomes(q, [req[q] EXCEPT !.n = @ + 1, !.skipped = @ + 1])
Imported(q) ==
    ReqBecomes(q, [req[q] EXCEPT !.pc = IF req[q].n % ProgressEvery = 0 THEN "progress" ELSE "record",
                                 !.n = @ + 1, !.imported = @ + 1])
Effect(q) == effects' = [effects EXCEPT ![req[q].job][req[q].n] = @ + 1]

\* Or a condition or a quantity that cannot be read.
SkipRecord(q) ==
    /\ Reading(q)
    /\ \/ PrintingOf(q) # None  \* no printing of that set and number, or the lookup fails
       \/ Record(q).cond \notin Conditions
       \/ Record(q).qty \notin 1..MaxQuantity
    /\ Skipped(q)
    /\ UNCHANGED <<stockVars, csvVars>>

Readable(q) ==
    /\ Reading(q)
    /\ PrintingOf(q) \in Printings \cup {None}
    /\ Record(q).cond \in Conditions
    /\ Record(q).qty \in 1..MaxQuantity

\* A record without a certificate: a row without a printing is refused, and an
\* INTEGER that is too large; either ends the job where it is.
ImportRaw(q) ==
    LET p == PrintingOf(q) IN
    /\ Readable(q) /\ CertOf(q) = None
    /\ \/ /\ p # None
          /\ Upsert(p, Record(q).cond, Record(q).qty, None)
          /\ Imported(q) /\ Effect(q)
       \/ /\ \/ p = None
             \/ \E i \in At(p, Record(q).cond) : items[i].qty + Record(q).qty > MaxQuantity
          /\ Ends(q)
          /\ UNCHANGED <<items, now, overtaken, effects>>
    /\ UNCHANGED <<held, jobs, uploads, exports, outputs, preempted, contested>>
    /\ ExportsObserve

\* EXISTS, which counts as no if the query fails.
CheckCert(q) ==
    /\ Readable(q) /\ CertOf(q) # None
    /\ \/ Registered(CertOf(q)) /\ Skipped(q)
       \/ ReqBecomes(q, [req[q] EXCEPT !.pc = "insert"])
    /\ UNCHANGED <<stockVars, csvVars>>

\* ON CONFLICT DO NOTHING: it counts as imported in any case.
ImportGraded(q) ==
    LET j == req[q].job IN
    /\ req[q].pc = "insert"
    /\ \/ /\ InsertGraded(CertOf(q), PrintingOf(q))
          /\ Effect(q)
          /\ UNCHANGED preempted
       \/ /\ Registered(CertOf(q))
          /\ preempted' = [preempted EXCEPT ![j] = @ \cup {req[q].n}]
          /\ UNCHANGED <<items, now, effects>>
    /\ Imported(q)
    /\ UNCHANGED <<held, overtaken, jobs, uploads, exports, outputs, contested>>
    /\ ExportsObserve

Counts(row, q) ==
    [row EXCEPT !.processed = req[q].n - 1, !.imported = req[q].imported, !.skipped = req[q].skipped]

ReportProgress(q) ==
    /\ req[q].pc = "progress"
    /\ jobs' = [jobs EXCEPT ![req[q].job] = Counts(@, q)]
    /\ ReqBecomes(q, [req[q] EXCEPT !.pc = "record"])
    /\ UNCHANGED <<stockVars, uploads, exports, outputs, effects, preempted, contested, observed>>

FinishImport(q) ==
    /\ req[q].pc = "record" /\ ~Reading(q)
    /\ jobs' = [jobs EXCEPT ![req[q].job] =
                  [Counts(@, q) EXCEPT !.status = "done", !.report = req[q].skipped > 0]]
    /\ ReqBecomes(q, [pc |-> "remove", job |-> req[q].job])
    /\ UNCHANGED <<stockVars, uploads, exports, outputs, effects, preempted, contested, observed>>

RemoveFile(q) ==
    /\ req[q].pc = "remove"
    /\ uploads' = [uploads EXCEPT ![req[q].job] = FALSE]
    /\ Ends(q)
    /\ UNCHANGED <<stockVars, jobs, exports, outputs, effects, preempted, contested, observed>>

-----------------------------------------------------------------------------
(* start_export and run_export_job                                         *)

StartExport(q, e, f) ==
    /\ exports[e] = None
    /\ IsIdle(q)
    /\ exports' = [exports EXCEPT ![e] = [status |-> "queued", filter |-> f, count |-> None]]
    /\ ReqBecomes(q, [pc |-> "exportStart", export |-> e])
    /\ UNCHANGED <<stockVars, jobs, uploads, outputs, effects, preempted, contested, observed>>

BeginExport(q) ==
    LET e == req[q].export IN
    /\ req[q].pc = "exportStart"
    /\ exports' = [exports EXCEPT ![e].status = "running"]
    /\ remains' = [remains EXCEPT ![e] = Wanted(exports[e].filter)]
    /\ matched' = [matched EXCEPT ![e] = Wanted(exports[e].filter)]
    /\ ReqBecomes(q, [pc |-> "exportRaw", export |-> e, rows |-> {}])
    /\ UNCHANGED <<stockVars, jobs, uploads, outputs, effects, preempted, contested>>

\* p.set_id = $2, of the printing that is joined if there is one.
InSet(i, f) == f.set \in {None} \cup {SetOf[p] : p \in {items[i].printing} \ {None}}

\* WHERE of the two SELECTs; the mutant drops the set of the second.
SelectedRaw(f) == {i \in Raw : f.raw /\ InSet(i, f) /\ f.cond \in {None, items[i].cond}}
SelectedGraded_OfAnySet(f) == {i \in Graded : f.graded}
SelectedGraded(f) == {i \in Graded : f.graded /\ InSet(i, f)}

SelectRows(q) ==
    LET f == exports[req[q].export].filter IN
    /\ \/ /\ req[q].pc = "exportRaw"
          /\ ReqBecomes(q, [req[q] EXCEPT !.pc = "exportGraded", !.rows = SelectedRaw(f)])
       \/ /\ req[q].pc = "exportGraded"
          /\ ReqBecomes(q, [req[q] EXCEPT !.pc = "exportWrite", !.rows = @ \cup SelectedGraded(f)])
    /\ UNCHANGED <<stockVars, csvVars>>

WriteOutput(q) ==
    /\ req[q].pc = "exportWrite"
    /\ outputs' = [outputs EXCEPT ![req[q].export] = req[q].rows]
    /\ ReqBecomes(q, [req[q] EXCEPT !.pc = "exportDone"])
    /\ UNCHANGED <<stockVars, jobs, uploads, exports, effects, preempted, contested, observed>>

FinishExport(q) ==
    /\ req[q].pc = "exportDone"
    /\ exports' = [exports EXCEPT ![req[q].export].status = "done",
                                  ![req[q].export].count = Cardinality(req[q].rows)]
    /\ Ends(q)
    /\ UNCHANGED <<stockVars, jobs, uploads, outputs, effects, preempted, contested, observed>>

StopJob(q) == ~IsIdle(q) /\ Ends(q) /\ UNCHANGED <<stockVars, csvVars>>

\* Steps at the stock that are none of the jobs'.
JobsUntouched ==
    /\ UNCHANGED <<jobs, uploads, exports, outputs, effects, preempted, contested>>
    /\ ExportsObserve

ImportStep ==
    \E q \in Requests :
      \/ \E j \in Jobs : \/ \E file \in Files, given \in {None} \cup SUBSET DOMAIN Candidates :
                               StartImport(q, j, file, given)
                         \/ \E map \in SUBSET DOMAIN Candidates : Confirm(q, j, map)
      \/ SetRunning(q) \/ ReadFile(q) \/ SkipRecord(q) \/ ImportRaw(q) \/ CheckCert(q)
      \/ ImportGraded(q) \/ ReportProgress(q) \/ FinishImport(q) \/ RemoveFile(q)

ExportStep ==
    \E q \in Requests :
      \/ \E e \in Exports, f \in Filters : StartExport(q, e, f)
      \/ BeginExport(q) \/ SelectRows(q) \/ WriteOutput(q) \/ FinishExport(q)

-----------------------------------------------------------------------------
(* Properties.                                                             *)

Took(j) == {n \in DOMAIN effects[j] : effects[j][n] = 1}

\* A record of an uploaded file enters the stock once at most, and a job that is
\* done says what became of each: all were processed, as many were imported as
\* are in the stock because of it or were there by another way in the same moment,
\* and there is an error report exactly if some were skipped, unless the job was
\* confirmed while a run of it was waiting to begin, which makes two
\* (start_import, confirm_import, run_import_job).
ImportExact ==
    \A j \in Jobs \ contested :
        /\ \A n \in DOMAIN effects[j] : effects[j][n] <= 1
        /\ jobs[j] # None /\ jobs[j].status = "done" =>
             /\ jobs[j].processed = Len(jobs[j].file.records)
             /\ jobs[j].imported = Cardinality(Took(j) \cup preempted[j])
             /\ jobs[j].skipped = jobs[j].processed - jobs[j].imported
             /\ jobs[j].report <=> jobs[j].skipped > 0

\* An export that is done can be downloaded: its file is there, holds as many rows
\* as the job says, every row that was there and as the filters ask for as long as
\* the job ran, and none that never was so while it ran, whatever was added, edited
\* and removed meanwhile (run_export_job, download_export).
ExportComplete ==
    \A e \in Exports : exports[e] # None /\ exports[e].status = "done" =>
        /\ outputs[e] # None
        /\ Cardinality(outputs[e]) = exports[e].count
        /\ remains[e] \subseteq outputs[e]
        /\ outputs[e] \subseteq matched[e]
=============================================================================
