------------------------------ MODULE Catalogue ------------------------------
(***************************************************************************)
(* The stock of a workspace with all that works on it: members who add,    *)
(* edit, delete and read page by page, and the background jobs that import *)
(* and export it.  A stop of the process ends requests and jobs where they *)
(* are.  With it, the two pages of the web client that show and change     *)
(* rows without asking for them again.                                     *)
(***************************************************************************)
EXTENDS CsvJobs, Pages, StockPage, ReportPage

clientVars == <<stockPageVars, reportVars>>
vars == <<stockVars, req, csvVars, pageVars, clientVars>>

Init == InventoryInit /\ CsvInit /\ PagesInit /\ StockPageInit /\ ReportPageInit

Edit == EditStep /\ JobsUntouched /\ UNCHANGED <<pageVars, clientVars>>
Delete == DeleteStep /\ JobsUntouched /\ UNCHANGED <<pageVars, clientVars>>
Import == ImportStep /\ UNCHANGED <<pageVars, clientVars>>
Export == ExportStep /\ UNCHANGED <<pageVars, clientVars>>
Read == PagesStep /\ UNCHANGED <<stockVars, req, csvVars, clientVars>>
Browse == StockPageStep /\ UNCHANGED <<stockVars, req, csvVars, pageVars, reportVars>>
Reconcile == ReportPageStep /\ UNCHANGED <<stockVars, req, csvVars, pageVars, stockPageVars>>
Stop(q) == StopJob(q) /\ UNCHANGED <<pageVars, clientVars>>

Next ==
    \/ Edit \/ Delete \/ Import \/ Export \/ Read \/ Browse \/ Reconcile
    \/ \E q \in Requests : Stop(q)

Spec == Init /\ [][Next]_vars
=============================================================================
