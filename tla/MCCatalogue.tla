---------------------------- MODULE MCCatalogue ----------------------------
(* Instances of Catalogue for TLC.  What can go wrong in an edit, a           *)
(* deletion, an import, an export, a list and a page of the client involves   *)
(* different neighbours, so that a behaviour here has one of these at work,   *)
(* chosen at its beginning, and the others that write the same rows beside    *)
(* it.                                                                        *)
EXTENDS Catalogue, TLC

CONSTANTS p1, n1, n2, g1, all, raw
VARIABLES stream, started

\* Bound: the requests and jobs that begin in each stream; in the pages of the
\* client what the user and the world do, failures included.
MaxStarted ==
    [edit |-> 2, removal |-> 2, import |-> 3, export |-> 2,
     pages |-> 0, browse |-> 3, reconcile |-> 6]

MCInit ==
    /\ Init
    /\ stream \in DOMAIN MaxStarted
    /\ stream # "pages" => list = [of |-> "flags", by |-> "date", dir |-> "desc"]
    /\ stream # "browse" => filter = all
    /\ stream # "reconcile" => \A d \in Discs : resolution[d] = "absent"
    /\ started = 0

Turns ==
    CASE stream = "browse" ->
           IF \/ filter' # filter
              \/ present' # present /\ bulks' = bulks
              \/ \E b \in Bulks : bulks[b] = Nothing /\ bulks'[b] # Nothing
              \/ \E s \in Fetches : FetchFails(s)
              \/ selected' # selected
           THEN 1 ELSE 0
      [] stream = "reconcile" ->
           IF \/ resolution' # resolution /\ posts' = posts
              \/ \E q \in Posts : posts[q] = Unsent /\ posts'[q] # Unsent
              \/ Reopen \/ ShowAnother \/ RunClears
           THEN 1 ELSE 0
      [] OTHER -> Cardinality({q \in Requests : IsIdle(q) /\ req'[q] # Idle})

\* What stocks the rows that are deleted and exported.
Stocked ==
    /\ \/ \E cond \in Conditions : AddRaw(p1, cond, 1, None)
       \/ \E q \in Requests : AddGraded(q) \/ \E cert \in Certs, p \in Printings \cup {None} : BeginAddGraded(q, cert, p)
    /\ JobsUntouched
    /\ UNCHANGED <<pageVars, clientVars>>

\* Bound: an edit of the cost of the only row, which others may be deleting.
EditsBesideDeletions ==
    /\ \/ \E c \in Clients, i \in Items : Fetch(c, i)
       \/ \E q \in Requests :
            \/ ApplyPatch(q) \/ Reload(q)
            \/ \E c \in Clients, cost \in Costs :
                 BeginPatch(q, c, [cond |-> None, qty |-> None, cost |-> cost])
    /\ JobsUntouched
    /\ UNCHANGED <<pageVars, clientVars>>

\* A member who adds cards while a file with the same ones is imported.
AddsWhileImporting == Stocked /\ \E j \in Jobs : jobs[j] # None

\* The rows that clients have a copy of.
Seen == {held[c].item : c \in {d \in Clients : held[d] # None}}

\* Bound: two rows, of which the clients edit one, three writes, edits of one
\* field, bulk edits of rows there are, graded cards without a printing.
SmallEdit ==
    /\ Edit /\ Cardinality(Rows') <= 2 /\ now' <= 3
    /\ Cardinality(Seen') <= 1
    /\ \A q \in Requests :
         /\ req'[q].pc = "addGraded" => req'[q].printing = None
         /\ req'[q].pc = "bulkGraded" =>
              req'[q].ids \subseteq Rows /\ None \in {req'[q].cond, req'[q].cost}
         /\ req'[q].pc = "update" =>
              Cardinality({f \in {"cond", "qty", "cost"} : req'[q].patch[f] # None}) = 1

\* Bound: the columns that make up a printing are named together, and those that
\* make up a certificate.
SmallImport ==
    /\ Import
    /\ \A q \in Requests : req'[q].pc = "start" =>
         \A pair \in {{"set_id", "number"}, {"grader", "cert_number"}} :
           pair \subseteq req'[q].map \/ pair \cap req'[q].map = {}

MCNext ==
    /\ UNCHANGED stream
    /\ \/ stream = "edit" /\ SmallEdit
       \/ /\ stream = "removal" /\ (Delete \/ Stocked \/ EditsBesideDeletions)
          /\ Cardinality(Rows') <= 1
       \/ stream = "import" /\ (SmallImport \/ AddsWhileImporting)
       \/ stream = "export" /\ (Export \/ Stocked \/ Delete)
       \/ stream = "pages" /\ Read
       \/ stream = "browse" /\ Browse
       \/ stream = "reconcile" /\ Reconcile
       \/ \E q \in Requests : Stop(q)
    /\ started' = started + Turns
    /\ started' <= MaxStarted[stream]

MCSpec == MCInit /\ [][MCNext]_<<vars, stream, started>>

Row(printing, cond, qty, cert) == [printing |-> printing, cond |-> cond, qty |-> qty, cert |-> cert]

\* A file with all its columns, with a card twice, records to skip and a
\* certificate; and one whose columns are not recognised.
Files2 ==
    {[headers |-> {"set", "number", "cond", "qty", "grader", "cert"},
      records |-> <<Row(p1, n1, 1, None), Row("unknown", n1, 1, None), Row(p1, n1, 1, g1)>>],
     [headers |-> {"set", "number", "state", "qty"},
      records |-> <<Row(p1, "?", 1, None), Row(p1, n2, 1, None)>>]}

\* All of the rows, those of the set, and those of a set that there is no card of.
Filters2 ==
    {[raw |-> TRUE, graded |-> TRUE, set |-> None, cond |-> None],
     [raw |-> TRUE, graded |-> TRUE, set |-> "s1", cond |-> n1],
     [raw |-> TRUE, graded |-> TRUE, set |-> "s2", cond |-> None]}
SetOf2 == [p \in Printings |-> "s1"]

\* Everything, and the raw cards among it.
Listing2 == (all :> {1, 2, 3}) @@ (raw :> {1, 3})

\* The pages of the client take their fetches, bulk edits, answers and lines from
\* the names of the clients and requests, which they never meet in a stream: a
\* permutation of the names moves both.
Symmetry == Permutations(Requests) \cup Permutations(Items) \cup Permutations(Clients)
=============================================================================
