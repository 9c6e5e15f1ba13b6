----------------------------- MODULE ReportPage ------------------------------
(***************************************************************************)
(* The report page of the web client                                       *)
(* (crates/web/src/routes/reconcile/report.rs): the discrepancies of a     *)
(* report as they were when the page was opened, each resolved on its own, *)
(* and a banner that counts what is left without asking the server.        *)
(***************************************************************************)
EXTENDS Integers, FiniteSets

CONSTANTS
    Discs,      \* discrepancies that a report may have
    Answers,    \* resolutions
    Posts,      \* requests to resolve one, each made once at a time
    Unsent      \* no request

ASSUME ReportPageAssumption ==
    /\ IsFiniteSet(Discs)
    /\ {"absent", "pending"} \cap Answers = {}
    /\ Unsent \notin [disc : Discs, answer : Answers, served : BOOLEAN, orphan : BOOLEAN]

VARIABLES
    resolution, \* on the server; "absent" for a discrepancy not there yet
    deleted,    \* those that a later run of the report has removed
    current,    \* DiscrepancyRow: the row as the page has it, "absent" if not on it
    busy,       \* DiscrepancyRow
    initial,    \* initial_unresolved
    extra,      \* extra_resolved
    posts,      \* requests on their way; an orphan's row is no longer on the page
    carried     \* history: the count went over to another report

reportVars == <<resolution, deleted, current, busy, initial, extra, posts, carried>>

OnPage == {d \in Discs : current[d] # "absent"}
Pending(rows) == {d \in Discs : rows[d] = "pending"}
Listed == [d \in Discs |-> IF d \in deleted THEN "absent" ELSE resolution[d]]

ReportPageInit ==
    /\ resolution \in [Discs -> {"absent", "pending"}]
    /\ deleted = {}
    /\ current = resolution
    /\ initial = Cardinality(Pending(resolution))
    /\ extra = 0
    /\ busy = [d \in Discs |-> FALSE]
    /\ posts = [q \in Posts |-> Unsent]
    /\ carried = FALSE

\* The page is left and opened again; answers to the old one reach no one.
Reopen ==
    /\ UNCHANGED <<resolution, deleted>>
    /\ current' = Listed
    /\ initial' = Cardinality(Pending(Listed))
    /\ extra' = 0
    /\ busy' = [d \in Discs |-> FALSE]
    /\ posts' = [q \in Posts |-> Unsent]
    /\ carried' = FALSE

\* The route goes from one report to another without leaving the page: new rows
\* for the new report, while the count stays, and so do the answers to come.
ShowAnother ==
    /\ resolution' \in [Discs -> {"absent", "pending"} \cup Answers]
    /\ deleted' = {}
    /\ current' = resolution'
    /\ initial' = Cardinality(Pending(resolution'))
    /\ busy' = [d \in Discs |-> FALSE]
    /\ posts' = [q \in Posts |-> IF posts[q] = Unsent THEN Unsent
                                 ELSE [posts[q] EXCEPT !.orphan = TRUE]]
    /\ carried' = (carried \/ extra > 0 \/ \E q \in Posts : posts[q] # Unsent)
    /\ UNCHANGED extra

\* The buttons of a row are disabled while it is busy; the mutant's are not.
Clickable_Always(d) == current[d] = "pending"
Clickable(d) == current[d] = "pending" /\ ~busy[d]

Click(q, d, answer) ==
    /\ posts[q] = Unsent
    /\ Clickable(d)
    /\ busy' = [busy EXCEPT ![d] = TRUE]
    /\ posts' = [posts EXCEPT ![q] = [disc |-> d, answer |-> answer,
                                     served |-> FALSE, orphan |-> FALSE]]
    /\ UNCHANGED <<resolution, deleted, current, initial, extra, carried>>

\* resolve_discrepancy: whatever the resolution was, if the row is still there.
ServePost(q) ==
    /\ posts[q] # Unsent /\ ~posts[q].served
    /\ \/ posts[q].orphan /\ UNCHANGED resolution
       \/ /\ ~posts[q].orphan /\ posts[q].disc \notin deleted
          /\ resolution' = [resolution EXCEPT ![posts[q].disc] = posts[q].answer]
    /\ posts' = [posts EXCEPT ![q].served = TRUE]
    /\ UNCHANGED <<deleted, current, busy, initial, extra, carried>>

\* The row that is returned, and the callback of the page, which is called for an
\* orphan as well.
PostDone(q) ==
    /\ posts[q] # Unsent /\ posts[q].served
    /\ extra' = extra + 1
    /\ posts' = [posts EXCEPT ![q] = Unsent]
    /\ \/ posts[q].orphan /\ UNCHANGED <<current, busy>>
       \/ /\ ~posts[q].orphan
          /\ current' = [current EXCEPT ![posts[q].disc] = posts[q].answer]
          /\ busy' = [busy EXCEPT ![posts[q].disc] = FALSE]
    /\ UNCHANGED <<resolution, deleted, initial, carried>>

\* Before or after it has reached the server, or not found there.
PostFails(q) ==
    /\ posts[q] # Unsent
    /\ posts' = [posts EXCEPT ![q] = Unsent]
    /\ \/ posts[q].orphan /\ UNCHANGED busy
       \/ ~posts[q].orphan /\ busy' = [busy EXCEPT ![posts[q].disc] = FALSE]
    /\ UNCHANGED <<resolution, deleted, current, initial, extra, carried>>

\* Another member resolves one; a run of the report removes all that are there
\* and adds others.
OtherResolves(d, answer) ==
    /\ resolution[d] # "absent" /\ d \notin deleted
    /\ resolution' = [resolution EXCEPT ![d] = answer]
    /\ UNCHANGED <<deleted, current, busy, initial, extra, posts, carried>>

RunClears ==
    /\ deleted' = {d \in Discs : resolution[d] # "absent"}
    /\ UNCHANGED <<resolution, current, busy, initial, extra, posts, carried>>

RunAdds(d) ==
    /\ resolution[d] = "absent"
    /\ resolution' = [resolution EXCEPT ![d] = "pending"]
    /\ UNCHANGED <<deleted, current, busy, initial, extra, posts, carried>>

ReportPageStep ==
    \/ Reopen \/ ShowAnother \/ RunClears
    \/ \E q \in Posts : \/ ServePost(q) \/ PostDone(q) \/ PostFails(q)
                        \/ \E d \in Discs, a \in Answers : Click(q, d, a)
    \/ \E d \in Discs : RunAdds(d) \/ \E a \in Answers : OtherResolves(d, a)

-----------------------------------------------------------------------------
(* What the banner says, with saturating subtraction.                      *)
UnresolvedCount == IF extra > initial THEN 0 ELSE initial - extra
ResolvedCount == Cardinality(OnPage) - UnresolvedCount

ReportPageTypeOK ==
    /\ {resolution, current} \subseteq [Discs -> Answers \cup {"absent", "pending"}]
    /\ busy \in [Discs -> BOOLEAN] /\ initial \in Nat /\ extra \in Nat
    /\ deleted \subseteq Discs /\ carried \in BOOLEAN /\ DOMAIN posts = Posts

\* Until the count goes over to another report, the banner counts as resolved no
\* more than the discrepancies of the page that have been resolved on the server,
\* so that "zero unexplained discrepancies" is true of them, whatever answers are
\* lost, whoever resolves them too and whenever a run removes them
\* (ReconcileReportPage: extra_resolved; DiscrepancyRow: busy).
BannerTrue ==
    carried \/ ResolvedCount <= Cardinality({d \in OnPage : resolution[d] \in Answers})
=============================================================================
