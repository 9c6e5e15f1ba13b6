--------------------------- MODULE StolenRegistry ---------------------------
(***************************************************************************)
(* Reports of stolen cards, their moderation and disputes, the private     *)
(* list of a workspace and the scan that flags matching instances          *)
(* (crates/api/src/fraud/stolen.rs).                                       *)
(*                                                                         *)
(* A certificate stands for the pair of grader and number.  The unique     *)
(* index makes a certificate and its reporter the key of a report, and the *)
(* certificate the key of an entry of the private list.                    *)
(***************************************************************************)
EXTENDS RiskFlags

CONSTANTS
    Certs,         \* certificates: grader and number
    Reporters,     \* users who report certificates
    Instances,     \* card instances of the workspace
    CertOf         \* the certificate of each instance

ReportKeys == Certs \X Reporters
Statuses == {"pending", "confirmed", "disputed", "rejected"}

ASSUME RegistryAssumption ==
    /\ CertOf \in [Instances -> Certs]
    /\ None \notin Statuses
    /\ IsFiniteSet(Reporters)

VARIABLES
    reports,   \* stolen_reports: the status of each
    disputes,  \* dispute_records: the reports that have one
    private,   \* private_stolen_certs
    verdicts,  \* audit_logs: verdicts of moderators
    torn,      \* history: reports whose dispute stopped before it took effect
    crossed,   \* history: disputes whose report was rejected after they had checked it
    doubled    \* history: instances that were selected a second time before the first
               \* selection was written: from two lists, or by two scans

registryVars == <<reports, disputes, private, verdicts, torn, crossed, doubled>>

RegistryInit ==
    /\ reports = [k \in ReportKeys |-> None]
    /\ disputes = {}
    /\ private = [c \in Certs |-> None]
    /\ verdicts = {}
    /\ torn = {}
    /\ crossed = {}
    /\ doubled = {}

\* The requests between the SELECT of a dispute and its UPDATE, and those
\* between the SELECT of a scan and its rows.
Disputing(k) == {q \in Requests : req[q].pc \in {"record", "dispute"} /\ req[q].report = k}
Scanning == {q \in Requests : req[q].pc = "raise"}

-----------------------------------------------------------------------------
(* submit_report, confirm_report, reject_report *)

SubmitReport(k) ==
    /\ reports[k] = None
    /\ reports' = [reports EXCEPT ![k] = "pending"]
    /\ UNCHANGED <<flagVars, req, disputes, private, verdicts, torn, crossed, doubled>>

\* require_moderator has let the caller pass.
BeginVerdict(q, k, status) ==
    /\ IsIdle(q)
    /\ reports[k] # None
    /\ ReqBecomes(q, [pc |-> "verdict", report |-> k, status |-> status])
    /\ UNCHANGED <<flagVars, registryVars>>

GiveVerdict(q) ==
    /\ req[q].pc = "verdict"
    /\ reports' = [reports EXCEPT ![req[q].report] = req[q].status]
    /\ Goto(q, "log")
    /\ crossed' = IF req[q].status = "rejected"
                  THEN crossed \cup Disputing(req[q].report) ELSE crossed
    /\ UNCHANGED <<flagVars, disputes, private, verdicts, torn, doubled>>

\* let _ = INSERT: the request succeeds without the entry as well.
LogVerdict(q) ==
    /\ req[q].pc = "log"
    /\ \/ verdicts' = verdicts \cup {<<req[q].report, req[q].status>>}
       \/ UNCHANGED verdicts
    /\ Ends(q)
    /\ UNCHANGED <<flagVars, reports, disputes, private, torn, crossed, doubled>>

-----------------------------------------------------------------------------
(* dispute_report: SELECT status, INSERT the record, UPDATE the report.    *)

\* The mutant lets a rejected report be disputed.
Disputable_Any(k) == reports[k] # None
Disputable(k) == reports[k] \in {"pending", "confirmed"}

BeginDispute(q, k) ==
    /\ IsIdle(q)
    /\ Disputable(k)
    /\ ReqBecomes(q, [pc |-> "record", report |-> k])
    /\ crossed' = crossed \ {q}
    /\ UNCHANGED <<flagVars, reports, disputes, private, verdicts, torn, doubled>>

\* The mutant carries on although the record could not be inserted.
RecordDispute_Unrecorded(q) ==
    /\ req[q].pc = "record"
    /\ Goto(q, "dispute")
    /\ UNCHANGED <<flagVars, registryVars>>
RecordDispute(q) ==
    /\ req[q].pc = "record"
    /\ disputes' = disputes \cup {req[q].report}
    /\ Goto(q, "dispute")
    /\ UNCHANGED <<flagVars, reports, private, verdicts, torn, crossed, doubled>>

MarkDisputed(q) ==
    /\ req[q].pc = "dispute"
    /\ reports' = [reports EXCEPT ![req[q].report] = "disputed"]
    /\ Ends(q)
    /\ UNCHANGED <<flagVars, disputes, private, verdicts, torn, crossed, doubled>>

-----------------------------------------------------------------------------
(* add_private, resolve_private, remove_private *)

AddPrivate(c) ==
    /\ private[c] = None
    /\ private' = [private EXCEPT ![c] = "active"]
    /\ UNCHANGED <<flagVars, req, reports, disputes, verdicts, torn, crossed, doubled>>

ResolvePrivate(c) ==
    /\ private[c] = "active"
    /\ private' = [private EXCEPT ![c] = "resolved"]
    /\ UNCHANGED <<flagVars, req, reports, disputes, verdicts, torn, crossed, doubled>>

RemovePrivate(c) ==
    /\ private[c] # None
    /\ private' = [private EXCEPT ![c] = None]
    /\ UNCHANGED <<flagVars, req, reports, disputes, verdicts, torn, crossed, doubled>>

-----------------------------------------------------------------------------
(* rescan_workspace_stolen: one INSERT .. SELECT.  It reads the snapshot   *)
(* of its beginning, so that it is two steps: what it reads, and the rows  *)
(* it adds.  The lists are joined with UNION ALL: an instance is selected  *)
(* once for each entry of its certificate.                                 *)

\* What list_shared shows of a certificate, and list_private as active.
SharedEntries(c) == {<<c, u>> : u \in {v \in Reporters : reports[<<c, v>>] = "confirmed"}}
PrivateEntries(c) == IF private[c] = "active" THEN {<<c>>} ELSE {}
Listed(c) == SharedEntries(c) \cup PrivateEntries(c)

\* NOT EXISTS an open stolen flag; the mutant does not look.
Unflagged_NotChecked(i) == TRUE
Unflagged(i) == OpenFlags("stolen", i) = {}

Selection == UNION {{i} \X Listed(CertOf[i]) : i \in {j \in Instances : Unflagged(j)}}
RowsOf(i, rows) == {row \in rows : row[1] = i}

BeginScanStolen(q) ==
    /\ IsIdle(q)
    /\ ReqBecomes(q, [pc |-> "raise", rows |-> Selection])
    /\ doubled' = doubled \cup
         {i \in Instances : \/ Cardinality(RowsOf(i, Selection)) > 1
                            \/ /\ RowsOf(i, Selection) # {}
                               /\ \E p \in Scanning : RowsOf(i, req[p].rows) # {}}
    /\ UNCHANGED <<flagVars, reports, disputes, private, verdicts, torn, crossed>>

RaiseStolen(q) ==
    /\ req[q].pc = "raise"
    /\ \E ids \in SUBSET FreeFlags :
         /\ Cardinality(ids) = Cardinality(req[q].rows)
         /\ \E row \in [ids -> req[q].rows] :
              /\ \A f, g \in ids : row[f] = row[g] => f = g
              /\ flags' = [f \in DOMAIN flags \cup ids |->
                             IF f \in ids THEN NewFlag("stolen", row[f][1], "high", {}) ELSE flags[f]]
    /\ Ends(q)
    /\ UNCHANGED <<audit, notes, answered, unaudited, unannounced, registryVars>>

RegistryStep ==
    \/ \E k \in ReportKeys : SubmitReport(k)
    \/ \E c \in Certs : AddPrivate(c) \/ ResolvePrivate(c) \/ RemovePrivate(c)
    \/ \E q \in Requests :
         \/ GiveVerdict(q) \/ LogVerdict(q) \/ RecordDispute(q) \/ MarkDisputed(q)
         \/ BeginScanStolen(q) \/ RaiseStolen(q)
         \/ \E k \in ReportKeys : \/ BeginDispute(q, k)
                                  \/ \E s \in {"confirmed", "rejected"} : BeginVerdict(q, k, s)

\* A dispute that stops between its two writes leaves its record behind.
Tears(q) == IF req[q].pc = "dispute" THEN {req[q].report} ELSE {}

-----------------------------------------------------------------------------
(* Properties.                                                             *)

RegistryReq ==
    [pc : {"verdict", "log"}, report : ReportKeys, status : {"confirmed", "rejected"}]
        \cup [pc : {"record", "dispute"}, report : ReportKeys]
        \cup [pc : {"raise"}, rows : SUBSET (Instances \X (ReportKeys \cup {<<c>> : c \in Certs}))]

RegistryTypeOK ==
    /\ reports \in [ReportKeys -> Statuses \cup {None}]
    /\ disputes \cup torn \subseteq {k \in ReportKeys : reports[k] # None}
    /\ private \in [Certs -> {None, "active", "resolved"}]
    /\ verdicts \subseteq ReportKeys \X {"confirmed", "rejected"}
    /\ crossed \subseteq Requests /\ doubled \subseteq Instances

\* "cannot dispute a report with status": a report that a moderator has rejected
\* comes back only by a later verdict, or by a dispute that had checked it before
\* he rejected it, and by no dispute made after (dispute_report, reject_report).
RejectionStands ==
    [][\A k \in ReportKeys : reports[k] = "rejected" /\ reports'[k] # "rejected" =>
         \E q \in Requests :
            /\ req[q].pc \in {"verdict", "dispute"} /\ req[q].report = k
            /\ req[q].pc = "dispute" => q \in crossed
            /\ req'[q].pc # req[q].pc]_reports

\* A disputed report has the record of its dispute for the moderators to read,
\* and a report with a record does not wait as an ordinary pending one, unless
\* its dispute is between the two writes or was stopped there (dispute_report).
DisputesGrounded ==
    \A k \in ReportKeys :
        /\ reports[k] = "disputed" => k \in disputes
        /\ k \in disputes /\ reports[k] = "pending" =>
             k \in torn \/ \E q \in Requests : req[q].pc = "dispute" /\ req[q].report = k

\* "inserts risk_flags for any that match the stolen lists but aren't already
\* flagged": an instance has one open stolen flag at most, whatever is triaged,
\* listed and scanned, unless it was selected a second time, from another list or
\* by an overlapping scan, before its first flag was inserted
\* (rescan_workspace_stolen).
OneOpenFlag ==
    \A i \in Instances : Cardinality(OpenFlags("stolen", i)) <= 1 \/ i \in doubled
=============================================================================
