------------------------------ MODULE RiskFlags ------------------------------
(***************************************************************************)
(* The risk flags of one workspace: how they are triaged, alone and in     *)
(* bulk, and how a new flag is announced to the members                    *)
(* (crates/api/src/fraud/routes.rs, crates/api/src/notify/mod.rs).         *)
(*                                                                         *)
(* StolenRegistry and ScalperRules extend this module: they raise flags.   *)
(* A request is a record whose shape depends on what it does; all of them  *)
(* have the statement they are at, "pc".                                   *)
(***************************************************************************)
EXTENDS Integers, Sequences, FiniteSets

CONSTANTS
    Flags,     \* bound: the rows of risk_flags that can be made
    Members,   \* the members of the workspace
    Requests,  \* requests in progress at once
    None,      \* SQL NULL, "no row"
    MaxBulk    \* flag_ids.len() at most (100 in the code)

Verdicts == {"reviewed", "dismissed"}

ASSUME FlagAssumption ==
    /\ Members # {} /\ MaxBulk \in Nat \ {0}
    /\ None \notin Members \cup {"unread", "read"}

VARIABLES
    flags,        \* risk_flags: the rows that were made
    audit,        \* audit_log: the entries about flags
    notes,        \* notifications: each flag, each member
    req,          \* the program state of each request
    answered,     \* history: triage requests that were answered with success
    unaudited,    \* history: flags whose request ended before its audit entry
    unannounced   \* history: flag and member for which no notification could be written

flagVars == <<flags, audit, notes, answered, unaudited, unannounced>>

Idle == [pc |-> "idle"]
IsIdle(q) == req[q].pc = "idle"
ReqBecomes(q, state) == req' = [req EXCEPT ![q] = state]
Ends(q) == ReqBecomes(q, Idle)
Goto(q, label) == ReqBecomes(q, [req[q] EXCEPT !.pc = label])

NewFlag(kind, target, severity, evidence) ==
    [kind |-> kind, target |-> target, severity |-> severity, evidence |-> evidence,
     status |-> "open", by |-> None]

FreeFlags == Flags \ DOMAIN flags
OpenFlags(kind, target) ==
    {f \in DOMAIN flags : /\ flags[f].kind = kind /\ flags[f].target = target
                          /\ flags[f].status = "open"}

FlagInit ==
    /\ flags = [f \in {} |-> None]
    /\ audit = {}
    /\ notes = [f \in Flags |-> [u \in Members |-> None]]
    /\ req = [q \in Requests |-> Idle]
    /\ answered = {}
    /\ unaudited = {}
    /\ unannounced = {}

-----------------------------------------------------------------------------
(* triage_flag and bulk_triage: for each id apply_triage, then             *)
(* write_audit_log.  The first id that is not open ends the request.       *)

\* ids is <<fid>> for triage_flag, and what the client sent for bulk_triage:
\* an id may occur in it twice.
BeginTriage(q, u, ids, verdict) ==
    /\ IsIdle(q)
    /\ Len(ids) \in 1..MaxBulk
    /\ ReqBecomes(q, [pc |-> "apply", todo |-> ids, verdict |-> verdict, by |-> u,
                      ids |-> {ids[n] : n \in DOMAIN ids}])
    /\ UNCHANGED flagVars

\* The WHERE clause of apply_triage; the mutant leaves out status = 'open'.
Triageable_Again(f) == f \in DOMAIN flags
Triageable(f) == f \in DOMAIN flags /\ flags[f].status = "open"

ApplyTriage(q) ==
    /\ req[q].pc = "apply"
    /\ LET f == Head(req[q].todo) IN
         IF Triageable(f)
         THEN /\ flags' = [flags EXCEPT ![f].status = req[q].verdict, ![f].by = req[q].by]
              /\ Goto(q, "audit")
         ELSE Ends(q) /\ UNCHANGED flags
    /\ UNCHANGED <<audit, notes, answered, unaudited, unannounced>>

WriteAudit(q) ==
    /\ req[q].pc = "audit"
    /\ audit' = audit \cup {[flag |-> Head(req[q].todo), verdict |-> req[q].verdict,
                             by |-> req[q].by]}
    /\ IF Len(req[q].todo) > 1
       THEN /\ ReqBecomes(q, [req[q] EXCEPT !.pc = "apply", !.todo = Tail(@)])
            /\ UNCHANGED answered
       ELSE /\ Ends(q)
            /\ answered' = answered \cup {[ids |-> req[q].ids, verdict |-> req[q].verdict,
                                           by |-> req[q].by]}
    /\ UNCHANGED <<flags, notes, unaudited, unannounced>>

-----------------------------------------------------------------------------
(* create_flag and dispatch_new_flag: the row is inserted, the members are *)
(* read, and one notification is inserted for each.  Failures after the    *)
(* first statement are logged and nothing else.                            *)

CreateFlag(q, row) ==
    \E f \in FreeFlags :
        /\ flags' = [g \in DOMAIN flags \cup {f} |-> IF g = f THEN row ELSE flags[g]]
        /\ ReqBecomes(q, [pc |-> "members", flag |-> f])
        /\ UNCHANGED <<audit, notes, answered, unaudited, unannounced>>

FetchMembers(q) ==
    /\ req[q].pc = "members"
    /\ \/ /\ ReqBecomes(q, [pc |-> "notify", flag |-> req[q].flag, pending |-> Members])
          /\ UNCHANGED unannounced
       \/ /\ Ends(q)
          /\ unannounced' = unannounced \cup {<<req[q].flag, u>> : u \in Members}
    /\ UNCHANGED <<flags, audit, notes, answered, unaudited>>

\* Who is still to be told after u.  The mutant gives up at a failure.
PendingAfter_GivesUp(q, u, failed) == IF failed THEN {} ELSE req[q].pending \ {u}
PendingAfter(q, u, failed) == req[q].pending \ {u}

InsertNotification(q) ==
    /\ req[q].pc = "notify"
    /\ \E u \in req[q].pending, failed \in BOOLEAN :
         /\ IF failed
            THEN unannounced' = unannounced \cup {<<req[q].flag, u>>} /\ UNCHANGED notes
            ELSE notes' = [notes EXCEPT ![req[q].flag][u] = "unread"] /\ UNCHANGED unannounced
         /\ IF PendingAfter(q, u, failed) = {}
            THEN Ends(q)
            ELSE ReqBecomes(q, [req[q] EXCEPT !.pending = PendingAfter(q, u, failed)])
    /\ UNCHANGED <<flags, audit, answered, unaudited>>

MarkRead(f, u) ==
    /\ notes[f][u] = "unread"
    /\ notes' = [notes EXCEPT ![f][u] = "read"]
    /\ UNCHANGED <<flags, audit, req, answered, unaudited, unannounced>>

\* A request ends between two statements: an error, a dropped connection.
StopRequest(q) ==
    /\ ~IsIdle(q)
    /\ Ends(q)
    /\ unaudited' = IF req[q].pc = "audit" THEN unaudited \cup {Head(req[q].todo)} ELSE unaudited
    /\ unannounced' = unannounced \cup
         (CASE req[q].pc = "members" -> {<<req[q].flag, u>> : u \in Members}
            [] req[q].pc = "notify" -> {<<req[q].flag, u>> : u \in req[q].pending}
            [] OTHER -> {})
    /\ UNCHANGED <<flags, audit, notes, answered>>

TriageStep ==
    \E q \in Requests :
      \/ ApplyTriage(q) \/ WriteAudit(q)
      \/ \E u \in Members, n \in 1..MaxBulk, v \in Verdicts :
           \E ids \in [1..n -> DOMAIN flags] : BeginTriage(q, u, ids, v)

AnnounceStep ==
    \/ \E q \in Requests : FetchMembers(q) \/ InsertNotification(q)
    \/ \E f \in Flags, u \in Members : MarkRead(f, u)

-----------------------------------------------------------------------------
(* Properties.                                                             *)

TriageReq == [pc : {"apply", "audit"}, todo : Seq(Flags) \ {<<>>}, verdict : Verdicts, by : Members,
              ids : SUBSET Flags]
AnnounceReq == [pc : {"members"}, flag : Flags]
                 \cup [pc : {"notify"}, flag : Flags, pending : SUBSET Members]

FlagColumns == {"kind", "target", "severity", "evidence", "status", "by"}
IsFlag(row) ==
    /\ DOMAIN row = FlagColumns
    /\ \/ row.status = "open" /\ row.by = None
       \/ row.status \in Verdicts /\ row.by \in Members

FlagTypeOK ==
    /\ DOMAIN flags \subseteq Flags /\ \A f \in DOMAIN flags : IsFlag(flags[f])
    /\ audit \subseteq [flag : DOMAIN flags, verdict : Verdicts, by : Members]
    /\ notes \in [Flags -> [Members -> {None, "unread", "read"}]]

\* A flag is triaged once in its life, however many members and bulk requests
\* compete for it: its audit entry is the only one and names who did it and how;
\* the entry is missing only while, or because, the request stopped in front of
\* it.  A request that was answered with success has triaged every one of its
\* flags itself (apply_triage, write_audit_log, bulk_triage).
TriageRecorded ==
    /\ \A a \in audit : flags[a.flag].status = a.verdict /\ flags[a.flag].by = a.by
    /\ \A f \in DOMAIN flags : flags[f].status # "open" =>
         \/ \E a \in audit : a.flag = f
         \/ f \in unaudited
         \/ \E q \in Requests : req[q].pc = "audit" /\ Head(req[q].todo) = f
    /\ \A r \in answered : \A f \in r.ids : [flag |-> f, verdict |-> r.verdict, by |-> r.by] \in audit

\* Once nobody is announcing a flag that create_flag made, each member has its
\* notification, but for those whose own insert failed: one failure costs no
\* other member his ("fire-and-forget: failures are logged but not propagated").
FlagsAnnounced ==
    \A f \in DOMAIN flags : flags[f].kind = "scalper" =>
        \/ \E q \in Requests : req[q].pc \in {"members", "notify"} /\ req[q].flag = f
        \/ \A u \in Members : notes[f][u] # None \/ <<f, u>> \in unannounced
=============================================================================
