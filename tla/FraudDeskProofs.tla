--------------------------- MODULE FraudDeskProofs ---------------------------
(***************************************************************************)
(* Theorems about the fraud desk of a workspace, in the composition of all *)
(* that raises flags with those who triage them: for any flags, members,   *)
(* requests, reports and purchases.                                        *)
(***************************************************************************)
EXTENDS FraudDesk, FiniteSetTheorems, TLAPS

-----------------------------------------------------------------------------
(* Requests.                                                               *)

PlainReq == {Idle} \cup TriageReq \cup AnnounceReq \cup RegistryReq

ReqsOK ==
    /\ DOMAIN req = Requests
    /\ \A q \in Requests : req[q] \in PlainReq \/ req[q].pc \in ScanLabels
    /\ \A q \in Requests : req[q].pc \in ScanLabels => IsScan(req[q]) /\ Recorded(req[q].x)

StoreOK ==
    /\ config \in Configs /\ allow \subseteq Buyers
    /\ bought \in [Purchases -> (0..MaxTime) \cup {None}] /\ now \in 0..MaxTime

LEMMA TypeParts == TypeOK <=> FlagTypeOK /\ RegistryTypeOK /\ StoreOK /\ ReqsOK
  BY DEF TypeOK, ScalperTypeOK, StoreOK, ReqsOK, PlainReq

LEMMA TypesNext == FlagTypeOK' /\ RegistryTypeOK' /\ StoreOK' /\ ReqsOK' => TypeOK'
  BY DEF TypeOK, ScalperTypeOK, StoreOK, ReqsOK, PlainReq

TriageLabels == {"apply", "audit"}
AnnounceLabels == {"members", "notify"}
VerdictLabels == {"verdict", "log"}
DisputeLabels == {"record", "dispute"}

LEMMA PlainKinds ==
    ASSUME NEW r \in PlainReq
    PROVE  /\ r.pc = "idle" => r = Idle
           /\ r.pc \in TriageLabels => r \in TriageReq
           /\ r.pc \in AnnounceLabels => r \in AnnounceReq
           /\ r.pc \in VerdictLabels =>
                r \in [pc : {"verdict", "log"}, report : ReportKeys, status : {"confirmed", "rejected"}]
           /\ r.pc \in DisputeLabels => r \in [pc : {"record", "dispute"}, report : ReportKeys]
           /\ r.pc = "raise" =>
                r \in [pc : {"raise"}, rows : SUBSET (Instances \X (ReportKeys \cup {<<c>> : c \in Certs}))]
           /\ r.pc \notin ScanLabels
  BY DEF PlainReq, Idle, TriageReq, AnnounceReq, RegistryReq, TriageLabels, AnnounceLabels, VerdictLabels,
     DisputeLabels, ScanLabels

LEMMA ReqIs ==
    ASSUME ReqsOK, NEW q \in Requests
    PROVE  /\ req[q].pc \notin ScanLabels => req[q] \in PlainReq
           /\ req[q].pc = "idle" => req[q] = Idle
           /\ req[q].pc \in TriageLabels => req[q] \in TriageReq
           /\ req[q].pc \in AnnounceLabels => req[q] \in AnnounceReq
           /\ req[q].pc \in VerdictLabels =>
                req[q] \in [pc : {"verdict", "log"}, report : ReportKeys, status : {"confirmed", "rejected"}]
           /\ req[q].pc \in DisputeLabels => req[q] \in [pc : {"record", "dispute"}, report : ReportKeys]
           /\ req[q].pc = "raise" =>
                req[q] \in [pc : {"raise"}, rows : SUBSET (Instances \X (ReportKeys \cup {<<c>> : c \in Certs}))]
           /\ req[q].pc \in ScanLabels => IsScan(req[q]) /\ Recorded(req[q].x)
<1>1. TriageLabels \cup AnnounceLabels \cup VerdictLabels \cup DisputeLabels \cup {"idle", "raise"}
        \subseteq {l \in {"apply", "audit", "members", "notify", "verdict", "log", "record", "dispute",
                          "idle", "raise"} : l \notin ScanLabels}
  BY DEF TriageLabels, AnnounceLabels, VerdictLabels, DisputeLabels, ScanLabels
<1>2. req[q] \in PlainReq \/ req[q].pc \in ScanLabels
  BY DEF ReqsOK
<1> QED BY <1>1, <1>2, PlainKinds DEF ReqsOK

LEMMA BecomesOne ==
    ASSUME DOMAIN req = Requests, NEW q \in Requests, NEW x, ReqBecomes(q, x)
    PROVE  DOMAIN req' = Requests /\ req'[q] = x /\ \A p \in Requests \ {q} : req'[p] = req[p]
  BY DEF ReqBecomes

LEMMA PlainOn ==
    ASSUME ReqsOK, NEW q \in Requests, NEW x \in PlainReq, ReqBecomes(q, x), UNCHANGED bought
    PROVE  ReqsOK'
<1>1. DOMAIN req' = Requests /\ req'[q] = x /\ \A p \in Requests \ {q} : req'[p] = req[p]
  BY BecomesOne DEF ReqsOK
<1> QED BY <1>1, PlainKinds DEF ReqsOK, Recorded

LEMMA ScanOn ==
    ASSUME ReqsOK, NEW q \in Requests, NEW x, IsScan(x), Recorded(x.x), ReqBecomes(q, x), UNCHANGED bought
    PROVE  ReqsOK'
<1>1. DOMAIN req' = Requests /\ req'[q] = x /\ \A p \in Requests \ {q} : req'[p] = req[p]
  BY BecomesOne DEF ReqsOK
<1> QED BY <1>1 DEF ReqsOK, Recorded, IsScan

LEMMA IdlePlain == Idle \in PlainReq /\ Idle.pc = "idle"
  BY DEF PlainReq, Idle

LEMMA EndsOn == ASSUME ReqsOK, NEW q \in Requests, Ends(q), UNCHANGED bought PROVE ReqsOK'
  BY IdlePlain, PlainOn DEF Ends

-----------------------------------------------------------------------------
(* Triage.                                                                 *)

\* A list of ids that is not empty has a first, and all of them are flags.
LEMMA FirstOf ==
    ASSUME NEW s \in Seq(Flags) \ {<<>>}
    PROVE  /\ Len(s) \in Nat \ {0} /\ Head(s) \in Flags /\ Head(s) = s[1]
           /\ Tail(s) \in Seq(Flags) /\ Len(Tail(s)) = Len(s) - 1
           /\ \A n \in 1..(Len(s) - 1) : Tail(s)[n] = s[n + 1]
           /\ \A n \in 1..Len(s) : s[n] \in Flags
  OBVIOUS

\* Requests of other kinds than these stay as they are.
Within(L) ==
    \A q \in Requests : \/ req'[q] = req[q]
                        \/ req[q].pc \in L \cup {"idle"} /\ req'[q].pc \in L \cup {"idle"}

LEMMA MovesWithin ==
    ASSUME ReqsOK, NEW q \in Requests, NEW x, ReqBecomes(q, x), NEW L,
           req[q].pc \in L \cup {"idle"}, x.pc \in L \cup {"idle"}
    PROVE  Within(L)
  BY BecomesOne DEF ReqsOK, Within

LEMMA EndsWithin ==
    ASSUME ReqsOK, NEW q \in Requests, Ends(q), NEW L, req[q].pc \in L \cup {"idle"}
    PROVE  Within(L)
  BY MovesWithin, IdlePlain DEF Ends

LEMMA StaysWithin == ASSUME UNCHANGED req, NEW L PROVE Within(L)
  BY DEF Within

LEMMA RequestsKept == ASSUME ReqsOK, UNCHANGED <<req, bought>> PROVE ReqsOK'
  BY DEF ReqsOK, Recorded

LEMMA StoreKept == ASSUME StoreOK, UNCHANGED <<config, allow, bought, now>> PROVE StoreOK'
  BY DEF StoreOK

LEMMA RegistryKept == ASSUME RegistryTypeOK, UNCHANGED registryVars PROVE RegistryTypeOK'
  BY DEF RegistryTypeOK, registryVars

LEMMA FlagsKept == ASSUME FlagTypeOK, UNCHANGED <<flags, audit, notes>> PROVE FlagTypeOK'
  BY DEF FlagTypeOK

LEMMA BeginTriageTyped ==
    ASSUME TypeOK, NEW q \in Requests, NEW u \in Members, NEW n \in 1..MaxBulk, NEW v \in Verdicts,
           NEW ids \in [1..n -> DOMAIN flags], BeginTriage(q, u, ids, v), UNCHANGED <<registryVars, scalperVars>>
    PROVE  TypeOK' /\ Within(TriageLabels)
<1> DEFINE s == {ids[k] : k \in DOMAIN ids}
           x == [pc |-> "apply", todo |-> ids, verdict |-> v, by |-> u, ids |-> s]
<1>1. FlagTypeOK /\ RegistryTypeOK /\ StoreOK /\ ReqsOK
  BY TypeParts
<1>2. n \in Nat /\ DOMAIN flags \subseteq Flags
  BY <1>1, FlagAssumption DEF FlagTypeOK
<1>3. ids \in Seq(Flags) /\ s \in SUBSET Flags
  BY <1>2
<1>4. ids # <<>>
  <2>1. Len(ids) \in 1..MaxBulk /\ Len(<<>>) = 0
    BY DEF BeginTriage
  <2> QED BY <2>1
<1>5. ReqBecomes(q, x) /\ IsIdle(q) /\ UNCHANGED flagVars
  BY DEF BeginTriage
<1> HIDE DEF s
<1>6. x \in TriageReq /\ x.pc = "apply"
  BY <1>3, <1>4 DEF TriageReq
<1> HIDE DEF x
<1>7. x \in PlainReq
  BY <1>6 DEF PlainReq
<1>8. ReqsOK'
  BY <1>1, <1>5, <1>7, PlainOn DEF scalperVars
<1>9. Within(TriageLabels)
  BY <1>1, <1>5, <1>6, MovesWithin DEF IsIdle, TriageLabels
<1> QED BY <1>1, <1>5, <1>8, <1>9, TypesNext, StoreKept, RegistryKept, FlagsKept DEF flagVars, scalperVars

\* A flag whose audit entry is due has been triaged by the request that owes it.
AuditsDue ==
    \A q \in Requests : req[q].pc = "audit" =>
        LET f == Head(req[q].todo) IN
        f \in DOMAIN flags /\ flags[f].status = req[q].verdict /\ flags[f].by = req[q].by

\* What a triage does to a flag.
Triaged(f, q) ==
    /\ req[q].pc = "apply" /\ Head(req[q].todo) = f /\ f \in DOMAIN flags /\ flags[f].status = "open"
    /\ DOMAIN flags' = DOMAIN flags /\ \A g \in DOMAIN flags \ {f} : flags'[g] = flags[g]
    /\ flags'[f].status = req[q].verdict /\ flags'[f].by = req[q].by
    /\ flags'[f].kind = flags[f].kind /\ flags'[f].target = flags[f].target
    /\ flags'[f].severity = flags[f].severity /\ flags'[f].evidence = flags[f].evidence
    /\ req'[q].pc = "audit" /\ req'[q].todo = req[q].todo /\ req'[q].ids = req[q].ids
    /\ req'[q].verdict = req[q].verdict /\ req'[q].by = req[q].by

LEMMA ApplyTriageTyped ==
    ASSUME TypeOK, NEW q \in Requests, ApplyTriage(q), UNCHANGED <<registryVars, scalperVars>>
    PROVE  /\ TypeOK' /\ Within(TriageLabels)
           /\ (Ends(q) /\ UNCHANGED flags) \/ \E f \in Flags : Triaged(f, q)
<1> DEFINE f == Head(req[q].todo)
           x == [req[q] EXCEPT !.pc = "audit"]
<1>1. FlagTypeOK /\ RegistryTypeOK /\ StoreOK /\ ReqsOK
  BY TypeParts
<1>2. req[q] \in TriageReq /\ req[q].pc = "apply" /\ UNCHANGED <<audit, notes>>
  BY <1>1, ReqIs DEF ApplyTriage, TriageLabels
<1>3. CASE Ends(q) /\ UNCHANGED flags
  BY <1>1, <1>2, <1>3, EndsOn, EndsWithin, TypesNext, StoreKept, RegistryKept, FlagsKept
     DEF scalperVars, TriageLabels
<1>4. CASE /\ Triageable(f)
           /\ flags' = [flags EXCEPT ![f].status = req[q].verdict, ![f].by = req[q].by]
           /\ Goto(q, "audit")
  <2>1. x \in TriageReq /\ x.pc = "audit" /\ x.todo = req[q].todo /\ x.ids = req[q].ids
        /\ x.verdict = req[q].verdict /\ x.by = req[q].by
    BY <1>2 DEF TriageReq
  <2>2. x \in PlainReq /\ ReqBecomes(q, x)
    BY <1>4, <2>1 DEF PlainReq, Goto
  <2> HIDE DEF x
  <2>3. ReqsOK' /\ Within(TriageLabels) /\ req'[q] = x
    BY <1>1, <1>2, <2>1, <2>2, PlainOn, MovesWithin, BecomesOne DEF scalperVars, TriageLabels, ReqsOK
  <2>4. f \in DOMAIN flags /\ f \in Flags /\ flags[f].status = "open" /\ IsFlag(flags[f])
    BY <1>1, <1>4 DEF Triageable, FlagTypeOK
  <2> DEFINE row == [flags[f] EXCEPT !.status = req[q].verdict, !.by = req[q].by]
  <2>5. /\ DOMAIN row = FlagColumns /\ row.status = req[q].verdict /\ row.by = req[q].by
        /\ row.kind = flags[f].kind /\ row.target = flags[f].target
        /\ row.severity = flags[f].severity /\ row.evidence = flags[f].evidence
    BY <2>4 DEF IsFlag, FlagColumns
  <2>6. IsFlag(row)
    BY <1>2, <2>5 DEF IsFlag, TriageReq
  <2>7. flags' = [flags EXCEPT ![f] = row]
    BY <1>4
  <2> HIDE DEF row, f
  <2>8. DOMAIN flags' = DOMAIN flags /\ flags'[f] = row /\ \A g \in DOMAIN flags \ {f} : flags'[g] = flags[g]
    BY <2>4, <2>7
  <2>9. FlagTypeOK'
    BY <1>1, <1>2, <2>6, <2>8 DEF FlagTypeOK
  <2>10. Triaged(f, q)
    BY <1>2, <2>1, <2>3, <2>4, <2>5, <2>8 DEF Triaged, f
  <2> QED BY <1>1, <2>3, <2>4, <2>9, <2>10, TypesNext, StoreKept, RegistryKept DEF scalperVars
<1> QED BY <1>3, <1>4 DEF ApplyTriage

LEMMA WriteAuditTyped ==
    ASSUME TypeOK, AuditsDue, NEW q \in Requests, WriteAudit(q), UNCHANGED <<registryVars, scalperVars>>
    PROVE  TypeOK' /\ Within(TriageLabels)
<1> DEFINE x == [req[q] EXCEPT !.pc = "apply", !.todo = Tail(@)]
           a == [flag |-> Head(req[q].todo), verdict |-> req[q].verdict, by |-> req[q].by]
<1>1. FlagTypeOK /\ RegistryTypeOK /\ StoreOK /\ ReqsOK
  BY TypeParts
<1>2. req[q] \in TriageReq /\ req[q].pc = "audit" /\ UNCHANGED <<flags, notes>> /\ audit' = audit \cup {a}
  BY <1>1, ReqIs DEF WriteAudit, TriageLabels
<1>3. FlagTypeOK'
  <2>1. a \in [flag : DOMAIN flags, verdict : Verdicts, by : Members]
    BY <1>2 DEF AuditsDue, TriageReq
  <2> HIDE DEF a
  <2> QED BY <1>1, <1>2, <2>1 DEF FlagTypeOK
<1>4. CASE Ends(q)
  BY <1>1, <1>2, <1>3, <1>4, EndsOn, EndsWithin, TypesNext, StoreKept, RegistryKept DEF scalperVars, TriageLabels
<1>5. CASE ReqBecomes(q, x) /\ Len(req[q].todo) > 1
  <2> DEFINE rest == Tail(req[q].todo)
  <2>1. rest \in Seq(Flags) \ {<<>>}
    <3>1. req[q].todo \in Seq(Flags) \ {<<>>}
      BY <1>2 DEF TriageReq
    <3> DEFINE s == req[q].todo
    <3> HIDE DEF s
    <3>2. s \in Seq(Flags) \ {<<>>} /\ Len(s) > 1
      BY <1>5, <3>1 DEF s
    <3>3. Tail(s) \in Seq(Flags) /\ Len(Tail(s)) # 0
      BY <3>2, FirstOf
    <3>4. Len(<<>>) = 0
      OBVIOUS
    <3> QED BY <3>3, <3>4 DEF s
  <2>2. x = [req[q] EXCEPT !.pc = "apply", !.todo = rest]
    OBVIOUS
  <2> HIDE DEF rest, x
  <2>3. x \in TriageReq /\ x.pc = "apply"
    BY <1>2, <2>1, <2>2 DEF TriageReq
  <2>4. x \in PlainReq
    BY <2>3 DEF PlainReq
  <2>5. ReqsOK' /\ Within(TriageLabels)
    BY <1>1, <1>2, <1>5, <2>3, <2>4, PlainOn, MovesWithin DEF scalperVars, TriageLabels
  <2> QED BY <1>1, <1>3, <2>5, TypesNext, StoreKept, RegistryKept DEF scalperVars
<1> QED BY <1>4, <1>5 DEF WriteAudit

-----------------------------------------------------------------------------
(* Announcements.                                                          *)

LEMMA FetchMembersTyped ==
    ASSUME TypeOK, NEW q \in Requests, FetchMembers(q), UNCHANGED <<registryVars, scalperVars>>
    PROVE  TypeOK' /\ Within(AnnounceLabels)
<1> DEFINE x == [pc |-> "notify", flag |-> req[q].flag, pending |-> Members]
<1>1. FlagTypeOK /\ RegistryTypeOK /\ StoreOK /\ ReqsOK
  BY TypeParts
<1>2. req[q] \in AnnounceReq /\ req[q].pc = "members" /\ UNCHANGED <<flags, audit, notes>>
  BY <1>1, ReqIs DEF FetchMembers, AnnounceLabels
<1>3. x \in PlainReq /\ x.pc = "notify"
  <2>1. x \in AnnounceReq
    BY <1>2 DEF AnnounceReq
  <2> QED BY <2>1 DEF PlainReq
<1>4. ReqBecomes(q, x) \/ Ends(q)
  BY DEF FetchMembers
<1> HIDE DEF x
<1>5. ReqsOK'
  BY <1>1, <1>3, <1>4, PlainOn, EndsOn DEF scalperVars
<1>6. Within(AnnounceLabels)
  BY <1>1, <1>2, <1>3, <1>4, MovesWithin, EndsWithin DEF AnnounceLabels
<1> QED BY <1>1, <1>2, <1>5, <1>6, TypesNext, StoreKept, RegistryKept, FlagsKept DEF scalperVars

LEMMA InsertNotificationTyped ==
    ASSUME TypeOK, NEW q \in Requests, InsertNotification(q), UNCHANGED <<registryVars, scalperVars>>
    PROVE  TypeOK' /\ Within(AnnounceLabels)
<1>1. FlagTypeOK /\ RegistryTypeOK /\ StoreOK /\ ReqsOK
  BY TypeParts
<1>2. req[q] \in AnnounceReq /\ req[q].pc = "notify" /\ UNCHANGED <<flags, audit>>
  BY <1>1, ReqIs DEF InsertNotification, AnnounceLabels
<1>3. req[q].flag \in Flags /\ req[q].pending \subseteq Members
  BY <1>2 DEF AnnounceReq
<1>4. PICK u \in req[q].pending, failed \in BOOLEAN :
        /\ IF failed THEN UNCHANGED notes ELSE notes' = [notes EXCEPT ![req[q].flag][u] = "unread"]
        /\ \/ Ends(q)
           \/ ReqBecomes(q, [req[q] EXCEPT !.pending = PendingAfter(q, u, failed)])
  BY DEF InsertNotification
<1>5. FlagTypeOK'
  <2>1. notes' \in [Flags -> [Members -> {None, "unread", "read"}]]
    BY <1>1, <1>3, <1>4 DEF FlagTypeOK
  <2> QED BY <1>1, <1>2, <2>1 DEF FlagTypeOK
<1> DEFINE rest == PendingAfter(q, u, failed)
           x == [req[q] EXCEPT !.pending = rest]
<1>6. x \in PlainReq /\ x.pc = "notify"
  <2>1. rest \in SUBSET Members
    BY <1>3 DEF PendingAfter
  <2> HIDE DEF rest
  <2>2. x \in AnnounceReq /\ x.pc = "notify"
    BY <1>2, <2>1 DEF AnnounceReq
  <2> QED BY <2>2 DEF PlainReq
<1> HIDE DEF x
<1>7. ReqBecomes(q, x) \/ Ends(q)
  BY <1>4 DEF x
<1>8. ReqsOK'
  BY <1>1, <1>6, <1>7, PlainOn, EndsOn DEF scalperVars
<1>9. Within(AnnounceLabels)
  BY <1>1, <1>2, <1>6, <1>7, MovesWithin, EndsWithin DEF AnnounceLabels
<1> QED BY <1>1, <1>5, <1>8, <1>9, TypesNext, StoreKept, RegistryKept DEF scalperVars

LEMMA MarkReadTyped ==
    ASSUME TypeOK, NEW f \in Flags, NEW u \in Members, MarkRead(f, u), UNCHANGED <<registryVars, scalperVars>>
    PROVE  TypeOK' /\ Within(AnnounceLabels)
<1>1. FlagTypeOK /\ RegistryTypeOK /\ StoreOK /\ ReqsOK
  BY TypeParts
<1>2. FlagTypeOK'
  <2>1. notes' \in [Flags -> [Members -> {None, "unread", "read"}]]
    BY <1>1 DEF FlagTypeOK, MarkRead
  <2> QED BY <1>1, <2>1 DEF FlagTypeOK, MarkRead
<1>3. UNCHANGED req
  BY DEF MarkRead
<1> QED BY <1>1, <1>2, <1>3, TypesNext, StoreKept, RegistryKept, RequestsKept, StaysWithin DEF scalperVars

-----------------------------------------------------------------------------
(* The stolen registry.                                                    *)

LEMMA StoredReports ==
    ASSUME RegistryTypeOK, NEW k \in ReportKeys, NEW s \in Statuses,
           reports' = [reports EXCEPT ![k] = s], UNCHANGED <<private, verdicts, doubled>>, crossed' \subseteq Requests,
           disputes' \cup torn' \subseteq disputes \cup torn \cup {k}
    PROVE  RegistryTypeOK'
  BY RegistryAssumption DEF RegistryTypeOK

\* A request of the registry goes on, and neither flags nor scans are touched.
LEMMA RegistryOn ==
    ASSUME TypeOK, NEW q \in Requests, NEW x \in PlainReq, ReqBecomes(q, x), UNCHANGED <<flagVars, scalperVars>>,
           RegistryTypeOK', NEW L, req[q].pc \in L \cup {"idle"}, x.pc \in L \cup {"idle"}
    PROVE  TypeOK' /\ Within(L)
<1>1. FlagTypeOK /\ RegistryTypeOK /\ StoreOK /\ ReqsOK
  BY TypeParts
<1>2. ReqsOK' /\ Within(L)
  BY <1>1, PlainOn, MovesWithin DEF scalperVars
<1> QED BY <1>1, <1>2, TypesNext, StoreKept, FlagsKept DEF flagVars, scalperVars

LEMMA SubmitReportTyped ==
    ASSUME TypeOK, NEW k \in ReportKeys, SubmitReport(k), UNCHANGED scalperVars
    PROVE  TypeOK' /\ UNCHANGED req
<1>1. FlagTypeOK /\ RegistryTypeOK /\ StoreOK /\ ReqsOK
  BY TypeParts
<1>2. RegistryTypeOK'
  BY <1>1, StoredReports DEF SubmitReport, Statuses, RegistryTypeOK
<1> QED BY <1>1, <1>2, TypesNext, StoreKept, FlagsKept, RequestsKept DEF SubmitReport, flagVars, scalperVars

LEMMA PrivateTyped ==
    ASSUME TypeOK, NEW c \in Certs, AddPrivate(c) \/ ResolvePrivate(c) \/ RemovePrivate(c),
           UNCHANGED scalperVars
    PROVE  TypeOK' /\ UNCHANGED <<flagVars, req, reports, disputes, torn, crossed, doubled>>
<1>1. FlagTypeOK /\ RegistryTypeOK /\ StoreOK /\ ReqsOK
  BY TypeParts
<1>2. UNCHANGED <<flagVars, req, reports, disputes, verdicts, torn, crossed, doubled>>
  BY DEF AddPrivate, ResolvePrivate, RemovePrivate
<1>3. private' \in [Certs -> {None, "active", "resolved"}]
  BY <1>1 DEF RegistryTypeOK, AddPrivate, ResolvePrivate, RemovePrivate
<1>4. RegistryTypeOK'
  BY <1>1, <1>2, <1>3 DEF RegistryTypeOK
<1> QED BY <1>1, <1>2, <1>4, TypesNext, StoreKept, FlagsKept, RequestsKept DEF flagVars, scalperVars

LEMMA BeginVerdictTyped ==
    ASSUME TypeOK, NEW q \in Requests, NEW k \in ReportKeys, NEW s \in {"confirmed", "rejected"},
           BeginVerdict(q, k, s), UNCHANGED scalperVars
    PROVE  TypeOK' /\ Within(VerdictLabels)
<1> DEFINE x == [pc |-> "verdict", report |-> k, status |-> s]
<1>1. x \in PlainReq /\ x.pc \in VerdictLabels
  <2>1. x \in RegistryReq /\ x.pc = "verdict"
    BY DEF RegistryReq
  <2> QED BY <2>1 DEF PlainReq, VerdictLabels
<1>2. ReqBecomes(q, x) /\ IsIdle(q) /\ UNCHANGED <<flagVars, registryVars>>
  BY DEF BeginVerdict
<1> HIDE DEF x
<1>3. RegistryTypeOK'
  BY <1>2, TypeParts, RegistryKept
<1> QED BY <1>1, <1>2, <1>3, RegistryOn DEF IsIdle

LEMMA GiveVerdictTyped ==
    ASSUME TypeOK, NEW q \in Requests, GiveVerdict(q), UNCHANGED scalperVars
    PROVE  TypeOK' /\ Within(VerdictLabels)
<1> DEFINE x == [req[q] EXCEPT !.pc = "log"]
<1>1. /\ req[q] \in [pc : {"verdict", "log"}, report : ReportKeys, status : {"confirmed", "rejected"}]
      /\ req[q].pc = "verdict"
  BY TypeParts, ReqIs DEF GiveVerdict, VerdictLabels
<1>2. x \in RegistryReq /\ x.pc = "log"
  BY <1>1 DEF RegistryReq
<1>3. x \in PlainReq /\ x.pc \in VerdictLabels /\ req[q].pc \in VerdictLabels
  BY <1>1, <1>2 DEF PlainReq, VerdictLabels
<1>4. ReqBecomes(q, x) /\ UNCHANGED flagVars
  BY DEF GiveVerdict, Goto
<1> HIDE DEF x
<1>5. RegistryTypeOK'
  <2>1. crossed' \subseteq Requests
    BY TypeParts DEF GiveVerdict, RegistryTypeOK, Disputing
  <2> QED BY <1>1, <2>1, TypeParts, StoredReports DEF GiveVerdict, Statuses
<1> QED BY <1>3, <1>4, <1>5, RegistryOn

LEMMA LogVerdictTyped ==
    ASSUME TypeOK, NEW q \in Requests, LogVerdict(q), UNCHANGED scalperVars
    PROVE  TypeOK' /\ Within(VerdictLabels)
<1>1. /\ req[q] \in [pc : {"verdict", "log"}, report : ReportKeys, status : {"confirmed", "rejected"}]
      /\ req[q].pc = "log"
  BY TypeParts, ReqIs DEF LogVerdict, VerdictLabels
<1>2. ReqBecomes(q, Idle) /\ UNCHANGED flagVars
  BY DEF LogVerdict, Ends
<1>3. RegistryTypeOK'
  BY <1>1, TypeParts DEF LogVerdict, RegistryTypeOK
<1> QED BY <1>1, <1>2, <1>3, IdlePlain, RegistryOn DEF VerdictLabels

LEMMA BeginDisputeTyped ==
    ASSUME TypeOK, NEW q \in Requests, NEW k \in ReportKeys, BeginDispute(q, k), UNCHANGED scalperVars
    PROVE  TypeOK' /\ Within(DisputeLabels)
<1> DEFINE x == [pc |-> "record", report |-> k]
<1>1. x \in PlainReq /\ x.pc \in DisputeLabels
  <2>1. x \in RegistryReq /\ x.pc = "record"
    BY DEF RegistryReq
  <2> QED BY <2>1 DEF PlainReq, DisputeLabels
<1>2. ReqBecomes(q, x) /\ IsIdle(q) /\ UNCHANGED flagVars
  BY DEF BeginDispute
<1> HIDE DEF x
<1>3. RegistryTypeOK'
  BY TypeParts DEF RegistryTypeOK, BeginDispute
<1> QED BY <1>1, <1>2, <1>3, RegistryOn DEF IsIdle

\* What is disputed is a report that there is.
DisputesReal == \A q \in Requests : req[q].pc \in DisputeLabels => reports[req[q].report] # None

LEMMA RecordDisputeTyped ==
    ASSUME TypeOK, DisputesReal, NEW q \in Requests, RecordDispute(q), UNCHANGED scalperVars
    PROVE  TypeOK' /\ Within(DisputeLabels)
<1> DEFINE x == [req[q] EXCEPT !.pc = "dispute"]
<1>1. req[q] \in [pc : {"record", "dispute"}, report : ReportKeys] /\ req[q].pc = "record"
  BY TypeParts, ReqIs DEF RecordDispute, DisputeLabels
<1>2. x \in RegistryReq /\ x.pc = "dispute"
  BY <1>1 DEF RegistryReq
<1>3. x \in PlainReq /\ x.pc \in DisputeLabels /\ req[q].pc \in DisputeLabels
  BY <1>1, <1>2 DEF PlainReq, DisputeLabels
<1>4. ReqBecomes(q, x) /\ UNCHANGED flagVars
  BY DEF RecordDispute, Goto
<1> HIDE DEF x
<1>5. RegistryTypeOK'
  <2>1. req[q].report \in {k \in ReportKeys : reports[k] # None}
    BY <1>1, <1>3 DEF DisputesReal
  <2> QED BY <2>1, TypeParts DEF RecordDispute, RegistryTypeOK
<1> QED BY <1>3, <1>4, <1>5, RegistryOn

LEMMA MarkDisputedTyped ==
    ASSUME TypeOK, NEW q \in Requests, MarkDisputed(q), UNCHANGED scalperVars
    PROVE  TypeOK' /\ Within(DisputeLabels)
<1>1. req[q] \in [pc : {"record", "dispute"}, report : ReportKeys] /\ req[q].pc = "dispute"
  BY TypeParts, ReqIs DEF MarkDisputed, DisputeLabels
<1>2. ReqBecomes(q, Idle) /\ UNCHANGED flagVars
  BY DEF MarkDisputed, Ends
<1>3. RegistryTypeOK'
  BY <1>1, TypeParts, StoredReports DEF MarkDisputed, Statuses, RegistryTypeOK
<1> QED BY <1>1, <1>2, <1>3, IdlePlain, RegistryOn DEF DisputeLabels

LEMMA BeginScanStolenTyped ==
    ASSUME TypeOK, NEW q \in Requests, BeginScanStolen(q), UNCHANGED scalperVars
    PROVE  TypeOK' /\ Within({"raise"})
<1> DEFINE x == [pc |-> "raise", rows |-> Selection]
<1>1. Selection \in SUBSET (Instances \X (ReportKeys \cup {<<c>> : c \in Certs}))
  <2> SUFFICES ASSUME NEW row \in Selection PROVE row \in Instances \X (ReportKeys \cup {<<c>> : c \in Certs})
    OBVIOUS
  <2>1. PICK i \in Instances : row \in {i} \X Listed(CertOf[i])
    BY DEF Selection
  <2>2. CertOf[i] \in Certs
    BY RegistryAssumption
  <2>3. Listed(CertOf[i]) \subseteq ReportKeys \cup {<<c>> : c \in Certs}
    <3> DEFINE c == CertOf[i]
    <3> HIDE DEF c
    <3>1. c \in Certs
      BY <2>2 DEF c
    <3>2. SharedEntries(c) \subseteq Certs \X Reporters
      <4> SUFFICES ASSUME NEW u \in Reporters PROVE <<c, u>> \in Certs \X Reporters
        BY DEF SharedEntries
      <4> QED BY <3>1
    <3>3. PrivateEntries(c) \subseteq {<<d>> : d \in Certs}
      <4>1. \A e \in PrivateEntries(c) : e = <<c>>
        BY DEF PrivateEntries
      <4> QED BY <3>1, <4>1
    <3> QED BY <3>2, <3>3 DEF Listed, ReportKeys, c
  <2> QED BY <2>1, <2>3
<1>2. x \in PlainReq /\ x.pc \in {"raise"}
  <2> HIDE DEF Selection
  <2>1. x \in RegistryReq /\ x.pc = "raise"
    BY <1>1 DEF RegistryReq
  <2> QED BY <2>1 DEF PlainReq
<1>3. ReqBecomes(q, x) /\ IsIdle(q) /\ UNCHANGED flagVars
  BY DEF BeginScanStolen
<1> HIDE DEF x
<1>4. RegistryTypeOK'
  BY TypeParts DEF RegistryTypeOK, BeginScanStolen
<1> QED BY <1>2, <1>3, <1>4, RegistryOn DEF IsIdle

\* The table of flags grows, by flags that nobody has triaged.
FlagsGrow ==
    /\ DOMAIN flags \subseteq DOMAIN flags' /\ DOMAIN flags' \subseteq Flags
    /\ \A f \in DOMAIN flags : flags'[f] = flags[f]
    /\ \A f \in DOMAIN flags' \ DOMAIN flags : flags'[f].status = "open" /\ IsFlag(flags'[f])

LEMMA GrownTyped == ASSUME FlagTypeOK, FlagsGrow, UNCHANGED <<audit, notes>> PROVE FlagTypeOK'
<1>1. audit' \subseteq [flag : DOMAIN flags', verdict : Verdicts, by : Members]
  BY DEF FlagTypeOK, FlagsGrow
<1> QED BY <1>1 DEF FlagTypeOK, FlagsGrow

LEMMA NewFlagIs ==
    ASSUME NEW kind, NEW target, NEW severity, NEW evidence
    PROVE  LET row == NewFlag(kind, target, severity, evidence) IN
           IsFlag(row) /\ row.status = "open" /\ row.kind = kind /\ row.target = target
  BY DEF NewFlag, IsFlag, FlagColumns

LEMMA RaiseStolenTyped ==
    ASSUME TypeOK, NEW q \in Requests, RaiseStolen(q), UNCHANGED scalperVars
    PROVE  /\ TypeOK' /\ Within({"raise"}) /\ FlagsGrow
           /\ \A f \in DOMAIN flags' \ DOMAIN flags : flags'[f].kind = "stolen"
<1>1. FlagTypeOK /\ RegistryTypeOK /\ StoreOK /\ ReqsOK
  BY TypeParts
<1>2. PICK ids \in SUBSET FreeFlags : \E row \in [ids -> req[q].rows] :
        flags' = [f \in DOMAIN flags \cup ids |->
                    IF f \in ids THEN NewFlag("stolen", row[f][1], "high", {}) ELSE flags[f]]
  BY DEF RaiseStolen
<1>3. PICK row \in [ids -> req[q].rows] :
        flags' = [f \in DOMAIN flags \cup ids |->
                    IF f \in ids THEN NewFlag("stolen", row[f][1], "high", {}) ELSE flags[f]]
  BY <1>2
<1>4. ids \subseteq Flags /\ ids \cap DOMAIN flags = {} /\ DOMAIN flags \subseteq Flags
  BY <1>1 DEF FreeFlags, FlagTypeOK
<1>5. DOMAIN flags' = DOMAIN flags \cup ids
  BY <1>3
<1>6. \A f \in DOMAIN flags : flags'[f] = flags[f]
  BY <1>3, <1>4
<1>7. \A f \in ids : flags'[f] = NewFlag("stolen", row[f][1], "high", {})
  BY <1>3
<1>8. \A f \in DOMAIN flags' \ DOMAIN flags :
        IsFlag(flags'[f]) /\ flags'[f].status = "open" /\ flags'[f].kind = "stolen"
  BY <1>5, <1>7, NewFlagIs
<1>9. FlagsGrow
  BY <1>4, <1>5, <1>6, <1>8 DEF FlagsGrow
<1>10. ReqsOK' /\ Within({"raise"})
  BY <1>1, EndsOn, EndsWithin DEF RaiseStolen, scalperVars
<1>11. FlagTypeOK' /\ RegistryTypeOK' /\ StoreOK'
  BY <1>1, <1>9, GrownTyped, StoreKept, RegistryKept DEF RaiseStolen, scalperVars
<1> QED BY <1>8, <1>9, <1>10, <1>11, TypesNext

-----------------------------------------------------------------------------
(* Scans for scalpers.                                                     *)

ScalperLabels == ScanLabels \cup {"members"}

\* Only scans move; one that raises a flag goes on to announce it.
ScansMove ==
    \A q \in Requests : \/ req'[q] = req[q]
                        \/ /\ req[q].pc \in ScanLabels \cup {"idle"}
                           /\ req'[q].pc \in ScalperLabels \cup {"idle"}

LEMMA MovesScan ==
    ASSUME ReqsOK, NEW q \in Requests, NEW x, ReqBecomes(q, x),
           req[q].pc \in ScanLabels \cup {"idle"}, x.pc \in ScalperLabels \cup {"idle"}
    PROVE  ScansMove
  BY BecomesOne DEF ReqsOK, ScansMove

LEMMA EndsScan ==
    ASSUME ReqsOK, NEW q \in Requests, Ends(q), req[q].pc \in ScanLabels \cup {"idle"}
    PROVE  ScansMove
  BY MovesScan, IdlePlain DEF Ends

\* A scan goes on or ends.
LEMMA ScanGoesOn ==
    ASSUME TypeOK, NEW q \in Requests, req[q].pc \in ScanLabels, UNCHANGED <<flagVars, config, allow, bought, now>>,
           UNCHANGED registryVars, NEW x, ReqBecomes(q, x) \/ Ends(q),
           DOMAIN x = DOMAIN req[q], x.pc \in ScanLabels, x.x = req[q].x, x.buyer = req[q].buyer, x.cfg \in Configs
    PROVE  TypeOK' /\ ScansMove
<1>1. FlagTypeOK /\ RegistryTypeOK /\ StoreOK /\ ReqsOK
  BY TypeParts
<1>2. IsScan(req[q]) /\ Recorded(req[q].x)
  BY <1>1, ReqIs
<1>3. IsScan(x) /\ Recorded(x.x)
  BY <1>2 DEF IsScan
<1>4. ReqsOK'
  BY <1>1, <1>3, ScanOn, EndsOn
<1>5. ScansMove
  BY <1>1, MovesScan, EndsScan DEF ScalperLabels
<1> QED BY <1>1, <1>4, <1>5, TypesNext, StoreKept, RegistryKept, FlagsKept DEF flagVars

LEMMA ScanState ==
    ASSUME TypeOK, NEW q \in Requests, req[q].pc \in ScanLabels
    PROVE  /\ DOMAIN req[q] = {"pc", "x", "buyer", "cfg", "found", "count", "due"}
           /\ req[q].cfg \in Configs /\ config \in Configs
  BY TypeParts, ReqIs DEF IsScan, StoreOK

LEMMA FindsOn ==
    ASSUME TypeOK, NEW q \in Requests, NEW patterns, NEW label \in ScanLabels, req[q].pc \in ScanLabels,
           Finds(q, patterns, label), UNCHANGED <<flagVars, scalperVars>>, UNCHANGED registryVars
    PROVE  TypeOK' /\ ScansMove
<1> DEFINE found == req[q].found \cup patterns
           x == [req[q] EXCEPT !.pc = label, !.found = found]
<1>1. ReqBecomes(q, x)
  BY DEF Finds
<1> HIDE DEF found
<1>2. DOMAIN x = DOMAIN req[q] /\ x.pc \in ScanLabels /\ x.x = req[q].x /\ x.buyer = req[q].buyer /\ x.cfg \in Configs
  BY ScanState
<1> HIDE DEF x
<1> QED BY <1>1, <1>2, ScanGoesOn DEF scalperVars

LEMMA GotoOn ==
    ASSUME TypeOK, NEW q \in Requests, NEW label \in ScanLabels, req[q].pc \in ScanLabels,
           Goto(q, label) \/ Ends(q), UNCHANGED <<flagVars, config, allow, bought, now>>, UNCHANGED registryVars
    PROVE  TypeOK' /\ ScansMove
<1> DEFINE x == [req[q] EXCEPT !.pc = label]
<1>1. ReqBecomes(q, x) \/ Ends(q)
  BY DEF Goto
<1>2. DOMAIN x = DOMAIN req[q] /\ x.pc \in ScanLabels /\ x.x = req[q].x /\ x.buyer = req[q].buyer /\ x.cfg \in Configs
  BY ScanState
<1> HIDE DEF x
<1> QED BY <1>1, <1>2, ScanGoesOn

LEMMA ScalperLabelIn ==
    {"config", "transaction", "allowlist", "velocity", "bulk", "sweep", "repeat", "raiseScalper"} = ScanLabels
  BY DEF ScanLabels

LEMMA CountInRedisTyped ==
    ASSUME TypeOK, NEW q \in Requests, CountInRedis(q), UNCHANGED registryVars
    PROVE  TypeOK' /\ ScansMove /\ UNCHANGED flagVars
<1>1. req[q].pc \in ScanLabels /\ UNCHANGED <<flagVars, config, allow, bought, now>>
  BY ScalperLabelIn DEF CountInRedis
<1>2. Goto(q, "bulk") \/ \E kept, due, found :
        ReqBecomes(q, [req[q] EXCEPT !.pc = "bulk", !.count = Cardinality(kept), !.due = Cardinality(due),
                                     !.found = found])
  BY DEF CountInRedis
<1>3. CASE Goto(q, "bulk")
  BY <1>1, <1>3, GotoOn, ScalperLabelIn
<1>4. ASSUME NEW kept, NEW due, NEW found,
             ReqBecomes(q, [req[q] EXCEPT !.pc = "bulk", !.count = Cardinality(kept), !.due = Cardinality(due),
                                          !.found = found])
      PROVE  TypeOK' /\ ScansMove /\ UNCHANGED flagVars
  <2> DEFINE m == Cardinality(kept)
             n == Cardinality(due)
             x == [req[q] EXCEPT !.pc = "bulk", !.count = m, !.due = n, !.found = found]
  <2>1. ReqBecomes(q, x)
    BY <1>4
  <2> HIDE DEF m, n
  <2>2. DOMAIN x = DOMAIN req[q] /\ x.pc = "bulk" /\ x.x = req[q].x /\ x.buyer = req[q].buyer /\ x.cfg \in Configs
    BY <1>1, ScanState
  <2> HIDE DEF x
  <2> QED BY <1>1, <2>1, <2>2, ScanGoesOn, ScalperLabelIn
<1> QED BY <1>2, <1>3, <1>4

LEMMA ScanStatementsTyped ==
    ASSUME TypeOK, NEW q \in Requests, UNCHANGED registryVars,
           \/ ReadConfig(q) \/ ReadTransaction(q) \/ CheckAllowlist(q) \/ CountInPostgres(q)
           \/ CheckBulk(q) \/ CheckSweep(q) \/ CheckRepeat(q)
    PROVE  TypeOK' /\ ScansMove /\ UNCHANGED flagVars
<1>1. req[q].pc \in ScanLabels /\ UNCHANGED <<flagVars, scalperVars>>
  BY ScalperLabelIn DEF ReadConfig, ReadTransaction, CheckAllowlist, CountInPostgres, CheckBulk, CheckSweep,
     CheckRepeat
<1>2. CASE ReadConfig(q)
  <2> DEFINE x == [req[q] EXCEPT !.pc = "transaction", !.cfg = config]
  <2>1. ReqBecomes(q, x) \/ Ends(q)
    BY <1>2 DEF ReadConfig
  <2>2. DOMAIN x = DOMAIN req[q] /\ x.pc = "transaction" /\ x.x = req[q].x /\ x.buyer = req[q].buyer /\ x.cfg \in Configs
    BY <1>1, ScanState
  <2> HIDE DEF x
  <2> QED BY <1>1, <2>1, <2>2, ScanGoesOn, ScalperLabelIn DEF scalperVars
<1>3. CASE ReadTransaction(q)
  BY <1>1, <1>3, GotoOn, ScalperLabelIn DEF ReadTransaction, scalperVars
<1>4. CASE CheckAllowlist(q)
  BY <1>1, <1>4, GotoOn, ScalperLabelIn DEF CheckAllowlist, scalperVars
<1>5. CASE CountInPostgres(q)
  BY <1>1, <1>5, FindsOn, ScalperLabelIn DEF CountInPostgres
<1>6. CASE CheckBulk(q)
  BY <1>1, <1>6, FindsOn, ScalperLabelIn DEF CheckBulk
<1>7. CASE CheckSweep(q)
  BY <1>1, <1>7, FindsOn, ScalperLabelIn DEF CheckSweep
<1>8. CASE CheckRepeat(q)
  BY <1>1, <1>8, FindsOn, ScalperLabelIn DEF CheckRepeat
<1> QED BY <1>1, <1>2, <1>3, <1>4, <1>5, <1>6, <1>7, <1>8

LEMMA BeginScanTyped ==
    ASSUME TypeOK, NEW q \in Requests, NEW p \in Purchases, BeginScan(q, p), UNCHANGED registryVars
    PROVE  TypeOK' /\ ScansMove /\ UNCHANGED flagVars
<1> DEFINE x == [pc |-> "config", x |-> p, buyer |-> BuyerOf[p], cfg |-> config,
                 found |-> {}, count |-> 0, due |-> 0]
<1>1. FlagTypeOK /\ RegistryTypeOK /\ StoreOK /\ ReqsOK
  BY TypeParts
<1>2. IsScan(x) /\ x.pc \in ScanLabels /\ x.x = p
  BY <1>1, ScalperLabelIn DEF IsScan, StoreOK
<1>3. /\ ReqBecomes(q, x) /\ IsIdle(q) /\ Recorded(p)
      /\ UNCHANGED <<flagVars, config, allow, bought, now>>
  BY DEF BeginScan
<1> HIDE DEF x
<1>4. ReqsOK'
  BY <1>1, <1>2, <1>3, ScanOn
<1>5. ScansMove
  BY <1>1, <1>2, <1>3, MovesScan DEF ScalperLabels, IsIdle
<1> QED BY <1>1, <1>3, <1>4, <1>5, TypesNext, StoreKept, RegistryKept, FlagsKept DEF flagVars

\* A scan raises a flag: its request has to announce it.
RaisedFor(q) ==
    /\ FlagsGrow
    /\ \A f \in DOMAIN flags' \ DOMAIN flags : req'[q].pc = "members" /\ req'[q].flag = f
    /\ \A f \in DOMAIN flags' \ DOMAIN flags : flags'[f].kind = "scalper"

LEMMA RaiseScalperTyped ==
    ASSUME TypeOK, NEW q \in Requests, RaiseScalper(q), UNCHANGED registryVars
    PROVE  /\ TypeOK' /\ ScansMove /\ RaisedFor(q)
           /\ UNCHANGED <<audit, notes, answered, unaudited, unannounced>>
<1>1. FlagTypeOK /\ RegistryTypeOK /\ StoreOK /\ ReqsOK
  BY TypeParts
<1>2. req[q].pc \in ScanLabels /\ UNCHANGED scalperVars
  BY ScalperLabelIn DEF RaiseScalper
<1>3. CASE Ends(q) /\ UNCHANGED flagVars
  <2>1. RaisedFor(q)
    BY <1>1, <1>3 DEF RaisedFor, FlagsGrow, flagVars, FlagTypeOK
  <2>2. ScansMove /\ ReqsOK'
    BY <1>1, <1>2, <1>3, EndsOn, EndsScan DEF ScalperLabels, scalperVars
  <2> QED BY <1>1, <1>2, <1>3, <2>1, <2>2, TypesNext, StoreKept, RegistryKept, FlagsKept DEF flagVars, scalperVars
<1>4. ASSUME NEW severity, CreateFlag(q, NewFlag("scalper", req[q].x, severity, req[q].found))
      PROVE  /\ TypeOK' /\ ScansMove /\ RaisedFor(q)
             /\ UNCHANGED <<audit, notes, answered, unaudited, unannounced>>
  <2> DEFINE row == NewFlag("scalper", req[q].x, severity, req[q].found)
  <2>1. IsFlag(row) /\ row.status = "open" /\ row.kind = "scalper"
    BY NewFlagIs
  <2>2. CreateFlag(q, row)
    BY <1>4
  <2> HIDE DEF row
  <2>3. PICK f \in FreeFlags :
          /\ flags' = [g \in DOMAIN flags \cup {f} |-> IF g = f THEN row ELSE flags[g]]
          /\ ReqBecomes(q, [pc |-> "members", flag |-> f])
          /\ UNCHANGED <<audit, notes, answered, unaudited, unannounced>>
    BY <2>2 DEF CreateFlag
  <2> DEFINE x == [pc |-> "members", flag |-> f]
  <2>4. f \in Flags /\ f \notin DOMAIN flags /\ DOMAIN flags \subseteq Flags
    BY <1>1 DEF FreeFlags, FlagTypeOK
  <2>5. x \in PlainReq /\ x.pc = "members" /\ x.flag = f
    <3>1. x \in AnnounceReq
      BY <2>4 DEF AnnounceReq
    <3> QED BY <3>1 DEF PlainReq
  <2>6. ReqBecomes(q, x)
    BY <2>3
  <2> HIDE DEF x
  <2>7. ReqsOK' /\ ScansMove /\ req'[q] = x
    BY <1>1, <1>2, <2>5, <2>6, PlainOn, MovesScan, BecomesOne DEF scalperVars, ScalperLabels, ReqsOK
  <2>8. /\ DOMAIN flags' = DOMAIN flags \cup {f} /\ flags'[f] = row
        /\ \A g \in DOMAIN flags : flags'[g] = flags[g]
    BY <2>3, <2>4
  <2>9. FlagsGrow /\ RaisedFor(q)
    BY <2>1, <2>4, <2>5, <2>7, <2>8 DEF FlagsGrow, RaisedFor
  <2>10. FlagTypeOK' /\ StoreOK' /\ RegistryTypeOK'
    BY <1>1, <1>2, <2>3, <2>9, GrownTyped, StoreKept, RegistryKept DEF scalperVars
  <2> QED BY <2>3, <2>7, <2>9, <2>10, TypesNext
<1> QED BY <1>3, <1>4 DEF RaiseScalper

LEMMA StoreStepsTyped ==
    ASSUME TypeOK, UNCHANGED registryVars,
           \/ Tick
           \/ \E x \in Purchases : RecordPurchase(x)
           \/ \E c \in Configs : UpdateConfig(c)
           \/ \E b \in Buyers : AllowBuyer(b) \/ DisallowBuyer(b)
    PROVE  TypeOK' /\ UNCHANGED <<flagVars, req>>
<1>1. FlagTypeOK /\ RegistryTypeOK /\ StoreOK /\ ReqsOK
  BY TypeParts
<1>2. UNCHANGED <<flagVars, req>>
  BY DEF Tick, RecordPurchase, UpdateConfig, AllowBuyer, DisallowBuyer
<1>3. FlagTypeOK' /\ RegistryTypeOK'
  BY <1>1, <1>2, FlagsKept, RegistryKept DEF flagVars
<1>4. CASE Tick
  <2>1. StoreOK'
    BY <1>1, <1>4, ScalperAssumption DEF StoreOK, Tick
  <2> QED BY <1>1, <1>2, <1>3, <1>4, <2>1, TypesNext, RequestsKept DEF Tick
<1>5. ASSUME NEW x \in Purchases, RecordPurchase(x) PROVE TypeOK'
  <2>1. StoreOK'
    BY <1>1, <1>5 DEF StoreOK, RecordPurchase
  <2>2. \A y \in Purchases : Recorded(y) => Recorded(y)'
    BY <1>1, <1>5 DEF StoreOK, RecordPurchase, Recorded
  <2>3. ReqsOK'
    BY <1>1, <1>2, <2>2 DEF ReqsOK, IsScan
  <2> QED BY <1>3, <2>1, <2>3, TypesNext
<1>6. ASSUME NEW c \in Configs, UpdateConfig(c) PROVE TypeOK'
  <2>1. StoreOK'
    BY <1>1, <1>6 DEF StoreOK, UpdateConfig
  <2> QED BY <1>1, <1>2, <1>3, <1>6, <2>1, TypesNext, RequestsKept DEF UpdateConfig
<1>7. ASSUME NEW b \in Buyers, AllowBuyer(b) \/ DisallowBuyer(b) PROVE TypeOK'
  <2>1. StoreOK' /\ UNCHANGED bought
    BY <1>1, <1>7 DEF StoreOK, AllowBuyer, DisallowBuyer
  <2> QED BY <1>1, <1>2, <1>3, <2>1, TypesNext, RequestsKept
<1> QED BY <1>2, <1>4, <1>5, <1>6, <1>7

\* A request that stops.
LEMMA StopTyped ==
    ASSUME TypeOK, DisputesReal, NEW q \in Requests, Stop(q)
    PROVE  TypeOK'
<1>1. FlagTypeOK /\ RegistryTypeOK /\ StoreOK /\ ReqsOK
  BY TypeParts
<1>2. /\ UNCHANGED <<flags, audit, notes, answered, reports, disputes, private, verdicts, crossed, doubled, scalperVars>>
      /\ Ends(q)
  BY DEF Stop, StopRequest
<1>3. Tears(q) \subseteq {k \in ReportKeys : reports[k] # None}
  BY <1>1, ReqIs DEF Tears, DisputesReal, DisputeLabels
<1>4. RegistryTypeOK'
  BY <1>1, <1>2, <1>3 DEF RegistryTypeOK, Stop
<1> QED BY <1>1, <1>2, <1>4, TypesNext, StoreKept, FlagsKept, EndsOn DEF scalperVars

-----------------------------------------------------------------------------
(* What the groups of actions have in common.                              *)

LEMMA FlagsStay == ASSUME TypeOK, UNCHANGED flags PROVE FlagsGrow
  BY TypeParts DEF FlagTypeOK, FlagsGrow

LEMMA TriageActs ==
    ASSUME TypeOK, AuditsDue, Triage
    PROVE  /\ TypeOK' /\ Within(TriageLabels)
           /\ UNCHANGED <<notes, unaudited, unannounced, registryVars, scalperVars>>
<1>1. UNCHANGED <<registryVars, scalperVars>>
  BY DEF Triage
<1>2. ASSUME NEW q \in Requests, ApplyTriage(q) \/ WriteAudit(q)
      PROVE  TypeOK' /\ Within(TriageLabels) /\ UNCHANGED <<notes, unaudited, unannounced>>
  BY <1>1, <1>2, ApplyTriageTyped, WriteAuditTyped DEF ApplyTriage, WriteAudit
<1>3. ASSUME NEW q \in Requests, NEW u \in Members, NEW n \in 1..MaxBulk, NEW v \in Verdicts,
             NEW ids \in [1..n -> DOMAIN flags], BeginTriage(q, u, ids, v)
      PROVE  TypeOK' /\ Within(TriageLabels) /\ UNCHANGED <<notes, unaudited, unannounced>>
  BY <1>1, <1>3, BeginTriageTyped DEF BeginTriage, flagVars
<1> QED BY <1>1, <1>2, <1>3 DEF Triage, TriageStep

LEMMA AnnounceActs ==
    ASSUME TypeOK, Announce
    PROVE  /\ TypeOK' /\ Within(AnnounceLabels)
           /\ UNCHANGED <<flags, audit, answered, unaudited, registryVars, scalperVars>>
<1>1. UNCHANGED <<registryVars, scalperVars>>
  BY DEF Announce
<1>2. ASSUME NEW q \in Requests, FetchMembers(q)
      PROVE  TypeOK' /\ Within(AnnounceLabels) /\ UNCHANGED <<flags, audit, answered, unaudited>>
  BY <1>1, <1>2, FetchMembersTyped DEF FetchMembers
<1>3. ASSUME NEW q \in Requests, InsertNotification(q)
      PROVE  TypeOK' /\ Within(AnnounceLabels) /\ UNCHANGED <<flags, audit, answered, unaudited>>
  BY <1>1, <1>3, InsertNotificationTyped DEF InsertNotification
<1>4. ASSUME NEW f \in Flags, NEW u \in Members, MarkRead(f, u)
      PROVE  TypeOK' /\ Within(AnnounceLabels) /\ UNCHANGED <<flags, audit, answered, unaudited>>
  BY <1>1, <1>4, MarkReadTyped DEF MarkRead
<1> QED BY <1>1, <1>2, <1>3, <1>4 DEF Announce, AnnounceStep

RegistryLabels == VerdictLabels \cup DisputeLabels \cup {"raise"}

LEMMA Wider == ASSUME NEW L, NEW M, L \subseteq M, Within(L) PROVE Within(M)
  BY DEF Within

LEMMA RegistryActs ==
    ASSUME TypeOK, DisputesReal, Registry
    PROVE  /\ TypeOK' /\ Within(RegistryLabels) /\ FlagsGrow
           /\ \A f \in DOMAIN flags' \ DOMAIN flags : flags'[f].kind = "stolen"
           /\ UNCHANGED <<audit, notes, answered, unaudited, unannounced, scalperVars>>
<1> DEFINE Goal == /\ TypeOK' /\ Within(RegistryLabels) /\ FlagsGrow
                   /\ \A f \in DOMAIN flags' \ DOMAIN flags : flags'[f].kind = "stolen"
                   /\ UNCHANGED <<audit, notes, answered, unaudited, unannounced>>
<1>1. UNCHANGED scalperVars
  BY DEF Registry
<1>2. ASSUME UNCHANGED flagVars, TypeOK', Within(VerdictLabels) \/ Within(DisputeLabels) \/ Within({"raise"})
      PROVE  Goal
  <2>1. Within(RegistryLabels)
    BY <1>2, Wider DEF RegistryLabels
  <2> QED BY <1>2, <2>1, FlagsStay DEF flagVars
<1>3. ASSUME NEW k \in ReportKeys, SubmitReport(k) PROVE Goal
  BY <1>1, <1>2, <1>3, SubmitReportTyped, StaysWithin DEF SubmitReport
<1>4. ASSUME NEW c \in Certs, AddPrivate(c) \/ ResolvePrivate(c) \/ RemovePrivate(c) PROVE Goal
  BY <1>1, <1>2, <1>4, PrivateTyped, StaysWithin
<1>5. ASSUME NEW q \in Requests, GiveVerdict(q) \/ LogVerdict(q) PROVE Goal
  BY <1>1, <1>2, <1>5, GiveVerdictTyped, LogVerdictTyped DEF GiveVerdict, LogVerdict
<1>6. ASSUME NEW q \in Requests, RecordDispute(q) \/ MarkDisputed(q) PROVE Goal
  BY <1>1, <1>2, <1>6, RecordDisputeTyped, MarkDisputedTyped DEF RecordDispute, MarkDisputed
<1>7. ASSUME NEW q \in Requests, BeginScanStolen(q) PROVE Goal
  BY <1>1, <1>2, <1>7, BeginScanStolenTyped DEF BeginScanStolen
<1>8. ASSUME NEW q \in Requests, RaiseStolen(q) PROVE Goal
  <2>1. Within(RegistryLabels)
    BY <1>1, <1>8, RaiseStolenTyped, Wider DEF RegistryLabels
  <2> QED BY <1>1, <1>8, <2>1, RaiseStolenTyped DEF RaiseStolen
<1>9. ASSUME NEW q \in Requests, NEW k \in ReportKeys, BeginDispute(q, k) PROVE Goal
  BY <1>1, <1>2, <1>9, BeginDisputeTyped DEF BeginDispute
<1>10. ASSUME NEW q \in Requests, NEW k \in ReportKeys, NEW s \in {"confirmed", "rejected"}, BeginVerdict(q, k, s)
       PROVE  Goal
  BY <1>1, <1>2, <1>10, BeginVerdictTyped DEF BeginVerdict
<1> HIDE DEF Goal
<1>11. Goal
  BY <1>3, <1>4, <1>5, <1>6, <1>7, <1>8, <1>9, <1>10 DEF Registry, RegistryStep
<1> QED BY <1>1, <1>11 DEF Goal

LEMMA ScalperActs ==
    ASSUME TypeOK, Scalpers
    PROVE  /\ TypeOK' /\ ScansMove
           /\ UNCHANGED flags \/ \E q \in Requests : req[q].pc \in ScanLabels /\ RaisedFor(q)
           /\ UNCHANGED <<audit, notes, answered, unaudited, unannounced, registryVars>>
<1> DEFINE Goal == /\ TypeOK' /\ ScansMove
                   /\ UNCHANGED flags \/ \E q \in Requests : req[q].pc \in ScanLabels /\ RaisedFor(q)
                   /\ UNCHANGED <<audit, notes, answered, unaudited, unannounced>>
<1>1. UNCHANGED registryVars
  BY DEF Scalpers
<1>2. ASSUME UNCHANGED flagVars, TypeOK', ScansMove PROVE Goal
  BY <1>2 DEF flagVars
<1>3. ASSUME \/ Tick
             \/ \E x \in Purchases : RecordPurchase(x)
             \/ \E c \in Configs : UpdateConfig(c)
             \/ \E b \in Buyers : AllowBuyer(b) \/ DisallowBuyer(b)
      PROVE  Goal
  BY <1>1, <1>2, <1>3, StoreStepsTyped DEF ScansMove
<1>4. ASSUME NEW q \in Requests, NEW x \in Purchases, BeginScan(q, x) PROVE Goal
  BY <1>1, <1>2, <1>4, BeginScanTyped
<1>5. ASSUME NEW q \in Requests,
             \/ ReadConfig(q) \/ ReadTransaction(q) \/ CheckAllowlist(q) \/ CountInPostgres(q)
             \/ CheckBulk(q) \/ CheckSweep(q) \/ CheckRepeat(q)
      PROVE  Goal
  BY <1>1, <1>2, <1>5, ScanStatementsTyped
<1>6. ASSUME NEW q \in Requests, CountInRedis(q) PROVE Goal
  BY <1>1, <1>2, <1>6, CountInRedisTyped
<1>7. ASSUME NEW q \in Requests, RaiseScalper(q) PROVE Goal
  BY <1>1, <1>7, RaiseScalperTyped, ScalperLabelIn DEF RaiseScalper
<1> HIDE DEF Goal
<1>8. Goal
  BY <1>3, <1>4, <1>5, <1>6, <1>7 DEF Scalpers, ScalperStep
<1> QED BY <1>1, <1>8 DEF Goal

-----------------------------------------------------------------------------
(* The triage of flags.                                                    *)

Entry(f, r) == [flag |-> f, verdict |-> r.verdict, by |-> r.by]

\* Each flag of a request is still to be triaged or has its audit entry.
IdsDone ==
    \A q \in Requests : req[q].pc \in TriageLabels =>
        \A f \in req[q].ids : (\E n \in 1..Len(req[q].todo) : req[q].todo[n] = f) \/ Entry(f, req[q]) \in audit

TriageInv == AuditsDue /\ TriageRecorded /\ IdsDone

\* A step that is not one of a triage, though it may stop one.
LEMMA TriageKept ==
    ASSUME TypeOK, TriageInv, FlagsGrow, UNCHANGED <<audit, answered>>, unaudited \subseteq unaudited',
           \A q \in Requests : \/ req'[q] = req[q]
                               \/ /\ req'[q].pc \notin TriageLabels
                                  /\ req[q].pc = "audit" => Head(req[q].todo) \in unaudited'
    PROVE  TriageInv'
<1>1. AuditsDue'
  BY DEF TriageInv, AuditsDue, FlagsGrow, TriageLabels
<1>2. IdsDone'
  BY DEF TriageInv, IdsDone, Entry
<1>3. ASSUME NEW a \in audit' PROVE flags'[a.flag].status = a.verdict /\ flags'[a.flag].by = a.by
  <2>1. a \in audit /\ a.flag \in DOMAIN flags
    BY TypeParts DEF FlagTypeOK
  <2> QED BY <2>1 DEF TriageInv, TriageRecorded, FlagsGrow
<1>4. ASSUME NEW f \in DOMAIN flags', flags'[f].status # "open"
      PROVE  \/ \E a \in audit' : a.flag = f
             \/ f \in unaudited'
             \/ \E q \in Requests : req'[q].pc = "audit" /\ Head(req'[q].todo) = f
  <2>1. f \in DOMAIN flags /\ flags[f].status # "open"
    BY <1>4 DEF FlagsGrow
  <2>2. \/ \E a \in audit : a.flag = f
        \/ f \in unaudited
        \/ \E q \in Requests : req[q].pc = "audit" /\ Head(req[q].todo) = f
    BY <2>1 DEF TriageInv, TriageRecorded
  <2> QED BY <2>2
<1>5. \A r \in answered' : \A f \in r.ids : [flag |-> f, verdict |-> r.verdict, by |-> r.by] \in audit'
  BY DEF TriageInv, TriageRecorded
<1>6. TriageRecorded'
  BY <1>3, <1>4, <1>5 DEF TriageRecorded
<1> QED BY <1>1, <1>2, <1>6 DEF TriageInv

LEMMA BeginTriageRecorded ==
    ASSUME TypeOK, TriageInv, NEW q \in Requests, NEW u, NEW n \in 1..MaxBulk, NEW v,
           NEW ids \in [1..n -> DOMAIN flags], BeginTriage(q, u, ids, v)
    PROVE  TriageInv'
<1> DEFINE s == {ids[k] : k \in DOMAIN ids}
           x == [pc |-> "apply", todo |-> ids, verdict |-> v, by |-> u, ids |-> s]
<1>1. ReqBecomes(q, x) /\ req[q].pc = "idle" /\ UNCHANGED flagVars
  BY DEF BeginTriage, IsIdle
<1>2. x.pc = "apply" /\ x.todo = ids /\ x.ids = s
  OBVIOUS
<1> HIDE DEF x
<1>3. req'[q] = x /\ \A p \in Requests \ {q} : req'[p] = req[p]
  BY <1>1, TypeParts, BecomesOne DEF ReqsOK
<1>4. AuditsDue'
  BY <1>1, <1>2, <1>3 DEF TriageInv, AuditsDue, flagVars
<1>5. TriageRecorded'
  BY <1>1, <1>2, <1>3 DEF TriageInv, TriageRecorded, flagVars
<1>6. IdsDone'
  <2>1. ASSUME NEW f \in s PROVE \E k \in 1..Len(ids) : ids[k] = f
    <3>1. ids \in Seq(DOMAIN flags) /\ DOMAIN ids = 1..Len(ids)
      BY FlagAssumption
    <3> QED BY <2>1, <3>1
  <2> QED BY <1>1, <1>2, <1>3, <2>1 DEF TriageInv, IdsDone, Entry, flagVars
<1> QED BY <1>4, <1>5, <1>6 DEF TriageInv

LEMMA ApplyTriageRecorded ==
    ASSUME TypeOK, TriageInv, NEW q \in Requests, ApplyTriage(q), UNCHANGED <<registryVars, scalperVars>>
    PROVE  TriageInv'
<1>1. UNCHANGED <<audit, answered, unaudited>> /\ req[q].pc = "apply" /\ DOMAIN req = Requests
  BY TypeParts DEF ApplyTriage, ReqsOK
<1>2. \A p \in Requests \ {q} : req'[p] = req[p]
  BY <1>1 DEF ApplyTriage, Ends, Goto, ReqBecomes
<1>3. CASE Ends(q) /\ UNCHANGED flags
  <2>1. req'[q].pc = "idle"
    BY <1>1, <1>3, BecomesOne, IdlePlain DEF Ends
  <2> QED BY <1>1, <1>2, <1>3, <2>1, TriageKept, FlagsStay DEF TriageLabels
<1>4. ASSUME NEW f \in Flags, Triaged(f, q) PROVE TriageInv'
  <2>1. /\ req[q].pc = "apply" /\ Head(req[q].todo) = f /\ f \in DOMAIN flags /\ flags[f].status = "open"
        /\ DOMAIN flags' = DOMAIN flags /\ \A g \in DOMAIN flags \ {f} : flags'[g] = flags[g]
        /\ flags'[f].status = req[q].verdict /\ flags'[f].by = req[q].by
        /\ req'[q].pc = "audit" /\ req'[q].todo = req[q].todo /\ req'[q].ids = req[q].ids
        /\ req'[q].verdict = req[q].verdict /\ req'[q].by = req[q].by
    BY <1>4 DEF Triaged
  <2>2. "open" \notin Verdicts
    BY DEF Verdicts
  <2>3. AuditsDue'
    <3> SUFFICES ASSUME NEW p \in Requests, req'[p].pc = "audit"
                 PROVE  LET g == Head(req'[p].todo) IN
                        /\ g \in DOMAIN flags' /\ flags'[g].status = req'[p].verdict
                        /\ flags'[g].by = req'[p].by
      BY DEF AuditsDue
    <3>1. CASE p = q
      BY <2>1, <3>1
    <3>2. CASE p # q
      <4>1. req'[p] = req[p] /\ req[p] \in TriageReq
        BY <1>2, <3>2, TypeParts, ReqIs DEF TriageLabels
      <4>2. Head(req[p].todo) \in DOMAIN flags /\ flags[Head(req[p].todo)].status = req[p].verdict
            /\ flags[Head(req[p].todo)].by = req[p].by
        BY <4>1 DEF TriageInv, AuditsDue
      <4>3. Head(req[p].todo) # f
        BY <2>1, <2>2, <4>1, <4>2 DEF TriageReq
      <4> QED BY <2>1, <4>1, <4>2, <4>3
    <3> QED BY <3>1, <3>2
  <2>4. \A a \in audit : flags'[a.flag].status = a.verdict /\ flags'[a.flag].by = a.by
    <3> SUFFICES ASSUME NEW a \in audit PROVE flags'[a.flag].status = a.verdict /\ flags'[a.flag].by = a.by
      OBVIOUS
    <3>1. a.flag \in DOMAIN flags /\ a.verdict \in Verdicts
      BY TypeParts DEF FlagTypeOK
    <3>2. flags[a.flag].status = a.verdict /\ flags[a.flag].by = a.by
      BY DEF TriageInv, TriageRecorded
    <3> QED BY <2>1, <2>2, <3>1, <3>2
  <2>5. ASSUME NEW g \in DOMAIN flags', flags'[g].status # "open"
        PROVE  \/ \E a \in audit' : a.flag = g
               \/ g \in unaudited'
               \/ \E p \in Requests : req'[p].pc = "audit" /\ Head(req'[p].todo) = g
    <3>1. CASE g = f
      BY <2>1, <3>1
    <3>2. CASE g # f
      <4>1. g \in DOMAIN flags /\ flags[g].status # "open"
        BY <2>1, <2>5, <3>2
      <4>2. \/ \E a \in audit : a.flag = g
            \/ g \in unaudited
            \/ \E p \in Requests : req[p].pc = "audit" /\ Head(req[p].todo) = g
        BY <4>1 DEF TriageInv, TriageRecorded
      <4> QED BY <1>1, <1>2, <2>1, <4>2
    <3> QED BY <3>1, <3>2
  <2>6. \A r \in answered' : \A g \in r.ids : [flag |-> g, verdict |-> r.verdict, by |-> r.by] \in audit'
    BY <1>1 DEF TriageInv, TriageRecorded
  <2>7. TriageRecorded'
    BY <1>1, <2>4, <2>5, <2>6 DEF TriageRecorded
  <2>8. IdsDone'
    BY <1>1, <1>2, <2>1 DEF TriageInv, IdsDone, Entry, TriageLabels
  <2> QED BY <2>3, <2>7, <2>8 DEF TriageInv
<1> QED BY <1>3, <1>4, ApplyTriageTyped

LEMMA WriteAuditRecorded ==
    ASSUME TypeOK, TriageInv, NEW q \in Requests, WriteAudit(q)
    PROVE  TriageInv'
<1> DEFINE f == Head(req[q].todo)
           e == Entry(f, req[q])
           x == [req[q] EXCEPT !.pc = "apply", !.todo = Tail(@)]
           r == [ids |-> req[q].ids, verdict |-> req[q].verdict, by |-> req[q].by]
<1>1. /\ DOMAIN req = Requests /\ req[q] \in TriageReq /\ req[q].pc = "audit"
      /\ UNCHANGED <<flags, unaudited>> /\ audit' = audit \cup {e}
  BY TypeParts, ReqIs DEF WriteAudit, Entry, ReqsOK, TriageLabels
<1>2. \/ Ends(q) /\ answered' = answered \cup {r} /\ ~(Len(req[q].todo) > 1)
      \/ ReqBecomes(q, x) /\ UNCHANGED answered /\ Len(req[q].todo) > 1
  BY DEF WriteAudit
<1>3. /\ req[q].todo \in Seq(Flags) \ {<<>>}
      /\ e.flag = f /\ e.verdict = req[q].verdict /\ e.by = req[q].by
  BY <1>1 DEF TriageReq, Entry
<1>4. /\ \A p \in Requests \ {q} : req'[p] = req[p]
      /\ req'[q].pc \in {"idle", "apply"}
      /\ req'[q].pc = "apply" => /\ req'[q].todo = Tail(req[q].todo) /\ req'[q].ids = req[q].ids
                                 /\ req'[q].verdict = req[q].verdict /\ req'[q].by = req[q].by
                                 /\ Len(req[q].todo) > 1
  <2>1. CASE Ends(q)
    BY <1>1, <2>1, BecomesOne, IdlePlain DEF Ends
  <2>2. CASE ReqBecomes(q, x) /\ Len(req[q].todo) > 1
    <3> DEFINE rest == Tail(req[q].todo)
    <3>1. x = [req[q] EXCEPT !.pc = "apply", !.todo = rest]
      OBVIOUS
    <3> HIDE DEF x, rest
    <3>2. /\ x.pc = "apply" /\ x.todo = rest /\ x.ids = req[q].ids /\ x.verdict = req[q].verdict
          /\ x.by = req[q].by
      BY <1>1, <3>1 DEF TriageReq
    <3> QED BY <1>1, <2>2, <3>2, BecomesOne DEF rest
  <2> QED BY <1>2, <2>1, <2>2
<1>5. /\ Len(req[q].todo) \in Nat \ {0} /\ f = req[q].todo[1]
      /\ Len(Tail(req[q].todo)) = Len(req[q].todo) - 1
      /\ \A n \in 1..(Len(req[q].todo) - 1) : Tail(req[q].todo)[n] = req[q].todo[n + 1]
  <2> DEFINE s == req[q].todo
  <2> HIDE DEF s
  <2>1. s \in Seq(Flags) \ {<<>>}
    BY <1>3 DEF s
  <2>2. /\ Len(s) \in Nat \ {0} /\ Head(s) = s[1] /\ Len(Tail(s)) = Len(s) - 1
        /\ \A n \in 1..(Len(s) - 1) : Tail(s)[n] = s[n + 1]
    BY <2>1, FirstOf
  <2> QED BY <2>2 DEF s
<1> HIDE DEF f, e, x
<1>6. AuditsDue'
  BY <1>1, <1>4 DEF TriageInv, AuditsDue
<1>7. \A a \in audit' : flags'[a.flag].status = a.verdict /\ flags'[a.flag].by = a.by
  <2>1. flags[f].status = req[q].verdict /\ flags[f].by = req[q].by
    BY <1>1 DEF TriageInv, AuditsDue, f
  <2> QED BY <1>1, <1>3, <2>1 DEF TriageInv, TriageRecorded
<1>8. ASSUME NEW g \in DOMAIN flags', flags'[g].status # "open"
      PROVE  \/ \E a \in audit' : a.flag = g
             \/ g \in unaudited'
             \/ \E p \in Requests : req'[p].pc = "audit" /\ Head(req'[p].todo) = g
  <2>1. \/ \E a \in audit : a.flag = g
        \/ g \in unaudited
        \/ \E p \in Requests : req[p].pc = "audit" /\ Head(req[p].todo) = g
    BY <1>1, <1>8 DEF TriageInv, TriageRecorded
  <2> QED BY <1>1, <1>3, <1>4, <2>1 DEF f
<1>9. ASSUME NEW g \in req[q].ids
      PROVE  Entry(g, req[q]) \in audit' \/ \E n \in 1..(Len(req[q].todo) - 1) : req[q].todo[n + 1] = g
  <2>1. CASE Entry(g, req[q]) \in audit
    BY <1>1, <2>1
  <2>2. ASSUME NEW n \in 1..Len(req[q].todo), req[q].todo[n] = g
        PROVE  Entry(g, req[q]) \in audit' \/ \E k \in 1..(Len(req[q].todo) - 1) : req[q].todo[k + 1] = g
    <3>1. CASE n = 1
      BY <1>1, <1>5, <2>2, <3>1 DEF e
    <3>2. CASE n # 1
      <4>1. n - 1 \in 1..(Len(req[q].todo) - 1) /\ (n - 1) + 1 = n
        BY <1>5, <3>2
      <4> QED BY <2>2, <4>1
    <3> QED BY <3>1, <3>2
  <2> QED BY <1>1, <2>1, <2>2 DEF TriageInv, IdsDone, TriageLabels
<1>10. \A s \in answered' : \A g \in s.ids : [flag |-> g, verdict |-> s.verdict, by |-> s.by] \in audit'
  <2>1. CASE answered' = answered \cup {r} /\ ~(Len(req[q].todo) > 1)
    <3>1. \A g \in req[q].ids : Entry(g, req[q]) \in audit'
      BY <1>5, <1>9, <2>1
    <3>2. r.ids = req[q].ids /\ r.verdict = req[q].verdict /\ r.by = req[q].by
      OBVIOUS
    <3> HIDE DEF r
    <3>3. \A g \in r.ids : [flag |-> g, verdict |-> r.verdict, by |-> r.by] \in audit'
      BY <3>1, <3>2 DEF Entry
    <3> QED BY <1>1, <2>1, <3>3 DEF TriageInv, TriageRecorded
  <2>2. CASE UNCHANGED answered
    BY <1>1, <2>2 DEF TriageInv, TriageRecorded
  <2> QED BY <1>2, <2>1, <2>2
<1>11. IdsDone'
  <2> SUFFICES ASSUME NEW p \in Requests, req'[p].pc \in TriageLabels, NEW g \in req'[p].ids
               PROVE  \/ \E n \in 1..Len(req'[p].todo) : req'[p].todo[n] = g
                      \/ Entry(g, req'[p]) \in audit'
    BY DEF IdsDone, Entry
  <2>1. CASE p # q
    BY <1>1, <1>4, <2>1 DEF TriageInv, IdsDone
  <2>2. CASE p = q
    <3>1. /\ req'[q].todo = Tail(req[q].todo) /\ req'[q].ids = req[q].ids
          /\ req'[q].verdict = req[q].verdict /\ req'[q].by = req[q].by
      BY <1>4, <2>2 DEF TriageLabels
    <3>2. Entry(g, req'[q]) = Entry(g, req[q])
      BY <3>1 DEF Entry
    <3> QED BY <1>5, <1>9, <2>2, <3>1, <3>2
  <2> QED BY <2>1, <2>2
<1> QED BY <1>6, <1>7, <1>8, <1>10, <1>11 DEF TriageInv, TriageRecorded

-----------------------------------------------------------------------------
(* Disputes.                                                               *)

RecordedFirst == \A q \in Requests : req[q].pc = "dispute" => req[q].report \in disputes

\* A dispute whose report is rejected had checked it before.
CrossInv ==
    \A q \in Requests :
        req[q].pc \in DisputeLabels /\ reports[req[q].report] = "rejected" => q \in crossed

DisputeInv == DisputesReal /\ RecordedFirst /\ DisputesGrounded /\ CrossInv

\* A step of requests that have nothing to do with reports, though it may stop
\* one that has.
LEMMA DisputesKept ==
    ASSUME DisputeInv, UNCHANGED <<reports, disputes, crossed>>, torn \subseteq torn',
           \A q \in Requests : \/ req'[q] = req[q]
                               \/ /\ req'[q].pc \notin DisputeLabels \cup {"verdict"}
                                  /\ req[q].pc = "dispute" => req[q].report \in torn'
    PROVE  DisputeInv'
<1>1. DisputesReal' /\ RecordedFirst'
  BY DEF DisputeInv, DisputesReal, RecordedFirst, DisputeLabels
<1>2. CrossInv'
  BY DEF DisputeInv, CrossInv
<1>3. DisputesGrounded'
  BY DEF DisputeInv, DisputesGrounded
<1> QED BY <1>1, <1>2, <1>3 DEF DisputeInv

LEMMA KeptWithin ==
    ASSUME DisputeInv, UNCHANGED <<reports, disputes, torn, crossed>>, NEW L, Within(L),
           L \cap (DisputeLabels \cup {"verdict"}) = {}
    PROVE  DisputeInv'
<1>1. "idle" \notin DisputeLabels \cup {"verdict"} /\ "dispute" \in DisputeLabels
  BY DEF DisputeLabels
<1> QED BY <1>1, DisputesKept DEF Within

LEMMA SubmitReportGrounded ==
    ASSUME TypeOK, DisputeInv, NEW k \in ReportKeys, SubmitReport(k)
    PROVE  DisputeInv'
<1>1. /\ reports[k] = None /\ reports' = [reports EXCEPT ![k] = "pending"]
      /\ UNCHANGED <<req, disputes, torn, crossed>>
  BY DEF SubmitReport
<1>2. k \notin disputes /\ reports \in [ReportKeys -> Statuses \cup {None}]
  BY <1>1, TypeParts DEF RegistryTypeOK
<1>3. \A q \in Requests : req[q].pc \in DisputeLabels =>
        /\ req[q].report \in ReportKeys /\ req[q].report # k
        /\ reports'[req[q].report] = reports[req[q].report]
  BY <1>1, <1>2, TypeParts, ReqIs DEF DisputeInv, DisputesReal
<1>4. DisputesReal' /\ RecordedFirst' /\ CrossInv'
  BY <1>1, <1>3 DEF DisputeInv, DisputesReal, RecordedFirst, CrossInv
<1>5. DisputesGrounded'
  BY <1>1, <1>2 DEF DisputeInv, DisputesGrounded
<1> QED BY <1>4, <1>5 DEF DisputeInv

LEMMA BeginVerdictGrounded ==
    ASSUME TypeOK, DisputeInv, NEW q \in Requests, NEW k \in ReportKeys, NEW s, BeginVerdict(q, k, s)
    PROVE  DisputeInv'
<1> DEFINE x == [pc |-> "verdict", report |-> k, status |-> s]
<1>1. ReqBecomes(q, x) /\ req[q].pc = "idle" /\ UNCHANGED <<reports, disputes, torn, crossed>>
  BY DEF BeginVerdict, IsIdle, registryVars
<1>3. req'[q].pc = "verdict" /\ \A p \in Requests \ {q} : req'[p] = req[p]
  BY <1>1, TypeParts, BecomesOne DEF ReqsOK
<1>4. DisputesReal' /\ RecordedFirst' /\ CrossInv'
  BY <1>1, <1>3 DEF DisputeInv, DisputesReal, RecordedFirst, CrossInv, DisputeLabels
<1>5. DisputesGrounded'
  BY <1>1, <1>3 DEF DisputeInv, DisputesGrounded
<1> QED BY <1>4, <1>5 DEF DisputeInv

LEMMA GiveVerdictGrounded ==
    ASSUME TypeOK, DisputeInv, NEW q \in Requests, GiveVerdict(q)
    PROVE  /\ DisputeInv' /\ req[q].pc = "verdict" /\ req'[q].pc = "log"
           /\ \A k \in ReportKeys : reports'[k] # reports[k] => req[q].report = k
<1> DEFINE k == req[q].report
           x == [req[q] EXCEPT !.pc = "log"]
<1>1. /\ req[q] \in [pc : {"verdict", "log"}, report : ReportKeys, status : {"confirmed", "rejected"}]
      /\ req[q].pc = "verdict"
  BY TypeParts, ReqIs DEF GiveVerdict, VerdictLabels
<1>2. /\ reports' = [reports EXCEPT ![k] = req[q].status] /\ UNCHANGED <<disputes, torn>>
      /\ ReqBecomes(q, x)
  BY DEF GiveVerdict, Goto
<1>3. reports \in [ReportKeys -> Statuses \cup {None}]
  BY TypeParts DEF RegistryTypeOK
<1>4. req'[q].pc = "log" /\ \A p \in Requests \ {q} : req'[p] = req[p]
  BY <1>1, <1>2, TypeParts, BecomesOne DEF ReqsOK
<1>5. /\ k \in ReportKeys /\ reports'[k] \in {"confirmed", "rejected"}
      /\ reports'[k] = "rejected" => req[q].status = "rejected"
      /\ \A l \in ReportKeys \ {k} : reports'[l] = reports[l]
  BY <1>1, <1>2, <1>3
<1>6. "confirmed" # None /\ "rejected" # None
  BY RegistryAssumption DEF Statuses
<1> HIDE DEF k, x
<1>7. DisputesReal' /\ RecordedFirst'
  BY <1>2, <1>4, <1>5, <1>6, TypeParts, ReqIs
     DEF DisputeInv, DisputesReal, RecordedFirst, DisputeLabels
<1>8. CrossInv'
  <2> SUFFICES ASSUME NEW p \in Requests, req'[p].pc \in DisputeLabels,
                      reports'[req'[p].report] = "rejected"
               PROVE  p \in crossed'
    BY DEF CrossInv
  <2>1. p # q /\ req'[p] = req[p] /\ req[p].report \in ReportKeys
    BY <1>4, TypeParts, ReqIs DEF DisputeLabels
  <2>2. CASE req[p].report = k
    BY <1>5, <2>1, <2>2 DEF Disputing, DisputeLabels, GiveVerdict, k
  <2>3. CASE req[p].report # k
    <3>1. p \in crossed
      BY <1>5, <2>1, <2>3 DEF DisputeInv, CrossInv
    <3> QED BY <3>1 DEF GiveVerdict
  <2> QED BY <2>2, <2>3
<1>9. DisputesGrounded'
  <2> SUFFICES ASSUME NEW l \in ReportKeys
               PROVE  /\ reports'[l] = "disputed" => l \in disputes'
                      /\ l \in disputes' /\ reports'[l] = "pending" =>
                           l \in torn' \/ \E p \in Requests : req'[p].pc = "dispute" /\ req'[p].report = l
    BY DEF DisputesGrounded
  <2>1. CASE l = k
    BY <1>5, <2>1
  <2>2. CASE l # k
    BY <1>1, <1>2, <1>4, <1>5, <2>2 DEF DisputeInv, DisputesGrounded
  <2> QED BY <2>1, <2>2
<1> QED BY <1>1, <1>4, <1>5, <1>7, <1>8, <1>9 DEF DisputeInv, k

LEMMA BeginDisputeGrounded ==
    ASSUME TypeOK, DisputeInv, NEW q \in Requests, NEW k \in ReportKeys, BeginDispute(q, k)
    PROVE  DisputeInv'
<1> DEFINE x == [pc |-> "record", report |-> k]
<1>1. /\ ReqBecomes(q, x) /\ req[q].pc = "idle" /\ UNCHANGED <<reports, disputes, torn>>
      /\ reports[k] \in {"pending", "confirmed"}
  BY DEF BeginDispute, IsIdle, Disputable
<1>2. crossed' = crossed \ {q}
  BY DEF BeginDispute
<1>3. req'[q] = x /\ \A p \in Requests \ {q} : req'[p] = req[p]
  BY <1>1, TypeParts, BecomesOne DEF ReqsOK
<1>4. req'[q].pc = "record" /\ req'[q].report = k
  BY <1>3
<1>5. reports[k] # None
  BY <1>1, RegistryAssumption DEF Statuses
<1>6. DisputesReal' /\ RecordedFirst'
  BY <1>1, <1>3, <1>4, <1>5 DEF DisputeInv, DisputesReal, RecordedFirst
<1>7. CrossInv'
  BY <1>1, <1>2, <1>3, <1>4 DEF DisputeInv, CrossInv
<1>8. DisputesGrounded'
  BY <1>1, <1>3, <1>4 DEF DisputeInv, DisputesGrounded
<1> QED BY <1>6, <1>7, <1>8 DEF DisputeInv

LEMMA RecordDisputeGrounded ==
    ASSUME TypeOK, DisputeInv, NEW q \in Requests, RecordDispute(q)
    PROVE  DisputeInv'
<1> DEFINE k == req[q].report
           x == [req[q] EXCEPT !.pc = "dispute"]
<1>1. req[q] \in [pc : {"record", "dispute"}, report : ReportKeys] /\ req[q].pc = "record"
  BY TypeParts, ReqIs DEF RecordDispute, DisputeLabels
<1>2. /\ disputes' = disputes \cup {k} /\ UNCHANGED <<reports, torn, crossed>> /\ ReqBecomes(q, x)
  BY DEF RecordDispute, Goto
<1>3. /\ req'[q].pc = "dispute" /\ req'[q].report = k
      /\ \A p \in Requests \ {q} : req'[p] = req[p]
  BY <1>1, <1>2, TypeParts, BecomesOne DEF ReqsOK
<1> HIDE DEF k, x
<1>4. DisputesReal' /\ RecordedFirst'
  BY <1>1, <1>2, <1>3 DEF DisputeInv, DisputesReal, RecordedFirst, DisputeLabels, k
<1>5. CrossInv'
  BY <1>1, <1>2, <1>3 DEF DisputeInv, CrossInv, DisputeLabels, k
<1>6. DisputesGrounded'
  BY <1>1, <1>2, <1>3 DEF DisputeInv, DisputesGrounded, k
<1> QED BY <1>4, <1>5, <1>6 DEF DisputeInv

LEMMA MarkDisputedGrounded ==
    ASSUME TypeOK, DisputeInv, NEW q \in Requests, MarkDisputed(q)
    PROVE  /\ DisputeInv'
           /\ \A k \in ReportKeys : reports'[k] # reports[k] => req[q].report = k
           /\ reports[req[q].report] = "rejected" => q \in crossed
           /\ req[q].pc = "dispute" /\ req'[q].pc = "idle"
<1> DEFINE k == req[q].report
<1>1. req[q] \in [pc : {"record", "dispute"}, report : ReportKeys] /\ req[q].pc = "dispute"
  BY TypeParts, ReqIs DEF MarkDisputed, DisputeLabels
<1>2. reports' = [reports EXCEPT ![k] = "disputed"] /\ UNCHANGED <<disputes, torn, crossed>> /\ Ends(q)
  BY DEF MarkDisputed
<1>3. req'[q].pc = "idle" /\ \A p \in Requests \ {q} : req'[p] = req[p]
  BY <1>2, TypeParts, BecomesOne, IdlePlain DEF ReqsOK, Ends
<1>4. reports \in [ReportKeys -> Statuses \cup {None}] /\ "disputed" # None
  BY TypeParts, RegistryAssumption DEF RegistryTypeOK, Statuses
<1>5. /\ k \in ReportKeys /\ reports'[k] = "disputed"
      /\ \A l \in ReportKeys \ {k} : reports'[l] = reports[l]
  BY <1>1, <1>2, <1>4
<1> HIDE DEF k
<1>6. DisputesReal' /\ RecordedFirst'
  BY <1>2, <1>3, <1>4, <1>5, TypeParts, ReqIs
     DEF DisputeInv, DisputesReal, RecordedFirst, DisputeLabels
<1>7. CrossInv'
  <2> SUFFICES ASSUME NEW p \in Requests, req'[p].pc \in DisputeLabels,
                      reports'[req'[p].report] = "rejected"
               PROVE  p \in crossed'
    BY DEF CrossInv
  <2>1. p # q /\ req'[p] = req[p] /\ req[p].report \in ReportKeys
    BY <1>3, TypeParts, ReqIs DEF DisputeLabels
  <2>2. reports[req[p].report] = "rejected"
    BY <1>5, <2>1
  <2> QED BY <1>2, <2>1, <2>2 DEF DisputeInv, CrossInv
<1>8. DisputesGrounded'
  <2> SUFFICES ASSUME NEW l \in ReportKeys
               PROVE  /\ reports'[l] = "disputed" => l \in disputes'
                      /\ l \in disputes' /\ reports'[l] = "pending" =>
                           l \in torn' \/ \E p \in Requests : req'[p].pc = "dispute" /\ req'[p].report = l
    BY DEF DisputesGrounded
  <2>1. CASE l = k
    BY <1>1, <1>2, <1>5, <2>1 DEF DisputeInv, RecordedFirst, k
  <2>2. CASE l # k
    BY <1>1, <1>2, <1>3, <1>5, <2>2 DEF DisputeInv, DisputesGrounded, k
  <2> QED BY <2>1, <2>2
<1>9. reports[k] = "rejected" => q \in crossed
  BY <1>1 DEF DisputeInv, CrossInv, DisputeLabels, k
<1> QED BY <1>1, <1>3, <1>5, <1>6, <1>7, <1>8, <1>9 DEF DisputeInv, k

\* A verdict takes a rejection back, or a dispute that had checked before it.
VerdictOverrides ==
    \A k \in ReportKeys : reports[k] = "rejected" /\ reports'[k] # "rejected" =>
        \E q \in Requests : /\ req[q].pc \in {"verdict", "dispute"} /\ req[q].report = k
                            /\ req[q].pc = "dispute" => q \in crossed
                            /\ req'[q].pc # req[q].pc

LEMMA RegistryGrounded ==
    ASSUME TypeOK, DisputeInv, Registry
    PROVE  DisputeInv' /\ VerdictOverrides
<1> DEFINE Goal == DisputeInv' /\ VerdictOverrides
<1>1. UNCHANGED scalperVars
  BY DEF Registry
<1>2. ASSUME UNCHANGED reports, DisputeInv' PROVE Goal
  BY <1>2 DEF VerdictOverrides
<1>3. ASSUME NEW k \in ReportKeys, SubmitReport(k) PROVE Goal
  <2>1. DisputeInv'
    BY <1>3, SubmitReportGrounded
  <2>2. VerdictOverrides
    BY <1>3, TypeParts, RegistryAssumption DEF SubmitReport, VerdictOverrides, RegistryTypeOK, Statuses
  <2> QED BY <2>1, <2>2
<1>4. ASSUME NEW c \in Certs, AddPrivate(c) \/ ResolvePrivate(c) \/ RemovePrivate(c) PROVE Goal
  <2>1. UNCHANGED <<req, reports, disputes, torn, crossed>>
    BY <1>4 DEF AddPrivate, ResolvePrivate, RemovePrivate
  <2> QED BY <1>2, <2>1, DisputesKept
<1>5. ASSUME NEW q \in Requests, GiveVerdict(q) PROVE Goal
  BY <1>5, GiveVerdictGrounded DEF VerdictOverrides
<1>6. ASSUME NEW q \in Requests, LogVerdict(q) PROVE Goal
  <2>1. UNCHANGED <<reports, disputes, torn, crossed>> /\ req[q].pc = "log"
    BY <1>6 DEF LogVerdict
  <2>2. req'[q].pc = "idle" /\ \A p \in Requests \ {q} : req'[p] = req[p]
    BY <1>6, TypeParts, BecomesOne, IdlePlain DEF LogVerdict, Ends, ReqsOK
  <2>3. DisputeInv'
    BY <2>1, <2>2, DisputesKept DEF DisputeLabels
  <2> QED BY <1>2, <2>1, <2>3
<1>7. ASSUME NEW q \in Requests, RecordDispute(q) PROVE Goal
  BY <1>2, <1>7, RecordDisputeGrounded DEF RecordDispute
<1>8. ASSUME NEW q \in Requests, MarkDisputed(q) PROVE Goal
  BY <1>8, MarkDisputedGrounded DEF VerdictOverrides
<1>9. ASSUME NEW q \in Requests, BeginScanStolen(q) \/ RaiseStolen(q) PROVE Goal
  <2>1. UNCHANGED <<reports, disputes, torn, crossed>> /\ Within({"raise"})
    BY <1>1, <1>9, BeginScanStolenTyped, RaiseStolenTyped DEF BeginScanStolen, RaiseStolen, registryVars
  <2>2. DisputeInv'
    BY <2>1, KeptWithin DEF DisputeLabels
  <2> QED BY <1>2, <2>1, <2>2
<1>10. ASSUME NEW q \in Requests, NEW k \in ReportKeys, BeginDispute(q, k) PROVE Goal
  BY <1>2, <1>10, BeginDisputeGrounded DEF BeginDispute
<1>11. ASSUME NEW q \in Requests, NEW k \in ReportKeys, NEW s \in {"confirmed", "rejected"}, BeginVerdict(q, k, s)
       PROVE  Goal
  BY <1>2, <1>11, BeginVerdictGrounded DEF BeginVerdict, registryVars
<1> HIDE DEF Goal
<1>12. Goal
  BY <1>3, <1>4, <1>5, <1>6, <1>7, <1>8, <1>9, <1>10, <1>11 DEF Registry, RegistryStep
<1> QED BY <1>12 DEF Goal

-----------------------------------------------------------------------------
(* Announcements reach every member.                                       *)

Telling(q, f, u) ==
    /\ req[q].pc \in AnnounceLabels /\ req[q].flag = f
    /\ req[q].pc = "notify" => u \in req[q].pending

Told(f, u) == notes[f][u] # None \/ <<f, u>> \in unannounced \/ \E q \in Requests : Telling(q, f, u)

AnnounceInv == \A f \in DOMAIN flags : flags[f].kind = "scalper" => \A u \in Members : Told(f, u)

LEMMA AnnounceImplies == AnnounceInv => FlagsAnnounced
  BY DEF AnnounceInv, FlagsAnnounced, Told, Telling, AnnounceLabels

\* Requests that announce stay as they are, and old flags keep their kind.
LEMMA AnnounceKept ==
    ASSUME AnnounceInv, UNCHANGED notes, unannounced \subseteq unannounced',
           DOMAIN flags \subseteq DOMAIN flags',
           \A f \in DOMAIN flags : flags'[f].kind = flags[f].kind,
           \A f \in DOMAIN flags' \ DOMAIN flags :
             flags'[f].kind = "scalper" => \E q \in Requests : req'[q].pc = "members" /\ req'[q].flag = f,
           \A q \in Requests : req[q].pc \in AnnounceLabels => req'[q] = req[q]
    PROVE  AnnounceInv'
<1> SUFFICES ASSUME NEW f \in DOMAIN flags', flags'[f].kind = "scalper", NEW u \in Members PROVE Told(f, u)'
  BY DEF AnnounceInv
<1>1. CASE f \in DOMAIN flags
  <2>1. Told(f, u)
    BY <1>1 DEF AnnounceInv
  <2> QED BY <2>1 DEF Told, Telling
<1>2. CASE f \notin DOMAIN flags
  <2>1. PICK q \in Requests : req'[q].pc = "members" /\ req'[q].flag = f
    BY <1>2
  <2>2. Telling(q, f, u)'
    BY <2>1 DEF Telling, AnnounceLabels
  <2> QED BY <2>2 DEF Told
<1> QED BY <1>1, <1>2

LEMMA TriageAnnounced == ASSUME TypeOK, AuditsDue, AnnounceInv, Triage PROVE AnnounceInv'
<1>1. Within(TriageLabels) /\ UNCHANGED <<notes, unannounced>>
  BY TriageActs
<1>2. \A q \in Requests : req[q].pc \in AnnounceLabels => req'[q] = req[q]
  BY <1>1 DEF Within, TriageLabels, AnnounceLabels
<1>3. DOMAIN flags' = DOMAIN flags /\ \A f \in DOMAIN flags : flags'[f].kind = flags[f].kind
  <2>1. UNCHANGED <<registryVars, scalperVars>>
    BY DEF Triage
  <2>2. ASSUME NEW q \in Requests, ApplyTriage(q)
        PROVE  DOMAIN flags' = DOMAIN flags /\ \A f \in DOMAIN flags : flags'[f].kind = flags[f].kind
    <3>1. CASE UNCHANGED flags
      BY <3>1
    <3>2. ASSUME NEW f \in Flags, Triaged(f, q)
          PROVE  DOMAIN flags' = DOMAIN flags /\ \A g \in DOMAIN flags : flags'[g].kind = flags[g].kind
      BY <3>2 DEF Triaged
    <3> QED BY <2>1, <2>2, <3>1, <3>2, ApplyTriageTyped
  <2>3. ASSUME NEW q \in Requests, WriteAudit(q) PROVE UNCHANGED flags
    BY <2>3 DEF WriteAudit
  <2>4. ASSUME NEW q \in Requests, NEW u, NEW ids, NEW v, BeginTriage(q, u, ids, v) PROVE UNCHANGED flags
    BY <2>4 DEF BeginTriage, flagVars
  <2> QED BY <2>2, <2>3, <2>4 DEF Triage, TriageStep
<1> QED BY <1>1, <1>2, <1>3, AnnounceKept

LEMMA FetchMembersAnnounced ==
    ASSUME TypeOK, AnnounceInv, NEW q \in Requests, FetchMembers(q)
    PROVE  AnnounceInv'
<1> DEFINE x == [pc |-> "notify", flag |-> req[q].flag, pending |-> Members]
<1>1. req[q].pc = "members" /\ UNCHANGED <<flags, notes>>
  BY DEF FetchMembers
<1>2. \/ ReqBecomes(q, x) /\ UNCHANGED unannounced
      \/ Ends(q) /\ unannounced' = unannounced \cup {<<req[q].flag, u>> : u \in Members}
  BY DEF FetchMembers
<1>3. \A p \in Requests \ {q} : req'[p] = req[p]
  BY <1>2, TypeParts, BecomesOne DEF ReqsOK, Ends
<1> SUFFICES ASSUME NEW f \in DOMAIN flags', flags'[f].kind = "scalper", NEW u \in Members PROVE Told(f, u)'
  BY DEF AnnounceInv
<1>4. Told(f, u)
  BY <1>1 DEF AnnounceInv
<1>5. CASE Telling(q, f, u)
  <2>1. CASE ReqBecomes(q, x)
    <3>1. req'[q] = x
      BY <2>1, TypeParts, BecomesOne DEF ReqsOK
    <3>2. x.pc = "notify" /\ x.flag = req[q].flag /\ x.pending = Members
      OBVIOUS
    <3> HIDE DEF x
    <3> QED BY <1>5, <3>1, <3>2 DEF Told, Telling, AnnounceLabels
  <2>2. CASE unannounced' = unannounced \cup {<<req[q].flag, v>> : v \in Members}
    BY <1>5, <2>2 DEF Told, Telling
  <2> QED BY <1>2, <2>1, <2>2
<1>6. CASE ~Telling(q, f, u)
  <2>1. \/ notes'[f][u] # None \/ <<f, u>> \in unannounced'
        \/ \E p \in Requests \ {q} : Telling(p, f, u)
    BY <1>1, <1>2, <1>4, <1>6 DEF Told
  <2> QED BY <1>3, <2>1 DEF Told, Telling
<1> QED BY <1>5, <1>6

LEMMA InsertNotificationAnnounced ==
    ASSUME TypeOK, AnnounceInv, NEW q \in Requests, InsertNotification(q)
    PROVE  AnnounceInv'
<1>1. /\ req[q] \in AnnounceReq /\ req[q].pc = "notify" /\ UNCHANGED flags
      /\ notes \in [Flags -> [Members -> {None, "unread", "read"}]] /\ DOMAIN flags \subseteq Flags
  BY TypeParts, ReqIs DEF InsertNotification, AnnounceLabels, FlagTypeOK
<1>2. req[q].flag \in Flags /\ req[q].pending \subseteq Members
  BY <1>1 DEF AnnounceReq
<1>3. PICK w \in req[q].pending, failed \in BOOLEAN :
        /\ IF failed
           THEN unannounced' = unannounced \cup {<<req[q].flag, w>>} /\ UNCHANGED notes
           ELSE notes' = [notes EXCEPT ![req[q].flag][w] = "unread"] /\ UNCHANGED unannounced
        /\ IF PendingAfter(q, w, failed) = {}
           THEN Ends(q)
           ELSE ReqBecomes(q, [req[q] EXCEPT !.pending = PendingAfter(q, w, failed)])
  BY DEF InsertNotification
<1>4. \A p \in Requests \ {q} : req'[p] = req[p]
  BY <1>3, TypeParts, BecomesOne DEF ReqsOK, Ends
<1>5. /\ unannounced \subseteq unannounced'
      /\ \A f \in Flags, u \in Members : notes[f][u] # None => notes'[f][u] # None
      /\ notes'[req[q].flag][w] # None \/ <<req[q].flag, w>> \in unannounced'
  BY <1>1, <1>2, <1>3, FlagAssumption
<1>6. ASSUME NEW u \in req[q].pending, u # w
      PROVE  req'[q].pc = "notify" /\ req'[q].flag = req[q].flag /\ u \in req'[q].pending
  <2> DEFINE rest == PendingAfter(q, w, failed)
             x == [req[q] EXCEPT !.pending = rest]
  <2>1. rest = req[q].pending \ {w} /\ rest # {}
    BY <1>6 DEF PendingAfter
  <2>2. ReqBecomes(q, x)
    BY <1>3, <2>1
  <2> HIDE DEF rest
  <2>3. x.pc = "notify" /\ x.flag = req[q].flag /\ x.pending = rest
    BY <1>1 DEF AnnounceReq
  <2> HIDE DEF x
  <2> QED BY <1>6, <2>1, <2>2, <2>3, TypeParts, BecomesOne DEF ReqsOK
<1> SUFFICES ASSUME NEW f \in DOMAIN flags', flags'[f].kind = "scalper", NEW u \in Members PROVE Told(f, u)'
  BY DEF AnnounceInv
<1>7. Told(f, u) /\ f \in Flags
  BY <1>1 DEF AnnounceInv
<1>8. CASE Telling(q, f, u)
  <2>1. f = req[q].flag /\ u \in req[q].pending
    BY <1>1, <1>8 DEF Telling
  <2>2. CASE u = w
    BY <1>5, <2>1, <2>2 DEF Told
  <2>3. CASE u # w
    <3>1. Telling(q, f, u)'
      BY <1>6, <2>1, <2>3 DEF Telling, AnnounceLabels
    <3> QED BY <3>1 DEF Told
  <2> QED BY <2>2, <2>3
<1>9. CASE ~Telling(q, f, u)
  <2>1. \/ notes'[f][u] # None \/ <<f, u>> \in unannounced'
        \/ \E p \in Requests \ {q} : Telling(p, f, u)
    BY <1>5, <1>7, <1>9 DEF Told
  <2> QED BY <1>4, <2>1 DEF Told, Telling
<1> QED BY <1>8, <1>9

LEMMA MarkReadAnnounced ==
    ASSUME TypeOK, AnnounceInv, NEW f \in Flags, NEW u \in Members, MarkRead(f, u)
    PROVE  AnnounceInv'
<1>1. /\ notes' = [notes EXCEPT ![f][u] = "read"]
      /\ UNCHANGED <<flags, req, unannounced>>
      /\ notes \in [Flags -> [Members -> {None, "unread", "read"}]] /\ DOMAIN flags \subseteq Flags
  BY TypeParts DEF MarkRead, FlagTypeOK
<1>2. \A g \in Flags, v \in Members : notes[g][v] # None => notes'[g][v] # None
  BY <1>1, FlagAssumption
<1> SUFFICES ASSUME NEW g \in DOMAIN flags', flags'[g].kind = "scalper", NEW v \in Members PROVE Told(g, v)'
  BY DEF AnnounceInv
<1>3. Told(g, v) /\ g \in Flags
  BY <1>1 DEF AnnounceInv
<1> QED BY <1>1, <1>2, <1>3 DEF Told, Telling

LEMMA RegistryAnnounced == ASSUME TypeOK, DisputesReal, AnnounceInv, Registry PROVE AnnounceInv'
<1>1. /\ Within(RegistryLabels) /\ FlagsGrow /\ UNCHANGED <<notes, unannounced>>
      /\ \A f \in DOMAIN flags' \ DOMAIN flags : flags'[f].kind = "stolen"
  BY RegistryActs
<1>2. \A q \in Requests : req[q].pc \in AnnounceLabels => req'[q] = req[q]
  BY <1>1 DEF Within, RegistryLabels, VerdictLabels, DisputeLabels, AnnounceLabels
<1> QED BY <1>1, <1>2, AnnounceKept DEF FlagsGrow

LEMMA ScalpersAnnounced == ASSUME TypeOK, AnnounceInv, Scalpers PROVE AnnounceInv'
<1>1. /\ ScansMove /\ UNCHANGED <<notes, unannounced>>
      /\ UNCHANGED flags \/ \E q \in Requests : req[q].pc \in ScanLabels /\ RaisedFor(q)
  BY ScalperActs
<1>2. \A q \in Requests : req[q].pc \in AnnounceLabels => req'[q] = req[q]
  BY <1>1 DEF ScansMove, ScanLabels, AnnounceLabels
<1>3. CASE UNCHANGED flags
  BY <1>1, <1>2, <1>3, AnnounceKept
<1>4. ASSUME NEW q \in Requests, RaisedFor(q) PROVE AnnounceInv'
  <2>1. /\ DOMAIN flags \subseteq DOMAIN flags' /\ \A f \in DOMAIN flags : flags'[f].kind = flags[f].kind
        /\ \A f \in DOMAIN flags' \ DOMAIN flags : \E p \in Requests : req'[p].pc = "members" /\ req'[p].flag = f
    BY <1>4 DEF RaisedFor, FlagsGrow
  <2> QED BY <1>1, <1>2, <2>1, AnnounceKept
<1> QED BY <1>1, <1>3, <1>4

LEMMA StopAnnounced == ASSUME TypeOK, AnnounceInv, NEW q \in Requests, Stop(q) PROVE AnnounceInv'
<1>1. /\ Ends(q) /\ UNCHANGED <<flags, notes>>
      /\ unannounced' = unannounced \cup
           (CASE req[q].pc = "members" -> {<<req[q].flag, u>> : u \in Members}
              [] req[q].pc = "notify" -> {<<req[q].flag, u>> : u \in req[q].pending}
              [] OTHER -> {})
  BY DEF Stop, StopRequest
<1>2. \A p \in Requests \ {q} : req'[p] = req[p]
  BY <1>1, TypeParts, BecomesOne DEF ReqsOK, Ends
<1> SUFFICES ASSUME NEW f \in DOMAIN flags', flags'[f].kind = "scalper", NEW u \in Members PROVE Told(f, u)'
  BY DEF AnnounceInv
<1>3. Told(f, u)
  BY <1>1 DEF AnnounceInv
<1>4. CASE Telling(q, f, u)
  <2>1. CASE req[q].pc = "members"
    BY <1>1, <1>4, <2>1 DEF Told, Telling
  <2>2. CASE req[q].pc = "notify"
    BY <1>1, <1>4, <2>2 DEF Told, Telling
  <2> QED BY <1>4, <2>1, <2>2 DEF Telling, AnnounceLabels
<1>5. CASE ~Telling(q, f, u)
  <2>1. \/ notes'[f][u] # None \/ <<f, u>> \in unannounced'
        \/ \E p \in Requests \ {q} : Telling(p, f, u)
    BY <1>1, <1>3, <1>5 DEF Told
  <2> QED BY <1>2, <2>1 DEF Told, Telling
<1> QED BY <1>4, <1>5

LEMMA AnnounceAnnounced == ASSUME TypeOK, AnnounceInv, Announce PROVE AnnounceInv'
  BY FetchMembersAnnounced, InsertNotificationAnnounced, MarkReadAnnounced DEF Announce, AnnounceStep

-----------------------------------------------------------------------------
(* The desk.                                                               *)

DeskInv == TypeOK /\ TriageInv /\ DisputeInv /\ AnnounceInv

LEMMA DeskInit == Init => DeskInv
<1> SUFFICES ASSUME Init PROVE DeskInv
  OBVIOUS
<1>1. /\ flags = [f \in {} |-> None] /\ audit = {} /\ answered = {} /\ disputes = {} /\ torn = {}
      /\ notes = [f \in Flags |-> [u \in Members |-> None]]
      /\ req = [q \in Requests |-> Idle]
      /\ reports = [k \in ReportKeys |-> None]
  BY DEF Init, FlagInit, RegistryInit
<1>2. DOMAIN flags = {}
  BY <1>1
<1>3. \A q \in Requests : req[q] = Idle /\ req[q].pc = "idle"
  BY <1>1 DEF Idle
<1>4. FlagTypeOK
  BY <1>1, <1>2 DEF FlagTypeOK
<1>5. RegistryTypeOK
  BY <1>1 DEF Init, RegistryInit, RegistryTypeOK
<1>6. StoreOK
  BY ScalperAssumption DEF Init, ScalperInit, StoreOK
<1>7. ReqsOK
  BY <1>1, <1>3 DEF ReqsOK, PlainReq, ScanLabels
<1>8. TypeOK
  BY <1>4, <1>5, <1>6, <1>7, TypeParts
<1>9. TriageInv
  BY <1>1, <1>2, <1>3 DEF TriageInv, AuditsDue, TriageRecorded, IdsDone, TriageLabels
<1>10. DisputeInv
  <2>1. DisputesReal /\ RecordedFirst /\ CrossInv
    BY <1>3 DEF DisputesReal, RecordedFirst, CrossInv, DisputeLabels
  <2>2. DisputesGrounded
    BY <1>1, RegistryAssumption DEF DisputesGrounded, Statuses
  <2> QED BY <2>1, <2>2 DEF DisputeInv
<1>11. AnnounceInv
  BY <1>2 DEF AnnounceInv
<1> QED BY <1>8, <1>9, <1>10, <1>11 DEF DeskInv

\* A step that does no triage keeps what is known of the triage.
LEMMA TriageInvStep ==
    ASSUME DeskInv, Triage \/ Announce \/ Registry \/ Scalpers \/ \E q \in Requests : Stop(q)
    PROVE  TriageInv'
<1>1. TypeOK /\ TriageInv /\ AuditsDue /\ DisputesReal
  BY DEF DeskInv, TriageInv, DisputeInv
<1>2. CASE Triage
  BY <1>1, <1>2, BeginTriageRecorded, ApplyTriageRecorded, WriteAuditRecorded DEF Triage, TriageStep
<1>3. CASE Announce
  <2>1. Within(AnnounceLabels) /\ FlagsGrow /\ UNCHANGED <<audit, answered, unaudited>>
    BY <1>1, <1>3, AnnounceActs, FlagsStay
  <2> QED BY <1>1, <2>1, TriageKept DEF Within, AnnounceLabels, TriageLabels
<1>4. CASE Registry
  <2>1. Within(RegistryLabels) /\ FlagsGrow /\ UNCHANGED <<audit, answered, unaudited>>
    BY <1>1, <1>4, RegistryActs
  <2> QED BY <1>1, <2>1, TriageKept DEF Within, RegistryLabels, VerdictLabels, DisputeLabels, TriageLabels
<1>5. CASE Scalpers
  <2>1. ScansMove /\ FlagsGrow /\ UNCHANGED <<audit, answered, unaudited>>
    BY <1>1, <1>5, ScalperActs, FlagsStay DEF RaisedFor
  <2> QED BY <1>1, <2>1, TriageKept DEF ScansMove, ScanLabels, ScalperLabels, TriageLabels
<1>6. ASSUME NEW q \in Requests, Stop(q) PROVE TriageInv'
  <2>1. /\ Ends(q) /\ UNCHANGED <<flags, audit, answered>>
        /\ unaudited' = IF req[q].pc = "audit" THEN unaudited \cup {Head(req[q].todo)} ELSE unaudited
    BY <1>6 DEF Stop, StopRequest
  <2>2. req'[q].pc = "idle" /\ \A p \in Requests \ {q} : req'[p] = req[p]
    BY <1>1, <2>1, TypeParts, BecomesOne, IdlePlain DEF Ends, ReqsOK
  <2>3. FlagsGrow /\ unaudited \subseteq unaudited'
    BY <1>1, <2>1, FlagsStay
  <2> QED BY <1>1, <2>1, <2>2, <2>3, TriageKept DEF TriageLabels
<1> QED BY <1>2, <1>3, <1>4, <1>5, <1>6

LEMMA DisputeInvStep ==
    ASSUME DeskInv, Triage \/ Announce \/ Registry \/ Scalpers \/ \E q \in Requests : Stop(q)
    PROVE  DisputeInv' /\ VerdictOverrides
<1>1. TypeOK /\ TriageInv /\ AuditsDue /\ DisputeInv /\ DisputesReal
  BY DEF DeskInv, TriageInv, DisputeInv
<1>2. ASSUME UNCHANGED registryVars PROVE VerdictOverrides /\ UNCHANGED <<reports, disputes, torn, crossed>>
  BY <1>2 DEF registryVars, VerdictOverrides
<1>3. CASE Triage
  <2>1. Within(TriageLabels) /\ UNCHANGED registryVars
    BY <1>1, <1>3, TriageActs
  <2>2. TriageLabels \cap (DisputeLabels \cup {"verdict"}) = {}
    BY DEF TriageLabels, DisputeLabels
  <2> QED BY <1>1, <1>2, <2>1, <2>2, KeptWithin
<1>4. CASE Announce
  <2>1. Within(AnnounceLabels) /\ UNCHANGED registryVars
    BY <1>1, <1>4, AnnounceActs
  <2>2. AnnounceLabels \cap (DisputeLabels \cup {"verdict"}) = {}
    BY DEF AnnounceLabels, DisputeLabels
  <2> QED BY <1>1, <1>2, <2>1, <2>2, KeptWithin
<1>5. CASE Registry
  BY <1>1, <1>5, RegistryGrounded
<1>6. CASE Scalpers
  <2>1. ScansMove /\ UNCHANGED registryVars
    BY <1>1, <1>6, ScalperActs
  <2>2. \A q \in Requests : \/ req'[q] = req[q]
                            \/ /\ req'[q].pc \notin DisputeLabels \cup {"verdict"}
                               /\ req[q].pc # "dispute"
    BY <2>1 DEF ScansMove, ScanLabels, ScalperLabels, DisputeLabels
  <2> QED BY <1>1, <1>2, <2>1, <2>2, DisputesKept
<1>7. ASSUME NEW q \in Requests, Stop(q) PROVE DisputeInv' /\ VerdictOverrides
  <2>1. Ends(q) /\ UNCHANGED <<reports, disputes, crossed>> /\ torn' = torn \cup Tears(q)
    BY <1>7 DEF Stop, StopRequest
  <2>2. req'[q].pc = "idle" /\ \A p \in Requests \ {q} : req'[p] = req[p]
    BY <1>1, <2>1, TypeParts, BecomesOne, IdlePlain DEF Ends, ReqsOK
  <2>3. req[q].pc = "dispute" => req[q].report \in torn'
    BY <2>1 DEF Tears
  <2>4. "idle" \notin DisputeLabels \cup {"verdict"}
    BY DEF DisputeLabels
  <2> QED BY <1>1, <2>1, <2>2, <2>3, <2>4, DisputesKept DEF VerdictOverrides
<1> QED BY <1>3, <1>4, <1>5, <1>6, <1>7

LEMMA DeskInvStep == DeskInv /\ [Next]_vars => DeskInv' /\ VerdictOverrides
<1> SUFFICES ASSUME DeskInv, [Next]_vars PROVE DeskInv' /\ VerdictOverrides
  OBVIOUS
<1>1. TypeOK /\ AuditsDue /\ DisputesReal /\ AnnounceInv
  BY DEF DeskInv, TriageInv, DisputeInv
<1>2. CASE UNCHANGED vars
  <2>1. UNCHANGED <<flagVars, req, registryVars, scalperVars>>
    BY <1>2 DEF vars
  <2>2. TypeOK'
    <3>1. UNCHANGED <<flags, audit, notes, req, config, allow, bought, now>>
      BY <2>1 DEF flagVars, scalperVars
    <3> QED BY <1>1, <2>1, <3>1, TypeParts, TypesNext, FlagsKept, RegistryKept, StoreKept, RequestsKept
  <2>3. FlagsGrow /\ UNCHANGED <<flags, audit, answered, unaudited, notes, unannounced, reports, disputes, torn, crossed, req>>
    BY <1>1, <2>1, FlagsStay DEF flagVars, registryVars
  <2>4. TriageInv'
    BY <1>1, <2>3, TriageKept DEF DeskInv
  <2>5. DisputeInv' /\ VerdictOverrides
    BY <2>3, DisputesKept DEF DeskInv, VerdictOverrides
  <2>6. AnnounceInv'
    BY <2>3, <1>1, AnnounceKept
  <2> QED BY <2>2, <2>4, <2>5, <2>6 DEF DeskInv
<1>3. ASSUME Triage \/ Announce \/ Registry \/ Scalpers \/ \E q \in Requests : Stop(q)
      PROVE  DeskInv' /\ VerdictOverrides
  <2>1. TypeOK'
    BY <1>1, <1>3, TriageActs, AnnounceActs, RegistryActs, ScalperActs, StopTyped
  <2>2. AnnounceInv'
    BY <1>1, <1>3, TriageAnnounced, AnnounceAnnounced, RegistryAnnounced, ScalpersAnnounced, StopAnnounced
  <2> QED BY <1>3, <2>1, <2>2, TriageInvStep, DisputeInvStep DEF DeskInv
<1> QED BY <1>2, <1>3 DEF Next

LEMMA DeskSound == Spec => []DeskInv
<1>1. Init => DeskInv
  BY DeskInit
<1>2. DeskInv /\ [Next]_vars => DeskInv'
  BY DeskInvStep
<1> QED BY <1>1, <1>2, PTL DEF Spec

\* Every row of the desk has its type, and a request holds what the statement
\* that it is at needs (all handlers under crates/api/src/fraud).
THEOREM DeskTyped == Spec => []TypeOK
<1>1. DeskInv => TypeOK
  BY DEF DeskInv
<1> QED BY <1>1, DeskSound, PTL

\* Whoever competes for a flag, one triages it, its audit entry says who and
\* how, and a bulk request that succeeded has triaged all of its flags itself
\* (triage_flag, bulk_triage).
THEOREM TriageIsRecorded == Spec => []TriageRecorded
<1>1. DeskInv => TriageRecorded
  BY DEF DeskInv, TriageInv
<1> QED BY <1>1, DeskSound, PTL

\* A flag is announced to each member whose own insert did not fail
\* (create_flag, dispatch_new_flag).
THEOREM FlagsAreAnnounced == Spec => []FlagsAnnounced
<1>1. DeskInv => FlagsAnnounced
  BY AnnounceImplies DEF DeskInv
<1> QED BY <1>1, DeskSound, PTL

\* Each disputed report has its record, and a record that had no effect was left
\* by a dispute that stopped or is under way (dispute_report).
THEOREM DisputesAreGrounded == Spec => []DisputesGrounded
<1>1. DeskInv => DisputesGrounded
  BY DEF DeskInv, DisputeInv
<1> QED BY <1>1, DeskSound, PTL

\* Nothing but a verdict, or a dispute that had checked the report before it was
\* rejected, takes a rejection back, however disputes and verdicts interleave
\* (dispute_report, confirm_report).
THEOREM RejectionsStand == Spec => RejectionStands
<1>1. DeskInv /\ [Next]_vars =>
        [\A k \in ReportKeys : reports[k] = "rejected" /\ reports'[k] # "rejected" =>
           \E q \in Requests :
              /\ req[q].pc \in {"verdict", "dispute"} /\ req[q].report = k
              /\ req[q].pc = "dispute" => q \in crossed
              /\ req'[q].pc # req[q].pc]_reports
  BY DeskInvStep DEF VerdictOverrides
<1> QED BY <1>1, DeskSound, PTL DEF Spec, RejectionStands

-----------------------------------------------------------------------------
(* One open flag for an instance that was selected once.                   *)

\* Open is what NOT EXISTS looks for, and what a triage ends.
OpenFor(i, f) == f \in DOMAIN flags /\ flags[f].kind = "stolen" /\ flags[f].target = i /\ flags[f].status = "open"

OneOpen == \A i \in Instances \ doubled : \A f, g : OpenFor(i, f) /\ OpenFor(i, g) => f = g

\* What scans have selected has no open flag and occurs once, if not doubled.
SelectedFree ==
    \A p, q \in Requests : req[p].pc = "raise" /\ req[q].pc = "raise" =>
        \A r \in req[q].rows : r[1] \notin doubled =>
            /\ \A f : ~OpenFor(r[1], f)
            /\ \A s \in req[p].rows : s[1] = r[1] => s = r /\ p = q

OpenInv == OneOpen /\ SelectedFree

LEMMA AtMostOne ==
    ASSUME NEW S, IsFiniteSet(S)
    PROVE  Cardinality(S) <= 1 <=> \A a, b \in S : a = b
<1>1. CASE S = {}
  BY <1>1, FS_EmptySet
<1>2. CASE S # {}
  <2>1. PICK a \in S : TRUE
    BY <1>2
  <2>2. Cardinality(S) \in Nat /\ Cardinality(S) # 0
    BY <1>2, FS_CardinalityType, FS_EmptySet
  <2>3. ASSUME Cardinality(S) <= 1 PROVE \A b, c \in S : b = c
    <3>1. Cardinality(S) = 1
      BY <2>2, <2>3
    <3> QED BY <3>1, FS_Singleton
  <2>4. ASSUME \A b, c \in S : b = c PROVE Cardinality(S) <= 1
    <3>1. S = {a}
      BY <2>1, <2>4
    <3> QED BY <3>1, FS_Singleton
  <2> QED BY <2>3, <2>4
<1> QED BY <1>1, <1>2

LEMMA OneOpenMeans == OneOpen => OneOpenFlag
<1> SUFFICES ASSUME OneOpen, NEW i \in Instances \ doubled
             PROVE  Cardinality(OpenFlags("stolen", i)) <= 1
  BY DEF OneOpenFlag
<1>1. \A f, g \in OpenFlags("stolen", i) : f = g
  BY DEF OneOpen, OpenFor, OpenFlags
<1>2. OpenFlags("stolen", i) = {} \/ \E f : OpenFlags("stolen", i) = {f}
  BY <1>1
<1>3. IsFiniteSet(OpenFlags("stolen", i))
  BY <1>2, FS_EmptySet, FS_Singleton
<1> QED BY <1>1, <1>3, AtMostOne

\* The entries of a certificate on the lists are finitely many.
LEMMA ListedFinite == ASSUME NEW c PROVE IsFiniteSet(Listed(c))
<1> DEFINE S == {v \in Reporters : reports[<<c, v>>] = "confirmed"}
<1>1. IsFiniteSet(S)
  BY RegistryAssumption, FS_Subset
<1>2. IsFiniteSet({<<c, u>> : u \in S})
  <2>1. IsFiniteSet({c} \X S)
    BY <1>1, FS_Singleton, FS_Product
  <2>2. {<<c, u>> : u \in S} \subseteq {c} \X S
    <3> SUFFICES ASSUME NEW u \in S PROVE <<c, u>> \in {c} \X S
      OBVIOUS
    <3> HIDE DEF S
    <3> QED OBVIOUS
  <2> QED BY <2>1, <2>2, FS_Subset
<1>3. IsFiniteSet(PrivateEntries(c))
  BY FS_EmptySet, FS_Singleton DEF PrivateEntries
<1> QED BY <1>2, <1>3, FS_Union DEF Listed, SharedEntries

\* A step after which no flag is open that was not, and that selects nothing.
LEMMA OpenKept ==
    ASSUME OpenInv, doubled \subseteq doubled',
           \A i, f : OpenFor(i, f)' => OpenFor(i, f),
           \A q \in Requests : req'[q] = req[q] \/ req'[q].pc # "raise"
    PROVE  OpenInv'
<1>1. OneOpen'
  BY DEF OpenInv, OneOpen
<1>2. SelectedFree'
  BY DEF OpenInv, SelectedFree
<1> QED BY <1>1, <1>2 DEF OpenInv

LEMMA SelectedOf ==
    ASSUME NEW i, NEW r \in Selection, r[1] = i
    PROVE  /\ Unflagged(i) /\ r \in {i} \X Listed(CertOf[i])
           /\ IsFiniteSet(RowsOf(i, Selection)) /\ r \in RowsOf(i, Selection)
<1>1. ASSUME NEW s \in Selection, s[1] = i
      PROVE  i \in Instances /\ Unflagged(i) /\ s \in {i} \X Listed(CertOf[i])
  BY <1>1 DEF Selection
<1>2. RowsOf(i, Selection) \subseteq {i} \X Listed(CertOf[i])
  BY <1>1 DEF RowsOf
<1>3. IsFiniteSet({i} \X Listed(CertOf[i]))
  BY ListedFinite, FS_Singleton, FS_Product
<1> QED BY <1>1, <1>2, <1>3, FS_Subset DEF RowsOf

LEMMA BeginScanOpen ==
    ASSUME TypeOK, OpenInv, NEW q \in Requests, BeginScanStolen(q)
    PROVE  OpenInv'
<1> DEFINE x == [pc |-> "raise", rows |-> Selection]
<1>1. /\ ReqBecomes(q, x) /\ UNCHANGED flags /\ req[q].pc = "idle"
      /\ doubled' = doubled \cup
           {i \in Instances : \/ Cardinality(RowsOf(i, Selection)) > 1
                              \/ /\ RowsOf(i, Selection) # {}
                                 /\ \E p \in Scanning : RowsOf(i, req[p].rows) # {}}
  BY DEF BeginScanStolen, flagVars, IsIdle
<1>2. x.pc = "raise" /\ x.rows = Selection
  OBVIOUS
<1> HIDE DEF x
<1>3. req'[q] = x /\ \A p \in Requests \ {q} : req'[p] = req[p]
  BY <1>1, TypeParts, BecomesOne DEF ReqsOK
<1>4. OneOpen'
  BY <1>1 DEF OpenInv, OneOpen, OpenFor
<1>5. ASSUME NEW r \in Selection, r[1] \notin doubled'
      PROVE  /\ \A f : ~OpenFor(r[1], f)
             /\ \A s \in Selection : s[1] = r[1] => s = r
             /\ \A p \in Scanning : \A s \in req[p].rows : s[1] # r[1]
  <2> DEFINE i == r[1]
  <2>1. /\ Unflagged(i) /\ IsFiniteSet(RowsOf(i, Selection)) /\ r \in RowsOf(i, Selection)
        /\ i \in Instances
    <3>1. i \in Instances
      BY DEF Selection
    <3> QED BY <3>1, SelectedOf
  <2>2. \A f : ~OpenFor(i, f)
    BY <2>1 DEF Unflagged, OpenFlags, OpenFor
  <2>3. /\ ~(Cardinality(RowsOf(i, Selection)) > 1)
        /\ \A p \in Scanning : RowsOf(i, req[p].rows) = {}
    BY <1>1, <1>5, <2>1
  <2>4. \A a, b \in RowsOf(i, Selection) : a = b
    BY <2>1, <2>3, AtMostOne, FS_CardinalityType
  <2> QED BY <2>1, <2>2, <2>3, <2>4 DEF RowsOf
<1>6. SelectedFree'
  <2> SUFFICES ASSUME NEW p \in Requests, NEW o \in Requests,
                      req'[p].pc = "raise", req'[o].pc = "raise",
                      NEW r \in req'[o].rows, r[1] \notin doubled'
               PROVE  /\ \A f : ~OpenFor(r[1], f)'
                      /\ \A s \in req'[p].rows : s[1] = r[1] => s = r /\ p = o
    BY DEF SelectedFree
  <2>1. r[1] \notin doubled /\ \A f : OpenFor(r[1], f)' <=> OpenFor(r[1], f)
    BY <1>1 DEF OpenFor
  <2>2. CASE o = q /\ p = q
    BY <1>2, <1>3, <1>5, <2>1, <2>2
  <2>3. CASE o = q /\ p # q
    BY <1>2, <1>3, <1>5, <2>1, <2>3 DEF Scanning
  <2>4. CASE o # q /\ p = q
    <3>1. req'[o] = req[o] /\ o \in Scanning /\ req'[p].rows = Selection
      BY <1>2, <1>3, <2>4 DEF Scanning
    <3>2. \A f : ~OpenFor(r[1], f)
      BY <2>1, <3>1 DEF OpenInv, SelectedFree, Scanning
    <3>3. \A s \in Selection : s[1] # r[1]
      BY <1>5, <3>1
    <3> QED BY <2>1, <3>1, <3>2, <3>3
  <2>5. CASE o # q /\ p # q
    <3>1. req'[o] = req[o] /\ req'[p] = req[p]
      BY <1>3, <2>5
    <3> QED BY <2>1, <3>1 DEF OpenInv, SelectedFree
  <2> QED BY <2>2, <2>3, <2>4, <2>5
<1> QED BY <1>4, <1>6 DEF OpenInv

LEMMA RaiseStolenOpen ==
    ASSUME TypeOK, OpenInv, NEW q \in Requests, RaiseStolen(q)
    PROVE  OpenInv'
<1>1. req[q].pc = "raise" /\ Ends(q) /\ UNCHANGED doubled
  BY DEF RaiseStolen, registryVars
<1>2. PICK ids \in SUBSET FreeFlags : \E row \in [ids -> req[q].rows] :
        /\ \A f, g \in ids : row[f] = row[g] => f = g
        /\ flags' = [f \in DOMAIN flags \cup ids |->
                       IF f \in ids THEN NewFlag("stolen", row[f][1], "high", {}) ELSE flags[f]]
  BY DEF RaiseStolen
<1>3. PICK row \in [ids -> req[q].rows] :
        /\ \A f, g \in ids : row[f] = row[g] => f = g
        /\ flags' = [f \in DOMAIN flags \cup ids |->
                       IF f \in ids THEN NewFlag("stolen", row[f][1], "high", {}) ELSE flags[f]]
  BY <1>2
<1>4. req'[q].pc = "idle" /\ \A p \in Requests \ {q} : req'[p] = req[p]
  BY <1>1, TypeParts, BecomesOne, IdlePlain DEF Ends, ReqsOK
<1>5. \A f \in ids : flags'[f] = NewFlag("stolen", row[f][1], "high", {}) /\ flags'[f].target = row[f][1]
  BY <1>3, NewFlagIs
<1>6. \A i, f : OpenFor(i, f)' => (f \in ids /\ row[f][1] = i) \/ OpenFor(i, f)
  <2> SUFFICES ASSUME NEW i, NEW f, OpenFor(i, f)', f \notin ids PROVE OpenFor(i, f)
    BY <1>5 DEF OpenFor
  <2>1. f \in DOMAIN flags /\ flags'[f] = flags[f]
    BY <1>3 DEF OpenFor
  <2> QED BY <2>1 DEF OpenFor
\* What another scan has selected is not in the rows of this one.
<1>7. SelectedFree'
  <2> SUFFICES ASSUME NEW p \in Requests, NEW o \in Requests,
                      req'[p].pc = "raise", req'[o].pc = "raise",
                      NEW r \in req'[o].rows, r[1] \notin doubled'
               PROVE  /\ \A f : ~OpenFor(r[1], f)'
                      /\ \A s \in req'[p].rows : s[1] = r[1] => s = r /\ p = o
    BY DEF SelectedFree
  <2>1. /\ o # q /\ p # q /\ req'[o] = req[o] /\ req'[p] = req[p] /\ r[1] \notin doubled
    BY <1>1, <1>4
  <2>2. /\ \A f : ~OpenFor(r[1], f)
        /\ \A s \in req[p].rows : s[1] = r[1] => s = r /\ p = o
        /\ \A s \in req[q].rows : s[1] # r[1]
    BY <1>1, <2>1 DEF OpenInv, SelectedFree
  <2>3. \A f \in ids : row[f] \in req[q].rows
    BY <1>3
  <2> QED BY <1>6, <2>1, <2>2, <2>3
<1>8. OneOpen'
  <2> SUFFICES ASSUME NEW i \in Instances \ doubled, NEW f, NEW g, OpenFor(i, f)', OpenFor(i, g)' PROVE f = g
    BY <1>1 DEF OneOpen
  <2>1. ASSUME NEW h \in ids, row[h][1] = i
        PROVE  row[h] \in req[q].rows /\ \A k : ~OpenFor(i, k)
    BY <1>1, <1>3, <2>1 DEF OpenInv, SelectedFree
  <2>2. CASE f \in ids /\ row[f][1] = i
    <3>1. g \in ids /\ row[g][1] = i
      BY <1>6, <2>1, <2>2
    <3>2. row[f] = row[g]
      BY <1>1, <2>1, <2>2, <3>1 DEF OpenInv, SelectedFree
    <3> QED BY <1>3, <2>2, <3>1, <3>2
  <2>3. CASE OpenFor(i, f)
    <3>1. OpenFor(i, g)
      BY <1>6, <2>1, <2>3
    <3> QED BY <2>3, <3>1 DEF OpenInv, OneOpen
  <2> QED BY <1>6, <2>2, <2>3
<1> QED BY <1>7, <1>8 DEF OpenInv

\* Steps of the registry that are not a scan.
LEMMA OtherRegistryOpen ==
    ASSUME TypeOK, DisputesReal, OpenInv, UNCHANGED scalperVars, UNCHANGED flagVars, UNCHANGED doubled,
           Within(VerdictLabels) \/ Within(DisputeLabels)
    PROVE  OpenInv'
<1>1. \A i, f : OpenFor(i, f)' => OpenFor(i, f)
  BY DEF OpenFor, flagVars
<1>2. \A q \in Requests : req'[q] = req[q] \/ req'[q].pc # "raise"
  BY DEF Within, VerdictLabels, DisputeLabels
<1> QED BY <1>1, <1>2, OpenKept

LEMMA RegistryOpen == ASSUME TypeOK, DisputesReal, OpenInv, Registry PROVE OpenInv'
<1>1. UNCHANGED scalperVars
  BY DEF Registry
<1>2. ASSUME NEW k \in ReportKeys, SubmitReport(k) PROVE OpenInv'
  BY <1>1, <1>2, OtherRegistryOpen, StaysWithin DEF SubmitReport
<1>3. ASSUME NEW c \in Certs, AddPrivate(c) \/ ResolvePrivate(c) \/ RemovePrivate(c) PROVE OpenInv'
  BY <1>1, <1>3, OtherRegistryOpen, StaysWithin DEF AddPrivate, ResolvePrivate, RemovePrivate
<1>4. ASSUME NEW q \in Requests, GiveVerdict(q) \/ LogVerdict(q) PROVE OpenInv'
  BY <1>1, <1>4, OtherRegistryOpen, GiveVerdictTyped, LogVerdictTyped DEF GiveVerdict, LogVerdict
<1>5. ASSUME NEW q \in Requests, RecordDispute(q) \/ MarkDisputed(q) PROVE OpenInv'
  BY <1>1, <1>5, OtherRegistryOpen, RecordDisputeTyped, MarkDisputedTyped DEF RecordDispute, MarkDisputed
<1>6. ASSUME NEW q \in Requests, NEW k \in ReportKeys, BeginDispute(q, k) PROVE OpenInv'
  BY <1>1, <1>6, OtherRegistryOpen, BeginDisputeTyped DEF BeginDispute
<1>7. ASSUME NEW q \in Requests, NEW k \in ReportKeys, NEW s \in {"confirmed", "rejected"}, BeginVerdict(q, k, s)
      PROVE  OpenInv'
  BY <1>1, <1>7, OtherRegistryOpen, BeginVerdictTyped DEF BeginVerdict, registryVars
<1> QED BY <1>2, <1>3, <1>4, <1>5, <1>6, <1>7, BeginScanOpen, RaiseStolenOpen DEF Registry, RegistryStep

LEMMA OthersOpen ==
    ASSUME DeskInv, OpenInv, Triage \/ Announce \/ Scalpers \/ \E q \in Requests : Stop(q)
    PROVE  OpenInv'
<1>1. TypeOK /\ AuditsDue /\ DisputesReal
  BY DEF DeskInv, TriageInv, DisputeInv
<1>2. ASSUME UNCHANGED flags PROVE \A i, f : OpenFor(i, f)' => OpenFor(i, f)
  BY <1>2 DEF OpenFor
<1>3. CASE Triage
  <2>1. Within(TriageLabels) /\ UNCHANGED registryVars
    BY <1>1, <1>3, TriageActs
  <2>2. ASSUME NEW q \in Requests, ApplyTriage(q)
        PROVE  \A i, f : OpenFor(i, f)' => OpenFor(i, f)
    <3>1. ASSUME NEW g \in Flags, Triaged(g, q) PROVE \A i, f : OpenFor(i, f)' => OpenFor(i, f)
      BY <3>1 DEF Triaged, OpenFor
    <3> QED BY <1>1, <1>2, <1>3, <2>2, <3>1, ApplyTriageTyped DEF Triage
  <2>3. \A i, f : OpenFor(i, f)' => OpenFor(i, f)
    BY <1>2, <1>3, <2>2 DEF Triage, TriageStep, WriteAudit, BeginTriage, flagVars
  <2>4. \A q \in Requests : req'[q] = req[q] \/ req'[q].pc # "raise"
    BY <2>1 DEF Within, TriageLabels
  <2> QED BY <2>1, <2>3, <2>4, OpenKept DEF registryVars
<1>4. CASE Announce
  <2>1. Within(AnnounceLabels) /\ UNCHANGED <<flags, registryVars>>
    BY <1>1, <1>4, AnnounceActs
  <2>2. \A q \in Requests : req'[q] = req[q] \/ req'[q].pc # "raise"
    BY <2>1 DEF Within, AnnounceLabels
  <2> QED BY <1>2, <2>1, <2>2, OpenKept DEF registryVars
<1>5. CASE Scalpers
  <2>1. /\ ScansMove /\ UNCHANGED registryVars
        /\ UNCHANGED flags \/ \E q \in Requests : req[q].pc \in ScanLabels /\ RaisedFor(q)
    BY <1>1, <1>5, ScalperActs
  <2>2. \A q \in Requests : req'[q] = req[q] \/ req'[q].pc # "raise"
    BY <2>1 DEF ScansMove, ScanLabels, ScalperLabels
  <2>3. ASSUME NEW q \in Requests, RaisedFor(q) PROVE \A i, f : OpenFor(i, f)' => OpenFor(i, f)
    BY <2>3 DEF RaisedFor, FlagsGrow, OpenFor
  <2> QED BY <1>2, <2>1, <2>2, <2>3, OpenKept DEF registryVars
<1>6. ASSUME NEW q \in Requests, Stop(q) PROVE OpenInv'
  <2>1. Ends(q) /\ UNCHANGED <<flags, doubled>>
    BY <1>6 DEF Stop, StopRequest
  <2>2. \A p \in Requests : req'[p] = req[p] \/ req'[p].pc # "raise"
    BY <1>1, <2>1, TypeParts, BecomesOne, IdlePlain DEF Ends, ReqsOK
  <2> QED BY <1>2, <2>1, <2>2, OpenKept
<1> QED BY <1>3, <1>4, <1>5, <1>6

\* An instance has one open flag at most, whatever is scanned, triaged, reported
\* and judged at the same time, unless it was selected a second time before the
\* rows of the first selection were written (rescan_workspace_stolen).
THEOREM ScansFlagOnce == Spec => []OneOpenFlag
<1>1. Init => OpenInv
  <2> SUFFICES ASSUME Init PROVE OpenInv
    OBVIOUS
  <2>1. DOMAIN flags = {} /\ \A q \in Requests : req[q].pc = "idle"
    BY DEF Init, FlagInit, Idle
  <2> QED BY <2>1 DEF OpenInv, OneOpen, SelectedFree, OpenFor
<1>2. DeskInv /\ OpenInv /\ [Next]_vars => OpenInv'
  <2> SUFFICES ASSUME DeskInv, OpenInv, [Next]_vars PROVE OpenInv'
    OBVIOUS
  <2>1. CASE UNCHANGED vars
    <3>1. UNCHANGED <<flags, req, doubled>>
      BY <2>1 DEF vars, flagVars, registryVars
    <3>2. \A i, f : OpenFor(i, f)' => OpenFor(i, f)
      BY <3>1 DEF OpenFor
    <3> QED BY <3>1, <3>2, OpenKept
  <2>2. CASE Registry
    BY <2>2, RegistryOpen DEF DeskInv, DisputeInv
  <2> QED BY <2>1, <2>2, OthersOpen DEF Next
<1>3. OpenInv => OneOpenFlag
  BY OneOpenMeans DEF OpenInv
<1> QED BY <1>1, <1>2, <1>3, DeskSound, PTL DEF Spec
-----------------------------------------------------------------------------
(* Scans of purchases: what the velocity count is taken from.              *)

EarlyLabels == {"config", "transaction", "allowlist", "velocity"}

CountTypeOK ==
    /\ window \in [Buyers -> SUBSET Nat] /\ counted \in [Buyers -> SUBSET Nat]
    /\ expires \in [Buyers -> Nat] /\ promptly \in [Buyers -> BOOLEAN]
    /\ trusted \in [Requests -> BOOLEAN]

\* As long as scans are prompt, the sorted set has every second that was counted
\* and has not left the window of the last of them, and outlives them all.
SetExact(b) ==
    /\ window[b] \subseteq counted[b]
    /\ \A s \in counted[b] : s + config.window + Grace <= expires[b]
    /\ \A s \in counted[b] : (\A u \in counted[b] : u <= s + config.window) => s \in window[b]

CountInv ==
    /\ CountTypeOK
    /\ \A x \in Purchases : Recorded(x) => bought[x] <= now
    /\ \A b \in Buyers : promptly[b] => SetExact(b)
    /\ \A q \in Requests : req[q].pc \in EarlyLabels => req[q].count = req[q].due
    /\ VelocityExact

Reasoned(e) == e.pattern \in {"velocity", "bulk", "sweep", "repeat"} /\ e.limit \in Nat

\* A flag of a scan, as it was raised.
Justified(row) ==
    row.kind = "scalper" =>
      /\ BuyerOf[row.target] # None
      /\ row.evidence # {}
      /\ (\A e \in row.evidence : 3 * e.limit < Half) =>
           (row.severity = Critical <=>
              \E e \in row.evidence : e.pattern \in {"velocity", "bulk"} /\ e.n >= 3 * e.limit)

\* A scan knows its buyer from the second statement on, an allowed buyer stops it
\* at the third, and what it has found has a reason.
ScanSound(q) ==
    /\ Scoring(q) => req[q].buyer # None /\ ~trusted[q]
    /\ req[q].pc = "allowlist" => req[q].buyer # None
    /\ req[q].pc \in ScanLabels /\ trusted[q] => req[q].buyer \in allow
    /\ req[q].pc \in ScanLabels => \A e \in req[q].found : Reasoned(e)

JustInv ==
    /\ \A q \in Requests : ScanSound(q)
    /\ \A f \in DOMAIN flags : Justified(flags[f])

ScoreInv == CountInv /\ JustInv

\* The most severe of four grades is the last one if it occurs.
LEMMA MostSevere == ASSUME NEW S \in SUBSET {1, 2, 3, 4}, S # {} PROVE Max(S) = 4 <=> 4 \in S
<1>1. \A y \in S : y = 1 \/ y = 2 \/ y = 3 \/ y = 4
  OBVIOUS
<1>2. \E m \in S : \A y \in S : m >= y
  <2>1. CASE 4 \in S
    BY <1>1, <2>1
  <2>2. CASE 4 \notin S /\ 3 \in S
    BY <1>1, <2>2
  <2>3. CASE 4 \notin S /\ 3 \notin S /\ 2 \in S
    BY <1>1, <2>3
  <2>4. CASE 4 \notin S /\ 3 \notin S /\ 2 \notin S
    <3>1. \A y \in S : y = 1
      BY <1>1, <2>4
    <3>2. 1 \in S
      BY <3>1
    <3> QED BY <3>1, <3>2
  <2> QED BY <2>1, <2>2, <2>3, <2>4
<1> DEFINE m == Max(S)
<1>3. m \in S /\ \A y \in S : m >= y
  BY <1>2 DEF Max
<1> HIDE DEF m
<1>4. m = 4 <=> 4 \in S
  BY <1>1, <1>3
<1> QED BY <1>4 DEF m

\* A number below the limit of the width stays what it is.
LEMMA FitsI32 == ASSUME NEW n \in Nat, n < Half PROVE I32(n) = n
<1>1. Half \in Nat \ {0}
  BY ScalperAssumption
<1> HIDE DEF Half
<1>2. ASSUME NEW a \in Nat, NEW m \in Nat \ {0}, a < m PROVE a % m = a
  BY <1>2
<1>3. n + Half \in Nat /\ 2 * Half \in Nat \ {0} /\ n + Half < 2 * Half
  BY <1>1
<1>4. (n + Half) % (2 * Half) = n + Half
  BY <1>2, <1>3
<1> QED BY <1>1, <1>4 DEF I32

LEMMA SeverityOf ==
    ASSUME NEW e, Reasoned(e)
    PROVE  /\ Severity(e) \in {1, 2, 3, 4}
           /\ 3 * e.limit < Half =>
                (Severity(e) = Critical <=> e.pattern \in {"velocity", "bulk"} /\ e.n >= 3 * e.limit)
<1>1. e.pattern \in {"velocity", "bulk", "sweep", "repeat"} /\ 3 * e.limit \in Nat
  BY DEF Reasoned
<1>2. 3 * e.limit < Half => I32(3 * e.limit) = 3 * e.limit
  BY <1>1, FitsI32
<1> HIDE DEF Half
<1>3. Severity(e) \in {1, 2, 3, 4}
  BY <1>1 DEF Severity, Low, Medium, High, Critical
<1>4. ASSUME 3 * e.limit < Half
      PROVE  Severity(e) = Critical <=> e.pattern \in {"velocity", "bulk"} /\ e.n >= 3 * e.limit
  BY <1>1, <1>2, <1>4 DEF Severity, Low, Medium, High, Critical
<1> QED BY <1>3, <1>4

\* The flag of what was found, as severe as the worst of it.
LEMMA RaisedJustified ==
    ASSUME NEW x, BuyerOf[x] # None, NEW found, found # {}, \A e \in found : Reasoned(e)
    PROVE  Justified(NewFlag("scalper", x, Max({Severity(f) : f \in found}), found))
<1> DEFINE S == {Severity(f) : f \in found}
           row == NewFlag("scalper", x, Max(S), found)
<1>1. S \in SUBSET {1, 2, 3, 4} /\ S # {}
  BY SeverityOf
<1>2. 4 \in S <=> \E e \in found : Severity(e) = 4
  OBVIOUS
<1> HIDE DEF S
<1>3. Max(S) = 4 <=> \E e \in found : Severity(e) = 4
  BY <1>1, <1>2, MostSevere
<1>4. row.target = x /\ row.evidence = found /\ row.severity = Max(S)
  BY DEF NewFlag
<1> HIDE DEF row
<1>5. (\A e \in found : 3 * e.limit < Half) =>
        (Max(S) = 4 <=> \E e \in found : e.pattern \in {"velocity", "bulk"} /\ e.n >= 3 * e.limit)
  BY <1>3, SeverityOf DEF Critical
<1>6. Justified(row)
  BY <1>4, <1>5 DEF Justified, Critical
<1> QED BY <1>6 DEF row, S

\* A step of anything but scans, or of a scan that stops.
LEMMA ScoreKept ==
    ASSUME ScoreInv, UNCHANGED scalperVars,
           \A q \in Requests : req'[q] = req[q] \/ req'[q].pc \notin ScanLabels,
           \A f \in DOMAIN flags' : Justified(flags'[f])
    PROVE  ScoreInv'
<1>1. \A q \in Requests : req'[q].pc \in EarlyLabels \cup {"bulk"} => req'[q] = req[q]
  BY DEF EarlyLabels, ScanLabels
<1>2. CountInv'
  <2>1. CountTypeOK' /\ \A x \in Purchases : Recorded(x)' => bought'[x] <= now'
    BY DEF ScoreInv, CountInv, CountTypeOK, Recorded, scalperVars
  <2>2. \A b \in Buyers : promptly'[b] => SetExact(b)'
    BY DEF ScoreInv, CountInv, SetExact, scalperVars
  <2>3. \A q \in Requests : req'[q].pc \in EarlyLabels => req'[q].count = req'[q].due
    BY <1>1 DEF ScoreInv, CountInv
  <2>4. VelocityExact'
    BY <1>1 DEF ScoreInv, CountInv, VelocityExact, scalperVars
  <2> QED BY <2>1, <2>2, <2>3, <2>4 DEF CountInv
<1>3. ASSUME NEW q \in Requests PROVE ScanSound(q)'
  <2>1. ScanSound(q) /\ UNCHANGED <<trusted, allow>>
    BY DEF ScoreInv, JustInv, scalperVars
  <2>2. CASE req'[q] = req[q]
    BY <2>1, <2>2 DEF ScanSound, Scoring
  <2>3. CASE req'[q].pc \notin ScanLabels
    BY <2>3 DEF ScanSound, Scoring, ScanLabels
  <2> QED BY <2>2, <2>3
<1> QED BY <1>2, <1>3 DEF ScoreInv, JustInv

LEMMA TriageScore == ASSUME TypeOK, AuditsDue, ScoreInv, Triage PROVE ScoreInv'
<1>1. Within(TriageLabels) /\ UNCHANGED <<registryVars, scalperVars>>
  BY TriageActs
<1>2. \A q \in Requests : req'[q] = req[q] \/ req'[q].pc \notin ScanLabels
  BY <1>1 DEF Within, TriageLabels, ScanLabels
<1>3. ASSUME UNCHANGED flags PROVE \A f \in DOMAIN flags' : Justified(flags'[f])
  BY <1>3 DEF ScoreInv, JustInv
<1>4. ASSUME NEW q \in Requests, ApplyTriage(q) PROVE \A f \in DOMAIN flags' : Justified(flags'[f])
  <2>1. ASSUME NEW g \in Flags, Triaged(g, q) PROVE \A f \in DOMAIN flags' : Justified(flags'[f])
    BY <2>1 DEF Triaged, ScoreInv, JustInv, Justified
  <2> QED BY <1>1, <1>3, <1>4, <2>1, ApplyTriageTyped
<1>5. \A f \in DOMAIN flags' : Justified(flags'[f])
  BY <1>3, <1>4 DEF Triage, TriageStep, WriteAudit, BeginTriage, flagVars
<1> QED BY <1>1, <1>2, <1>5, ScoreKept

LEMMA RegistryScore == ASSUME TypeOK, DisputesReal, ScoreInv, Registry PROVE ScoreInv'
<1>1. /\ Within(RegistryLabels) /\ FlagsGrow /\ UNCHANGED scalperVars
      /\ \A f \in DOMAIN flags' \ DOMAIN flags : flags'[f].kind = "stolen"
  BY RegistryActs
<1>2. \A q \in Requests : req'[q] = req[q] \/ req'[q].pc \notin ScanLabels
  BY <1>1 DEF Within, RegistryLabels, VerdictLabels, DisputeLabels, ScanLabels
<1>3. \A f \in DOMAIN flags' : Justified(flags'[f])
  BY <1>1 DEF FlagsGrow, ScoreInv, JustInv, Justified
<1> QED BY <1>1, <1>2, <1>3, ScoreKept

LEMMA AnnounceScore == ASSUME TypeOK, ScoreInv, Announce PROVE ScoreInv'
<1>1. Within(AnnounceLabels) /\ UNCHANGED <<flags, scalperVars>>
  BY AnnounceActs
<1>2. \A q \in Requests : req'[q] = req[q] \/ req'[q].pc \notin ScanLabels
  BY <1>1 DEF Within, AnnounceLabels, ScanLabels
<1> QED BY <1>1, <1>2, ScoreKept DEF ScoreInv, JustInv

LEMMA StopScore == ASSUME TypeOK, ScoreInv, NEW q \in Requests, Stop(q) PROVE ScoreInv'
<1>1. Ends(q) /\ UNCHANGED <<flags, scalperVars>>
  BY DEF Stop, StopRequest
<1>2. \A p \in Requests : req'[p] = req[p] \/ req'[p].pc \notin ScanLabels
  BY <1>1, TypeParts, BecomesOne, IdlePlain DEF Ends, ReqsOK, ScanLabels
<1> QED BY <1>1, <1>2, ScoreKept DEF ScoreInv, JustInv

ScoringLabels == {"velocity", "bulk", "sweep", "repeat", "raiseScalper"}

LEMMA ScoringIs == ASSUME NEW r PROVE r.pc \in ScanLabels \ {"config", "transaction", "allowlist"} <=> r.pc \in ScoringLabels
  BY DEF ScanLabels, ScoringLabels

\* A scan begins or goes on with a state that is sound.
LEMMA OnwardSound ==
    ASSUME TypeOK, JustInv, NEW q \in Requests, NEW x, ReqBecomes(q, x), UNCHANGED <<flags, allow, trusted>>,
           x.pc \in ScoringLabels => x.buyer # None /\ ~trusted[q],
           x.pc = "allowlist" => x.buyer # None,
           x.pc \in ScanLabels /\ trusted[q] => x.buyer \in allow,
           x.pc \in ScanLabels => \A e \in x.found : Reasoned(e)
    PROVE  JustInv'
<1>1. req'[q] = x /\ \A p \in Requests \ {q} : req'[p] = req[p]
  BY TypeParts, BecomesOne DEF ReqsOK
<1>2. ASSUME NEW p \in Requests PROVE ScanSound(p)'
  <2>1. CASE p = q
    BY <1>1, <2>1, ScoringIs DEF ScanSound, Scoring
  <2>2. CASE p # q
    BY <1>1, <2>2 DEF JustInv, ScanSound, Scoring
  <2> QED BY <2>1, <2>2
<1> QED BY <1>2 DEF JustInv

\* What a scan that is under way has kept to.
LEMMA ScanHolds ==
    ASSUME TypeOK, JustInv, NEW q \in Requests, req[q].pc \in ScanLabels
    PROVE  /\ trusted[q] => req[q].buyer \in allow
           /\ req[q].pc \in ScoringLabels \cup {"allowlist"} => req[q].buyer # None
           /\ req[q].pc \in ScoringLabels => ~trusted[q]
           /\ \A e \in req[q].found : Reasoned(e)
           /\ req[q].buyer = BuyerOf[req[q].x] /\ req[q].x \in Purchases /\ Recorded(req[q].x)
           /\ req[q].cfg \in Configs /\ config \in Configs
           /\ DOMAIN req[q] = {"pc", "x", "buyer", "cfg", "found", "count", "due"}
<1>1. ScanSound(q)
  BY DEF JustInv
<1>2. IsScan(req[q]) /\ Recorded(req[q].x) /\ config \in Configs
  BY TypeParts, ReqIs DEF StoreOK
<1> QED BY <1>1, <1>2, ScoringIs DEF ScanSound, Scoring, IsScan

LEMMA ExceedsReasoned ==
    ASSUME NEW name \in {"velocity", "bulk", "sweep", "repeat"}, NEW n, NEW limit \in Nat
    PROVE  \A e \in Exceeds(name, n, limit) : Reasoned(e)
  BY DEF Exceeds, Pattern, Reasoned

LEMMA ConfigLimits ==
    ASSUME NEW c \in Configs
    PROVE  /\ c.threshold \in Nat /\ c.bulk \in Nat /\ c.sweep \in Nat /\ c.repeat \in Nat
           /\ c.window \in Nat
  BY ScalperAssumption DEF AcceptedConfigs, ConfigRow

\* A check adds what it finds and goes on to the next.
LEMMA FindsSound ==
    ASSUME TypeOK, JustInv, NEW q \in Requests, NEW patterns, NEW label, req[q].pc \in ScoringLabels,
           label \in ScoringLabels, \A e \in patterns : Reasoned(e), Finds(q, patterns, label),
           UNCHANGED <<flags, allow, trusted>>
    PROVE  JustInv'
<1> DEFINE x == [req[q] EXCEPT !.pc = label, !.found = @ \cup patterns]
<1>1. ReqBecomes(q, x)
  BY DEF Finds
<1>2. req[q].pc \in ScanLabels /\ label \in ScanLabels /\ label # "allowlist"
  BY DEF ScoringLabels, ScanLabels
<1>3. /\ DOMAIN req[q] = {"pc", "x", "buyer", "cfg", "found", "count", "due"}
      /\ req[q].buyer # None /\ ~trusted[q] /\ \A e \in req[q].found : Reasoned(e)
  BY <1>2, ScanHolds
<1>4. x.pc = label /\ x.buyer = req[q].buyer /\ x.found = req[q].found \cup patterns
  BY <1>3
<1> HIDE DEF x
<1> QED BY <1>1, <1>2, <1>3, <1>4, OnwardSound

\* A statement that finds nothing.
LEMMA GotoSound ==
    ASSUME TypeOK, JustInv, NEW q \in Requests, NEW label \in ScanLabels, req[q].pc \in ScanLabels, Goto(q, label),
           label \in ScoringLabels => req[q].buyer # None /\ ~trusted[q],
           label = "allowlist" => req[q].buyer # None,
           UNCHANGED <<flags, allow, trusted>>
    PROVE  JustInv'
<1> DEFINE x == [req[q] EXCEPT !.pc = label]
<1>1. ReqBecomes(q, x)
  BY DEF Goto
<1>2. /\ DOMAIN req[q] = {"pc", "x", "buyer", "cfg", "found", "count", "due"}
      /\ trusted[q] => req[q].buyer \in allow
      /\ \A e \in req[q].found : Reasoned(e)
  BY ScanHolds
<1>3. x.pc = label /\ x.buyer = req[q].buyer /\ x.found = req[q].found
  BY <1>2
<1> HIDE DEF x
<1> QED BY <1>1, <1>2, <1>3, OnwardSound

LEMMA EndsSound ==
    ASSUME TypeOK, JustInv, NEW q \in Requests, Ends(q), UNCHANGED <<flags, allow, trusted>> PROVE JustInv'
<1>1. Idle.pc \notin ScanLabels \cup ScoringLabels /\ Idle.pc # "allowlist"
  BY DEF Idle, ScanLabels, ScoringLabels
<1> QED BY <1>1, OnwardSound DEF Ends

LEMMA StoreStepsSound ==
    ASSUME TypeOK, JustInv,
           \/ Tick
           \/ \E x \in Purchases : RecordPurchase(x)
           \/ \E c \in Configs : UpdateConfig(c)
           \/ \E b \in Buyers : AllowBuyer(b) \/ DisallowBuyer(b),
           trusted \in [Requests -> BOOLEAN]
    PROVE  JustInv'
<1>1. UNCHANGED <<flags, req>>
  BY DEF Tick, RecordPurchase, UpdateConfig, AllowBuyer, DisallowBuyer, flagVars
<1>2. ASSUME NEW q \in Requests,
             trusted'[q] => trusted[q],
             req[q].pc \in ScanLabels /\ trusted'[q] => req[q].buyer \in allow'
      PROVE  ScanSound(q)'
  BY <1>1, <1>2 DEF JustInv, ScanSound, Scoring
<1>3. ASSUME NEW q \in Requests PROVE ScanSound(q)'
  <2>1. CASE UNCHANGED <<allow, trusted>>
    BY <1>2, <2>1 DEF JustInv, ScanSound
  <2>2. ASSUME NEW b \in Buyers, AllowBuyer(b) PROVE ScanSound(q)'
    BY <1>2, <2>2 DEF AllowBuyer, JustInv, ScanSound
  <2>3. ASSUME NEW b \in Buyers, DisallowBuyer(b) PROVE ScanSound(q)'
    <3>1. /\ trusted'[q] = (trusted[q] /\ ~("buyer" \in DOMAIN req[q] /\ req[q].buyer = b))
          /\ allow' = allow \ {b}
      BY <2>3 DEF DisallowBuyer
    <3>2. ASSUME req[q].pc \in ScanLabels, trusted'[q] PROVE req[q].buyer \in allow'
      BY <3>1, <3>2, ScanHolds
    <3> QED BY <1>2, <3>1, <3>2
  <2> QED BY <2>1, <2>2, <2>3 DEF Tick, RecordPurchase, UpdateConfig
<1> QED BY <1>1, <1>3 DEF JustInv

LEMMA BeginScanSound ==
    ASSUME TypeOK, JustInv, NEW q \in Requests, NEW p \in Purchases, BeginScan(q, p),
           trusted \in [Requests -> BOOLEAN]
    PROVE  JustInv'
<1> DEFINE x == [pc |-> "config", x |-> p, buyer |-> BuyerOf[p], cfg |-> config,
                 found |-> {}, count |-> 0, due |-> 0]
<1>1. /\ ReqBecomes(q, x) /\ UNCHANGED <<flags, allow>>
      /\ trusted' = [trusted EXCEPT ![q] = BuyerOf[p] \in allow]
  BY DEF BeginScan, flagVars
<1>2. x.pc = "config" /\ x.buyer = BuyerOf[p] /\ x.found = {}
  OBVIOUS
<1> HIDE DEF x
<1>3. req'[q] = x /\ \A o \in Requests \ {q} : req'[o] = req[o]
  BY <1>1, TypeParts, BecomesOne DEF ReqsOK
<1>4. /\ trusted'[q] = (BuyerOf[p] \in allow)
      /\ \A o \in Requests \ {q} : trusted'[o] = trusted[o]
  BY <1>1
<1>5. ScanSound(q)'
  BY <1>1, <1>2, <1>3, <1>4 DEF ScanSound, Scoring
<1>6. ASSUME NEW o \in Requests \ {q} PROVE ScanSound(o)'
  BY <1>1, <1>3, <1>4 DEF JustInv, ScanSound, Scoring
<1> QED BY <1>1, <1>5, <1>6 DEF JustInv

LEMMA EarlyStatementsSound ==
    ASSUME TypeOK, JustInv, NEW q \in Requests, ReadConfig(q) \/ ReadTransaction(q) \/ CheckAllowlist(q)
    PROVE  JustInv'
<1>1. req[q].pc \in ScanLabels /\ UNCHANGED <<flags, allow, trusted>>
  BY ScalperLabelIn DEF ReadConfig, ReadTransaction, CheckAllowlist, flagVars, scalperVars
<1>2. /\ DOMAIN req[q] = {"pc", "x", "buyer", "cfg", "found", "count", "due"}
      /\ trusted[q] => req[q].buyer \in allow
      /\ \A e \in req[q].found : Reasoned(e)
  BY <1>1, ScanHolds
<1>3. CASE ReadConfig(q)
  <2> DEFINE x == [req[q] EXCEPT !.pc = "transaction", !.cfg = config]
  <2>1. ReqBecomes(q, x) \/ Ends(q)
    BY <1>3 DEF ReadConfig
  <2>2. x.pc = "transaction" /\ x.buyer = req[q].buyer /\ x.found = req[q].found
    BY <1>2
  <2> HIDE DEF x
  <2>3. "transaction" \notin ScoringLabels
    BY DEF ScoringLabels
  <2> QED BY <1>1, <1>2, <2>1, <2>2, <2>3, OnwardSound, EndsSound
<1>4. CASE ReadTransaction(q)
  <2>1. "allowlist" \in ScanLabels \ ScoringLabels
    BY DEF ScanLabels, ScoringLabels
  <2>2. CASE req[q].buyer = None
    BY <1>1, <1>4, <2>2, EndsSound DEF ReadTransaction
  <2>3. CASE req[q].buyer # None
    BY <1>1, <1>4, <2>1, <2>3, GotoSound DEF ReadTransaction
  <2> QED BY <2>2, <2>3
<1>5. CASE CheckAllowlist(q)
  <2>1. "velocity" \in ScanLabels /\ "velocity" # "allowlist"
    BY DEF ScanLabels
  <2>2. CASE req[q].buyer \in allow
    BY <1>1, <1>5, <2>2, EndsSound DEF CheckAllowlist
  <2>3. CASE req[q].buyer \notin allow
    <3>1. req[q].buyer # None /\ ~trusted[q] /\ Goto(q, "velocity")
      BY <1>1, <1>2, <1>5, <2>3, ScanHolds DEF CheckAllowlist
    <3> QED BY <1>1, <2>1, <3>1, GotoSound
  <2> QED BY <2>2, <2>3
<1> QED BY <1>3, <1>4, <1>5

LEMMA ChecksSound ==
    ASSUME TypeOK, JustInv, NEW q \in Requests,
           CountInPostgres(q) \/ CheckBulk(q) \/ CheckSweep(q) \/ CheckRepeat(q)
    PROVE  JustInv'
<1>1. req[q].pc \in ScoringLabels /\ UNCHANGED <<flags, allow, trusted>> /\ ScoringLabels \subseteq ScanLabels
  BY DEF CountInPostgres, CheckBulk, CheckSweep, CheckRepeat, ScoringLabels, ScanLabels, flagVars, scalperVars
<1>2. /\ req[q].cfg.threshold \in Nat /\ req[q].cfg.bulk \in Nat /\ req[q].cfg.sweep \in Nat
      /\ {"bulk", "sweep", "repeat", "raiseScalper"} \subseteq ScoringLabels
  BY <1>1, ScanHolds, ConfigLimits DEF ScoringLabels
<1>3. CASE CountInPostgres(q)
  <2> DEFINE n == Cardinality({x \in BoughtBy(req[q].buyer) : bought[x] > now - req[q].cfg.window})
  <2>1. Finds(q, Exceeds("velocity", n, req[q].cfg.threshold), "bulk")
    BY <1>3 DEF CountInPostgres
  <2> HIDE DEF n
  <2> QED BY <1>1, <1>2, <2>1, ExceedsReasoned, FindsSound
<1>4. CASE CheckBulk(q)
  <2> DEFINE n == Max({QuantityOf[req[q].x][p] : p \in Printings})
  <2>1. Finds(q, Exceeds("bulk", n, req[q].cfg.bulk), "sweep")
    BY <1>4 DEF CheckBulk
  <2> HIDE DEF n
  <2> QED BY <1>1, <1>2, <2>1, ExceedsReasoned, FindsSound
<1>5. CASE CheckSweep(q)
  <2> DEFINE n(p) == Total(BoughtBy(req[q].buyer), p)
             some == {p \in Printings : QuantityOf[req[q].x][p] > 0}
             found == UNION {Exceeds("sweep", n(p), req[q].cfg.sweep) : p \in some}
  <2>1. Finds(q, found, "repeat")
    BY <1>5 DEF CheckSweep
  <2> HIDE DEF n, some
  <2>2. \A e \in found : Reasoned(e)
    BY <1>2, ExceedsReasoned
  <2> HIDE DEF found
  <2> QED BY <1>1, <1>2, <2>1, <2>2, FindsSound
<1>6. CASE CheckRepeat(q)
  <2> DEFINE found == IF \E x \in BoughtBy(req[q].buyer) :
                              bought[x] < bought[req[q].x] /\ bought[x] > bought[req[q].x] - req[q].cfg.repeat
                      THEN {Pattern("repeat", 1, 0)} ELSE {}
  <2>1. Finds(q, found, "raiseScalper")
    BY <1>6 DEF CheckRepeat
  <2>2. \A e \in found : Reasoned(e)
    BY DEF Pattern, Reasoned
  <2> HIDE DEF found
  <2> QED BY <1>1, <1>2, <2>1, <2>2, FindsSound
<1> QED BY <1>3, <1>4, <1>5, <1>6

LEMMA CountInRedisSound == ASSUME TypeOK, JustInv, NEW q \in Requests, CountInRedis(q) PROVE JustInv'
<1>1. /\ req[q].pc \in ScoringLabels \cap ScanLabels /\ UNCHANGED <<flags, allow, trusted>>
      /\ "bulk" \in ScoringLabels \cap ScanLabels
  BY DEF CountInRedis, ScoringLabels, ScanLabels, flagVars
<1>2. Goto(q, "bulk") \/ \E m, n, k :
        ReqBecomes(q, [req[q] EXCEPT !.pc = "bulk", !.count = m, !.due = n,
                                     !.found = Exceeds("velocity", k, req[q].cfg.threshold)])
  BY DEF CountInRedis
<1>3. CASE Goto(q, "bulk")
  BY <1>1, <1>3, ScanHolds, GotoSound
<1>4. ASSUME NEW m, NEW n, NEW k,
             ReqBecomes(q, [req[q] EXCEPT !.pc = "bulk", !.count = m, !.due = n,
                                          !.found = Exceeds("velocity", k, req[q].cfg.threshold)])
      PROVE  JustInv'
  <2> DEFINE found == Exceeds("velocity", k, req[q].cfg.threshold)
             x == [req[q] EXCEPT !.pc = "bulk", !.count = m, !.due = n, !.found = found]
  <2>1. ReqBecomes(q, x)
    BY <1>4
  <2>2. \A e \in found : Reasoned(e)
    BY <1>1, ScanHolds, ConfigLimits, ExceedsReasoned
  <2> HIDE DEF found
  <2>3. x.pc = "bulk" /\ x.buyer = req[q].buyer /\ x.found = found
    BY <1>1, ScanHolds
  <2> HIDE DEF x
  <2>4. req[q].buyer # None /\ ~trusted[q]
    BY <1>1, ScanHolds
  <2> QED BY <1>1, <2>1, <2>2, <2>3, <2>4, OnwardSound
<1> QED BY <1>2, <1>3, <1>4

LEMMA RaiseScalperSound == ASSUME TypeOK, JustInv, NEW q \in Requests, RaiseScalper(q) PROVE JustInv'
<1>1. req[q].pc \in ScoringLabels \cap ScanLabels /\ UNCHANGED <<allow, trusted>>
  BY DEF RaiseScalper, ScoringLabels, ScanLabels, scalperVars
<1>2. CASE Ends(q) /\ UNCHANGED flagVars
  BY <1>1, <1>2, EndsSound DEF flagVars
<1>3. CASE /\ req[q].found # {}
           /\ CreateFlag(q, NewFlag("scalper", req[q].x, Max({Severity(f) : f \in req[q].found}), req[q].found))
  <2> DEFINE row == NewFlag("scalper", req[q].x, Max({Severity(f) : f \in req[q].found}), req[q].found)
  <2>1. Justified(row)
    BY <1>1, <1>3, ScanHolds, RaisedJustified
  <2>2. CreateFlag(q, row)
    BY <1>3
  <2> HIDE DEF row
  <2>3. PICK f \in FreeFlags :
          /\ flags' = [g \in DOMAIN flags \cup {f} |-> IF g = f THEN row ELSE flags[g]]
          /\ ReqBecomes(q, [pc |-> "members", flag |-> f])
    BY <2>2 DEF CreateFlag
  <2>4. \A g \in DOMAIN flags' : Justified(flags'[g])
    <3> SUFFICES ASSUME NEW g \in DOMAIN flags' PROVE Justified(flags'[g])
      OBVIOUS
    <3>1. CASE g = f
      BY <2>1, <2>3, <3>1
    <3>2. CASE g # f
      <4>1. g \in DOMAIN flags /\ flags'[g] = flags[g]
        BY <2>3, <3>2
      <4> QED BY <4>1 DEF JustInv
    <3> QED BY <3>1, <3>2
  <2>5. req'[q].pc = "members" /\ \A p \in Requests \ {q} : req'[p] = req[p]
    BY <2>3, TypeParts, BecomesOne DEF ReqsOK
  <2>6. ASSUME NEW p \in Requests PROVE ScanSound(p)'
    <3>1. CASE p = q
      BY <2>5, <3>1 DEF ScanSound, Scoring, ScanLabels
    <3>2. CASE p # q
      BY <1>1, <2>5, <3>2 DEF JustInv, ScanSound, Scoring
    <3> QED BY <3>1, <3>2
  <2> QED BY <2>4, <2>6 DEF JustInv
<1> QED BY <1>2, <1>3 DEF RaiseScalper

LEMMA ScalpersSound == ASSUME TypeOK, JustInv, trusted \in [Requests -> BOOLEAN], Scalpers PROVE JustInv'
<1>1. ASSUME \/ Tick
             \/ \E x \in Purchases : RecordPurchase(x)
             \/ \E c \in Configs : UpdateConfig(c)
             \/ \E b \in Buyers : AllowBuyer(b) \/ DisallowBuyer(b)
      PROVE  JustInv'
  BY <1>1, StoreStepsSound
<1>2. ASSUME NEW q \in Requests, NEW x \in Purchases, BeginScan(q, x) PROVE JustInv'
  BY <1>2, BeginScanSound
<1>3. ASSUME NEW q \in Requests, ReadConfig(q) \/ ReadTransaction(q) \/ CheckAllowlist(q) PROVE JustInv'
  BY <1>3, EarlyStatementsSound
<1>4. ASSUME NEW q \in Requests, CountInPostgres(q) \/ CheckBulk(q) \/ CheckSweep(q) \/ CheckRepeat(q)
      PROVE  JustInv'
  BY <1>4, ChecksSound
<1>5. ASSUME NEW q \in Requests, CountInRedis(q) \/ RaiseScalper(q) PROVE JustInv'
  BY <1>5, CountInRedisSound, RaiseScalperSound
<1> QED BY <1>1, <1>2, <1>3, <1>4, <1>5 DEF Scalpers, ScalperStep

-----------------------------------------------------------------------------
(* The velocity count.                                                     *)

\* A step that counts nothing: what a scan has counted stays with it.
LEMMA OnwardCounted ==
    ASSUME TypeOK, CountInv, NEW q \in Requests, NEW x, ReqBecomes(q, x),
           UNCHANGED <<config, bought, now, window, expires, counted, promptly>>,
           trusted' \in [Requests -> BOOLEAN],
           x.pc \in EarlyLabels \cup {"bulk"} => x.count = x.due
    PROVE  CountInv'
<1>1. req'[q] = x /\ \A p \in Requests \ {q} : req'[p] = req[p]
  BY TypeParts, BecomesOne DEF ReqsOK
<1>2. CountTypeOK' /\ \A y \in Purchases : Recorded(y)' => bought'[y] <= now'
  BY DEF CountInv, CountTypeOK, Recorded
<1>3. \A b \in Buyers : promptly'[b] => SetExact(b)'
  BY DEF CountInv, SetExact
<1>4. \A p \in Requests : req'[p].pc \in EarlyLabels => req'[p].count = req'[p].due
  BY <1>1 DEF CountInv
<1>5. VelocityExact'
  BY <1>1 DEF CountInv, VelocityExact
<1> QED BY <1>2, <1>3, <1>4, <1>5 DEF CountInv

\* A state that no count is compared in.
LEMMA PastCounting ==
    {"sweep", "repeat", "raiseScalper", "members", "idle"} \cap (EarlyLabels \cup {"bulk"}) = {}
  BY DEF EarlyLabels

\* Only the purchases of a buyer are counted.
LEMMA ScoredBuyer ==
    ASSUME TypeOK, JustInv, NEW q \in Requests, req[q].pc \in ScoringLabels PROVE req[q].buyer \in Buyers
<1>1. req[q].pc \in ScanLabels
  BY DEF ScoringLabels, ScanLabels
<1> QED BY <1>1, ScanHolds, ScalperAssumption

LEMMA StoreStepsCounted ==
    ASSUME TypeOK, JustInv, CountInv,
           \/ Tick
           \/ \E x \in Purchases : RecordPurchase(x)
           \/ \E c \in Configs : UpdateConfig(c)
           \/ \E b \in Buyers : AllowBuyer(b) \/ DisallowBuyer(b)
    PROVE  CountInv'
<1>1. UNCHANGED <<req, window, expires, counted>>
  BY DEF Tick, RecordPurchase, UpdateConfig, AllowBuyer, DisallowBuyer
<1>2. StoreOK
  BY TypeParts
<1>3. \A x \in Purchases : Recorded(x)' => bought'[x] <= now'
  <2>1. CASE Tick
    <3>1. \A x \in Purchases : Recorded(x) => bought[x] \in Nat /\ now \in Nat /\ bought[x] <= now
      BY <1>2, ScalperAssumption DEF StoreOK, CountInv, Recorded
    <3> QED BY <2>1, <3>1 DEF Tick, Recorded
  <2>2. ASSUME NEW x \in Purchases, RecordPurchase(x) PROVE \A y \in Purchases : Recorded(y)' => bought'[y] <= now'
    BY <1>2, <2>2, ScalperAssumption DEF RecordPurchase, CountInv, Recorded, StoreOK
  <2>3. CASE UNCHANGED <<bought, now>>
    BY <2>3 DEF CountInv, Recorded
  <2> QED BY <2>1, <2>2, <2>3 DEF UpdateConfig, AllowBuyer, DisallowBuyer
<1>4. ASSUME UNCHANGED <<config, promptly, trusted>> PROVE CountInv'
  <2>1. CountTypeOK'
    BY <1>1, <1>4 DEF CountInv, CountTypeOK
  <2>2. \A b \in Buyers : promptly'[b] => SetExact(b)'
    BY <1>1, <1>4 DEF CountInv, SetExact
  <2>3. VelocityExact' /\ \A q \in Requests : req'[q].pc \in EarlyLabels => req'[q].count = req'[q].due
    BY <1>1, <1>4 DEF CountInv, VelocityExact
  <2> QED BY <1>3, <2>1, <2>2, <2>3 DEF CountInv
<1>5. ASSUME NEW c \in Configs, UpdateConfig(c) PROVE CountInv'
  <2>1. /\ promptly' = [b \in Buyers |-> promptly[b] /\ c.window = config.window]
        /\ config' = c /\ UNCHANGED trusted
    BY <1>5 DEF UpdateConfig
  <2>2. \A b \in Buyers : promptly'[b] = (promptly[b] /\ c.window = config.window)
    BY <2>1
  <2>3. CountTypeOK'
    BY <1>1, <2>1 DEF CountInv, CountTypeOK
  <2>4. \A b \in Buyers : promptly'[b] => SetExact(b)'
    BY <1>1, <2>1, <2>2 DEF CountInv, SetExact
  <2>5. \A q \in Requests : req'[q].pc \in EarlyLabels => req'[q].count = req'[q].due
    BY <1>1 DEF CountInv
  <2>6. ASSUME NEW q \in Requests, req'[q].pc = "bulk", promptly'[req'[q].buyer] PROVE req'[q].count = req'[q].due
    <3>1. req[q].buyer \in Buyers
      BY <1>1, <2>6, ScoredBuyer DEF ScoringLabels
    <3> QED BY <1>1, <2>2, <2>6, <3>1 DEF CountInv, VelocityExact
  <2> QED BY <1>3, <2>3, <2>4, <2>5, <2>6 DEF CountInv, VelocityExact
<1>6. ASSUME NEW b \in Buyers, DisallowBuyer(b) PROVE CountInv'
  <2>1. UNCHANGED <<config, promptly>> /\ trusted' \in [Requests -> BOOLEAN]
    BY <1>6 DEF DisallowBuyer, CountInv, CountTypeOK
  <2>2. CountTypeOK'
    BY <1>1, <2>1 DEF CountInv, CountTypeOK
  <2>3. \A o \in Buyers : promptly'[o] => SetExact(o)'
    BY <1>1, <2>1 DEF CountInv, SetExact
  <2>4. VelocityExact' /\ \A q \in Requests : req'[q].pc \in EarlyLabels => req'[q].count = req'[q].due
    BY <1>1, <2>1 DEF CountInv, VelocityExact
  <2> QED BY <1>3, <2>2, <2>3, <2>4 DEF CountInv
<1> QED BY <1>4, <1>5, <1>6 DEF Tick, RecordPurchase, AllowBuyer

LEMMA StatementsCounted ==
    ASSUME TypeOK, CountInv, NEW q \in Requests,
           \/ ReadConfig(q) \/ ReadTransaction(q) \/ CheckAllowlist(q) \/ CountInPostgres(q)
           \/ CheckBulk(q) \/ CheckSweep(q) \/ CheckRepeat(q)
    PROVE  CountInv'
<1>1. /\ req[q].pc \in ScanLabels
      /\ UNCHANGED <<config, bought, now, window, expires, counted, promptly, trusted>>
  BY ScalperLabelIn DEF ReadConfig, ReadTransaction, CheckAllowlist, CountInPostgres, CheckBulk, CheckSweep,
     CheckRepeat, scalperVars
<1>2. DOMAIN req[q] = {"pc", "x", "buyer", "cfg", "found", "count", "due"} /\ trusted' \in [Requests -> BOOLEAN]
  BY <1>1, ScanState DEF CountInv, CountTypeOK
<1>3. req[q].pc \in EarlyLabels => req[q].count = req[q].due
  BY DEF CountInv
<1>4. CASE Ends(q)
  BY <1>1, <1>2, <1>4, OnwardCounted, PastCounting, IdlePlain DEF Ends
<1>5. ASSUME NEW label, Goto(q, label), req[q].pc \in EarlyLabels PROVE CountInv'
  <2> DEFINE x == [req[q] EXCEPT !.pc = label]
  <2>1. ReqBecomes(q, x) /\ x.count = req[q].count /\ x.due = req[q].due
    BY <1>2, <1>5 DEF Goto
  <2> HIDE DEF x
  <2> QED BY <1>1, <1>2, <1>3, <1>5, <2>1, OnwardCounted
<1>6. ASSUME NEW label, NEW patterns, Finds(q, patterns, label),
             req[q].pc \in EarlyLabels \/ label \in {"sweep", "repeat", "raiseScalper"}
      PROVE  CountInv'
  <2> DEFINE x == [req[q] EXCEPT !.pc = label, !.found = @ \cup patterns]
  <2>1. ReqBecomes(q, x) /\ x.pc = label /\ x.count = req[q].count /\ x.due = req[q].due
    BY <1>2, <1>6 DEF Finds
  <2> HIDE DEF x
  <2> QED BY <1>1, <1>2, <1>3, <1>6, <2>1, OnwardCounted, PastCounting
<1>7. CASE ReadConfig(q)
  <2> DEFINE x == [req[q] EXCEPT !.pc = "transaction", !.cfg = config]
  <2>1. (ReqBecomes(q, x) \/ Ends(q)) /\ req[q].pc \in EarlyLabels
    BY <1>7 DEF ReadConfig, EarlyLabels
  <2>2. x.count = req[q].count /\ x.due = req[q].due
    BY <1>2
  <2> HIDE DEF x
  <2> QED BY <1>1, <1>2, <1>3, <1>4, <2>1, <2>2, OnwardCounted
<1>8. CASE ReadTransaction(q) \/ CheckAllowlist(q)
  <2>1. req[q].pc \in EarlyLabels
    BY <1>8 DEF ReadTransaction, CheckAllowlist, EarlyLabels
  <2> QED BY <1>4, <1>5, <1>8, <2>1 DEF ReadTransaction, CheckAllowlist
<1>9. CASE CountInPostgres(q)
  <2>1. req[q].pc \in EarlyLabels
    BY <1>9 DEF CountInPostgres, EarlyLabels
  <2> QED BY <1>6, <1>9, <2>1 DEF CountInPostgres
<1>10. CASE CheckBulk(q) \/ CheckSweep(q) \/ CheckRepeat(q)
  BY <1>6, <1>10 DEF CheckBulk, CheckSweep, CheckRepeat
<1> QED BY <1>7, <1>8, <1>9, <1>10

LEMMA BeginScanCounted ==
    ASSUME TypeOK, CountInv, NEW q \in Requests, NEW p \in Purchases, BeginScan(q, p) PROVE CountInv'
<1> DEFINE x == [pc |-> "config", x |-> p, buyer |-> BuyerOf[p], cfg |-> config,
                 found |-> {}, count |-> 0, due |-> 0]
<1>1. /\ ReqBecomes(q, x) /\ x.count = x.due
      /\ UNCHANGED <<config, bought, now, window, expires, counted, promptly>>
      /\ trusted' \in [Requests -> BOOLEAN]
  BY DEF BeginScan, CountInv, CountTypeOK
<1> HIDE DEF x
<1> QED BY <1>1, OnwardCounted

LEMMA RaiseScalperCounted == ASSUME TypeOK, CountInv, NEW q \in Requests, RaiseScalper(q) PROVE CountInv'
<1>1. /\ UNCHANGED <<config, bought, now, window, expires, counted, promptly, trusted>>
      /\ trusted' \in [Requests -> BOOLEAN]
  BY DEF RaiseScalper, CountInv, CountTypeOK, scalperVars
<1>2. CASE Ends(q)
  BY <1>1, <1>2, OnwardCounted, PastCounting, IdlePlain DEF Ends
<1>3. ASSUME NEW row, CreateFlag(q, row) PROVE CountInv'
  <2>1. PICK f : ReqBecomes(q, [pc |-> "members", flag |-> f])
    BY <1>3 DEF CreateFlag
  <2> DEFINE x == [pc |-> "members", flag |-> f]
  <2>2. ReqBecomes(q, x) /\ x.pc = "members"
    BY <2>1
  <2> HIDE DEF x
  <2> QED BY <1>1, <2>2, OnwardCounted, PastCounting
<1> QED BY <1>2, <1>3 DEF RaiseScalper

\* The set and the seconds that are due, if the scans of the buyer have been
\* prompt: what has left the window is gone, and nothing else is.
LEMMA WindowIsDue ==
    ASSUME NEW b \in Buyers, CountInv, SetExact(b), NEW t \in Nat, now \in Nat, config.window \in Nat,
           NEW cfg, cfg.window = config.window,
           now <= t + Grace, \A s \in counted[b] : s <= t
    PROVE  {s \in (IF now > expires[b] THEN {} ELSE window[b]) \cup {t} : InWindow(s, t, cfg)}
             = {s \in counted[b] \cup {t} : t - cfg.window <= s /\ s <= t}
<1> DEFINE live == IF now > expires[b] THEN {} ELSE window[b]
<1>1. counted[b] \subseteq Nat /\ window[b] \subseteq Nat /\ expires[b] \in Nat /\ Grace \in Nat
  BY ScalperAssumption DEF CountInv, CountTypeOK
<1>2. live \subseteq counted[b]
  BY DEF SetExact
<1>3. ASSUME NEW s \in counted[b], t - cfg.window <= s PROVE s \in live
  <2>1. s \in Nat /\ \A u \in counted[b] : u \in Nat /\ u <= t
    BY <1>1
  <2>2. \A u \in counted[b] : u <= s + config.window
    BY <1>3, <2>1
  <2>3. s \in window[b] /\ s + config.window + Grace <= expires[b]
    BY <1>3, <2>2 DEF SetExact
  <2>4. ~(now > expires[b])
    BY <1>1, <1>3, <2>1, <2>3
  <2> QED BY <2>3, <2>4
<1> HIDE DEF live
<1>4. \A s \in live \cup {t} : InWindow(s, t, cfg) <=> s >= t - cfg.window
  BY DEF InWindow
<1>5. {s \in live \cup {t} : InWindow(s, t, cfg)} = {s \in counted[b] \cup {t} : t - cfg.window <= s /\ s <= t}
  BY <1>1, <1>2, <1>3, <1>4
<1> QED BY <1>5 DEF live

LEMMA CountInRedisCounted ==
    ASSUME TypeOK, JustInv, CountInv, NEW q \in Requests, CountInRedis(q) PROVE CountInv'
<1> DEFINE r == req[q]
           b == r.buyer
           t == bought[r.x]
           live == IF now > expires[b] THEN {} ELSE window[b]
           kept == {s \in live \cup {t} : InWindow(s, t, r.cfg)}
           due == {s \in counted[b] \cup {t} : t - r.cfg.window <= s /\ s <= t}
<1>1. r.pc = "velocity" /\ r.pc \in ScanLabels /\ r.pc \in ScoringLabels /\ UNCHANGED <<config, bought, now, trusted>>
  BY DEF CountInRedis, ScanLabels, ScoringLabels
<1>2. /\ b \in Buyers /\ r.x \in Purchases /\ Recorded(r.x)
      /\ DOMAIN r = {"pc", "x", "buyer", "cfg", "found", "count", "due"}
      /\ r.cfg \in Configs /\ config \in Configs
  BY <1>1, ScanHolds, ScoredBuyer
<1>3. t \in Nat /\ now \in Nat /\ t <= now /\ Grace \in Nat /\ config.window \in Nat /\ r.cfg.window \in Nat
  <2>1. bought \in [Purchases -> (0..MaxTime) \cup {None}] /\ now \in 0..MaxTime
    BY TypeParts DEF StoreOK
  <2>2. t \in 0..MaxTime
    BY <1>2, <2>1 DEF Recorded
  <2>3. t <= now
    BY <1>2 DEF CountInv
  <2> QED BY <1>2, <2>1, <2>2, <2>3, ConfigLimits, ScalperAssumption
<1>4. \A x \in Purchases : Recorded(x)' => bought'[x] <= now'
  BY <1>1 DEF CountInv, Recorded
<1>5. CASE /\ Goto(q, "bulk") /\ promptly' = [promptly EXCEPT ![b] = FALSE]
           /\ UNCHANGED <<window, expires, counted>>
  <2> DEFINE x == [r EXCEPT !.pc = "bulk"]
  <2>1. ReqBecomes(q, x) /\ x.pc = "bulk" /\ x.buyer = b
    BY <1>2, <1>5 DEF Goto
  <2> HIDE DEF x
  <2>2. req'[q] = x /\ \A p \in Requests \ {q} : req'[p] = req[p]
    BY <2>1, TypeParts, BecomesOne DEF ReqsOK
  <2>3. CountTypeOK' /\ promptly'[b] = FALSE /\ \A o \in Buyers : promptly'[o] => promptly[o]
    BY <1>1, <1>2, <1>5 DEF CountInv, CountTypeOK
  <2>4. \A o \in Buyers : promptly'[o] => SetExact(o)'
    BY <1>1, <1>5, <2>3 DEF CountInv, SetExact
  <2>5. \A p \in Requests : req'[p].pc \in EarlyLabels => req'[p].count = req'[p].due
    BY <2>1, <2>2 DEF CountInv, EarlyLabels
  <2>6. ASSUME NEW p \in Requests, req'[p].pc = "bulk", promptly'[req'[p].buyer] PROVE req'[p].count = req'[p].due
    <3>1. p # q
      BY <2>1, <2>2, <2>3, <2>6
    <3>2. req'[p] = req[p] /\ req[p].buyer \in Buyers
      BY <2>2, <2>6, <3>1, ScoredBuyer DEF ScoringLabels
    <3> QED BY <2>3, <2>6, <3>2 DEF CountInv, VelocityExact
  <2> QED BY <1>4, <2>3, <2>4, <2>5, <2>6 DEF CountInv, VelocityExact
<1>6. CASE /\ window' = [window EXCEPT ![b] = kept]
           /\ expires' = [expires EXCEPT ![b] = KeyExpiry(r.cfg)]
           /\ counted' = [counted EXCEPT ![b] = @ \cup {t}]
           /\ promptly' = [promptly EXCEPT ![b] = /\ @ /\ now <= t + Grace /\ \A s \in counted[b] : s <= t
                                                  /\ r.cfg.window = config.window]
           /\ \E found : ReqBecomes(q, [r EXCEPT !.pc = "bulk", !.count = Cardinality(kept),
                                                 !.due = Cardinality(due), !.found = found])
  <2> DEFINE m == Cardinality(kept)
             n == Cardinality(due)
  <2>1. PICK found : ReqBecomes(q, [r EXCEPT !.pc = "bulk", !.count = m, !.due = n, !.found = found])
    BY <1>6
  <2> DEFINE x == [r EXCEPT !.pc = "bulk", !.count = m, !.due = n, !.found = found]
  <2>2. kept = due => m = n
    OBVIOUS
  <2>3. kept \in SUBSET Nat /\ counted[b] \in SUBSET Nat /\ \A s : s \in due <=> s \in counted[b] \cup {t} /\ t - r.cfg.window <= s /\ s <= t
    BY <1>2, <1>3 DEF CountInv, CountTypeOK
  <2>4. promptly[b] /\ now <= t + Grace /\ (\A s \in counted[b] : s <= t) /\ r.cfg.window = config.window
          => kept = due
    BY <1>2, <1>3, WindowIsDue DEF CountInv
  <2> HIDE DEF m, n
  <2>5. ReqBecomes(q, x) /\ x.pc = "bulk" /\ x.buyer = b /\ x.count = m /\ x.due = n
    BY <1>2, <2>1
  <2> HIDE DEF x, kept, due
  <2>6. req'[q] = x /\ \A p \in Requests \ {q} : req'[p] = req[p]
    BY <2>5, TypeParts, BecomesOne DEF ReqsOK
  <2>7. /\ window'[b] = kept /\ counted'[b] = counted[b] \cup {t}
        /\ expires'[b] = now + r.cfg.window + Grace
        /\ promptly'[b] => /\ kept = due /\ r.cfg.window = config.window
                           /\ \A s \in counted[b] : s <= t
        /\ \A o \in Buyers \ {b} : /\ window'[o] = window[o] /\ counted'[o] = counted[o]
                                   /\ expires'[o] = expires[o] /\ promptly'[o] = promptly[o]
    BY <1>2, <1>6, <2>4 DEF CountInv, CountTypeOK, KeyExpiry
  <2>8. CountTypeOK'
    <3>1. KeyExpiry(r.cfg) \in Nat
      BY <1>3 DEF KeyExpiry
    <3>2. promptly' \in [Buyers -> BOOLEAN]
      BY <1>6 DEF CountInv, CountTypeOK
    <3>3. /\ window' \in [Buyers -> SUBSET Nat] /\ counted' \in [Buyers -> SUBSET Nat]
          /\ expires' \in [Buyers -> Nat]
      BY <1>3, <1>6, <2>3, <3>1 DEF CountInv, CountTypeOK
    <3> QED BY <1>1, <3>2, <3>3 DEF CountInv, CountTypeOK
  <2>9. ASSUME NEW o \in Buyers, promptly'[o] PROVE SetExact(o)'
    <3>1. CASE o # b
      BY <1>1, <2>7, <2>9, <3>1 DEF CountInv, SetExact
    <3>2. CASE o = b
      <4>1. kept = due /\ r.cfg.window = config.window /\ \A s \in counted[b] : s <= t
        BY <2>7, <2>9, <3>2
      <4>2. \A s \in counted'[b] : s \in Nat /\ s <= t
        BY <1>3, <2>3, <2>7, <4>1
      <4>3. window'[b] \subseteq counted'[b]
        BY <2>3, <2>7, <4>1
      <4>4. \A s \in counted'[b] : s + config'.window + Grace <= expires'[b]
        BY <1>1, <1>3, <2>7, <4>1, <4>2
      <4>5. ASSUME NEW s \in counted'[b], \A u \in counted'[b] : u <= s + config'.window PROVE s \in window'[b]
        <5>1. t <= s + r.cfg.window /\ s \in Nat /\ s <= t /\ s \in counted[b] \cup {t}
          BY <1>1, <2>7, <4>1, <4>2, <4>5
        <5>2. t - r.cfg.window <= s
          BY <1>3, <5>1
        <5> QED BY <2>3, <2>7, <4>1, <5>1, <5>2
      <4> QED BY <3>2, <4>3, <4>4, <4>5 DEF SetExact
    <3> QED BY <3>1, <3>2
  <2>10. \A p \in Requests : req'[p].pc \in EarlyLabels => req'[p].count = req'[p].due
    BY <2>5, <2>6 DEF CountInv, EarlyLabels
  <2>11. ASSUME NEW p \in Requests, req'[p].pc = "bulk", promptly'[req'[p].buyer] PROVE req'[p].count = req'[p].due
    <3>1. CASE p = q
      BY <2>2, <2>5, <2>6, <2>7, <2>11, <3>1
    <3>2. CASE p # q
      <4>1. req'[p] = req[p] /\ req[p].buyer \in Buyers
        BY <2>6, <2>11, <3>2, ScoredBuyer DEF ScoringLabels
      <4>2. promptly[req[p].buyer]
        BY <1>2, <1>6, <2>11, <4>1 DEF CountInv, CountTypeOK
      <4> QED BY <2>11, <4>1, <4>2 DEF CountInv, VelocityExact
    <3> QED BY <3>1, <3>2
  <2> QED BY <1>4, <2>8, <2>9, <2>10, <2>11 DEF CountInv, VelocityExact
<1> QED BY <1>5, <1>6 DEF CountInRedis

LEMMA ScalpersScore == ASSUME TypeOK, ScoreInv, Scalpers PROVE ScoreInv'
<1>1. TypeOK /\ JustInv /\ CountInv /\ trusted \in [Requests -> BOOLEAN]
  BY DEF ScoreInv, CountInv, CountTypeOK
<1>2. JustInv'
  BY <1>1, ScalpersSound
<1>3. ASSUME \/ Tick
             \/ \E x \in Purchases : RecordPurchase(x)
             \/ \E c \in Configs : UpdateConfig(c)
             \/ \E b \in Buyers : AllowBuyer(b) \/ DisallowBuyer(b)
      PROVE  CountInv'
  BY <1>1, <1>3, StoreStepsCounted
<1>4. ASSUME NEW q \in Requests, NEW x \in Purchases, BeginScan(q, x) PROVE CountInv'
  BY <1>1, <1>4, BeginScanCounted
<1>5. ASSUME NEW q \in Requests,
             \/ ReadConfig(q) \/ ReadTransaction(q) \/ CheckAllowlist(q) \/ CountInPostgres(q)
             \/ CheckBulk(q) \/ CheckSweep(q) \/ CheckRepeat(q)
      PROVE  CountInv'
  BY <1>1, <1>5, StatementsCounted
<1>6. ASSUME NEW q \in Requests, CountInRedis(q) \/ RaiseScalper(q) PROVE CountInv'
  BY <1>1, <1>6, CountInRedisCounted, RaiseScalperCounted
<1>7. CountInv'
  BY <1>3, <1>4, <1>5, <1>6 DEF Scalpers, ScalperStep
<1> QED BY <1>2, <1>7 DEF ScoreInv

LEMMA ScoreInit == Init => ScoreInv
<1> SUFFICES ASSUME Init PROVE ScoreInv
  OBVIOUS
<1>1. /\ DOMAIN flags = {} /\ \A q \in Requests : req[q] = Idle
      /\ bought = [x \in Purchases |-> None]
      /\ window = [b \in Buyers |-> {}] /\ expires = [b \in Buyers |-> 0]
      /\ counted = [b \in Buyers |-> {}] /\ promptly = [b \in Buyers |-> TRUE]
      /\ trusted = [q \in Requests |-> FALSE]
  BY DEF Init, FlagInit, ScalperInit
<1>2. \A q \in Requests : req[q].pc \notin ScanLabels /\ req[q].pc \notin EarlyLabels \cup {"bulk"}
  BY <1>1 DEF Idle, ScanLabels, EarlyLabels
<1>3. CountInv
  BY <1>1, <1>2 DEF CountInv, CountTypeOK, SetExact, VelocityExact, Recorded
<1>4. JustInv
  <2> SUFFICES ASSUME NEW q \in Requests PROVE ScanSound(q)
    BY <1>1 DEF JustInv
  <2> QED BY <1>2 DEF ScanSound, Scoring, ScanLabels
<1> QED BY <1>3, <1>4 DEF ScoreInv

LEMMA ScoreSound == Spec => []ScoreInv
<1>1. Init => ScoreInv
  BY ScoreInit
<1>2. DeskInv /\ ScoreInv /\ [Next]_vars => ScoreInv'
  <2> SUFFICES ASSUME DeskInv, ScoreInv, [Next]_vars PROVE ScoreInv'
    OBVIOUS
  <2>1. TypeOK /\ AuditsDue /\ DisputesReal
    BY DEF DeskInv, TriageInv, DisputeInv
  <2>2. CASE UNCHANGED vars
    <3>1. UNCHANGED <<flags, req, scalperVars>>
      BY <2>2 DEF vars, flagVars
    <3> QED BY <3>1, ScoreKept DEF ScoreInv, JustInv
  <2> QED BY <2>1, <2>2, TriageScore, AnnounceScore, RegistryScore, ScalpersScore, StopScore DEF Next
<1> QED BY <1>1, <1>2, DeskSound, PTL DEF Spec

\* As long as the purchases of a buyer are scanned in the order in which they
\* occurred, none later than the minute that its key outlives the window, the
\* sorted set counts the seconds of the window that ends with the purchase: for any
\* number of buyers and scans, the set trimmed and expiring in between, the
\* configuration and the allow list changing (check_velocity).
THEOREM VelocityIsExact == Spec => []VelocityExact
<1>1. ScoreInv => VelocityExact
  BY DEF ScoreInv, CountInv
<1> QED BY <1>1, ScoreSound, PTL

\* No scan scores a purchase without a buyer, or of one who has been on the allow
\* list since before it began; and a flag, which keeps what it was raised with
\* through every triage, has a reason and is critical exactly if one of its
\* patterns is three times its limit, unless that overflows the i32
\* (score_transaction, ScalperPattern::severity).
THEOREM FlagsAreJustified == Spec => []FlagsJustified
<1>1. ScoreInv => FlagsJustified
  BY DEF ScoreInv, JustInv, ScanSound, Justified, FlagsJustified
<1> QED BY <1>1, ScoreSound, PTL
=============================================================================
