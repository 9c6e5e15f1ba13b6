-------------------------- MODULE PosLedgerProofs --------------------------
(***************************************************************************)
(* Theorems about PosLedger, for every set of runs, requests, sales, lines *)
(* and SKUs, and every bound.                                              *)
(***************************************************************************)
EXTENDS PosLedger, TLAPS

-----------------------------------------------------------------------------
(* Type correctness.  TypeOK alone is not inductive: a backfill writes the *)
(* printing and the mapping id that its request was made with.             *)

TypeInv == TypeOK /\ InProgressTyped

TypedRun(x) ==
    /\ x \in RunType
    /\ x.pc = "insert" => x.sale \in Sales
    /\ x.pc \in {"queue", "write", "charge"} => x.line \in Lines

TypedAdmin(x) ==
    /\ x \in AdminType
    /\ x.pc # "idle" => x.sku \in Skus /\ x.id \in Nat /\ x.new \in Printings

LEMMA StateTyped ==
    ASSUME TypeInv
    PROVE  /\ \A r \in Runs : TypedRun(run[r])
           /\ \A a \in Admins : TypedAdmin(admin[a])
  BY DEF TypeInv, TypeOK, InProgressTyped, TypedRun, TypedAdmin

LEMMA IdleTyped == TypedRun(IdleRun) /\ TypedAdmin(IdleAdmin)
  BY DEF TypedRun, TypedAdmin, IdleRun, IdleAdmin, RunType, AdminType

\* A step of one run leaves every run typed if its new state is.
LEMMA RunBecomesTyped ==
    ASSUME TypeInv, NEW r \in Runs, NEW x, TypedRun(x), RunBecomes(r, x)
    PROVE  /\ run' \in [Runs -> RunType]
           /\ \A q \in Runs : TypedRun(run'[q])
<1>1. run' \in [Runs -> RunType]
  BY DEF TypeInv, TypeOK, TypedRun, RunBecomes
<1>2. ASSUME NEW q \in Runs PROVE TypedRun(run'[q])
  <2>1. CASE q = r
    <3>1. run'[q] = x
      BY <2>1 DEF TypeInv, TypeOK, RunBecomes
    <3> QED BY <3>1
  <2>2. CASE q # r
    <3>1. run'[q] = run[q]
      BY <2>2 DEF TypeInv, TypeOK, RunBecomes
    <3> QED BY <3>1, StateTyped
  <2> QED BY <2>1, <2>2
<1> QED BY <1>1, <1>2

LEMMA AdminBecomesTyped ==
    ASSUME TypeInv, NEW a \in Admins, NEW x, TypedAdmin(x), AdminBecomes(a, x)
    PROVE  /\ admin' \in [Admins -> AdminType]
           /\ \A b \in Admins : TypedAdmin(admin'[b])
<1>1. admin' \in [Admins -> AdminType]
  BY DEF TypeInv, TypeOK, TypedAdmin, AdminBecomes
<1>2. ASSUME NEW b \in Admins PROVE TypedAdmin(admin'[b])
  <2>1. CASE b = a
    <3>1. admin'[b] = x
      BY <2>1 DEF TypeInv, TypeOK, AdminBecomes
    <3> QED BY <3>1
  <2>2. CASE b # a
    <3>1. admin'[b] = admin[b]
      BY <2>2 DEF TypeInv, TypeOK, AdminBecomes
    <3> QED BY <3>1, StateTyped
  <2> QED BY <2>1, <2>2
<1> QED BY <1>1, <1>2

LEMMA AddToChargeTyped ==
    ASSUME TypeInv, NEW p, NEW ks, NEW n \in Int, AddToCharge(p, ks, n)
    PROVE  charge' \in [Printings -> [RowKeys -> Int]]
<1>1. charge \in [Printings -> [RowKeys -> Int]]
  BY DEF TypeInv, TypeOK
<1>2. ASSUME NEW q \in Printings PROVE charge'[q] \in [RowKeys -> Int]
  BY <1>1, <1>2 DEF AddToCharge
<1> QED BY <1>1, <1>2 DEF AddToCharge

LEMMA LineDoneTyped ==
    ASSUME NEW r, TypedRun(run[r]), NEW todo \in SUBSET Lines
    PROVE  TypedRun(LineDone(r, todo))
  BY DEF LineDone, TypedRun, RunType

\* The rest of the type invariant, for a step that is described by the new
\* values of the tables and by TypedRun and TypedAdmin of all that is in progress.
LEMMA TypeInvIntro ==
    ASSUME made' \subseteq Sales, behind' \subseteq Sales, unseen' \subseteq Sales,
           txns' \subseteq [sale : Sales, by : Runs],
           lines' \in [RowKeys -> LineRow \cup {None}],
           mappings' \in [Skus -> MappingRow \cup {None}],
           queued' \subseteq Skus,
           charge' \in [Printings -> [RowKeys -> Int]],
           run' \in [Runs -> RunType], admin' \in [Admins -> AdminType],
           requests' \in Nat, stops' \in Nat,
           \A r \in Runs : TypedRun(run'[r]),
           \A a \in Admins : TypedAdmin(admin'[a])
    PROVE  TypeInv'
  BY DEF TypeInv, TypeOK, InProgressTyped, TypedRun, TypedAdmin

LEMMA TypeInvStep == TypeInv /\ [Next]_vars => TypeInv'
<1> SUFFICES ASSUME TypeInv, [Next]_vars PROVE TypeInv'
  OBVIOUS
<1> USE ConstantsAssumption
<1>t. TypeOK
  BY DEF TypeInv
<1>r. \A r \in Runs : run[r] \in RunType /\ TypedRun(run[r])
  BY StateTyped, <1>t DEF TypeOK
<1>a. \A a \in Admins : admin[a] \in AdminType /\ TypedAdmin(admin[a])
  BY StateTyped, <1>t DEF TypeOK
<1>s. made \in SUBSET Sales /\ behind \in SUBSET Sales /\ requests + 1 \in Nat
  BY <1>t DEF TypeOK
<1>1. ASSUME NEW s \in Sales, MakeSale(s) PROVE TypeInv'
  BY <1>1, <1>t, <1>r, <1>a, TypeInvIntro DEF MakeSale, TypeOK
<1>2. ASSUME NEW r \in Runs, BeginRun(r) PROVE TypeInv'
  <2>1. TypedRun([run[r] EXCEPT !.pc = "fetch", !.since = behind])
    BY <1>s, <1>r DEF TypedRun, RunType
  <2> QED BY <1>2, <2>1, RunBecomesTyped, <1>t, <1>a, TypeInvIntro DEF BeginRun, TypeOK, rows
<1>3. ASSUME NEW r \in Runs, GetSales(r) PROVE TypeInv'
  <2> DEFINE there == made \ run[r].since
             x(sales) == [run[r] EXCEPT !.pc = "pick", !.since = {}, !.batch = sales]
  <2>1. PICK sales \in {there, {}} :
          RunBecomes(r, x(sales)) /\ unseen' = unseen \cup (there \ sales)
    BY <1>3 DEF GetSales
  <2>2. sales \in SUBSET Sales /\ there \subseteq Sales
    BY <1>s
  <2>3. TypedRun(x(sales))
    BY <2>2, <1>r DEF TypedRun, RunType
  <2>4. unseen' \subseteq Sales
    BY <2>1, <2>2, <1>t DEF TypeOK
  <2>5. UNCHANGED <<rows, admin, requests, stops>>
    BY <1>3 DEF GetSales
  <2> HIDE DEF x, there
  <2> QED BY <2>1, <2>3, <2>4, <2>5, RunBecomesTyped, <1>t, <1>a, TypeInvIntro DEF TypeOK, rows
<1>4. ASSUME NEW r \in Runs, PickSale(r) PROVE TypeInv'
  <2> DEFINE x(s) == [run[r] EXCEPT !.batch = @ \ {s},
                                    !.pc = IF s \in Recorded THEN "pick" ELSE "insert",
                                    !.sale = IF s \in Recorded THEN None ELSE s]
  <2>1. PICK s \in run[r].batch : RunBecomes(r, x(s))
    BY <1>4 DEF PickSale
  <2>2. s \in Sales /\ run[r].batch \ {s} \in SUBSET Sales
    BY <1>r DEF RunType
  <2>3. ASSUME s \in Recorded PROVE TypedRun(x(s))
    BY <2>2, <2>3, <1>r DEF TypedRun, RunType
  <2>4. ASSUME s \notin Recorded PROVE TypedRun(x(s))
    BY <2>2, <2>4, <1>r DEF TypedRun, RunType
  <2>5. TypedRun(x(s))
    BY <2>3, <2>4
  <2> HIDE DEF x
  <2> QED BY <1>4, <2>1, <2>5, RunBecomesTyped, <1>t, <1>a, TypeInvIntro DEF PickSale, TypeOK, rows
<1>5. ASSUME NEW r \in Runs, InsertTxn(r) PROVE TypeInv'
  <2>1. TypedRun(LineDone(r, LinesOf(run[r].sale)))
    BY <1>r, LineDoneTyped DEF LinesOf
  <2>2. txns' \subseteq [sale : Sales, by : Runs]
    BY <1>5, <1>t, <1>r DEF InsertTxn, TypeOK, TypedRun
  <2> QED BY <1>5, <2>1, <2>2, RunBecomesTyped, <1>t, <1>a, TypeInvIntro DEF InsertTxn, TypeOK
<1>6. ASSUME NEW r \in Runs, InsertTxnRejected(r) PROVE TypeInv'
  BY <1>6, IdleTyped, RunBecomesTyped, <1>t, <1>a, TypeInvIntro
     DEF InsertTxnRejected, TypeOK, rows
<1>7. ASSUME NEW r \in Runs, FindMapping(r) PROVE TypeInv'
  <2> DEFINE m(l) == mappings[SkuOf[l]]
  <2> DEFINE x(l) == [run[r] EXCEPT !.pc = AfterLookup(m(l)), !.todo = @ \ {l},
                                    !.line = l, !.found = m(l)]
  <2>1. PICK l \in run[r].todo : RunBecomes(r, x(l))
    BY <1>7 DEF FindMapping
  <2>2. l \in Lines /\ m(l) \in MappingRow \cup {None}
    BY <1>t, <1>r DEF RunType, TypeOK
  <2>3. AfterLookup(m(l)) \in {"queue", "write"}
    BY DEF AfterLookup
  <2> HIDE DEF m
  <2>4. TypedRun(x(l))
    BY <1>r, <2>2, <2>3 DEF TypedRun, RunType
  <2> HIDE DEF x
  <2> QED BY <1>7, <2>1, <2>4, RunBecomesTyped, <1>t, <1>a, TypeInvIntro
             DEF FindMapping, TypeOK, rows
<1>8. ASSUME NEW r \in Runs, QueueUnmapped(r) PROVE TypeInv'
  <2>1. TypedRun([run[r] EXCEPT !.pc = "write"])
    BY <1>8, <1>r DEF TypedRun, RunType, QueueUnmapped
  <2>2. queued' \subseteq Skus
    BY <1>8, <1>t, <1>r DEF QueueUnmapped, TypeOK, TypedRun
  <2> QED BY <1>8, <2>1, <2>2, RunBecomesTyped, <1>t, <1>a, TypeInvIntro
             DEF QueueUnmapped, TypeOK
<1>9. ASSUME NEW r \in Runs, InsertLine(r) PROVE TypeInv'
  <2>1. TypedRun(LineDone(r, run[r].todo))
    BY <1>r, LineDoneTyped DEF RunType
  <2>2. TypedRun([run[r] EXCEPT !.pc = "charge"])
    BY <1>9, <1>r DEF TypedRun, RunType, InsertLine
  <2>3. TypedRun(LineWritten(r))
    BY <2>1, <2>2 DEF LineWritten
  <2>4. (IF run[r].found = None THEN UnmappedLine
         ELSE [printing |-> run[r].found.printing, mapping |-> run[r].found.id]) \in LineRow
    BY <1>r DEF RunType, LineRow, MappingRow
  <2>5. lines' \in [RowKeys -> LineRow \cup {None}]
    BY <1>9, <1>t, <2>4 DEF InsertLine, TypeOK
  <2> QED BY <1>9, <2>3, <2>5, RunBecomesTyped, <1>t, <1>a, TypeInvIntro DEF InsertLine, TypeOK
<1>10. ASSUME NEW r \in Runs, InsertLineRejected(r) PROVE TypeInv'
  BY <1>10, IdleTyped, RunBecomesTyped, <1>t, <1>a, TypeInvIntro
     DEF InsertLineRejected, TypeOK, rows
<1>11. ASSUME NEW r \in Runs, ChargeLine(r) PROVE TypeInv'
  <2>1. TypedRun(LineDone(r, run[r].todo))
    BY <1>r, LineDoneTyped DEF RunType
  <2>2. charge' \in [Printings -> [RowKeys -> Int]]
    BY <1>11, AddToChargeTyped DEF ChargeLine
  <2> QED BY <1>11, <2>1, <2>2, RunBecomesTyped, <1>t, <1>a, TypeInvIntro DEF ChargeLine, TypeOK
<1>12. ASSUME NEW r \in Runs, AdvanceWatermark(r) PROVE TypeInv'
  <2>1. TypedRun([IdleRun EXCEPT !.pc = "diff"])
    BY DEF TypedRun, RunType, IdleRun
  <2>2. TypedRun(IF Pulls THEN [IdleRun EXCEPT !.pc = "diff"] ELSE IdleRun)
    BY <2>1, IdleTyped
  <2> QED BY <1>12, <2>2, RunBecomesTyped, <1>t, <1>a, TypeInvIntro
             DEF AdvanceWatermark, TypeOK
<1>13. ASSUME NEW r \in Runs, ReadMappings(r) PROVE TypeInv'
  <2> DEFINE u(inventory) == {k \in inventory : mappings[k] = None}
  <2> DEFINE x(inventory) ==
        IF u(inventory) = {} THEN IdleRun
        ELSE [run[r] EXCEPT !.pc = "list", !.skus = u(inventory)]
  <2>1. PICK inventory \in SUBSET Skus : RunBecomes(r, x(inventory))
    BY <1>13 DEF ReadMappings
  <2>2. u(inventory) \subseteq Skus
    OBVIOUS
  <2> HIDE DEF u
  <2>3. TypedRun([run[r] EXCEPT !.pc = "list", !.skus = u(inventory)])
    BY <1>r, <2>2 DEF TypedRun, RunType
  <2>4. TypedRun(x(inventory))
    BY <2>3, IdleTyped
  <2> HIDE DEF x
  <2> QED BY <1>13, <2>1, <2>4, RunBecomesTyped, <1>t, <1>a, TypeInvIntro
             DEF ReadMappings, TypeOK, rows
<1>14. ASSUME NEW r \in Runs, QueueItem(r) PROVE TypeInv'
  <2> DEFINE x(k) == IF run[r].skus = {k} THEN IdleRun
                     ELSE [run[r] EXCEPT !.skus = @ \ {k}]
  <2>1. PICK k \in run[r].skus : queued' = queued \cup {k} /\ RunBecomes(r, x(k))
    BY <1>14 DEF QueueItem
  <2>2. queued' \subseteq Skus
    BY <1>t, <1>r, <2>1 DEF TypeOK, RunType
  <2>3. TypedRun([run[r] EXCEPT !.skus = @ \ {k}])
    BY <1>r DEF TypedRun, RunType
  <2>4. TypedRun(x(k))
    BY <2>3, IdleTyped
  <2> HIDE DEF x
  <2> QED BY <1>14, <2>1, <2>2, <2>4, RunBecomesTyped, <1>t, <1>a, TypeInvIntro
             DEF QueueItem, TypeOK
<1>15. ASSUME NEW r \in Runs, StopRun(r) PROVE TypeInv'
  BY <1>15, IdleTyped, RunBecomesTyped, <1>t, <1>a, TypeInvIntro DEF StopRun, TypeOK, rows
<1>16. ASSUME NEW a \in Admins, NEW k \in Skus, NEW p \in Printings, CreateMapping(a, k, p)
       PROVE TypeInv'
  <2>1. TypedAdmin([IdleAdmin EXCEPT !.pc = "fill", !.op = "create", !.sku = k,
                                     !.id = requests + 1, !.new = p])
    BY <1>s DEF TypedAdmin, AdminType, IdleAdmin
  <2>2. mappings' \in [Skus -> MappingRow \cup {None}]
    BY <1>16, <1>t DEF CreateMapping, TypeOK, MappingRow
  <2>3. requests' \in Nat
    BY <1>16, <1>t DEF CreateMapping, MayRequest, TypeOK
  <2> QED BY <1>16, <2>1, <2>2, <2>3, AdminBecomesTyped, <1>t, <1>r, TypeInvIntro
             DEF CreateMapping, TypeOK
<1>17. ASSUME NEW a \in Admins, NEW k \in Skus, NEW p \in Printings, ReadMapping(a, k, p)
       PROVE TypeInv'
  <2>1. mappings[k] \in MappingRow
    BY <1>17, <1>t DEF ReadMapping, TypeOK
  <2>2. TypedAdmin([IdleAdmin EXCEPT !.pc = "reversible", !.op = "update", !.sku = k,
                                     !.id = mappings[k].id, !.old = mappings[k].printing,
                                     !.new = p])
    BY <2>1 DEF TypedAdmin, AdminType, IdleAdmin, MappingRow
  <2>3. requests' \in Nat
    BY <1>17, <1>t DEF ReadMapping, MayRequest, TypeOK
  <2> QED BY <1>17, <2>2, <2>3, AdminBecomesTyped, <1>t, <1>r, TypeInvIntro
             DEF ReadMapping, TypeOK, rows
<1>18. ASSUME NEW a \in Admins, NEW k \in Skus, DeleteMapping(a, k) PROVE TypeInv'
  <2>1. mappings' \in [Skus -> MappingRow \cup {None}]
    BY <1>18, <1>t DEF DeleteMapping, TypeOK
  <2>2. requests' \in Nat
    BY <1>18, <1>t DEF DeleteMapping, MayRequest, TypeOK
  <2> QED BY <1>18, <2>1, <2>2, <1>t, <1>r, <1>a, TypeInvIntro DEF DeleteMapping, TypeOK
<1>19. ASSUME NEW a \in Admins, SumReversible(a) PROVE TypeInv'
  <2> DEFINE ks == {k \in RowKeys : Posted(k) /\ lines[k].mapping = admin[a].id}
  <2> DEFINE x == [admin[a] EXCEPT !.sum = ks, !.pc = IF ks = {} THEN "remap" ELSE "reverse"]
  <2>1. AdminBecomes(a, x)
    BY <1>19 DEF SumReversible
  <2>2. ks \subseteq RowKeys
    OBVIOUS
  <2>3. admin[a].pc # "idle"
    BY <1>19 DEF SumReversible
  <2> HIDE DEF ks
  <2>4. TypedAdmin(x)
    BY <1>a, <2>2, <2>3 DEF TypedAdmin, AdminType
  <2> HIDE DEF x
  <2> QED BY <1>19, <2>1, <2>4, AdminBecomesTyped, <1>t, <1>r, TypeInvIntro
             DEF SumReversible, TypeOK, rows
<1>20. ASSUME NEW a \in Admins, Reverse(a) PROVE TypeInv'
  <2>1. TypedAdmin([admin[a] EXCEPT !.pc = "remap", !.sum = {}])
    BY <1>20, <1>a DEF TypedAdmin, AdminType, Reverse
  <2>2. charge' \in [Printings -> [RowKeys -> Int]]
    BY <1>20, AddToChargeTyped DEF Reverse
  <2> QED BY <1>20, <2>1, <2>2, AdminBecomesTyped, <1>t, <1>r, TypeInvIntro DEF Reverse, TypeOK
<1>21. ASSUME NEW a \in Admins, Remap(a) PROVE TypeInv'
  <2>1. TypedAdmin([admin[a] EXCEPT !.pc = "fill", !.old = None])
    BY <1>21, <1>a DEF TypedAdmin, AdminType, Remap
  <2>2. admin[a].new \in Printings
    BY <1>21, <1>a DEF TypedAdmin, Remap
  <2>3. ASSUME NEW k \in Skus, mappings[k] # None
        PROVE [mappings[k] EXCEPT !.printing = admin[a].new] \in MappingRow
    BY <1>t, <2>2, <2>3 DEF TypeOK, MappingRow
  <2>4. mappings' \in [Skus -> MappingRow \cup {None}]
    BY <1>21, <1>t, <2>3 DEF Remap, TypeOK
  <2>5. CASE AdminBecomes(a, [admin[a] EXCEPT !.pc = "fill", !.old = None])
    BY <1>21, <2>1, <2>4, <2>5, AdminBecomesTyped, <1>t, <1>r, TypeInvIntro DEF Remap, TypeOK
  <2>6. CASE AdminBecomes(a, IdleAdmin)
    BY <1>21, IdleTyped, <2>4, <2>6, AdminBecomesTyped, <1>t, <1>r, TypeInvIntro
       DEF Remap, TypeOK
  <2> QED BY <1>21, <2>5, <2>6 DEF Remap
<1>22. ASSUME NEW a \in Admins, FillLines(a) PROVE TypeInv'
  <2>1. TypedAdmin([admin[a] EXCEPT !.pc = "sum"])
    BY <1>22, <1>a DEF TypedAdmin, AdminType, FillLines
  <2>2. FilledLine(a) \in LineRow
    BY <1>22, <1>a DEF TypedAdmin, FillLines, FilledLine, LineRow
  <2>3. lines' \in [RowKeys -> LineRow \cup {None}]
    BY <1>22, <1>t, <2>2 DEF FillLines, TypeOK
  <2>4. CASE AdminBecomes(a, [admin[a] EXCEPT !.pc = "sum"])
    BY <1>22, <2>1, <2>3, <2>4, AdminBecomesTyped, <1>t, <1>r, TypeInvIntro
       DEF FillLines, TypeOK
  <2>5. CASE AdminBecomes(a, IdleAdmin)
    BY <1>22, IdleTyped, <2>3, <2>5, AdminBecomesTyped, <1>t, <1>r, TypeInvIntro
       DEF FillLines, TypeOK
  <2> QED BY <1>22, <2>4, <2>5 DEF FillLines
<1>b. ASSUME NEW a \in Admins, admin[a].pc # "idle" PROVE TypedAdmin(AfterBackfill(a))
  <2>1. TypedAdmin([admin[a] EXCEPT !.pc = "unqueue", !.sum = {}])
    BY <1>a, <1>b DEF TypedAdmin, AdminType
  <2> QED BY <2>1, IdleTyped DEF AfterBackfill
<1>23. ASSUME NEW a \in Admins, SumLines(a) PROVE TypeInv'
  <2> DEFINE ks == LinesToCharge(admin[a].sku, admin[a].new)
  <2> DEFINE x == IF ks = {} THEN AfterBackfill(a)
                             ELSE [admin[a] EXCEPT !.pc = "post", !.sum = ks]
  <2>1. AdminBecomes(a, x) /\ admin[a].pc # "idle"
    BY <1>23 DEF SumLines
  <2>2. ks \subseteq RowKeys
    BY DEF LinesToCharge
  <2> HIDE DEF ks
  <2>3. TypedAdmin([admin[a] EXCEPT !.pc = "post", !.sum = ks])
    BY <1>a, <2>1, <2>2 DEF TypedAdmin, AdminType
  <2>4. TypedAdmin(x)
    BY <2>1, <2>3, <1>b
  <2> HIDE DEF x
  <2> QED BY <1>23, <2>1, <2>4, AdminBecomesTyped, <1>t, <1>r, TypeInvIntro
             DEF SumLines, TypeOK, rows
<1>24. ASSUME NEW a \in Admins, PostSum(a) PROVE TypeInv'
  <2>1. TypedAdmin(AfterBackfill(a))
    BY <1>24, <1>b DEF PostSum
  <2>2. charge' \in [Printings -> [RowKeys -> Int]]
    BY <1>24, AddToChargeTyped DEF PostSum
  <2> QED BY <1>24, <2>1, <2>2, AdminBecomesTyped, <1>t, <1>r, TypeInvIntro DEF PostSum, TypeOK
<1>25. ASSUME NEW a \in Admins, Unqueue(a) PROVE TypeInv'
  BY <1>25, IdleTyped, AdminBecomesTyped, <1>t, <1>r, TypeInvIntro DEF Unqueue, TypeOK
<1>26. ASSUME NEW a \in Admins, StopAdmin(a) PROVE TypeInv'
  BY <1>26, IdleTyped, AdminBecomesTyped, <1>t, <1>r, TypeInvIntro DEF StopAdmin, TypeOK, rows
<1>27. CASE UNCHANGED vars
  BY <1>27, <1>t, <1>r, <1>a, TypeInvIntro DEF vars, TypeOK
<1> QED BY <1>1, <1>2, <1>3, <1>4, <1>5, <1>6, <1>7, <1>8, <1>9, <1>10, <1>11, <1>12, <1>13,
           <1>14, <1>15, <1>16, <1>17, <1>18, <1>19, <1>20, <1>21, <1>22, <1>23, <1>24,
           <1>25, <1>26, <1>27 DEF Next, RunStep, AdminStep, Request

\* Every row of the ledger's tables, and the program state of every run and
\* mapping request, keeps its type.
THEOREM TypeCorrect == Spec => []TypeOK
<1>1. Init => TypeInv
  BY ConstantsAssumption
     DEF Init, TypeInv, TypeOK, InProgressTyped, RunType, AdminType, IdleRun, IdleAdmin
<1>2. TypeInv => TypeOK
  BY DEF TypeInv
<1> QED BY <1>1, <1>2, TypeInvStep, PTL DEF Spec

-----------------------------------------------------------------------------
(* Lines are posted once.  The argument: the UNIQUE constraint gives every *)
(* sale one transaction, only the run that inserted it posts its lines,    *)
(* and that run takes each line out of its list before it writes it.       *)

PostingInv == OneTxnPerSale /\ RunsOwnTheirSale /\ LinesPostedOnce

LEMMA NewStateOfRun ==
    ASSUME TypeInv, NEW r \in Runs, NEW x, RunBecomes(r, x)
    PROVE  run'[r] = x /\ \A q \in Runs : q # r => run'[q] = run[q]
  BY DEF TypeInv, TypeOK, RunBecomes

LEMMA RowsRecorded ==
    ASSUME PostingInv, NEW l \in Lines, NEW r \in Runs, Posted(<<l, r>>)
    PROVE  [sale |-> SaleOf[l], by |-> r] \in txns /\ SaleOf[l] \in Recorded
<1>1. [sale |-> SaleOf[l], by |-> r] \in txns
  BY DEF PostingInv, LinesPostedOnce
<1> QED BY <1>1 DEF Recorded

\* A run that is not touched keeps its sale, whatever other runs write.
LEMMA OwnershipKept ==
    ASSUME TypeInv, NEW r \in Runs, OwnsItsSale(r), run'[r] = run[r], txns \subseteq txns',
           \A l \in Lines : Posted(<<l, r>>)' <=> Posted(<<l, r>>)
    PROVE  OwnsItsSale(r)'
<1>1. run[r] \in RunType /\ TypedRun(run[r])
  BY StateTyped DEF TypedRun
<1> QED BY <1>1 DEF OwnsItsSale, InSale, RunType, TypedRun

\* A step that inserts neither a transaction nor a line keeps the invariant, if
\* the run that takes it is outside a sale afterwards or still owns its sale.
LEMMA RunStepKeepsPosting ==
    ASSUME TypeInv, PostingInv, NEW r \in Runs, NEW x, RunBecomes(r, x),
           txns' = txns, lines' = lines, OwnsItsSale(r)'
    PROVE  PostingInv'
<1>1. ASSUME NEW q \in Runs PROVE OwnsItsSale(q)'
  <2>1. CASE q = r
    BY <2>1
  <2>2. CASE q # r
    <3>1. run'[q] = run[q] /\ OwnsItsSale(q)
      BY <2>2, NewStateOfRun DEF PostingInv, RunsOwnTheirSale
    <3>2. \A l \in Lines : Posted(<<l, q>>)' <=> Posted(<<l, q>>)
      BY DEF Posted
    <3> QED BY <3>1, <3>2, OwnershipKept
  <2> QED BY <2>1, <2>2
<1> QED BY <1>1 DEF PostingInv, OneTxnPerSale, RunsOwnTheirSale, LinesPostedOnce, Posted

LEMMA OutsideSale ==
    ASSUME NEW r, run'[r].pc \in {"idle", "fetch", "pick", "insert", "diff", "list"}
    PROVE  OwnsItsSale(r)'
  BY DEF OwnsItsSale, InSale

\* After a line, the run goes on with the lines it has not reached.
LEMMA LineDoneOwned ==
    ASSUME NEW r, NEW todo, run[r] \in RunType, run'[r] = LineDone(r, todo),
           [sale |-> run[r].sale, by |-> r] \in txns',
           \A l \in todo : SaleOf[l] = run[r].sale /\ ~Posted(<<l, r>>)'
    PROVE  OwnsItsSale(r)'
<1>1. CASE todo = {}
  <2>1. run'[r].pc = "pick"
    BY <1>1 DEF LineDone, RunType
  <2> QED BY <2>1, OutsideSale
<1>2. CASE todo # {}
  <2>1. run'[r].pc = "line" /\ run'[r].todo = todo /\ run'[r].sale = run[r].sale
    BY <1>2 DEF LineDone, RunType
  <2> QED BY <2>1 DEF OwnsItsSale, InSale
<1> QED BY <1>1, <1>2

\* What the INSERT of a line and a backfill do to the set of rows.
LEMMA LinePosted ==
    ASSUME TypeInv, NEW r \in Runs, InsertLine(r), NEW k \in RowKeys
    PROVE  Posted(k)' <=> Posted(k) \/ k = <<run[r].line, r>>
<1> DEFINE m == run[r].found
<1> DEFINE row == IF m = None THEN UnmappedLine ELSE [printing |-> m.printing, mapping |-> m.id]
<1>1. lines' = [lines EXCEPT ![<<run[r].line, r>>] = row] /\ lines \in [RowKeys -> LineRow \cup {None}]
  BY DEF InsertLine, TypeInv, TypeOK
<1>2. row # None
  <2>1. m \in MappingRow \cup {None}
    BY StateTyped DEF TypedRun, RunType
  <2>2. row \in MappingRow \cup LineRow
    BY <2>1 DEF LineRow, MappingRow
  <2> QED BY <2>2, ConstantsAssumption
<1> HIDE DEF row
<1> QED BY <1>1, <1>2 DEF Posted

LEMMA FillKeepsPosted ==
    ASSUME TypeInv, NEW a \in Admins, FillLines(a)
    PROVE  \A k \in RowKeys : Posted(k)' <=> Posted(k)
<1> USE ConstantsAssumption
<1>1. FilledLine(a) # None
  <2>1. TypedAdmin(admin[a]) /\ admin[a].pc = "fill"
    BY StateTyped DEF FillLines
  <2> QED BY <2>1 DEF FilledLine, TypedAdmin, LineRow
<1>2. ASSUME NEW k \in RowKeys PROVE Posted(k)' <=> Posted(k)
  <2>1. lines'[k] \in {lines[k], FilledLine(a)} /\ (lines'[k] # lines[k] => k \in Unresolved(admin[a].sku))
    BY DEF FillLines
  <2> QED BY <1>1, <2>1 DEF Posted, Unresolved
<1> QED BY <1>2

LEMMA PostingInvStep == TypeInv /\ PostingInv /\ [Next]_vars => PostingInv'
<1> SUFFICES ASSUME TypeInv, PostingInv, [Next]_vars PROVE PostingInv'
  OBVIOUS
<1> USE ConstantsAssumption
<1>r. \A r \in Runs : run[r] \in RunType /\ TypedRun(run[r]) /\ OwnsItsSale(r)
  BY StateTyped DEF TypedRun, PostingInv, RunsOwnTheirSale
<1>i. ASSUME NEW r \in Runs, RunBecomes(r, IdleRun), txns' = txns, lines' = lines
      PROVE  PostingInv'
  <2>1. OwnsItsSale(r)'
    BY <1>i, NewStateOfRun, OutsideSale DEF IdleRun
  <2> QED BY <1>i, <2>1, RunStepKeepsPosting
<1>u. ASSUME run' = run, txns' = txns, \A k \in RowKeys : Posted(k)' <=> Posted(k)
      PROVE  PostingInv'
  <2>1. \A l \in Lines, r \in Runs : Posted(<<l, r>>)' <=> Posted(<<l, r>>)
    BY <1>u DEF RowKeys
  <2>2. \A r \in Runs : OwnsItsSale(r)'
    BY <1>u, <1>r, <2>1, OwnershipKept
  <2> QED BY <1>u, <2>1, <2>2 DEF PostingInv, OneTxnPerSale, RunsOwnTheirSale, LinesPostedOnce
<1>v. ASSUME run' = run, txns' = txns, lines' = lines PROVE PostingInv'
  BY <1>u, <1>v DEF Posted
<1>1. ASSUME NEW s \in Sales, MakeSale(s) PROVE PostingInv'
  BY <1>1, <1>v DEF MakeSale
<1>2. ASSUME NEW r \in Runs, BeginRun(r) PROVE PostingInv'
  <2> DEFINE x == [run[r] EXCEPT !.pc = "fetch", !.since = behind]
  <2>1. RunBecomes(r, x) /\ txns' = txns /\ lines' = lines
    BY <1>2 DEF BeginRun, rows
  <2>2. x.pc = "fetch"
    BY <1>r DEF RunType
  <2> HIDE DEF x
  <2> QED BY <2>1, <2>2, NewStateOfRun, OutsideSale, RunStepKeepsPosting
<1>3. ASSUME NEW r \in Runs, GetSales(r) PROVE PostingInv'
  <2>0. PICK sales \in {made \ run[r].since, {}} :
          RunBecomes(r, [run[r] EXCEPT !.pc = "pick", !.since = {}, !.batch = sales])
    BY <1>3 DEF GetSales
  <2> DEFINE x == [run[r] EXCEPT !.pc = "pick", !.since = {}, !.batch = sales]
  <2>1. RunBecomes(r, x) /\ txns' = txns /\ lines' = lines
    BY <1>3, <2>0 DEF GetSales, rows
  <2>2. x.pc = "pick"
    BY <1>r DEF RunType
  <2> HIDE DEF x
  <2> QED BY <2>1, <2>2, NewStateOfRun, OutsideSale, RunStepKeepsPosting
<1>4. ASSUME NEW r \in Runs, PickSale(r) PROVE PostingInv'
  <2> DEFINE x(s) == [run[r] EXCEPT !.batch = @ \ {s},
                                    !.pc = IF s \in Recorded THEN "pick" ELSE "insert",
                                    !.sale = IF s \in Recorded THEN None ELSE s]
  <2>1. PICK s \in run[r].batch : RunBecomes(r, x(s)) /\ txns' = txns /\ lines' = lines
    BY <1>4 DEF PickSale, rows
  <2>2. x(s).pc \in {"pick", "insert"}
    BY <1>r DEF RunType
  <2> HIDE DEF x
  <2> QED BY <2>1, <2>2, NewStateOfRun, OutsideSale, RunStepKeepsPosting
<1>5. ASSUME NEW r \in Runs, InsertTxn(r) PROVE PostingInv'
  <2> DEFINE s == run[r].sale
  <2>1. /\ s \notin Recorded
        /\ txns' = txns \cup {[sale |-> s, by |-> r]}
        /\ lines' = lines
        /\ RunBecomes(r, LineDone(r, LinesOf(s)))
    BY <1>5 DEF InsertTxn, KeyTaken
  <2>2. OneTxnPerSale'
    BY <2>1 DEF PostingInv, OneTxnPerSale, Recorded
  <2>3. ASSUME NEW l \in LinesOf(s) PROVE SaleOf[l] = s /\ ~Posted(<<l, r>>)'
    BY <2>1, <2>3, RowsRecorded DEF LinesOf, Posted
  <2>4. OwnsItsSale(r)'
    BY <2>1, <2>3, <1>r, NewStateOfRun, LineDoneOwned
  <2>5. ASSUME NEW q \in Runs, q # r PROVE OwnsItsSale(q)'
    BY <2>1, <2>5, <1>r, NewStateOfRun, OwnershipKept DEF Posted
  <2>6. LinesPostedOnce'
    BY <2>1 DEF PostingInv, LinesPostedOnce, Posted
  <2> QED BY <2>2, <2>4, <2>5, <2>6 DEF PostingInv, RunsOwnTheirSale
<1>6. ASSUME NEW r \in Runs, InsertTxnRejected(r) PROVE PostingInv'
  BY <1>6, <1>i DEF InsertTxnRejected, rows
<1>7. ASSUME NEW r \in Runs, FindMapping(r) PROVE PostingInv'
  <2> DEFINE m(l) == mappings[SkuOf[l]]
  <2> DEFINE x(l) == [run[r] EXCEPT !.pc = AfterLookup(m(l)), !.todo = @ \ {l},
                                    !.line = l, !.found = m(l)]
  <2>1. PICK l \in run[r].todo : RunBecomes(r, x(l)) /\ txns' = txns /\ lines' = lines
    BY <1>7 DEF FindMapping, rows
  <2>2. /\ x(l).line = l /\ x(l).todo = run[r].todo \ {l} /\ x(l).sale = run[r].sale
    BY <1>r DEF RunType
  <2>3. InSale(r)
    BY <1>7 DEF FindMapping, InSale
  <2>4. /\ [sale |-> run[r].sale, by |-> r] \in txns
        /\ \A n \in run[r].todo : SaleOf[n] = run[r].sale /\ ~Posted(<<n, r>>)
    BY <2>3, <1>r DEF OwnsItsSale
  <2> HIDE DEF x
  <2>5. run'[r] = x(l)
    BY <2>1, NewStateOfRun
  <2>6. OwnsItsSale(r)'
    BY <2>1, <2>2, <2>4, <2>5 DEF OwnsItsSale, InSale, Posted
  <2> QED BY <2>1, <2>6, RunStepKeepsPosting
<1>8. ASSUME NEW r \in Runs, QueueUnmapped(r) PROVE PostingInv'
  <2> DEFINE x == [run[r] EXCEPT !.pc = "write"]
  <2>1. RunBecomes(r, x) /\ txns' = txns /\ lines' = lines /\ run[r].pc = "queue"
    BY <1>8 DEF QueueUnmapped
  <2>2. x.line = run[r].line /\ x.todo = run[r].todo /\ x.sale = run[r].sale
    BY <1>r DEF RunType
  <2> HIDE DEF x
  <2>3. OwnsItsSale(r)'
    BY <2>1, <2>2, <1>r, NewStateOfRun DEF OwnsItsSale, InSale, Posted
  <2> QED BY <2>1, <2>3, RunStepKeepsPosting
<1>9. ASSUME NEW r \in Runs, InsertLine(r) PROVE PostingInv'
  <2> DEFINE line == run[r].line
  <2>1. /\ RunBecomes(r, LineWritten(r)) /\ txns' = txns /\ run[r].pc = "write"
        /\ line \in Lines
    BY <1>9, <1>r DEF InsertLine, TypedRun
  <2>2. \A k \in RowKeys : k # <<line, r>> => lines'[k] = lines[k]
    BY <1>9 DEF InsertLine, TypeInv, TypeOK
  <2>3. \A l \in Lines, q \in Runs : Posted(<<l, q>>)' => Posted(<<l, q>>) \/ <<l, q>> = <<line, r>>
    BY <2>2 DEF Posted, RowKeys
  <2>4. [sale |-> run[r].sale, by |-> r] \in txns /\ SaleOf[line] = run[r].sale
    BY <2>1, <1>r DEF OwnsItsSale, InSale
  <2>5. ASSUME NEW l \in Lines, NEW q \in Runs, Posted(<<l, q>>)'
        PROVE  [sale |-> SaleOf[l], by |-> q] \in txns
    BY <2>3, <2>4, <2>5, RowsRecorded
  <2>6. ASSUME NEW l \in Lines, NEW p \in Runs, NEW q \in Runs,
               [sale |-> SaleOf[l], by |-> p] \in txns, [sale |-> SaleOf[l], by |-> q] \in txns
        PROVE  p = q
    BY <2>6 DEF PostingInv, OneTxnPerSale
  <2>7. LinesPostedOnce'
    BY <2>1, <2>5, <2>6 DEF LinesPostedOnce
  <2>8. ASSUME NEW l \in run[r].todo PROVE SaleOf[l] = run[r].sale /\ ~Posted(<<l, r>>)'
    <3>1. InSale(r) /\ OwnsItsSale(r)
      BY <2>1, <1>r DEF InSale
    <3>2. SaleOf[l] = run[r].sale /\ ~Posted(<<l, r>>)
      BY <3>1 DEF OwnsItsSale
    <3>3. l # line
      BY <2>1, <3>1 DEF OwnsItsSale
    <3>4. l \in Lines
      BY <1>r DEF RunType
    <3> QED BY <3>2, <3>3, <3>4, <2>3
  <2>9. OwnsItsSale(r)'
    <3>1. CASE run[r].found = None
      BY <3>1, <2>1, <2>4, <2>8, <1>r, NewStateOfRun, LineDoneOwned DEF LineWritten
    <3>2. CASE run[r].found # None
      <4>1. run'[r] = [run[r] EXCEPT !.pc = "charge"]
        BY <3>2, <2>1, NewStateOfRun DEF LineWritten
      <4>2. /\ run'[r].pc = "charge" /\ run'[r].todo = run[r].todo
            /\ run'[r].sale = run[r].sale /\ run'[r].line = line
        BY <4>1, <1>r DEF RunType
      <4>3. line \notin run[r].todo
        BY <2>1, <1>r DEF OwnsItsSale
      <4> QED BY <4>2, <4>3, <2>1, <2>4, <2>8 DEF OwnsItsSale, InSale
    <3> QED BY <3>1, <3>2
  <2>10. ASSUME NEW q \in Runs, q # r PROVE OwnsItsSale(q)'
    <3>1. \A l \in Lines : Posted(<<l, q>>)' <=> Posted(<<l, q>>)
      BY <2>2, <2>10 DEF Posted, RowKeys
    <3> QED BY <3>1, <2>1, <2>10, <1>r, NewStateOfRun, OwnershipKept
  <2>11. OneTxnPerSale'
    BY <2>1 DEF PostingInv, OneTxnPerSale
  <2> QED BY <2>7, <2>9, <2>10, <2>11 DEF PostingInv, RunsOwnTheirSale
<1>10. ASSUME NEW r \in Runs, InsertLineRejected(r) PROVE PostingInv'
  BY <1>10, <1>i DEF InsertLineRejected, rows
<1>11. ASSUME NEW r \in Runs, ChargeLine(r) PROVE PostingInv'
  <2>1. /\ RunBecomes(r, LineDone(r, run[r].todo)) /\ txns' = txns /\ lines' = lines
        /\ run[r].pc = "charge"
    BY <1>11 DEF ChargeLine
  <2>2. /\ [sale |-> run[r].sale, by |-> r] \in txns
        /\ \A l \in run[r].todo : SaleOf[l] = run[r].sale /\ ~Posted(<<l, r>>)
    BY <2>1, <1>r DEF OwnsItsSale, InSale
  <2>3. OwnsItsSale(r)'
    BY <2>1, <2>2, <1>r, NewStateOfRun, LineDoneOwned DEF Posted
  <2> QED BY <2>1, <2>3, RunStepKeepsPosting
<1>12. ASSUME NEW r \in Runs, AdvanceWatermark(r) PROVE PostingInv'
  <2> DEFINE x == IF Pulls THEN [IdleRun EXCEPT !.pc = "diff"] ELSE IdleRun
  <2>1. RunBecomes(r, x) /\ txns' = txns /\ lines' = lines
    BY <1>12 DEF AdvanceWatermark
  <2>2. x.pc \in {"diff", "idle"}
    BY DEF IdleRun
  <2> HIDE DEF x
  <2> QED BY <2>1, <2>2, NewStateOfRun, OutsideSale, RunStepKeepsPosting
<1>13. ASSUME NEW r \in Runs, ReadMappings(r) PROVE PostingInv'
  <2> DEFINE u(inventory) == {k \in inventory : mappings[k] = None}
  <2> DEFINE x(inventory) ==
        IF u(inventory) = {} THEN IdleRun
        ELSE [run[r] EXCEPT !.pc = "list", !.skus = u(inventory)]
  <2>1. PICK inventory \in SUBSET Skus :
           RunBecomes(r, x(inventory)) /\ txns' = txns /\ lines' = lines
    BY <1>13 DEF ReadMappings, rows
  <2>2. x(inventory).pc \in {"idle", "list"}
    BY <1>r DEF RunType, IdleRun
  <2> HIDE DEF x
  <2> QED BY <2>1, <2>2, NewStateOfRun, OutsideSale, RunStepKeepsPosting
<1>14. ASSUME NEW r \in Runs, QueueItem(r) PROVE PostingInv'
  <2> DEFINE x(k) == IF run[r].skus = {k} THEN IdleRun
                     ELSE [run[r] EXCEPT !.skus = @ \ {k}]
  <2>1. PICK k \in run[r].skus : RunBecomes(r, x(k)) /\ txns' = txns /\ lines' = lines
    BY <1>14 DEF QueueItem
  <2>2. x(k).pc \in {"idle", "list"}
    BY <1>14, <1>r DEF RunType, IdleRun, QueueItem
  <2> HIDE DEF x
  <2> QED BY <2>1, <2>2, NewStateOfRun, OutsideSale, RunStepKeepsPosting
<1>15. ASSUME NEW r \in Runs, StopRun(r) PROVE PostingInv'
  BY <1>15, <1>i DEF StopRun, rows
<1>16. ASSUME NEW a \in Admins, Request(a) PROVE PostingInv'
  BY <1>16, <1>v DEF Request, CreateMapping, ReadMapping, DeleteMapping, rows
<1>17. ASSUME NEW a \in Admins, FillLines(a) PROVE PostingInv'
  BY <1>17, <1>u, FillKeepsPosted DEF FillLines
<1>18. ASSUME NEW a \in Admins, AdminStep(a), ~FillLines(a) PROVE PostingInv'
  BY <1>18, <1>v DEF AdminStep, SumReversible, Reverse, Remap, SumLines, PostSum, Unqueue, rows
<1>19. ASSUME NEW a \in Admins, StopAdmin(a) PROVE PostingInv'
  BY <1>19, <1>v DEF StopAdmin, rows
<1>20. CASE UNCHANGED vars
  BY <1>20, <1>v DEF vars
<1> QED BY <1>1, <1>2, <1>3, <1>4, <1>5, <1>6, <1>7, <1>8, <1>9, <1>10, <1>11, <1>12, <1>13,
           <1>14, <1>15, <1>16, <1>17, <1>18, <1>19, <1>20 DEF Next, RunStep

\* However many runs overlap, fail and are retried, each line of a sale is posted
\* at most once, under the sale's only transaction.
THEOREM PostedOnce == Spec => []LinesPostedOnce
<1>1. Init => TypeInv /\ PostingInv
  BY ConstantsAssumption
     DEF Init, TypeInv, TypeOK, InProgressTyped, RunType, AdminType, IdleRun, IdleAdmin,
         PostingInv, OneTxnPerSale, RunsOwnTheirSale, OwnsItsSale, InSale, LinesPostedOnce,
         Posted, RowKeys
<1>2. TypeInv /\ PostingInv /\ [Next]_vars => (TypeInv /\ PostingInv)'
  BY TypeInvStep, PostingInvStep
<1>3. TypeInv /\ PostingInv => LinesPostedOnce
  BY DEF PostingInv
<1> QED BY <1>1, <1>2, <1>3, PTL DEF Spec

-----------------------------------------------------------------------------
(* No sale is lost behind the watermark.  The argument: what a run reads   *)
(* as the watermark hides no unrecorded sale, so its batch has every sale  *)
(* made before the fetch, and the watermark advances only with the batch   *)
(* done.                                                                   *)

CoverInv == BatchesCoverSales /\ NoSaleMissed

\* A run keeps its cover when its batch is left alone and the ledger only grows.
LEMMA CoverKept ==
    ASSUME NEW r \in Runs, CoversSales(r), made' = made, txns \subseteq txns', unseen \subseteq unseen',
           run'[r].since = run[r].since, run'[r].batch = run[r].batch,
           Ingesting(r)' => Ingesting(r),
           run[r].pc = "insert" => run'[r].pc = run[r].pc /\ run'[r].sale = run[r].sale
    PROVE  CoversSales(r)'
  BY DEF CoversSales, Recorded

LEMMA RunStepKeepsCover ==
    ASSUME TypeInv, CoverInv, NEW r \in Runs, NEW x, RunBecomes(r, x),
           made' = made, behind' = behind, unseen \subseteq unseen', txns \subseteq txns', CoversSales(r)'
    PROVE  CoverInv'
<1>1. ASSUME NEW q \in Runs PROVE CoversSales(q)'
  <2>1. CASE q = r
    BY <2>1
  <2>2. CASE q # r
    <3>1. run'[q] = run[q] /\ CoversSales(q)
      BY <2>2, NewStateOfRun DEF CoverInv, BatchesCoverSales
    <3> QED BY <3>1, CoverKept DEF Ingesting
  <2> QED BY <2>1, <2>2
<1>2. Recorded \subseteq Recorded'
  BY DEF Recorded
<1> QED BY <1>1, <1>2 DEF CoverInv, BatchesCoverSales, NoSaleMissed

\* Outside ingestion nothing is covered but the watermark that was read.
LEMMA NotIngesting ==
    ASSUME NEW r, run'[r].pc \in {"idle", "fetch", "diff", "list"},
           run'[r].since \subseteq Recorded' \cup unseen'
    PROVE  CoversSales(r)'
  BY DEF CoversSales, Ingesting

LEMMA LineDoneCovers ==
    ASSUME NEW r, NEW todo, run[r] \in RunType, run'[r] = LineDone(r, todo)
    PROVE  /\ run'[r].since = run[r].since /\ run'[r].batch = run[r].batch
           /\ run'[r].pc \in {"pick", "line"}
  BY DEF LineDone, RunType

LEMMA CoverInvStep == TypeInv /\ CoverInv /\ [Next]_vars => CoverInv'
<1> SUFFICES ASSUME TypeInv, CoverInv, [Next]_vars PROVE CoverInv'
  OBVIOUS
<1> USE ConstantsAssumption
<1>r. \A r \in Runs : run[r] \in RunType /\ CoversSales(r)
  BY StateTyped DEF TypedRun, CoverInv, BatchesCoverSales
<1>i. ASSUME NEW r \in Runs, RunBecomes(r, IdleRun), made' = made, behind' = behind,
             unseen' = unseen, txns' = txns
      PROVE  CoverInv'
  <2>1. CoversSales(r)'
    BY <1>i, NewStateOfRun, NotIngesting DEF IdleRun
  <2> QED BY <1>i, <2>1, RunStepKeepsCover
<1>u. ASSUME run' = run, made' = made, behind' = behind, unseen' = unseen, txns' = txns
      PROVE  CoverInv'
  BY <1>u DEF CoverInv, BatchesCoverSales, CoversSales, Ingesting, NoSaleMissed, Recorded
<1>l. ASSUME NEW r \in Runs, NEW x, RunBecomes(r, x), made' = made, behind' = behind,
             unseen' = unseen, txns' = txns, run[r].pc \in {"line", "queue", "write", "charge"},
             x.since = run[r].since, x.batch = run[r].batch
      PROVE  CoverInv'
  <2>1. CoversSales(r)'
    BY <1>l, <1>r, NewStateOfRun, CoverKept DEF Ingesting
  <2> QED BY <1>l, <2>1, RunStepKeepsCover
<1>1. ASSUME NEW s \in Sales, MakeSale(s) PROVE CoverInv'
  <2>1. unseen \subseteq unseen' /\ ((\E r \in Runs : Ingesting(r)) => s \in unseen')
    BY <1>1 DEF MakeSale
  <2>2. run' = run /\ txns' = txns /\ behind' = behind /\ made' = made \cup {s}
    BY <1>1 DEF MakeSale
  <2>3. ASSUME NEW r \in Runs PROVE CoversSales(r)'
    BY <2>1, <2>2, <1>r DEF CoversSales, Ingesting, Recorded
  <2>4. NoSaleMissed'
    BY <2>1, <2>2 DEF CoverInv, NoSaleMissed, Recorded
  <2> QED BY <2>3, <2>4 DEF CoverInv, BatchesCoverSales
<1>2. ASSUME NEW r \in Runs, BeginRun(r) PROVE CoverInv'
  <2> DEFINE x == [run[r] EXCEPT !.pc = "fetch", !.since = behind]
  <2>1. /\ RunBecomes(r, x) /\ made' = made /\ behind' = behind /\ unseen' = unseen
        /\ txns' = txns
    BY <1>2 DEF BeginRun, rows
  <2>2. x.pc = "fetch" /\ x.since = behind
    BY <1>r DEF RunType
  <2> HIDE DEF x
  <2>3. behind \subseteq Recorded' \cup unseen'
    BY <2>1 DEF CoverInv, NoSaleMissed, Recorded
  <2>4. CoversSales(r)'
    BY <2>1, <2>2, <2>3, NewStateOfRun, NotIngesting
  <2> QED BY <2>1, <2>4, RunStepKeepsCover
<1>3. ASSUME NEW r \in Runs, GetSales(r) PROVE CoverInv'
  <2> DEFINE there == made \ run[r].since
             x(sales) == [run[r] EXCEPT !.pc = "pick", !.since = {}, !.batch = sales]
  <2>1. PICK sales \in {there, {}} :
          RunBecomes(r, x(sales)) /\ unseen' = unseen \cup (there \ sales)
    BY <1>3 DEF GetSales
  <2>2. made' = made /\ behind' = behind /\ txns' = txns /\ unseen \subseteq unseen'
    BY <1>3, <2>1 DEF GetSales, rows
  <2>3. run'[r] = x(sales)
    BY <2>1, NewStateOfRun
  <2>4. x(sales).pc = "pick" /\ x(sales).since = {} /\ x(sales).batch = sales
    BY <1>r DEF RunType
  <2> HIDE DEF x
  <2>5. run[r].since \subseteq Recorded \cup unseen
    BY <1>r DEF CoversSales
  <2>6. CoversSales(r)'
    BY <2>1, <2>2, <2>3, <2>4, <2>5 DEF CoversSales, Recorded
  <2> QED BY <2>1, <2>2, <2>6, RunStepKeepsCover
<1>4. ASSUME NEW r \in Runs, PickSale(r) PROVE CoverInv'
  <2> DEFINE x(s) == [run[r] EXCEPT !.batch = @ \ {s},
                                    !.pc = IF s \in Recorded THEN "pick" ELSE "insert",
                                    !.sale = IF s \in Recorded THEN None ELSE s]
  <2>1. PICK s \in run[r].batch :
          /\ RunBecomes(r, x(s)) /\ made' = made /\ behind' = behind /\ unseen' = unseen
          /\ txns' = txns
    BY <1>4 DEF PickSale, rows
  <2>2. /\ x(s).batch = run[r].batch \ {s} /\ x(s).since = run[r].since
        /\ s \notin Recorded => x(s).pc = "insert" /\ x(s).sale = s
    <3> HIDE DEF Recorded
    <3> QED BY <1>r DEF RunType
  <2> HIDE DEF x
  <2>3. run'[r] = x(s)
    BY <2>1, NewStateOfRun
  <2>4. Ingesting(r) /\ run[r].pc # "insert"
    BY <1>4 DEF PickSale, Ingesting
  <2>5. CoversSales(r)'
    BY <2>1, <2>2, <2>3, <2>4, <1>r DEF CoversSales, Recorded
  <2> QED BY <2>1, <2>5, RunStepKeepsCover
<1>5. ASSUME NEW r \in Runs, InsertTxn(r) PROVE CoverInv'
  <2> DEFINE s == run[r].sale
  <2>1. /\ txns' = txns \cup {[sale |-> s, by |-> r]}
        /\ RunBecomes(r, LineDone(r, LinesOf(s)))
        /\ made' = made /\ behind' = behind /\ unseen' = unseen
        /\ run[r].pc = "insert"
    BY <1>5 DEF InsertTxn
  <2>2. Recorded \cup {s} \subseteq Recorded'
    <3>1. Recorded \subseteq Recorded'
      BY <2>1 DEF Recorded
    <3>2. \E t \in txns' : t.sale = s
      BY <2>1, [sale |-> s, by |-> r] \in txns'
    <3> QED BY <3>1, <3>2 DEF Recorded
  <2>3. /\ run'[r].since = run[r].since /\ run'[r].batch = run[r].batch
        /\ run'[r].pc \in {"pick", "line"}
    BY <2>1, <1>r, NewStateOfRun, LineDoneCovers
  <2>4. Ingesting(r)
    BY <2>1 DEF Ingesting
  <2>5. CoversSales(r)'
    BY <2>1, <2>2, <2>3, <2>4, <1>r DEF CoversSales
  <2> QED BY <2>1, <2>5, RunStepKeepsCover
<1>6. ASSUME NEW r \in Runs, InsertTxnRejected(r) PROVE CoverInv'
  BY <1>6, <1>i DEF InsertTxnRejected, rows
<1>7. ASSUME NEW r \in Runs, FindMapping(r) PROVE CoverInv'
  <2> DEFINE m(l) == mappings[SkuOf[l]]
  <2> DEFINE x(l) == [run[r] EXCEPT !.pc = AfterLookup(m(l)), !.todo = @ \ {l},
                                    !.line = l, !.found = m(l)]
  <2>1. PICK l \in run[r].todo : RunBecomes(r, x(l))
    BY <1>7 DEF FindMapping
  <2>2. x(l).since = run[r].since /\ x(l).batch = run[r].batch
    BY <1>r DEF RunType
  <2> HIDE DEF x
  <2> QED BY <1>7, <2>1, <2>2, <1>l DEF FindMapping, rows
<1>8. ASSUME NEW r \in Runs, QueueUnmapped(r) PROVE CoverInv'
  <2> DEFINE x == [run[r] EXCEPT !.pc = "write"]
  <2>1. x.since = run[r].since /\ x.batch = run[r].batch
    BY <1>r DEF RunType
  <2> QED BY <1>8, <2>1, <1>l DEF QueueUnmapped
<1>d. ASSUME NEW r \in Runs, NEW todo
      PROVE  LineDone(r, todo).since = run[r].since /\ LineDone(r, todo).batch = run[r].batch
  BY <1>r DEF LineDone, RunType
<1>9. ASSUME NEW r \in Runs, InsertLine(r) PROVE CoverInv'
  <2> DEFINE x == [run[r] EXCEPT !.pc = "charge"]
  <2>1. x.since = run[r].since /\ x.batch = run[r].batch
    BY <1>r DEF RunType
  <2>2. LineWritten(r).since = run[r].since /\ LineWritten(r).batch = run[r].batch
    BY <2>1, <1>d DEF LineWritten
  <2> QED BY <1>9, <2>2, <1>l DEF InsertLine
<1>10. ASSUME NEW r \in Runs, InsertLineRejected(r) PROVE CoverInv'
  BY <1>10, <1>i DEF InsertLineRejected, rows
<1>11. ASSUME NEW r \in Runs, ChargeLine(r) PROVE CoverInv'
  BY <1>11, <1>d, <1>l DEF ChargeLine
<1>12. ASSUME NEW r \in Runs, AdvanceWatermark(r) PROVE CoverInv'
  <2> DEFINE x == IF Pulls THEN [IdleRun EXCEPT !.pc = "diff"] ELSE IdleRun
  <2>1. /\ RunBecomes(r, x) /\ txns' = txns /\ made' = made /\ behind' = made
        /\ unseen' = unseen /\ run[r].pc = "pick" /\ run[r].batch = {}
    BY <1>12 DEF AdvanceWatermark, BatchDone
  <2>2. made \subseteq Recorded \cup unseen
    <3>1. Ingesting(r) /\ run[r].pc # "insert"
      BY <2>1 DEF Ingesting
    <3> QED BY <2>1, <3>1, <1>r DEF CoversSales
  <2>3. x.pc \in {"idle", "diff"} /\ x.since = {}
    BY DEF IdleRun
  <2> HIDE DEF x
  <2>4. ASSUME NEW q \in Runs PROVE CoversSales(q)'
    <3>1. CASE q = r
      BY <2>1, <2>3, <3>1, NewStateOfRun, NotIngesting
    <3>2. CASE q # r
      <4>1. run'[q] = run[q] /\ CoversSales(q)
        BY <2>1, <3>2, <1>r, NewStateOfRun
      <4> QED BY <2>1, <4>1, CoverKept DEF Ingesting
    <3> QED BY <3>1, <3>2
  <2> QED BY <2>1, <2>2, <2>4 DEF CoverInv, BatchesCoverSales, NoSaleMissed, Recorded
<1>13. ASSUME NEW r \in Runs, ReadMappings(r) PROVE CoverInv'
  <2> DEFINE u(inventory) == {k \in inventory : mappings[k] = None}
  <2> DEFINE x(inventory) ==
        IF u(inventory) = {} THEN IdleRun
        ELSE [run[r] EXCEPT !.pc = "list", !.skus = u(inventory)]
  <2>1. PICK inventory \in SUBSET Skus :
          /\ RunBecomes(r, x(inventory)) /\ txns' = txns /\ made' = made
          /\ behind' = behind /\ unseen' = unseen
    BY <1>13 DEF ReadMappings, rows
  <2>2. x(inventory).pc \in {"idle", "list"} /\ x(inventory).since \in {{}, run[r].since}
    BY <1>r DEF RunType, IdleRun
  <2> HIDE DEF x
  <2>3. run'[r] = x(inventory) /\ run[r].since \subseteq Recorded' \cup unseen'
    BY <2>1, <1>r, NewStateOfRun DEF CoversSales, Recorded
  <2> QED BY <2>1, <2>2, <2>3, NotIngesting, RunStepKeepsCover
<1>14. ASSUME NEW r \in Runs, QueueItem(r) PROVE CoverInv'
  <2> DEFINE x(k) == IF run[r].skus = {k} THEN IdleRun
                     ELSE [run[r] EXCEPT !.skus = @ \ {k}]
  <2>1. PICK k \in run[r].skus :
          /\ RunBecomes(r, x(k)) /\ txns' = txns /\ made' = made
          /\ behind' = behind /\ unseen' = unseen
    BY <1>14 DEF QueueItem
  <2>2. x(k).pc \in {"idle", "list"} /\ x(k).since \in {{}, run[r].since}
    BY <1>14, <1>r DEF RunType, IdleRun, QueueItem
  <2> HIDE DEF x
  <2>3. run'[r] = x(k) /\ run[r].since \subseteq Recorded' \cup unseen'
    BY <2>1, <1>r, NewStateOfRun DEF CoversSales, Recorded
  <2> QED BY <2>1, <2>2, <2>3, NotIngesting, RunStepKeepsCover
<1>15. ASSUME NEW r \in Runs, StopRun(r) PROVE CoverInv'
  BY <1>15, <1>i DEF StopRun, rows
<1>16. ASSUME NEW a \in Admins, Request(a) PROVE CoverInv'
  BY <1>16, <1>u DEF Request, CreateMapping, ReadMapping, DeleteMapping, rows
<1>17. ASSUME NEW a \in Admins, AdminStep(a) PROVE CoverInv'
  BY <1>17, <1>u
     DEF AdminStep, SumReversible, Reverse, Remap, FillLines, SumLines, PostSum, Unqueue, rows
<1>18. ASSUME NEW a \in Admins, StopAdmin(a) PROVE CoverInv'
  BY <1>18, <1>u DEF StopAdmin, rows
<1>19. CASE UNCHANGED vars
  BY <1>19, <1>u DEF vars
<1> QED BY <1>1, <1>2, <1>3, <1>4, <1>5, <1>6, <1>7, <1>8, <1>9, <1>10, <1>11, <1>12, <1>13,
           <1>14, <1>15, <1>16, <1>17, <1>18, <1>19 DEF Next, RunStep

\* Whatever fails, overlaps and is retried, a sale older than last_synced_at is
\* recorded, unless it was made while a run was between fetch and watermark, or
\* there when a run read a failure of Square's locations as no sales.
THEOREM WatermarkSound == Spec => []NoSaleMissed
<1>1. Init => TypeInv /\ CoverInv
  BY ConstantsAssumption
     DEF Init, TypeInv, TypeOK, InProgressTyped, RunType, AdminType, IdleRun, IdleAdmin,
         CoverInv, BatchesCoverSales, CoversSales, Ingesting, NoSaleMissed, Recorded
<1>2. TypeInv /\ CoverInv /\ [Next]_vars => (TypeInv /\ CoverInv)'
  BY TypeInvStep, CoverInvStep
<1>3. TypeInv /\ CoverInv => NoSaleMissed
  BY DEF CoverInv
<1> QED BY <1>1, <1>2, <1>3, PTL DEF Spec

-----------------------------------------------------------------------------
(* Lines and mappings.  Ingestion and backfill carry mapping ids that they *)
(* read earlier; the foreign key makes the statement that uses one fail if *)
(* the row is gone, and makes a delete fail while a line refers to it.     *)

\* A line row that is written refers to an existing mapping, and no mapping that
\* some line refers to disappears.
LEMMA ReferencesKept ==
    ASSUME NoDanglingMapping,
           \A k \in RowKeys : \/ lines'[k] = lines[k]
                              \/ lines'[k].mapping = None
                              \/ MappingExists(lines'[k].mapping),
           \A id : MappingExists(id) => MappingExists(id)' \/ ~Referenced(id),
           \A k \in RowKeys : lines'[k] = lines[k] \/ mappings' = mappings
    PROVE  NoDanglingMapping'
  BY DEF NoDanglingMapping, MappingExists, Referenced, Posted

LEMMA NoDanglingStep == TypeInv /\ NoDanglingMapping /\ [Next]_vars => NoDanglingMapping'
<1> SUFFICES ASSUME TypeInv, NoDanglingMapping, [Next]_vars PROVE NoDanglingMapping'
  OBVIOUS
<1> USE ConstantsAssumption
<1>u. ASSUME lines' = lines, mappings' = mappings PROVE NoDanglingMapping'
  BY <1>u DEF NoDanglingMapping, Posted, MappingExists
<1>m. mappings \in [Skus -> MappingRow \cup {None}]
  BY DEF TypeInv, TypeOK
<1>1. ASSUME NEW r \in Runs, InsertLine(r) PROVE NoDanglingMapping'
  <2> DEFINE m == run[r].found
  <2>1. /\ mappings' = mappings
        /\ \A k \in RowKeys :
             \/ lines'[k] = lines[k]
             \/ m = None /\ lines'[k] = UnmappedLine
             \/ m # None /\ lines'[k] = [printing |-> m.printing, mapping |-> m.id]
        /\ m # None => MappingExists(m.id)
    BY <1>1 DEF InsertLine, MappingGone, TypeInv, TypeOK
  <2>2. ASSUME NEW k \in RowKeys
        PROVE  \/ lines'[k] = lines[k]
               \/ lines'[k].mapping = None
               \/ MappingExists(lines'[k].mapping)
    BY <2>1 DEF UnmappedLine
  <2> QED BY <2>1, <2>2, ReferencesKept DEF MappingExists
<1>2. ASSUME NEW a \in Admins, NEW k \in Skus, NEW p \in Printings, CreateMapping(a, k, p)
      PROVE  NoDanglingMapping'
  <2>1. lines' = lines /\ \A j \in Skus : mappings[j] # None => mappings'[j] = mappings[j]
    BY <1>2, <1>m DEF CreateMapping
  <2>2. \A id : MappingExists(id) => MappingExists(id)'
    BY <2>1 DEF MappingExists
  <2> QED BY <2>1, <2>2, ReferencesKept
<1>3. ASSUME NEW a \in Admins, NEW k \in Skus, DeleteMapping(a, k) PROVE NoDanglingMapping'
  <2>1. /\ lines' = lines /\ ~Referenced(mappings[k].id)
        /\ \A j \in Skus : j # k => mappings'[j] = mappings[j]
    BY <1>3, <1>m DEF DeleteMapping
  <2>2. ASSUME NEW id, MappingExists(id), Referenced(id) PROVE MappingExists(id)'
    <3>1. PICK j \in Skus : mappings[j] # None /\ mappings[j].id = id
      BY <2>2 DEF MappingExists
    <3>2. j # k
      BY <2>1, <2>2, <3>1
    <3> QED BY <2>1, <3>1, <3>2 DEF MappingExists
  <2> QED BY <2>1, <2>2, ReferencesKept
<1>4. ASSUME NEW a \in Admins, Remap(a) PROVE NoDanglingMapping'
  <2>1. lines' = lines
    BY <1>4 DEF Remap
  <2>2. ASSUME NEW j \in Skus, mappings[j] # None
        PROVE  mappings'[j] # None /\ mappings'[j].id = mappings[j].id
    <3>1. mappings[j] \in MappingRow
      BY <1>m, <2>2
    <3>2. /\ TypedAdmin(admin[a]) /\ admin[a].pc # "idle"
      BY <1>4, StateTyped DEF Remap
    <3> DEFINE x == [mappings[j] EXCEPT !.printing = admin[a].new]
    <3>3. x \in MappingRow /\ x.id = mappings[j].id
      BY <3>1, <3>2 DEF MappingRow, TypedAdmin
    <3>4. mappings'[j] = x \/ mappings'[j] = mappings[j]
      BY <1>4 DEF Remap
    <3> QED BY <2>2, <3>3, <3>4
  <2>3. \A id : MappingExists(id) => MappingExists(id)'
    BY <2>2 DEF MappingExists
  <2> QED BY <2>1, <2>3, ReferencesKept
<1>5. ASSUME NEW a \in Admins, FillLines(a) PROVE NoDanglingMapping'
  <2>1. /\ mappings' = mappings
        /\ \A k \in RowKeys :
             \/ lines'[k] = lines[k]
             \/ lines'[k] = FilledLine(a) /\ MappingExists(admin[a].id)
    BY <1>5 DEF FillLines
  <2>2. ASSUME NEW k \in RowKeys
        PROVE  \/ lines'[k] = lines[k]
               \/ lines'[k].mapping = None
               \/ MappingExists(lines'[k].mapping)
    BY <2>1 DEF FilledLine
  <2> QED BY <2>1, <2>2, ReferencesKept DEF MappingExists
<1>6. ASSUME NEW r \in Runs, RunStep(r), ~InsertLine(r) PROVE NoDanglingMapping'
  BY <1>6, <1>u
     DEF RunStep, GetSales, PickSale, InsertTxn, InsertTxnRejected, FindMapping, QueueUnmapped,
         InsertLineRejected, ChargeLine, AdvanceWatermark, ReadMappings, QueueItem, rows
<1>7. ASSUME NEW a \in Admins, AdminStep(a), ~Remap(a), ~FillLines(a) PROVE NoDanglingMapping'
  BY <1>7, <1>u DEF AdminStep, SumReversible, Reverse, SumLines, PostSum, Unqueue, rows
<1>8. ASSUME NEW a \in Admins, NEW k \in Skus, NEW p \in Printings, ReadMapping(a, k, p)
      PROVE  NoDanglingMapping'
  BY <1>8, <1>u DEF ReadMapping, rows
<1>9. ASSUME NEW s \in Sales, MakeSale(s) PROVE NoDanglingMapping'
  BY <1>9, <1>u DEF MakeSale
<1>10. ASSUME NEW r \in Runs, BeginRun(r) \/ StopRun(r) PROVE NoDanglingMapping'
  BY <1>10, <1>u DEF BeginRun, StopRun, rows
<1>11. ASSUME NEW a \in Admins, StopAdmin(a) PROVE NoDanglingMapping'
  BY <1>11, <1>u DEF StopAdmin, rows
<1>12. CASE UNCHANGED vars
  BY <1>12, <1>u DEF vars
<1> QED BY <1>1, <1>2, <1>3, <1>4, <1>5, <1>6, <1>7, <1>8, <1>9, <1>10, <1>11, <1>12
        DEF Next, Request

\* No line ever refers to a mapping that is not there, whatever creates, updates
\* and deletes race with ingestion.
THEOREM MappingsReferenced == Spec => []NoDanglingMapping
<1>1. Init => TypeInv /\ NoDanglingMapping
  BY ConstantsAssumption
     DEF Init, TypeInv, TypeOK, InProgressTyped, RunType, AdminType, IdleRun, IdleAdmin,
         NoDanglingMapping, Posted
<1>2. TypeInv /\ NoDanglingMapping /\ [Next]_vars => (TypeInv /\ NoDanglingMapping)'
  BY TypeInvStep, NoDanglingStep
<1>3. TypeInv /\ NoDanglingMapping => NoDanglingMapping
  OBVIOUS
<1> QED BY <1>1, <1>2, <1>3, PTL DEF Spec

-----------------------------------------------------------------------------
(* Resolved lines are frozen: only two statements write lines, the backfill*)
(* touches those without a printing, and the INSERT of a run writes a row  *)
(* that, by the posting invariant, is not there yet.                       *)

Frozen == \A k \in RowKeys : Posted(k) /\ lines[k].printing # None => lines'[k] = lines[k]

LEMMA FrozenStep == TypeInv /\ PostingInv /\ [Next]_vars => Frozen
<1> SUFFICES ASSUME TypeInv, PostingInv, [Next]_vars PROVE Frozen
  OBVIOUS
<1>u. ASSUME lines' = lines PROVE Frozen
  BY <1>u DEF Frozen
<1>1. ASSUME NEW r \in Runs, InsertLine(r) PROVE Frozen
  <2>1. ~Posted(<<run[r].line, r>>)
    BY <1>1 DEF InsertLine, PostingInv, RunsOwnTheirSale, OwnsItsSale
  <2>2. \A k \in RowKeys : k # <<run[r].line, r>> => lines'[k] = lines[k]
    BY <1>1 DEF InsertLine, TypeInv, TypeOK
  <2> QED BY <2>1, <2>2 DEF Frozen
<1>2. ASSUME NEW a \in Admins, FillLines(a) PROVE Frozen
  <2>1. \A k \in RowKeys : k \notin Unresolved(admin[a].sku) => lines'[k] = lines[k]
    BY <1>2 DEF FillLines
  <2> QED BY <2>1 DEF Frozen, Unresolved
<1>3. ASSUME NEW r \in Runs, RunStep(r), ~InsertLine(r) PROVE Frozen
  BY <1>3, <1>u
     DEF RunStep, GetSales, PickSale, InsertTxn, InsertTxnRejected, FindMapping, QueueUnmapped,
         InsertLineRejected, ChargeLine, AdvanceWatermark, ReadMappings, QueueItem, rows
<1>4. ASSUME NEW a \in Admins, AdminStep(a), ~FillLines(a) PROVE Frozen
  BY <1>4, <1>u DEF AdminStep, SumReversible, Reverse, Remap, SumLines, PostSum, Unqueue, rows
<1>5. ASSUME NEW a \in Admins, Request(a) PROVE Frozen
  BY <1>5, <1>u DEF Request, CreateMapping, ReadMapping, DeleteMapping, rows
<1>6. ASSUME NEW s \in Sales, MakeSale(s) PROVE Frozen
  BY <1>6, <1>u DEF MakeSale
<1>7. ASSUME NEW r \in Runs, BeginRun(r) \/ StopRun(r) PROVE Frozen
  BY <1>7, <1>u DEF BeginRun, StopRun, rows
<1>8. ASSUME NEW a \in Admins, StopAdmin(a) PROVE Frozen
  BY <1>8, <1>u DEF StopAdmin, rows
<1>9. CASE UNCHANGED vars
  BY <1>9, <1>u DEF vars
<1> QED BY <1>1, <1>2, <1>3, <1>4, <1>5, <1>6, <1>7, <1>8, <1>9 DEF Next

\* No backfill and no ingestion, whatever they race with, rewrites a line that has
\* been resolved.
THEOREM LinesFrozen == Spec => ResolvedLinesFrozen
<1>1. Init => TypeInv /\ PostingInv
  BY ConstantsAssumption
     DEF Init, TypeInv, TypeOK, InProgressTyped, RunType, AdminType, IdleRun, IdleAdmin,
         PostingInv, OneTxnPerSale, RunsOwnTheirSale, OwnsItsSale, InSale, LinesPostedOnce,
         Posted, RowKeys
<1>2. TypeInv /\ PostingInv /\ [Next]_vars => (TypeInv /\ PostingInv)'
  BY TypeInvStep, PostingInvStep
<1>3. TypeInv /\ PostingInv /\ [Next]_vars => [Frozen]_vars
  BY FrozenStep
<1> QED BY <1>1, <1>2, <1>3, PTL DEF Spec, ResolvedLinesFrozen, Frozen

-----------------------------------------------------------------------------
(* The quantities, when mapping requests are made only while nothing else  *)
(* is in progress and none of them updates a mapping: otherwise runs and   *)
(* requests count lines twice (runs PosLedger_backfill and PosLedger_retry *)
(* show what else goes wrong).  The argument: the mapping of a SKU stays   *)
(* while one of its lines is resolved, so a line is resolved either when a *)
(* run writes it, and that run counts it next, or by the backfill of the   *)
(* only request that made the mapping, and that request counts it next.    *)

RequestsAlone == MappingAlone /\ "update" \notin Ops

\* Runs and requests take turns, and so do requests.
TurnsTaken ==
    /\ RunsIdle \/ AdminsIdle
    /\ \A a, b \in Admins : admin[a].pc # "idle" /\ admin[b].pc # "idle" => a = b

\* The mapping a run looked up is still the SKU's; a line written and not yet
\* counted has the printing that the run will add it to.
RunCounts(r) ==
    /\ run[r].pc \in {"queue", "write", "charge"} => run[r].found = mappings[SkuOf[run[r].line]]
    /\ run[r].pc = "charge" =>
         /\ run[r].found # None
         /\ Posted(<<run[r].line, r>>)
         /\ lines[<<run[r].line, r>>].printing = run[r].found.printing
         /\ \A p \in Printings : charge[p][<<run[r].line, r>>] = 0

\* A request in progress made the mapping of its SKU; no line of the SKU is resolved
\* before its backfill, and none is counted before it counts them all.
RequestCounts(a) ==
    admin[a].pc # "idle" =>
        /\ admin[a].pc \in {"fill", "sum", "post", "unqueue"} /\ admin[a].op = "create"
        /\ mappings[admin[a].sku] = [id |-> admin[a].id, printing |-> admin[a].new]
        /\ admin[a].pc = "fill" =>
             \A k \in RowKeys : Posted(k) /\ SkuOf[k[1]] = admin[a].sku => lines[k].printing = None
        /\ admin[a].pc \in {"sum", "post"} =>
             \A k \in RowKeys : SkuOf[k[1]] = admin[a].sku => charge[admin[a].new][k] = 0
        /\ admin[a].pc = "post" => admin[a].sum = LinesToCharge(admin[a].sku, admin[a].new)

\* The run or the request that resolved the line is about to count it.
AboutToCount(k) ==
    \/ \E r \in Runs : run[r].pc = "charge" /\ k = <<run[r].line, r>>
    \/ \E a \in Admins : admin[a].pc \in {"sum", "post"} /\ SkuOf[k[1]] = admin[a].sku

Resolved(k) == Posted(k) /\ lines[k].printing # None

\* A line is counted at most once and only for its printing; a resolved line carries
\* the mapping that its SKU has now and is counted, or about to be, unless
\* something has ended early.
RowCounts(k) ==
    /\ \A p \in Printings : /\ charge[p][k] \in {0, 1}
                            /\ charge[p][k] = 1 => Posted(k) /\ lines[k].printing = p
    /\ Resolved(k) =>
         /\ mappings[SkuOf[k[1]]] = [id |-> lines[k].mapping, printing |-> lines[k].printing]
         /\ stops = 0 => charge[lines[k].printing][k] = 1 \/ AboutToCount(k)

CountInv ==
    /\ TurnsTaken
    /\ \A r \in Runs : RunCounts(r)
    /\ \A a \in Admins : RequestCounts(a)
    /\ \A k \in RowKeys : RowCounts(k)

LEMMA ResolvedRow ==
    ASSUME TypeInv, NEW k \in RowKeys, Resolved(k)
    PROVE  /\ lines[k].printing \in Printings
           /\ [id |-> lines[k].mapping, printing |-> lines[k].printing] \in MappingRow
  BY DEF TypeInv, TypeOK, Resolved, Posted, LineRow, UnmappedLine, MappingRow

LEMMA ResolvedMapping ==
    ASSUME CountInv, NEW k \in RowKeys, Resolved(k)
    PROVE  mappings[SkuOf[k[1]]] = [id |-> lines[k].mapping, printing |-> lines[k].printing]
<1>1. RowCounts(k)
  BY DEF CountInv
<1> QED BY <1>1 DEF RowCounts

\* A row that a step leaves alone, with the mapping of its SKU if it is resolved.
LEMMA RowKept ==
    ASSUME TypeInv, NEW k \in RowKeys, RowCounts(k), lines'[k] = lines[k],
           \A p \in Printings : charge'[p][k] = charge[p][k],
           Resolved(k) => mappings'[SkuOf[k[1]]] = mappings[SkuOf[k[1]]],
           stops' = 0 => stops = 0,
           stops' = 0 /\ AboutToCount(k) /\ Resolved(k) => AboutToCount(k)'
    PROVE  RowCounts(k)'
<1>1. Resolved(k)' <=> Resolved(k)
  BY DEF Resolved, Posted
<1>2. Resolved(k) => charge'[lines[k].printing][k] = charge[lines[k].printing][k]
  BY ResolvedRow
<1> QED BY <1>1, <1>2 DEF RowCounts, Posted

LEMMA ChargedAt ==
    ASSUME TypeInv, NEW q \in Printings, NEW ks, NEW n, AddToCharge(q, ks, n),
           NEW p \in Printings, NEW k \in RowKeys
    PROVE  charge'[p][k] = IF p = q /\ k \in ks THEN charge[p][k] + n ELSE charge[p][k]
<1>1. charge \in [Printings -> [RowKeys -> Int]]
  BY DEF TypeInv, TypeOK
<1>2. charge'[p] = IF p = q THEN [j \in RowKeys |-> IF j \in ks THEN charge[q][j] + n ELSE charge[q][j]]
                           ELSE charge[p]
  BY <1>1 DEF AddToCharge
<1> QED BY <1>2

LEMMA RunTurn ==
    ASSUME CountInv, NEW r \in Runs, run[r].pc # "idle"
    PROVE  AdminsIdle
  BY DEF CountInv, TurnsTaken, RunsIdle

LEMMA RequestTurn ==
    ASSUME CountInv, NEW a \in Admins, admin[a].pc # "idle"
    PROVE  RunsIdle /\ \A b \in Admins : b # a => admin[b].pc = "idle"
  BY DEF CountInv, TurnsTaken, AdminsIdle

LEMMA NewStateOfRequest ==
    ASSUME TypeInv, NEW a \in Admins, NEW x, AdminBecomes(a, x)
    PROVE  admin'[a] = x /\ \A b \in Admins : b # a => admin'[b] = admin[b]
  BY DEF TypeInv, TypeOK, AdminBecomes

\* In the turn of the runs: a step of one of them that writes at most rows of its own.
LEMMA RunStepKeepsCount ==
    ASSUME TypeInv, CountInv, AdminsIdle, NEW r \in Runs, NEW x, RunBecomes(r, x),
           UNCHANGED <<admin, mappings>>, RunCounts(r)',
           \A k \in RowKeys : k[2] # r => /\ lines'[k] = lines[k]
                                          /\ \A p \in Printings : charge'[p][k] = charge[p][k],
           \A k \in RowKeys : RowCounts(k)'
    PROVE  CountInv'
<1>1. ASSUME NEW q \in Runs PROVE RunCounts(q)'
  <2>1. CASE q = r
    BY <2>1
  <2>2. CASE q # r
    <3>1. run'[q] = run[q] /\ RunCounts(q)
      BY <2>2, NewStateOfRun DEF CountInv
    <3>2. run[q].pc = "charge" => <<run[q].line, q>> \in RowKeys /\ <<run[q].line, q>>[2] # r
      BY <2>2, StateTyped DEF TypedRun, RowKeys
    <3> QED BY <3>1, <3>2 DEF RunCounts, Posted
  <2> QED BY <2>1, <2>2
<1>2. TurnsTaken' /\ \A a \in Admins : RequestCounts(a)'
  BY DEF TurnsTaken, AdminsIdle, RequestCounts
<1> QED BY <1>1, <1>2 DEF CountInv

\* A step of a run that writes nothing that is counted.
LEMMA RunStepCountsNothing ==
    ASSUME TypeInv, CountInv, AdminsIdle, NEW r \in Runs, NEW x, RunBecomes(r, x),
           UNCHANGED <<admin, mappings, lines, charge>>, RunCounts(r)',
           (stops' = stops /\ run[r].pc # "charge") \/ stops' = stops + 1
    PROVE  CountInv'
<1>1. ASSUME NEW k \in RowKeys PROVE RowCounts(k)'
  <2>1. stops' = 0 => stops = 0 /\ run[r].pc # "charge"
    BY DEF TypeInv, TypeOK
  <2>2. stops' = 0 /\ AboutToCount(k) => AboutToCount(k)'
    BY <2>1, NewStateOfRun DEF AboutToCount, AdminsIdle
  <2> QED BY <2>1, <2>2, RowKept DEF CountInv
<1> QED BY <1>1, RunStepKeepsCount

LEMMA NotHoldingLine ==
    ASSUME NEW r, run'[r].pc \in {"idle", "fetch", "pick", "insert", "line", "diff", "list"}
    PROVE  RunCounts(r)'
  BY DEF RunCounts

LEMMA LineDonePlace ==
    ASSUME NEW r, NEW todo, run[r] \in RunType
    PROVE  LineDone(r, todo).pc \in {"pick", "line"}
  BY DEF LineDone, RunType

\* The INSERT of a line: it had no row, so nothing was counted for it.
LEMMA InsertLineCounts ==
    ASSUME TypeInv, PostingInv, CountInv, NEW r \in Runs, InsertLine(r)
    PROVE  CountInv'
<1> USE ConstantsAssumption
<1> DEFINE m == run[r].found
           key == <<run[r].line, r>>
           row == IF m = None THEN UnmappedLine ELSE [printing |-> m.printing, mapping |-> m.id]
<1>r. run[r] \in RunType /\ TypedRun(run[r])
  BY StateTyped DEF TypedRun
<1>1. /\ run[r].pc = "write" /\ RunBecomes(r, LineWritten(r))
      /\ lines' = [lines EXCEPT ![key] = row]
      /\ UNCHANGED <<mappings, charge, admin, stops>>
  BY DEF InsertLine
<1>2. /\ key \in RowKeys /\ run[r].line \in Lines
      /\ lines'[key] = row
      /\ \A k \in RowKeys : k # key => lines'[k] = lines[k]
  BY <1>1, <1>r DEF TypedRun, RowKeys, TypeInv, TypeOK
<1>3. m = mappings[SkuOf[run[r].line]] /\ m \in MappingRow \cup {None}
  BY <1>1, <1>r DEF CountInv, RunCounts, RunType
<1>4. \A p \in Printings : charge[p][key] = 0
  <2>1. ~Posted(key)
    BY <1>1 DEF PostingInv, RunsOwnTheirSale, OwnsItsSale
  <2> QED BY <1>2, <2>1 DEF CountInv, RowCounts
<1>5. AdminsIdle
  BY <1>1, RunTurn
<1>6. run'[r] = LineWritten(r)
  BY <1>1, NewStateOfRun
<1>7. m # None => run'[r] = [run[r] EXCEPT !.pc = "charge"]
  BY <1>6 DEF LineWritten
<1>8. m # None => /\ run'[r].pc = "charge" /\ run'[r].line = run[r].line /\ run'[r].found = m
                  /\ row # None /\ row.printing = m.printing /\ m.printing \in Printings
                  /\ m = [id |-> row.mapping, printing |-> row.printing]
  <2>1. m # None => m \in MappingRow
    BY <1>3
  <2>2. m # None => row \in LineRow
    BY <2>1 DEF MappingRow, LineRow
  <2> QED BY <1>7, <1>r, <2>1, <2>2 DEF RunType, MappingRow
<1>9. RunCounts(r)'
  <2>1. CASE m = None
    <3>1. run'[r].pc \in {"pick", "line"}
      BY <2>1, <1>6, <1>r, LineDonePlace DEF LineWritten
    <3> QED BY <3>1, NotHoldingLine
  <2>2. CASE m # None
    <3>1. mappings' = mappings /\ charge' = charge
      BY <1>1
    <3> HIDE DEF row, m
    <3> QED BY <2>2, <3>1, <1>2, <1>3, <1>4, <1>8 DEF RunCounts, Posted
  <2> QED BY <2>1, <2>2
<1>10. ASSUME NEW k \in RowKeys PROVE RowCounts(k)'
  <2>1. CASE k = key
    <3>1. m # None => AboutToCount(k)'
      BY <2>1, <1>8 DEF AboutToCount
    <3>2. m = None => ~Resolved(k)'
      BY <2>1, <1>2 DEF Resolved, UnmappedLine
    <3>3. \A p \in Printings : charge'[p][k] = 0
      BY <2>1, <1>1, <1>4
    <3>4. k[1] = run[r].line /\ lines'[k] = row /\ mappings' = mappings
      BY <2>1, <1>1, <1>2
    <3> HIDE DEF row, m, key
    <3> QED BY <3>1, <3>2, <3>3, <3>4, <1>3, <1>8 DEF RowCounts
  <2>2. CASE k # key
    <3>1. AboutToCount(k) => AboutToCount(k)'
      BY <1>1, <1>5, NewStateOfRun DEF AboutToCount, AdminsIdle
    <3> QED BY <2>2, <3>1, <1>1, <1>2, RowKept DEF CountInv
  <2> QED BY <2>1, <2>2
<1>11. \A k \in RowKeys : k[2] # r => lines'[k] = lines[k]
  BY <1>2
<1> QED BY <1>1, <1>5, <1>9, <1>10, <1>11, RunStepKeepsCount

\* UPDATE printings: the line is counted, for the first time.
LEMMA ChargeLineCounts ==
    ASSUME TypeInv, CountInv, NEW r \in Runs, ChargeLine(r)
    PROVE  CountInv'
<1> USE ConstantsAssumption
<1> DEFINE m == run[r].found
           key == <<run[r].line, r>>
<1>r. run[r] \in RunType /\ TypedRun(run[r])
  BY StateTyped DEF TypedRun
<1>1. /\ run[r].pc = "charge" /\ RunBecomes(r, LineDone(r, run[r].todo))
      /\ AddToCharge(m.printing, {key}, 1)
      /\ UNCHANGED <<mappings, lines, admin, stops>>
  BY DEF ChargeLine
<1>2. /\ m # None /\ m \in MappingRow /\ Posted(key) /\ lines[key].printing = m.printing
      /\ \A p \in Printings : charge[p][key] = 0
      /\ m = mappings[SkuOf[run[r].line]]
  BY <1>1, <1>r DEF CountInv, RunCounts, RunType
<1>3. key \in RowKeys /\ m.printing \in Printings
  BY <1>1, <1>2, <1>r DEF TypedRun, RowKeys, MappingRow
<1>4. /\ charge'[m.printing][key] = 1
      /\ \A p \in Printings, k \in RowKeys :
           p # m.printing \/ k # key => charge'[p][k] = charge[p][k]
  <2>1. \A p \in Printings, k \in RowKeys :
           charge'[p][k] = IF p = m.printing /\ k \in {key} THEN charge[p][k] + 1 ELSE charge[p][k]
    <3> HIDE DEF m, key
    <3> QED BY <1>1, <1>3, ChargedAt
  <2> QED BY <2>1, <1>2, <1>3
<1>5. AdminsIdle
  BY <1>1, RunTurn
<1>6. RunCounts(r)'
  BY <1>1, <1>r, NewStateOfRun, LineDonePlace, NotHoldingLine
<1>7. ASSUME NEW k \in RowKeys PROVE RowCounts(k)'
  <2>1. CASE k = key
    <3>1. lines'[k] = lines[k] /\ mappings' = mappings /\ lines[k].printing = m.printing
      BY <2>1, <1>1, <1>2
    <3>2. Resolved(k) /\ Posted(k)'
      BY <2>1, <1>1, <1>2, <1>3 DEF Resolved, Posted
    <3>3. \A p \in Printings : charge'[p][k] = IF p = m.printing THEN 1 ELSE 0
      BY <2>1, <1>2, <1>3, <1>4
    <3>4. mappings[SkuOf[k[1]]] = [id |-> lines[k].mapping, printing |-> lines[k].printing]
      BY <3>2 DEF CountInv, RowCounts
    <3> HIDE DEF m, key
    <3> QED BY <3>1, <3>2, <3>3, <3>4, <1>3 DEF RowCounts
  <2>2. CASE k # key
    <3>1. AboutToCount(k) => AboutToCount(k)'
      BY <2>2, <1>1, <1>5, NewStateOfRun DEF AboutToCount, AdminsIdle
    <3> QED BY <2>2, <3>1, <1>1, <1>4, RowKept DEF CountInv
  <2> QED BY <2>1, <2>2
<1>8. \A k \in RowKeys : k[2] # r => /\ lines'[k] = lines[k]
                                     /\ \A p \in Printings : charge'[p][k] = charge[p][k]
  BY <1>1, <1>4
<1> QED BY <1>1, <1>5, <1>6, <1>7, <1>8, RunStepKeepsCount

\* In the turn of a request: what the others rely on is not touched.
LEMMA RequestStepKeepsCount ==
    ASSUME TypeInv, CountInv, RunsIdle, NEW a \in Admins, NEW x, AdminBecomes(a, x),
           \A b \in Admins : b # a => admin[b].pc = "idle",
           run' = run, RequestCounts(a)',
           \A k \in RowKeys : RowCounts(k)'
    PROVE  CountInv'
<1>1. \A r \in Runs : RunCounts(r)'
  BY DEF RunsIdle, RunCounts
<1>2. \A b \in Admins : b # a => admin'[b].pc = "idle"
  BY NewStateOfRequest
<1>3. TurnsTaken'
  BY <1>2 DEF TurnsTaken, RunsIdle
<1>4. \A b \in Admins : RequestCounts(b)'
  BY <1>2 DEF RequestCounts
<1> QED BY <1>1, <1>3, <1>4 DEF CountInv

LEMMA CreateCounts ==
    ASSUME TypeInv, CountInv, RequestsAlone, NEW a \in Admins, NEW k \in Skus, NEW p \in Printings,
           CreateMapping(a, k, p)
    PROVE  CountInv'
<1> USE ConstantsAssumption
<1> DEFINE x == [IdleAdmin EXCEPT !.pc = "fill", !.op = "create", !.sku = k,
                                  !.id = requests + 1, !.new = p]
<1>1. /\ Quiet /\ mappings[k] = None
      /\ mappings' = [mappings EXCEPT ![k] = [id |-> requests + 1, printing |-> p]]
      /\ AdminBecomes(a, x)
      /\ UNCHANGED <<lines, charge, run, stops>>
  BY DEF CreateMapping, MayRequest, RequestsAlone
<1>2. /\ x.pc = "fill" /\ x.op = "create" /\ x.sku = k /\ x.id = requests + 1 /\ x.new = p
  BY DEF IdleAdmin
<1> HIDE DEF x
<1>3. admin'[a] = x /\ RunsIdle /\ \A b \in Admins : b # a => admin[b].pc = "idle"
  BY <1>1, NewStateOfRequest DEF Quiet, AdminsIdle
<1>4. /\ mappings'[k] = [id |-> requests + 1, printing |-> p]
      /\ \A j \in Skus : j # k => mappings'[j] = mappings[j]
  BY <1>1 DEF TypeInv, TypeOK
<1>5. ASSUME NEW key \in RowKeys, Resolved(key) PROVE SkuOf[key[1]] # k
  <2>1. mappings[SkuOf[key[1]]] \in MappingRow
    BY <1>5, ResolvedRow DEF CountInv, RowCounts
  <2> QED BY <1>1, <2>1
<1>6. RequestCounts(a)'
  <2>1. \A key \in RowKeys : Posted(key)' /\ SkuOf[key[1]] = k => lines'[key].printing = None
    BY <1>1, <1>5 DEF Resolved, Posted
  <2> QED BY <1>2, <1>3, <1>4, <2>1 DEF RequestCounts
<1>7. ASSUME NEW key \in RowKeys PROVE RowCounts(key)'
  <2>1. SkuOf[key[1]] \in Skus
    BY DEF RowKeys
  <2>2. ~AboutToCount(key)
    BY <1>1 DEF Quiet, RunsIdle, AdminsIdle, AboutToCount
  <2> QED BY <1>1, <1>4, <1>5, <2>1, <2>2, RowKept DEF CountInv
<1> QED BY <1>1, <1>3, <1>6, <1>7, RequestStepKeepsCount

\* The foreign key: a mapping that goes has no resolved line.
LEMMA DeleteCounts ==
    ASSUME TypeInv, CountInv, RequestsAlone, NEW a \in Admins, NEW k \in Skus, DeleteMapping(a, k)
    PROVE  CountInv'
<1> USE ConstantsAssumption
<1>1. /\ Quiet /\ mappings' = [mappings EXCEPT ![k] = None] /\ ~Referenced(mappings[k].id)
      /\ UNCHANGED <<lines, charge, run, admin, stops>>
  BY DEF DeleteMapping, MayRequest, RequestsAlone
<1>2. AdminBecomes(a, admin[a]) /\ RunsIdle /\ \A b \in Admins : admin[b].pc = "idle"
  BY <1>1 DEF AdminBecomes, TypeInv, TypeOK, Quiet, AdminsIdle
<1>3. \A j \in Skus : j # k => mappings'[j] = mappings[j]
  BY <1>1 DEF TypeInv, TypeOK
<1>4. ASSUME NEW key \in RowKeys, Resolved(key) PROVE SkuOf[key[1]] # k
  <2>1. mappings[SkuOf[key[1]]] = [id |-> lines[key].mapping, printing |-> lines[key].printing]
    BY <1>4, ResolvedMapping
  <2>2. mappings[SkuOf[key[1]]].id = lines[key].mapping
    BY <2>1
  <2> QED BY <1>1, <1>4, <2>2 DEF Resolved, Referenced
<1>5. RequestCounts(a)'
  BY <1>1, <1>2 DEF RequestCounts
<1>6. ASSUME NEW key \in RowKeys PROVE RowCounts(key)'
  <2>1. SkuOf[key[1]] \in Skus
    BY DEF RowKeys
  <2>2. ~AboutToCount(key)
    BY <1>1 DEF Quiet, RunsIdle, AdminsIdle, AboutToCount
  <2> QED BY <1>1, <1>3, <1>4, <2>1, <2>2, RowKept DEF CountInv
<1> QED BY <1>1, <1>2, <1>5, <1>6, RequestStepKeepsCount

\* The backfill resolves lines that nothing has counted.
LEMMA FillCounts ==
    ASSUME TypeInv, CountInv, NEW a \in Admins, FillLines(a)
    PROVE  CountInv'
<1> USE ConstantsAssumption
<1> DEFINE sku == admin[a].sku
           new == admin[a].new
           filled == Unresolved(sku)
<1>1. admin[a].pc = "fill" /\ UNCHANGED <<mappings, charge, run, stops>>
  BY DEF FillLines
<1>2. RunsIdle /\ \A b \in Admins : b # a => admin[b].pc = "idle"
  BY <1>1, RequestTurn
<1>3. /\ admin[a] \in AdminType /\ sku \in Skus /\ new \in Printings /\ admin[a].id \in Nat
  BY <1>1, StateTyped DEF TypedAdmin
<1>4. /\ admin[a].op = "create"
      /\ mappings[sku] = [id |-> admin[a].id, printing |-> new]
      /\ \A k \in RowKeys : Posted(k) /\ SkuOf[k[1]] = sku => lines[k].printing = None
  BY <1>1 DEF CountInv, RequestCounts
<1>5. \A k \in RowKeys : ~AboutToCount(k)
  BY <1>1, <1>2 DEF RunsIdle, AboutToCount
<1>6. ASSUME NEW k \in RowKeys, SkuOf[k[1]] = sku PROVE \A p \in Printings : charge[p][k] = 0
  <2>1. RowCounts(k)
    BY DEF CountInv
  <2>2. Posted(k) => lines[k].printing = None
    BY <1>4, <1>6
  <2> QED BY <2>1, <2>2 DEF RowCounts
<1>7. CASE /\ lines' = [key \in RowKeys |-> IF key \in filled THEN FilledLine(a) ELSE lines[key]]
           /\ AdminBecomes(a, [admin[a] EXCEPT !.pc = "sum"])
  <2> DEFINE x == [admin[a] EXCEPT !.pc = "sum"]
  <2>1. /\ x.pc = "sum" /\ x.op = "create" /\ x.sku = sku /\ x.id = admin[a].id /\ x.new = new
    BY <1>3, <1>4 DEF AdminType
  <2>2. admin'[a] = x
    BY <1>7, NewStateOfRequest
  <2> HIDE DEF x
  <2>3. RequestCounts(a)'
    BY <1>1, <1>3, <1>4, <1>6, <2>1, <2>2 DEF RequestCounts
  <2>4. ASSUME NEW k \in RowKeys PROVE RowCounts(k)'
    <3>1. CASE k \in filled
      <4>1. SkuOf[k[1]] = sku /\ lines'[k] = [printing |-> new, mapping |-> admin[a].id]
        BY <1>7, <3>1 DEF Unresolved, FilledLine
      <4>2. AboutToCount(k)'
        BY <2>1, <2>2, <4>1 DEF AboutToCount
      <4>3. \A p \in Printings : charge'[p][k] = 0
        BY <1>1, <1>6, <4>1
      <4>4. mappings'[SkuOf[k[1]]] = [id |-> lines'[k].mapping, printing |-> lines'[k].printing]
        BY <1>1, <1>4, <4>1
      <4> QED BY <4>2, <4>3, <4>4 DEF RowCounts
    <3>2. CASE k \notin filled
      <4>1. lines'[k] = lines[k]
        BY <1>7, <3>2
      <4> QED BY <1>1, <1>5, <4>1, RowKept DEF CountInv
    <3> QED BY <3>1, <3>2
  <2>5. AdminBecomes(a, x)
    BY <1>7 DEF x
  <2> QED BY <1>1, <1>2, <2>3, <2>4, <2>5, RequestStepKeepsCount
<1>8. CASE lines' = lines /\ AdminBecomes(a, IdleAdmin)
  <2>1. RequestCounts(a)'
    BY <1>8, NewStateOfRequest DEF RequestCounts, IdleAdmin
  <2>2. ASSUME NEW k \in RowKeys PROVE RowCounts(k)'
    BY <1>1, <1>5, <1>8, RowKept DEF CountInv
  <2> QED BY <1>1, <1>2, <1>8, <2>1, <2>2, RequestStepKeepsCount
<1> QED BY <1>7, <1>8 DEF FillLines

LEMMA AfterBackfillPlace ==
    ASSUME NEW a, admin[a] \in AdminType, admin[a].op = "create"
    PROVE  /\ AfterBackfill(a).pc = "unqueue" /\ AfterBackfill(a).op = "create"
           /\ AfterBackfill(a).sku = admin[a].sku /\ AfterBackfill(a).id = admin[a].id
           /\ AfterBackfill(a).new = admin[a].new
  BY DEF AfterBackfill, AdminType

\* A resolved line of the SKU is among those that the request counts.
LEMMA ResolvedToCharge ==
    ASSUME TypeInv, CountInv, NEW a \in Admins, admin[a].pc # "idle",
           NEW k \in RowKeys, Resolved(k), SkuOf[k[1]] = admin[a].sku
    PROVE  k \in LinesToCharge(admin[a].sku, admin[a].new) /\ lines[k].printing = admin[a].new
<1>0. RequestCounts(a)
  BY DEF CountInv
<1>1. mappings[admin[a].sku] = [id |-> admin[a].id, printing |-> admin[a].new]
  BY <1>0 DEF RequestCounts
<1>2. mappings[admin[a].sku] = [id |-> lines[k].mapping, printing |-> lines[k].printing]
  BY ResolvedMapping
<1> QED BY <1>1, <1>2 DEF LinesToCharge, Resolved

LEMMA SumCounts ==
    ASSUME TypeInv, CountInv, NEW a \in Admins, SumLines(a)
    PROVE  CountInv'
<1> DEFINE ks == LinesToCharge(admin[a].sku, admin[a].new)
           x == [admin[a] EXCEPT !.pc = "post", !.sum = ks]
<1>1. /\ admin[a].pc = "sum" /\ UNCHANGED <<mappings, lines, charge, run, stops>>
      /\ AdminBecomes(a, IF ks = {} THEN AfterBackfill(a) ELSE x)
  BY DEF SumLines, rows
<1>2. RunsIdle /\ \A b \in Admins : b # a => admin[b].pc = "idle"
  BY <1>1, RequestTurn
<1>3. admin[a] \in AdminType /\ admin[a].op = "create" /\ RequestCounts(a)
  BY <1>1, StateTyped DEF TypedAdmin, CountInv, RequestCounts
<1>4. CASE ks = {}
  <2>1. admin'[a] = AfterBackfill(a)
    BY <1>1, <1>4, NewStateOfRequest
  <2>2. RequestCounts(a)'
    BY <1>1, <1>3, <2>1, AfterBackfillPlace DEF RequestCounts
  <2>3. ASSUME NEW k \in RowKeys PROVE RowCounts(k)'
    <3>1. Resolved(k) => SkuOf[k[1]] # admin[a].sku
      BY <1>1, <1>4, ResolvedToCharge
    <3>2. AboutToCount(k) /\ Resolved(k) => AboutToCount(k)'
      BY <1>2, <3>1 DEF AboutToCount, RunsIdle
    <3> QED BY <1>1, <3>2, RowKept DEF CountInv
  <2> QED BY <1>1, <1>2, <2>2, <2>3, RequestStepKeepsCount
<1>5. CASE ks # {}
  <2>0. ks \subseteq RowKeys
    BY DEF LinesToCharge
  <2>1. /\ x.pc = "post" /\ x.op = "create" /\ x.sku = admin[a].sku /\ x.id = admin[a].id
        /\ x.new = admin[a].new /\ x.sum = ks
    <3> HIDE DEF ks
    <3> QED BY <1>3, <2>0 DEF AdminType
  <2>2. admin'[a] = x
    BY <1>1, <1>5, NewStateOfRequest
  <2> HIDE DEF x
  <2>5. RequestCounts(a)'
    <3>1. mappings' = mappings /\ charge' = charge /\ lines' = lines
      BY <1>1
    <3>2. ks = {k \in RowKeys : lines'[k] # None /\ SkuOf[k[1]] = x.sku /\ lines'[k].printing = x.new}
      BY <2>1, <3>1 DEF LinesToCharge, Posted
    <3> HIDE DEF ks
    <3> QED BY <1>1, <1>3, <2>1, <2>2, <3>1, <3>2 DEF RequestCounts, LinesToCharge, Posted
  <2>6. ASSUME NEW k \in RowKeys PROVE RowCounts(k)'
    <3>1. AboutToCount(k) => AboutToCount(k)'
      BY <1>1, <1>2, <2>1, <2>2 DEF AboutToCount, RunsIdle
    <3> QED BY <1>1, <3>1, RowKept DEF CountInv
  <2>7. AdminBecomes(a, x)
    BY <1>1, <1>5
  <2> QED BY <1>1, <1>2, <2>5, <2>6, <2>7, RequestStepKeepsCount
<1> QED BY <1>4, <1>5

\* UPDATE printings: every resolved line of the SKU is counted, for the first time.
LEMMA PostCounts ==
    ASSUME TypeInv, CountInv, NEW a \in Admins, PostSum(a)
    PROVE  CountInv'
<1> DEFINE ks == LinesToCharge(admin[a].sku, admin[a].new)
           new == admin[a].new
<1>1. /\ admin[a].pc = "post" /\ AdminBecomes(a, AfterBackfill(a))
      /\ AddToCharge(new, admin[a].sum, 1)
      /\ UNCHANGED <<mappings, lines, run, stops>>
  BY DEF PostSum
<1>2. RunsIdle /\ \A b \in Admins : b # a => admin[b].pc = "idle"
  BY <1>1, RequestTurn
<1>3. admin[a] \in AdminType /\ admin[a].op = "create" /\ new \in Printings
  BY <1>1, StateTyped DEF TypedAdmin, CountInv, RequestCounts
<1>4. /\ admin[a].sum = ks
      /\ \A k \in RowKeys : SkuOf[k[1]] = admin[a].sku => charge[new][k] = 0
      /\ mappings[admin[a].sku] = [id |-> admin[a].id, printing |-> new]
  BY <1>1 DEF CountInv, RequestCounts
<1>5. admin'[a] = AfterBackfill(a)
  BY <1>1, NewStateOfRequest
<1>6. RequestCounts(a)'
  BY <1>1, <1>3, <1>4, <1>5, AfterBackfillPlace DEF RequestCounts
<1>7. \A p \in Printings, k \in RowKeys :
        charge'[p][k] = IF p = new /\ k \in ks THEN charge[p][k] + 1 ELSE charge[p][k]
  BY <1>1, <1>3, <1>4, ChargedAt
<1>8. ASSUME NEW k \in RowKeys PROVE RowCounts(k)'
  <2>1. CASE k \in ks
    <3>1. /\ SkuOf[k[1]] = admin[a].sku /\ Posted(k) /\ lines[k].printing = new
      BY <2>1 DEF LinesToCharge
    <3>2. charge'[new][k] = 1
      BY <1>3, <1>4, <1>7, <2>1, <3>1
    <3>3. \A p \in Printings : p # new => charge'[p][k] = charge[p][k]
      BY <1>7
    <3>4. \A p \in Printings : p # new => charge[p][k] = 0
      BY <3>1 DEF CountInv, RowCounts
    <3>5. lines'[k] = lines[k] /\ mappings' = mappings /\ Posted(k)'
      BY <1>1, <3>1 DEF Posted
    <3>6. mappings[SkuOf[k[1]]] = [id |-> lines[k].mapping, printing |-> lines[k].printing]
      <4>1. Resolved(k)
        BY <1>3, <3>1, ConstantsAssumption DEF Resolved
      <4> QED BY <4>1 DEF CountInv, RowCounts
    <3> HIDE DEF ks, new
    <3> QED BY <3>1, <3>2, <3>3, <3>4, <3>5, <3>6 DEF RowCounts
  <2>2. CASE k \notin ks
    <3>1. Resolved(k) => SkuOf[k[1]] # admin[a].sku
      BY <1>1, <2>2, ResolvedToCharge
    <3>2. AboutToCount(k) /\ Resolved(k) => AboutToCount(k)'
      BY <1>2, <3>1 DEF AboutToCount, RunsIdle
    <3>3. \A p \in Printings : charge'[p][k] = charge[p][k]
      BY <1>7, <2>2
    <3> QED BY <1>1, <3>2, <3>3, RowKept DEF CountInv
  <2> QED BY <2>1, <2>2
<1> QED BY <1>1, <1>2, <1>6, <1>8, RequestStepKeepsCount

\* A request that ends, after its last statement or before.
LEMMA RequestEndCounts ==
    ASSUME TypeInv, CountInv, NEW a \in Admins, Unqueue(a) \/ StopAdmin(a)
    PROVE  CountInv'
<1>1. /\ admin[a].pc # "idle" /\ AdminBecomes(a, IdleAdmin)
      /\ UNCHANGED <<mappings, lines, charge, run>>
      /\ (stops' = stops /\ admin[a].pc = "unqueue") \/ stops' = stops + 1
  BY DEF Unqueue, StopAdmin, rows
<1>2. RunsIdle /\ \A b \in Admins : b # a => admin[b].pc = "idle"
  BY <1>1, RequestTurn
<1>3. RequestCounts(a)'
  BY <1>1, NewStateOfRequest DEF RequestCounts, IdleAdmin
<1>4. ASSUME NEW k \in RowKeys PROVE RowCounts(k)'
  <2>1. stops' = 0 => stops = 0 /\ admin[a].pc = "unqueue"
    BY <1>1 DEF TypeInv, TypeOK
  <2>2. stops' = 0 => ~AboutToCount(k)
    BY <1>2, <2>1 DEF AboutToCount, RunsIdle
  <2> QED BY <1>1, <2>1, <2>2, RowKept DEF CountInv
<1> QED BY <1>1, <1>2, <1>3, <1>4, RequestStepKeepsCount

\* The steps of a run other than the two that write what is counted.
LEMMA OtherRunStepsCount ==
    ASSUME TypeInv, CountInv, RequestsAlone, NEW r \in Runs,
           BeginRun(r) \/ RunStep(r) \/ StopRun(r), ~InsertLine(r), ~ChargeLine(r)
    PROVE  CountInv'
<1> USE ConstantsAssumption DEF rows
<1>r. run[r] \in RunType
  BY StateTyped DEF TypedRun
<1>a. AdminsIdle
  <2>1. CASE BeginRun(r)
    BY <2>1 DEF BeginRun, RequestsAlone
  <2>2. CASE run[r].pc # "idle"
    BY <2>2, RunTurn
  <2> QED
    BY <2>1, <2>2 DEF RunStep, GetSales, PickSale, InsertTxn, InsertTxnRejected, FindMapping,
       QueueUnmapped, InsertLineRejected, AdvanceWatermark, ReadMappings, QueueItem, StopRun
<1>i. ASSUME NEW x, RunBecomes(r, x), x.pc \in {"idle", "fetch", "pick", "insert", "line", "diff", "list"},
             UNCHANGED <<admin, mappings, lines, charge>>,
             (stops' = stops /\ run[r].pc # "charge") \/ stops' = stops + 1
      PROVE  CountInv'
  BY <1>a, <1>i, NewStateOfRun, NotHoldingLine, RunStepCountsNothing
<1>1. CASE BeginRun(r)
  BY <1>1, <1>i, <1>r DEF BeginRun, RunType
<1>2. CASE GetSales(r)
  <2>1. PICK sales \in {made \ run[r].since, {}} :
          RunBecomes(r, [run[r] EXCEPT !.pc = "pick", !.since = {}, !.batch = sales])
    BY <1>2 DEF GetSales
  <2> QED BY <1>2, <2>1, <1>i, <1>r DEF GetSales, RunType
<1>3. CASE PickSale(r)
  <2> DEFINE x(s) == [run[r] EXCEPT !.batch = @ \ {s},
                                    !.pc = IF s \in Recorded THEN "pick" ELSE "insert",
                                    !.sale = IF s \in Recorded THEN None ELSE s]
  <2>1. PICK s \in run[r].batch : RunBecomes(r, x(s))
    BY <1>3 DEF PickSale
  <2>2. x(s).pc \in {"pick", "insert"}
    BY <1>r DEF RunType
  <2> HIDE DEF x
  <2> QED BY <1>3, <2>1, <2>2, <1>i DEF PickSale
<1>4. CASE InsertTxn(r)
  BY <1>4, <1>i, <1>r, LineDonePlace DEF InsertTxn
<1>5. CASE InsertTxnRejected(r)
  BY <1>5, <1>i DEF InsertTxnRejected, IdleRun
<1>6. CASE FindMapping(r)
  <2> DEFINE x(l) == [run[r] EXCEPT !.pc = AfterLookup(mappings[SkuOf[l]]), !.todo = @ \ {l},
                                    !.line = l, !.found = mappings[SkuOf[l]]]
  <2>1. PICK l \in run[r].todo : RunBecomes(r, x(l))
    BY <1>6 DEF FindMapping
  <2>2. /\ x(l).pc \in {"queue", "write"} /\ x(l).line = l /\ x(l).found = mappings[SkuOf[l]]
    BY <1>r DEF RunType, AfterLookup
  <2> HIDE DEF x
  <2>3. RunCounts(r)'
    BY <1>6, <2>1, <2>2, NewStateOfRun DEF FindMapping, RunCounts
  <2> QED BY <1>6, <1>a, <2>1, <2>3, RunStepCountsNothing DEF FindMapping
<1>7. CASE QueueUnmapped(r)
  <2> DEFINE x == [run[r] EXCEPT !.pc = "write"]
  <2>1. x.pc = "write" /\ x.line = run[r].line /\ x.found = run[r].found
    BY <1>r DEF RunType
  <2>2. RunBecomes(r, x) /\ run[r].pc = "queue" /\ mappings' = mappings
    BY <1>7 DEF QueueUnmapped
  <2>3. run[r].found = mappings[SkuOf[run[r].line]]
    BY <2>2 DEF CountInv, RunCounts
  <2> HIDE DEF x
  <2>4. RunCounts(r)'
    BY <2>1, <2>2, <2>3, NewStateOfRun DEF RunCounts
  <2> QED BY <1>7, <1>a, <2>2, <2>4, RunStepCountsNothing DEF QueueUnmapped
<1>8. CASE InsertLineRejected(r)
  BY <1>8, <1>i DEF InsertLineRejected, IdleRun
<1>9. CASE AdvanceWatermark(r)
  <2>1. (IF Pulls THEN [IdleRun EXCEPT !.pc = "diff"] ELSE IdleRun).pc \in {"diff", "idle"}
    BY DEF IdleRun
  <2> QED BY <1>9, <2>1, <1>i DEF AdvanceWatermark
<1>10. CASE ReadMappings(r)
  <2> DEFINE u(inventory) == {k \in inventory : mappings[k] = None}
             x(inventory) == IF u(inventory) = {} THEN IdleRun
                             ELSE [run[r] EXCEPT !.pc = "list", !.skus = u(inventory)]
  <2>1. PICK inventory \in SUBSET Skus : RunBecomes(r, x(inventory))
    BY <1>10 DEF ReadMappings
  <2>2. x(inventory).pc \in {"idle", "list"}
    BY <1>r DEF RunType, IdleRun
  <2> HIDE DEF x
  <2> QED BY <1>10, <2>1, <2>2, <1>i DEF ReadMappings
<1>11. CASE QueueItem(r)
  <2> DEFINE x(k) == IF run[r].skus = {k} THEN IdleRun
                     ELSE [run[r] EXCEPT !.skus = @ \ {k}]
  <2>1. PICK k \in run[r].skus : RunBecomes(r, x(k))
    BY <1>11 DEF QueueItem
  <2>2. x(k).pc \in {"idle", "list"}
    BY <1>11, <1>r DEF RunType, IdleRun, QueueItem
  <2> HIDE DEF x
  <2> QED BY <1>11, <2>1, <2>2, <1>i DEF QueueItem
<1>12. CASE StopRun(r)
  BY <1>12, <1>i DEF StopRun, IdleRun
<1> QED BY <1>1, <1>2, <1>3, <1>4, <1>5, <1>6, <1>7, <1>8, <1>9, <1>10, <1>11, <1>12 DEF RunStep

LEMMA CountInvStep ==
    ASSUME TypeInv, PostingInv, CountInv, RequestsAlone, [Next]_vars
    PROVE  CountInv'
<1>u. ASSUME UNCHANGED <<lines, mappings, charge, run, admin, stops>> PROVE CountInv'
  <2>1. TurnsTaken' /\ \A r \in Runs : RunCounts(r)'
    BY <1>u DEF CountInv, TurnsTaken, RunsIdle, AdminsIdle, RunCounts, Posted
  <2>2. \A a \in Admins : RequestCounts(a)'
    BY <1>u DEF CountInv, RequestCounts, LinesToCharge, Posted
  <2>3. ASSUME NEW k \in RowKeys PROVE RowCounts(k)'
    <3>1. AboutToCount(k) => AboutToCount(k)'
      BY <1>u DEF AboutToCount
    <3> QED BY <1>u, <3>1, RowKept DEF CountInv
  <2> QED BY <2>1, <2>2, <2>3 DEF CountInv
<1>1. ASSUME NEW s \in Sales, MakeSale(s) PROVE CountInv'
  BY <1>1, <1>u DEF MakeSale
<1>2. ASSUME NEW r \in Runs, BeginRun(r) \/ RunStep(r) \/ StopRun(r) PROVE CountInv'
  BY <1>2, InsertLineCounts, ChargeLineCounts, OtherRunStepsCount
<1>3. ASSUME NEW a \in Admins, Request(a) PROVE CountInv'
  BY <1>3, CreateCounts, DeleteCounts DEF Request, ReadMapping, MayRequest, RequestsAlone
<1>4. ASSUME NEW a \in Admins, AdminStep(a) PROVE CountInv'
  <2>1. admin[a].pc \notin {"reversible", "reverse", "remap"}
    BY DEF CountInv, RequestCounts
  <2> QED BY <1>4, <2>1, FillCounts, SumCounts, PostCounts, RequestEndCounts
          DEF AdminStep, SumReversible, Reverse, Remap
<1>5. ASSUME NEW a \in Admins, StopAdmin(a) PROVE CountInv'
  BY <1>5, RequestEndCounts
<1>6. CASE UNCHANGED vars
  BY <1>6, <1>u DEF vars
<1> QED BY <1>1, <1>2, <1>3, <1>4, <1>5, <1>6 DEF Next

LEMMA CountInvInit == Init => CountInv
  BY DEF Init, CountInv, TurnsTaken, RunsIdle, AdminsIdle, RunCounts, RequestCounts, RowCounts,
         Resolved, Posted, IdleRun, IdleAdmin, RowKeys

\* The inductive invariant of the two theorems that follow.
LEMMA CountsHold == ASSUME RequestsAlone PROVE Spec => [](TypeInv /\ CountInv)
<1>1. Init => TypeInv /\ PostingInv
  BY ConstantsAssumption
     DEF Init, TypeInv, TypeOK, InProgressTyped, RunType, AdminType, IdleRun, IdleAdmin,
         PostingInv, OneTxnPerSale, RunsOwnTheirSale, OwnsItsSale, InSale, LinesPostedOnce,
         Posted, RowKeys
<1>2. TypeInv /\ PostingInv /\ CountInv /\ [Next]_vars => (TypeInv /\ PostingInv /\ CountInv)'
  BY TypeInvStep, PostingInvStep, CountInvStep
<1> QED BY <1>1, <1>2, CountInvInit, PTL DEF Spec

\* As long as mapping requests are made between runs and none updates a mapping, no
\* printing's quantity counts a line twice, or counts a line of another printing:
\* whatever overlaps, fails, is killed and is retried.
THEOREM NothingChargedTwice == ASSUME RequestsAlone PROVE Spec => []NoLineChargedTwice
<1>1. CountInv => NoLineChargedTwice
  BY DEF CountInv, RowCounts, NoLineChargedTwice
<1> QED BY <1>1, CountsHold, PTL

\* Under the same condition, and as long as nothing has ended early, the quantities
\* are exact whenever nothing is in progress.
THEOREM QuietExact == ASSUME RequestsAlone PROVE Spec => []QuietLedgerExact
<1>1. ASSUME TypeInv, CountInv, stops = 0, Quiet, NEW p \in Printings, NEW k \in RowKeys
      PROVE  charge[p][k] = IF Posted(k) /\ lines[k].printing = p THEN 1 ELSE 0
  <2>1. RowCounts(k)
    BY <1>1 DEF CountInv
  <2>2. ~AboutToCount(k)
    BY <1>1 DEF Quiet, RunsIdle, AdminsIdle, AboutToCount
  <2>3. Posted(k) /\ lines[k].printing = p => Resolved(k)
    BY <1>1, ConstantsAssumption DEF Resolved
  <2> QED BY <1>1, <2>1, <2>2, <2>3 DEF RowCounts
<1>2. TypeInv /\ CountInv => QuietLedgerExact
  BY <1>1 DEF QuietLedgerExact
<1> QED BY <1>2, CountsHold, PTL


-----------------------------------------------------------------------------
(* Ingestion implements SalePosting.  The argument: the run that inserts a *)
(* transaction opens the sale, each INSERT of a line posts it, and a run   *)
(* that lets go of a sale with lines to post abandons it for good, because *)
(* no run takes up a recorded sale; every other step leaves the abstract   *)
(* state alone.  The invariant adds what a run has in hand: the lines of   *)
(* its sale that it has neither posted nor holds are still in its list,    *)
(* and it holds no sale outside of these steps.                            *)

InHand(r) ==
    /\ InSale(r) =>
         \A l \in LinesOf(run[r].sale) :
            \/ l \in run[r].todo
            \/ Posted(<<l, r>>)
            \/ run[r].pc \in {"queue", "write"} /\ l = run[r].line
    /\ run[r].sale # None /\ ~InSale(r) =>
         run[r].pc = "insert" /\ [sale |-> run[r].sale, by |-> r] \notin txns

InHandInv == \A r \in Runs : InHand(r)

\* A run that is not touched keeps what it has, whatever other runs write.
LEMMA InHandKept ==
    ASSUME TypeInv, NEW r \in Runs, InHand(r), run'[r] = run[r],
           \A s : [sale |-> s, by |-> r] \in txns' => [sale |-> s, by |-> r] \in txns,
           \A l \in Lines : Posted(<<l, r>>) => Posted(<<l, r>>)'
    PROVE  InHand(r)'
  BY DEF InHand, InSale, LinesOf

\* A run that holds no sale has nothing in hand.
LEMMA EmptyHanded ==
    ASSUME NEW r, run'[r].sale = None, ~InSale(r)'
    PROVE  InHand(r)'
  BY DEF InHand

LEMMA RunStepKeepsHand ==
    ASSUME TypeInv, InHandInv, NEW r \in Runs, NEW x, RunBecomes(r, x),
           txns' = txns, lines' = lines, InHand(r)'
    PROVE  InHandInv'
<1>1. ASSUME NEW q \in Runs, q # r PROVE InHand(q)'
  <2>1. run'[q] = run[q] /\ InHand(q)
    BY <1>1, NewStateOfRun DEF InHandInv
  <2> QED BY <2>1, InHandKept DEF Posted
<1> QED BY <1>1 DEF InHandInv

\* After a line, the lines that are not in the list are posted.
LEMMA LineDoneInHand ==
    ASSUME NEW r, NEW todo, run[r] \in RunType, run'[r] = LineDone(r, todo),
           \A l \in LinesOf(run[r].sale) : l \in todo \/ Posted(<<l, r>>)'
    PROVE  InHand(r)'
<1>1. CASE todo = {}
  <2>1. run'[r].pc = "pick" /\ run'[r].sale = None
    BY <1>1 DEF LineDone, RunType
  <2> QED BY <2>1, EmptyHanded DEF InSale
<1>2. CASE todo # {}
  <2>1. run'[r].pc = "line" /\ run'[r].todo = todo /\ run'[r].sale = run[r].sale
    BY <1>2 DEF LineDone, RunType
  <2> QED BY <2>1 DEF InHand, InSale, LinesOf
<1> QED BY <1>1, <1>2

LEMMA InHandStep == TypeInv /\ PostingInv /\ InHandInv /\ [Next]_vars => InHandInv'
<1> SUFFICES ASSUME TypeInv, PostingInv, InHandInv, [Next]_vars PROVE InHandInv'
  OBVIOUS
<1> USE ConstantsAssumption
<1>r. \A r \in Runs : run[r] \in RunType /\ TypedRun(run[r]) /\ OwnsItsSale(r) /\ InHand(r)
  BY StateTyped DEF TypedRun, PostingInv, RunsOwnTheirSale, InHandInv
<1>i. ASSUME NEW r \in Runs, RunBecomes(r, IdleRun), txns' = txns, lines' = lines
      PROVE  InHandInv'
  <2>1. run'[r].sale = None /\ run'[r].pc = "idle"
    BY <1>i, NewStateOfRun DEF IdleRun
  <2>2. InHand(r)'
    BY <2>1, EmptyHanded DEF InSale
  <2> QED BY <1>i, <2>2, RunStepKeepsHand
<1>o. ASSUME NEW r \in Runs, NEW x, RunBecomes(r, x), txns' = txns, lines' = lines,
             x.sale = run[r].sale, x.pc \in {"fetch", "pick", "diff", "list"},
             run[r].pc \in {"idle", "fetch", "pick", "diff", "list"}
      PROVE  InHandInv'
  <2>1. run'[r] = x
    BY <1>o, NewStateOfRun
  <2>2. run[r].sale = None
    BY <1>o, <1>r DEF InHand, InSale
  <2>3. InHand(r)'
    BY <1>o, <2>1, <2>2, EmptyHanded DEF InSale
  <2> QED BY <1>o, <2>3, RunStepKeepsHand
<1>u. ASSUME run' = run, txns' = txns, \A k \in RowKeys : Posted(k)' <=> Posted(k)
      PROVE  InHandInv'
  <2>1. \A l \in Lines, r \in Runs : Posted(<<l, r>>)' <=> Posted(<<l, r>>)
    BY <1>u DEF RowKeys
  <2> QED BY <1>u, <1>r, <2>1, InHandKept DEF InHandInv
<1>v. ASSUME run' = run, txns' = txns, lines' = lines PROVE InHandInv'
  BY <1>u, <1>v DEF Posted
<1>1. ASSUME NEW s \in Sales, MakeSale(s) PROVE InHandInv'
  BY <1>1, <1>v DEF MakeSale
<1>2. ASSUME NEW r \in Runs, BeginRun(r) PROVE InHandInv'
  <2> DEFINE x == [run[r] EXCEPT !.pc = "fetch", !.since = behind]
  <2>1. RunBecomes(r, x) /\ txns' = txns /\ lines' = lines /\ run[r].pc = "idle"
    BY <1>2 DEF BeginRun, rows
  <2>2. x.pc = "fetch" /\ x.sale = run[r].sale
    BY <1>r DEF RunType
  <2> HIDE DEF x
  <2> QED BY <2>1, <2>2, <1>o
<1>3. ASSUME NEW r \in Runs, GetSales(r) PROVE InHandInv'
  <2>0. PICK sales \in {made \ run[r].since, {}} :
          RunBecomes(r, [run[r] EXCEPT !.pc = "pick", !.since = {}, !.batch = sales])
    BY <1>3 DEF GetSales
  <2> DEFINE x == [run[r] EXCEPT !.pc = "pick", !.since = {}, !.batch = sales]
  <2>1. RunBecomes(r, x) /\ txns' = txns /\ lines' = lines /\ run[r].pc = "fetch"
    BY <1>3, <2>0 DEF GetSales, rows
  <2>2. x.pc = "pick" /\ x.sale = run[r].sale
    BY <1>r DEF RunType
  <2> HIDE DEF x
  <2> QED BY <2>1, <2>2, <1>o
<1>4. ASSUME NEW r \in Runs, PickSale(r) PROVE InHandInv'
  <2> DEFINE x(s) == [run[r] EXCEPT !.batch = @ \ {s},
                                    !.pc = IF s \in Recorded THEN "pick" ELSE "insert",
                                    !.sale = IF s \in Recorded THEN None ELSE s]
  <2>1. PICK s \in run[r].batch : RunBecomes(r, x(s)) /\ txns' = txns /\ lines' = lines
    BY <1>4 DEF PickSale, rows
  <2>2. /\ x(s).pc = IF s \in Recorded THEN "pick" ELSE "insert"
        /\ x(s).sale = IF s \in Recorded THEN None ELSE s
    BY <1>r DEF RunType
  <2> HIDE DEF x
  <2>3. run'[r] = x(s)
    BY <2>1, NewStateOfRun
  <2>4. s \notin Recorded => [sale |-> s, by |-> r] \notin txns
    BY DEF Recorded
  <2>5. InHand(r)'
    BY <2>1, <2>2, <2>3, <2>4 DEF InHand, InSale
  <2> QED BY <2>1, <2>5, RunStepKeepsHand
<1>5. ASSUME NEW r \in Runs, InsertTxn(r) PROVE InHandInv'
  <2> DEFINE s == run[r].sale
  <2>1. /\ txns' = txns \cup {[sale |-> s, by |-> r]}
        /\ lines' = lines
        /\ RunBecomes(r, LineDone(r, LinesOf(s)))
    BY <1>5 DEF InsertTxn
  <2>2. InHand(r)'
    BY <2>1, <1>r, NewStateOfRun, LineDoneInHand
  <2>3. ASSUME NEW q \in Runs, q # r PROVE InHand(q)'
    <3>1. \A t : [sale |-> t, by |-> q] \in txns' => [sale |-> t, by |-> q] \in txns
      BY <2>1, <2>3
    <3> QED BY <2>1, <2>3, <3>1, <1>r, NewStateOfRun, InHandKept DEF Posted
  <2> QED BY <2>2, <2>3 DEF InHandInv
<1>6. ASSUME NEW r \in Runs, InsertTxnRejected(r) PROVE InHandInv'
  BY <1>6, <1>i DEF InsertTxnRejected, rows
<1>7. ASSUME NEW r \in Runs, FindMapping(r) PROVE InHandInv'
  <2> DEFINE m(l) == mappings[SkuOf[l]]
  <2> DEFINE x(l) == [run[r] EXCEPT !.pc = AfterLookup(m(l)), !.todo = @ \ {l},
                                    !.line = l, !.found = m(l)]
  <2>1. PICK l \in run[r].todo : RunBecomes(r, x(l)) /\ txns' = txns /\ lines' = lines
    BY <1>7 DEF FindMapping, rows
  <2>2. /\ x(l).line = l /\ x(l).todo = run[r].todo \ {l} /\ x(l).sale = run[r].sale
        /\ x(l).pc \in {"queue", "write"}
    BY <1>r DEF RunType, AfterLookup
  <2>3. InSale(r) /\ run[r].pc = "line"
    BY <1>7 DEF FindMapping, InSale
  <2> HIDE DEF x
  <2>4. run'[r] = x(l)
    BY <2>1, NewStateOfRun
  <2>5. InHand(r)'
    BY <2>1, <2>2, <2>3, <2>4, <1>r DEF InHand, InSale, Posted, LinesOf
  <2> QED BY <2>1, <2>5, RunStepKeepsHand
<1>8. ASSUME NEW r \in Runs, QueueUnmapped(r) PROVE InHandInv'
  <2> DEFINE x == [run[r] EXCEPT !.pc = "write"]
  <2>1. RunBecomes(r, x) /\ txns' = txns /\ lines' = lines /\ run[r].pc = "queue"
    BY <1>8 DEF QueueUnmapped
  <2>2. x.pc = "write" /\ x.line = run[r].line /\ x.todo = run[r].todo /\ x.sale = run[r].sale
    BY <1>r DEF RunType
  <2> HIDE DEF x
  <2>3. InHand(r)'
    BY <2>1, <2>2, <1>r, NewStateOfRun DEF InHand, InSale, Posted, LinesOf
  <2> QED BY <2>1, <2>3, RunStepKeepsHand
<1>9. ASSUME NEW r \in Runs, InsertLine(r) PROVE InHandInv'
  <2> DEFINE line == run[r].line
  <2>1. RunBecomes(r, LineWritten(r)) /\ txns' = txns /\ run[r].pc = "write" /\ line \in Lines
    BY <1>9, <1>r DEF InsertLine, TypedRun
  <2>2. \A k \in RowKeys : Posted(k)' <=> Posted(k) \/ k = <<line, r>>
    BY <1>9, LinePosted
  <2>3. \A l \in LinesOf(run[r].sale) : l \in run[r].todo \/ Posted(<<l, r>>)'
    BY <2>1, <2>2, <1>r DEF InHand, InSale, RowKeys, LinesOf
  <2>4. InHand(r)'
    <3>1. CASE run[r].found = None
      BY <3>1, <2>1, <2>3, <1>r, NewStateOfRun, LineDoneInHand DEF LineWritten
    <3>2. CASE run[r].found # None
      <4>1. run'[r] = [run[r] EXCEPT !.pc = "charge"]
        BY <3>2, <2>1, NewStateOfRun DEF LineWritten
      <4>2. run'[r].pc = "charge" /\ run'[r].todo = run[r].todo /\ run'[r].sale = run[r].sale
        BY <4>1, <1>r DEF RunType
      <4> QED BY <4>2, <2>3 DEF InHand, InSale, LinesOf
    <3> QED BY <3>1, <3>2
  <2>5. ASSUME NEW q \in Runs, q # r PROVE InHand(q)'
    <3>1. \A l \in Lines : Posted(<<l, q>>) => Posted(<<l, q>>)'
      BY <2>2 DEF RowKeys
    <3> QED BY <3>1, <2>1, <2>5, <1>r, NewStateOfRun, InHandKept
  <2> QED BY <2>4, <2>5 DEF InHandInv
<1>10. ASSUME NEW r \in Runs, InsertLineRejected(r) PROVE InHandInv'
  BY <1>10, <1>i DEF InsertLineRejected, rows
<1>11. ASSUME NEW r \in Runs, ChargeLine(r) PROVE InHandInv'
  <2>1. /\ RunBecomes(r, LineDone(r, run[r].todo)) /\ txns' = txns /\ lines' = lines
        /\ run[r].pc = "charge"
    BY <1>11 DEF ChargeLine
  <2>2. \A l \in LinesOf(run[r].sale) : l \in run[r].todo \/ Posted(<<l, r>>)'
    BY <2>1, <1>r DEF InHand, InSale, Posted
  <2>3. InHand(r)'
    BY <2>1, <2>2, <1>r, NewStateOfRun, LineDoneInHand
  <2> QED BY <2>1, <2>3, RunStepKeepsHand
<1>12. ASSUME NEW r \in Runs, AdvanceWatermark(r) PROVE InHandInv'
  <2> DEFINE x == IF Pulls THEN [IdleRun EXCEPT !.pc = "diff"] ELSE IdleRun
  <2>1. RunBecomes(r, x) /\ txns' = txns /\ lines' = lines
    BY <1>12 DEF AdvanceWatermark
  <2>2. x.pc \in {"diff", "idle"} /\ x.sale = None
    BY DEF IdleRun
  <2> HIDE DEF x
  <2>3. InHand(r)'
    BY <2>1, <2>2, NewStateOfRun, EmptyHanded DEF InSale
  <2> QED BY <2>1, <2>3, RunStepKeepsHand
<1>13. ASSUME NEW r \in Runs, ReadMappings(r) PROVE InHandInv'
  <2> DEFINE u(inventory) == {k \in inventory : mappings[k] = None}
  <2> DEFINE x(inventory) == [run[r] EXCEPT !.pc = "list", !.skus = u(inventory)]
  <2>1. PICK inventory \in SUBSET Skus :
           /\ RunBecomes(r, IF u(inventory) = {} THEN IdleRun ELSE x(inventory))
           /\ txns' = txns /\ lines' = lines /\ run[r].pc = "diff"
    BY <1>13 DEF ReadMappings, rows
  <2>2. x(inventory).pc = "list" /\ x(inventory).sale = run[r].sale
    BY <1>r DEF RunType
  <2> HIDE DEF x
  <2>3. CASE u(inventory) = {}
    BY <2>1, <2>3, <1>i
  <2>4. CASE u(inventory) # {}
    BY <2>1, <2>2, <2>4, <1>o
  <2> QED BY <2>3, <2>4
<1>14. ASSUME NEW r \in Runs, QueueItem(r) PROVE InHandInv'
  <2> DEFINE x(k) == [run[r] EXCEPT !.skus = @ \ {k}]
  <2>1. PICK k \in run[r].skus :
           /\ RunBecomes(r, IF run[r].skus = {k} THEN IdleRun ELSE x(k))
           /\ txns' = txns /\ lines' = lines /\ run[r].pc = "list"
    BY <1>14 DEF QueueItem
  <2>2. x(k).pc = "list" /\ x(k).sale = run[r].sale
    BY <2>1, <1>r DEF RunType
  <2> HIDE DEF x
  <2>3. CASE run[r].skus = {k}
    BY <2>1, <2>3, <1>i
  <2>4. CASE run[r].skus # {k}
    BY <2>1, <2>2, <2>4, <1>o
  <2> QED BY <2>3, <2>4
<1>15. ASSUME NEW r \in Runs, StopRun(r) PROVE InHandInv'
  BY <1>15, <1>i DEF StopRun, rows
<1>16. ASSUME NEW a \in Admins, Request(a) PROVE InHandInv'
  BY <1>16, <1>v DEF Request, CreateMapping, ReadMapping, DeleteMapping, rows
<1>17. ASSUME NEW a \in Admins, FillLines(a) PROVE InHandInv'
  BY <1>17, <1>u, FillKeepsPosted DEF FillLines
<1>18. ASSUME NEW a \in Admins, AdminStep(a), ~FillLines(a) PROVE InHandInv'
  BY <1>18, <1>v DEF AdminStep, SumReversible, Reverse, Remap, SumLines, PostSum, Unqueue, rows
<1>19. ASSUME NEW a \in Admins, StopAdmin(a) PROVE InHandInv'
  BY <1>19, <1>v DEF StopAdmin, rows
<1>20. CASE UNCHANGED vars
  BY <1>20, <1>v DEF vars
<1> QED BY <1>1, <1>2, <1>3, <1>4, <1>5, <1>6, <1>7, <1>8, <1>9, <1>10, <1>11, <1>12, <1>13,
           <1>14, <1>15, <1>16, <1>17, <1>18, <1>19, <1>20 DEF Next, RunStep
-----------------------------------------------------------------------------
(* The steps of SalePosting.                                               *)

LEMMA TheClerk ==
    ASSUME PostingInv, NEW s, NEW r \in Runs, [sale |-> s, by |-> r] \in txns
    PROVE  ClerkOf(s) = r
<1>1. \A q \in Runs : [sale |-> s, by |-> q] \in txns => q = r
  BY DEF PostingInv, OneTxnPerSale
<1> QED BY <1>1 DEF ClerkOf

LEMMA TheClerkNext ==
    ASSUME PostingInv', NEW s, NEW r \in Runs, [sale |-> s, by |-> r] \in txns'
    PROVE  ClerkOf(s)' = r
<1>1. \A q \in Runs : [sale |-> s, by |-> q] \in txns' => q = r
  BY DEF PostingInv, OneTxnPerSale
<1> QED BY <1>1 DEF ClerkOf

LEMMA RecordedByRun ==
    ASSUME TypeInv, NEW s \in Recorded
    PROVE  \E r \in Runs : [sale |-> s, by |-> r] \in txns
<1>1. PICK t \in txns : t.sale = s
  BY DEF Recorded
<1>2. t \in [sale : Sales, by : Runs]
  BY <1>1 DEF TypeInv, TypeOK
<1>3. t = [sale |-> s, by |-> t.by] /\ t.by \in Runs
  BY <1>1, <1>2
<1> QED BY <1>1, <1>3

LEMMA LineDoneSale ==
    ASSUME NEW r, NEW todo, run[r] \in RunType
    PROVE  LineDone(r, todo).sale = IF todo = {} THEN None ELSE run[r].sale
<1>1. CASE todo = {}
  BY <1>1 DEF LineDone, RunType
<1>2. CASE todo # {}
  BY <1>2 DEF LineDone, RunType
<1> QED BY <1>1, <1>2

LEMMA LineWrittenSale ==
    ASSUME NEW r, run[r] \in RunType
    PROVE  LineWritten(r).sale = IF run[r].found = None /\ run[r].todo = {} THEN None ELSE run[r].sale
<1>1. CASE run[r].found = None
  BY <1>1, LineDoneSale DEF LineWritten
<1>2. CASE run[r].found # None
  BY <1>2 DEF LineWritten, RunType
<1> QED BY <1>1, <1>2

Whole(s, r) == \A l \in LinesOf(s) : Posted(<<l, r>>)

\* The phase of a sale in terms of the run that recorded it.
LEMMA PhaseOfRecorded ==
    ASSUME PostingInv, NEW s, NEW r \in Runs, [sale |-> s, by |-> r] \in txns
    PROVE  /\ s \in Recorded /\ ClerkOf(s) = r
           /\ PhaseOf(s) = IF Whole(s, r) THEN "whole"
                           ELSE IF run[r].sale = s THEN "open" ELSE "torn"
<1>1. ClerkOf(s) = r
  BY TheClerk
<1>2. s \in Recorded
  BY DEF Recorded
<1> QED BY <1>1, <1>2 DEF PhaseOf, Whole

LEMMA PhaseOfRecordedNext ==
    ASSUME PostingInv', NEW s, NEW r \in Runs, [sale |-> s, by |-> r] \in txns'
    PROVE  /\ s \in Recorded' /\ ClerkOf(s)' = r
           /\ PhaseOf(s)' = IF Whole(s, r)' THEN "whole"
                            ELSE IF run'[r].sale = s THEN "open" ELSE "torn"
<1>1. ClerkOf(s)' = r
  BY TheClerkNext
<1>2. s \in Recorded'
  BY DEF Recorded
<1> QED BY <1>1, <1>2 DEF PhaseOf, Whole

\* What a step leaves of a recorded sale, if it keeps the lines and the hold that
\* the run has of the sale.
LEMMA SaleKept ==
    ASSUME TypeInv, PostingInv, PostingInv', txns \subseteq txns', NEW s \in Recorded,
           \A l \in LinesOf(s), r \in Runs : Posted(<<l, r>>)' <=> Posted(<<l, r>>),
           \A r \in Runs : [sale |-> s, by |-> r] \in txns =>
              Whole(s, r) \/ (run'[r].sale = s <=> run[r].sale = s)
    PROVE  s \in Recorded' /\ ClerkOf(s)' = ClerkOf(s) /\ PhaseOf(s)' = PhaseOf(s)
<1>1. PICK r \in Runs : [sale |-> s, by |-> r] \in txns
  BY RecordedByRun
<1>2. [sale |-> s, by |-> r] \in txns'
  BY <1>1
<1>3. Whole(s, r)' <=> Whole(s, r)
  BY DEF Whole, LinesOf
<1> QED BY <1>1, <1>2, <1>3, PhaseOfRecorded, PhaseOfRecordedNext

Stutters ==
    /\ \A s \in Sales : /\ PhaseOf(s)' = PhaseOf(s)
                        /\ s \in Recorded' <=> s \in Recorded
                        /\ s \in Recorded => ClerkOf(s)' = ClerkOf(s)
    /\ PostedRows' = PostedRows

LEMMA StuttersIsStutter == Stutters => UNCHANGED <<Phases, ClerksOfSales, PostedRows>>
  BY DEF Stutters, Phases, ClerksOfSales

\* A step that writes no row of either table, and after which no run holds a sale
\* it did not hold, or holds no longer one that has lines to post.
LEMMA Unnoticed ==
    ASSUME TypeInv, PostingInv, PostingInv', txns' = txns,
           \A k \in RowKeys : Posted(k)' <=> Posted(k),
           \A s \in Sales, r \in Runs : [sale |-> s, by |-> r] \in txns =>
              Whole(s, r) \/ (run'[r].sale = s <=> run[r].sale = s)
    PROVE  UNCHANGED <<Phases, ClerksOfSales, PostedRows>>
<1>1. PostedRows' = PostedRows
  BY DEF PostedRows, RowKeys
<1>2. Recorded' = Recorded
  BY DEF Recorded
<1>3. \A l \in Lines, r \in Runs : Posted(<<l, r>>)' <=> Posted(<<l, r>>)
  BY DEF RowKeys
<1>4. ASSUME NEW s \in Sales, s \in Recorded
      PROVE  ClerkOf(s)' = ClerkOf(s) /\ PhaseOf(s)' = PhaseOf(s)
  BY <1>3, <1>4, SaleKept DEF LinesOf
<1>5. ASSUME NEW s \in Sales, s \notin Recorded PROVE PhaseOf(s)' = PhaseOf(s)
  BY <1>2, <1>5 DEF PhaseOf
<1> QED BY <1>1, <1>2, <1>4, <1>5, StuttersIsStutter DEF Stutters

\* A run lets go of what it holds: its sale, if it recorded it and has lines to
\* post, is abandoned; nobody notices otherwise.
LEMMA LettingGo ==
    ASSUME TypeInv, PostingInv, PostingInv', NEW r \in Runs, NEW x, RunBecomes(r, x),
           x.sale = None, txns' = txns, lines' = lines
    PROVE  [Posting!Next]_(Posting!vars)
<1> USE ConstantsAssumption
<1>s. PICK s : s = run[r].sale
  OBVIOUS
<1>1. run'[r].sale = None /\ \A q \in Runs : q # r => run'[q] = run[q]
  BY NewStateOfRun
<1>2. \A k \in RowKeys : Posted(k)' <=> Posted(k)
  BY DEF Posted
<1>3. \A t \in Sales, q \in Runs : <<t, q>> # <<s, r>> => (run'[q].sale = t <=> run[q].sale = t)
  BY <1>s, <1>1
<1>4. CASE s \in Sales /\ [sale |-> s, by |-> r] \in txns /\ ~Whole(s, r)
  <2>1. /\ s \in Recorded /\ ClerkOf(s) = r /\ PhaseOf(s) = "open"
        /\ s \in Recorded' /\ ClerkOf(s)' = r /\ PhaseOf(s)' = "torn"
    <3>1. [sale |-> s, by |-> r] \in txns'
      BY <1>4
    <3>2. ~Whole(s, r)'
      BY <1>4 DEF Whole, Posted, LinesOf
    <3>3. run'[r].sale # s
      BY <1>1, <1>4
    <3> QED BY <1>s, <1>4, <3>1, <3>2, <3>3, PhaseOfRecorded, PhaseOfRecordedNext
  <2>2. Recorded' = Recorded
    BY DEF Recorded
  <2>3. ASSUME NEW t \in Sales, t # s, t \in Recorded
        PROVE  ClerkOf(t)' = ClerkOf(t) /\ PhaseOf(t)' = PhaseOf(t)
    BY <1>3, <2>3, SaleKept DEF Posted
  <2>4. ASSUME NEW t \in Sales, t \notin Recorded PROVE PhaseOf(t)' = PhaseOf(t)
    BY <2>2, <2>4 DEF PhaseOf
  <2>5. ClerksOfSales' = ClerksOfSales
    BY <2>1, <2>2, <2>3 DEF ClerksOfSales
  <2>6. PostedRows' = PostedRows
    BY DEF PostedRows, Posted
  <2>7. Phases' = [Phases EXCEPT ![s] = "torn"]
    BY <2>1, <2>3, <2>4 DEF Phases
  <2>8. Phases[s] = "open"
    BY <1>4, <2>1 DEF Phases
  <2>9. Posting!Abandon(s)
    BY <2>5, <2>6, <2>7, <2>8 DEF Posting!Abandon
  <2> QED BY <1>4, <2>9 DEF Posting!Next
<1>5. CASE ~(s \in Sales /\ [sale |-> s, by |-> r] \in txns /\ ~Whole(s, r))
  <2>1. \A t \in Sales, q \in Runs : [sale |-> t, by |-> q] \in txns =>
           Whole(t, q) \/ (run'[q].sale = t <=> run[q].sale = t)
    BY <1>3, <1>5
  <2>2. UNCHANGED <<Phases, ClerksOfSales, PostedRows>>
    BY <1>2, <2>1, Unnoticed
  <2> QED BY <2>2 DEF Posting!vars
<1> QED BY <1>4, <1>5

\* A run goes on with the sale it has, or without one.
LEMMA GoingOn ==
    ASSUME TypeInv, PostingInv, PostingInv', NEW r \in Runs, NEW x, RunBecomes(r, x),
           x.sale = run[r].sale, txns' = txns, lines' = lines
    PROVE  [Posting!Next]_(Posting!vars)
<1>1. \A q \in Runs : run'[q].sale = run[q].sale
  BY NewStateOfRun
<1>2. UNCHANGED <<Phases, ClerksOfSales, PostedRows>>
  BY <1>1, Unnoticed DEF Posted
<1> QED BY <1>2 DEF Posting!vars

LEMMA OpensSale ==
    ASSUME TypeInv, PostingInv, PostingInv', NEW r \in Runs, InsertTxn(r)
    PROVE  Posting!Next
<1> USE ConstantsAssumption
<1>s. PICK s : s = run[r].sale
  OBVIOUS
<1>r. run[r] \in RunType /\ TypedRun(run[r]) /\ run[r].pc = "insert" /\ s \in Sales
  BY <1>s, StateTyped DEF TypedRun, InsertTxn
<1>1. /\ s \notin Recorded
      /\ txns' = txns \cup {[sale |-> s, by |-> r]}
      /\ lines' = lines
      /\ RunBecomes(r, LineDone(r, LinesOf(s)))
  BY <1>s DEF InsertTxn, KeyTaken
<1>2. Recorded' = Recorded \cup {s}
  <2>1. \A t \in txns : t \in txns' /\ t.sale \in Recorded'
    BY <1>1 DEF Recorded
  <2>2. s \in Recorded'
    <3>1. [sale |-> s, by |-> r] \in txns' /\ [sale |-> s, by |-> r].sale = s
      BY <1>1
    <3> QED BY <3>1 DEF Recorded
  <2>3. \A t \in txns' : t.sale \in Recorded \cup {s}
    BY <1>1 DEF Recorded
  <2> QED BY <2>1, <2>2, <2>3 DEF Recorded
<1>3. PostedRows' = PostedRows
  BY <1>1 DEF PostedRows, Posted
<1>4. run'[r].sale = IF LinesOf(s) = {} THEN None ELSE s
  BY <1>s, <1>1, <1>r, NewStateOfRun, LineDoneSale
<1>5. \A l \in LinesOf(s) : ~Posted(<<l, r>>)'
  BY <1>1, RowsRecorded DEF Posted, LinesOf
<1>6. /\ ClerkOf(s)' = r
      /\ PhaseOf(s)' = IF LinesOf(s) = {} THEN "whole" ELSE "open"
  <2>1. [sale |-> s, by |-> r] \in txns'
    BY <1>1
  <2>2. Whole(s, r)' <=> LinesOf(s) = {}
    BY <1>5 DEF Whole, LinesOf
  <2> QED BY <2>1, <2>2, <1>4, PhaseOfRecordedNext
<1>7. ASSUME NEW t \in Sales, t # s, t \in Recorded
      PROVE  ClerkOf(t)' = ClerkOf(t) /\ PhaseOf(t)' = PhaseOf(t)
  <2>1. \A q \in Runs : run'[q].sale = t <=> run[q].sale = t
    BY <1>s, <1>1, <1>4, <1>7, NewStateOfRun
  <2> QED BY <1>1, <1>7, <2>1, SaleKept DEF Posted
<1>8. ASSUME NEW t \in Sales, t # s, t \notin Recorded
      PROVE  t \notin Recorded' /\ PhaseOf(t)' = PhaseOf(t)
  BY <1>2, <1>8 DEF PhaseOf
<1>9. Phases[s] = "new"
  BY <1>1, <1>r DEF Phases, PhaseOf
<1>10. ClerksOfSales' = [ClerksOfSales EXCEPT ![s] = r]
  BY <1>2, <1>6, <1>7, <1>8 DEF ClerksOfSales
<1>11. Posting!Remaining(s, PostedRows) = LinesOf(s)
  <2>1. ClerksOfSales'[s] = r
    BY <1>10, <1>r DEF ClerksOfSales
  <2>2. \A l \in LinesOf(s) : <<l, r>> \notin PostedRows
    BY <1>3, <1>5 DEF PostedRows, Posted
  <2> QED BY <2>1, <2>2 DEF Posting!Remaining, LinesOf
<1>12. Phases' = [Phases EXCEPT ![s] = IF LinesOf(s) = {} THEN "whole" ELSE "open"]
  BY <1>6, <1>7, <1>8 DEF Phases
<1>13. Posting!Open(s, r)
  BY <1>3, <1>9, <1>10, <1>11, <1>12 DEF Posting!Open
<1> QED BY <1>13, <1>r DEF Posting!Next

LEMMA PostsLine ==
    ASSUME TypeInv, PostingInv, InHandInv, PostingInv', NEW r \in Runs, InsertLine(r)
    PROVE  Posting!Next
<1> USE ConstantsAssumption
<1> DEFINE line == run[r].line
<1>s. PICK s : s = run[r].sale
  OBVIOUS
<1>r. run[r] \in RunType /\ TypedRun(run[r]) /\ OwnsItsSale(r) /\ InHand(r)
  BY StateTyped DEF TypedRun, PostingInv, RunsOwnTheirSale, InHandInv
<1>1. RunBecomes(r, LineWritten(r)) /\ txns' = txns /\ run[r].pc = "write" /\ line \in Lines
  BY <1>s, <1>r DEF InsertLine, TypedRun
<1>2. /\ [sale |-> s, by |-> r] \in txns /\ SaleOf[line] = s /\ s \in Sales
      /\ ~Posted(<<line, r>>) /\ \A l \in run[r].todo : SaleOf[l] = s /\ ~Posted(<<l, r>>)
      /\ line \notin run[r].todo
  BY <1>s, <1>1, <1>r DEF OwnsItsSale, InSale
<1>3. \A k \in RowKeys : Posted(k)' <=> Posted(k) \/ k = <<line, r>>
  BY <1>s, LinePosted
<1>4. PostedRows' = PostedRows \cup {<<line, r>>}
  BY <1>1, <1>3 DEF PostedRows, RowKeys
<1>5. Recorded' = Recorded
  BY <1>1 DEF Recorded
<1>6. s \in Recorded /\ ClerkOf(s) = r /\ PhaseOf(s) = "open"
  <2>1. ~Whole(s, r)
    BY <1>s, <1>1, <1>2 DEF Whole, LinesOf
  <2> QED BY <1>s, <2>1, <1>2, PhaseOfRecorded
<1>7. ClerkOf(s)' = r /\ PhaseOf(s)' = IF Whole(s, r)' THEN "whole" ELSE "open"
  <2>1. [sale |-> s, by |-> r] \in txns'
    BY <1>1, <1>2
  <2>2. ~Whole(s, r)' => run'[r].sale = s
    <3>1. CASE run[r].found = None /\ run[r].todo = {}
      BY <1>s, <3>1, <1>1, <1>3, <1>r DEF Whole, InHand, InSale, LinesOf, RowKeys
    <3>2. CASE ~(run[r].found = None /\ run[r].todo = {})
      BY <1>s, <3>2, <1>1, <1>r, NewStateOfRun, LineWrittenSale
    <3> QED BY <3>1, <3>2
  <2> QED BY <2>1, <2>2, PhaseOfRecordedNext
<1>8. ASSUME NEW t \in Sales, t # s, t \in Recorded
      PROVE  ClerkOf(t)' = ClerkOf(t) /\ PhaseOf(t)' = PhaseOf(t)
  <2>1. \A q \in Runs : run'[q].sale = t <=> run[q].sale = t
    <3>1. run'[r].sale \in {None, s}
      BY <1>s, <1>1, <1>r, NewStateOfRun, LineWrittenSale
    <3>2. t # None /\ run[r].sale = s /\ \A q \in Runs : q # r => run'[q] = run[q]
      BY <1>s, <1>1, NewStateOfRun
    <3> QED BY <3>1, <3>2, <1>8
  <2>2. \A l \in LinesOf(t), q \in Runs : Posted(<<l, q>>)' <=> Posted(<<l, q>>)
    BY <1>2, <1>3, <1>8 DEF LinesOf, RowKeys
  <2> QED BY <1>1, <1>8, <2>1, <2>2, SaleKept
<1>9. ASSUME NEW t \in Sales, t \notin Recorded PROVE PhaseOf(t)' = PhaseOf(t)
  BY <1>5, <1>9 DEF PhaseOf
<1>10. ClerksOfSales' = ClerksOfSales
  BY <1>5, <1>6, <1>7, <1>8 DEF ClerksOfSales
<1>11. Phases' = [Phases EXCEPT ![s] = IF Whole(s, r)' THEN "whole" ELSE "open"]
  BY <1>7, <1>8, <1>9 DEF Phases
<1>12. Phases[s] = "open" /\ ClerksOfSales[s] = r /\ ClerksOfSales'[s] = r
  BY <1>2, <1>6, <1>10 DEF Phases, ClerksOfSales
<1>13. Posting!Remaining(s, PostedRows') = {} <=> Whole(s, r)'
  <2>1. \A l \in Lines : <<l, r>> \in PostedRows' <=> Posted(<<l, r>>)'
    BY DEF PostedRows, RowKeys
  <2> QED BY <1>12, <2>1 DEF Posting!Remaining, Whole, LinesOf
<1>14. <<line, r>> \notin PostedRows
  BY <1>2 DEF PostedRows
<1>15. Posting!Post(line, r)
  BY <1>2, <1>4, <1>10, <1>11, <1>12, <1>13, <1>14 DEF Posting!Post
<1> QED BY <1>1, <1>15 DEF Posting!Next

LEMMA PostingSimulation ==
    TypeInv /\ PostingInv /\ InHandInv /\ [Next]_vars => [Posting!Next]_(Posting!vars)
<1> SUFFICES ASSUME TypeInv, PostingInv, InHandInv, [Next]_vars
             PROVE  [Posting!Next]_(Posting!vars)
  OBVIOUS
<1> USE ConstantsAssumption
<1>p. PostingInv'
  BY PostingInvStep
<1>r. \A r \in Runs : run[r] \in RunType /\ InHand(r)
  BY StateTyped DEF TypedRun, InHandInv
<1>i. ASSUME NEW r \in Runs, RunBecomes(r, IdleRun), txns' = txns, lines' = lines
      PROVE  [Posting!Next]_(Posting!vars)
  <2>1. IdleRun.sale = None
    BY DEF IdleRun
  <2> QED BY <1>i, <1>p, <2>1, LettingGo
<1>u. ASSUME run' = run, txns' = txns, \A k \in RowKeys : Posted(k)' <=> Posted(k)
      PROVE  [Posting!Next]_(Posting!vars)
  <2>1. UNCHANGED <<Phases, ClerksOfSales, PostedRows>>
    BY <1>u, <1>p, Unnoticed
  <2> QED BY <2>1 DEF Posting!vars
<1>v. ASSUME run' = run, txns' = txns, lines' = lines PROVE [Posting!Next]_(Posting!vars)
  BY <1>u, <1>v DEF Posted
<1>1. ASSUME NEW s \in Sales, MakeSale(s) PROVE [Posting!Next]_(Posting!vars)
  BY <1>1, <1>v DEF MakeSale
<1>2. ASSUME NEW r \in Runs, BeginRun(r) PROVE [Posting!Next]_(Posting!vars)
  <2> DEFINE x == [run[r] EXCEPT !.pc = "fetch", !.since = behind]
  <2>1. RunBecomes(r, x) /\ txns' = txns /\ lines' = lines
    BY <1>2 DEF BeginRun, rows
  <2>2. x.sale = run[r].sale
    BY <1>r DEF RunType
  <2> HIDE DEF x
  <2> QED BY <2>1, <2>2, <1>p, GoingOn
<1>3. ASSUME NEW r \in Runs, GetSales(r) PROVE [Posting!Next]_(Posting!vars)
  <2>0. PICK sales \in {made \ run[r].since, {}} :
          RunBecomes(r, [run[r] EXCEPT !.pc = "pick", !.since = {}, !.batch = sales])
    BY <1>3 DEF GetSales
  <2> DEFINE x == [run[r] EXCEPT !.pc = "pick", !.since = {}, !.batch = sales]
  <2>1. RunBecomes(r, x) /\ txns' = txns /\ lines' = lines
    BY <1>3, <2>0 DEF GetSales, rows
  <2>2. x.sale = run[r].sale
    BY <1>r DEF RunType
  <2> HIDE DEF x
  <2> QED BY <2>1, <2>2, <1>p, GoingOn
<1>4. ASSUME NEW r \in Runs, PickSale(r) PROVE [Posting!Next]_(Posting!vars)
  <2> DEFINE x(s) == [run[r] EXCEPT !.batch = @ \ {s},
                                    !.pc = IF s \in Recorded THEN "pick" ELSE "insert",
                                    !.sale = IF s \in Recorded THEN None ELSE s]
  <2>1. PICK s \in run[r].batch :
           RunBecomes(r, x(s)) /\ txns' = txns /\ lines' = lines /\ run[r].pc = "pick"
    BY <1>4 DEF PickSale, rows
  <2>2. x(s).sale = IF s \in Recorded THEN None ELSE s
    BY <1>r DEF RunType
  <2> HIDE DEF x
  <2>3. run[r].sale = None
    BY <2>1, <1>r DEF InHand, InSale
  <2>4. run'[r].sale \notin Recorded
    <3>1. None \notin Recorded
      <4>1. \A t \in txns : t.sale \in Sales
        BY DEF TypeInv, TypeOK
      <4> QED BY <4>1 DEF Recorded
    <3> QED BY <2>1, <2>2, <3>1, NewStateOfRun
  <2>5. \A t \in Sales, q \in Runs : [sale |-> t, by |-> q] \in txns =>
           Whole(t, q) \/ (run'[q].sale = t <=> run[q].sale = t)
    <3>1. ASSUME NEW t \in Sales, [sale |-> t, by |-> r] \in txns
          PROVE  run'[r].sale # t /\ run[r].sale # t
      BY <2>3, <2>4, <3>1 DEF Recorded
    <3> QED BY <2>1, <3>1, NewStateOfRun
  <2>6. UNCHANGED <<Phases, ClerksOfSales, PostedRows>>
    BY <2>1, <2>5, <1>p, Unnoticed DEF Posted
  <2> QED BY <2>6 DEF Posting!vars
<1>5. ASSUME NEW r \in Runs, InsertTxn(r) PROVE [Posting!Next]_(Posting!vars)
  BY <1>5, <1>p, OpensSale
<1>6. ASSUME NEW r \in Runs, InsertTxnRejected(r) PROVE [Posting!Next]_(Posting!vars)
  BY <1>6, <1>i DEF InsertTxnRejected, rows
<1>7. ASSUME NEW r \in Runs, FindMapping(r) PROVE [Posting!Next]_(Posting!vars)
  <2> DEFINE m(l) == mappings[SkuOf[l]]
  <2> DEFINE x(l) == [run[r] EXCEPT !.pc = AfterLookup(m(l)), !.todo = @ \ {l},
                                    !.line = l, !.found = m(l)]
  <2>1. PICK l \in run[r].todo : RunBecomes(r, x(l)) /\ txns' = txns /\ lines' = lines
    BY <1>7 DEF FindMapping, rows
  <2>2. x(l).sale = run[r].sale
    BY <1>r DEF RunType
  <2> HIDE DEF x
  <2> QED BY <2>1, <2>2, <1>p, GoingOn
<1>8. ASSUME NEW r \in Runs, QueueUnmapped(r) PROVE [Posting!Next]_(Posting!vars)
  <2> DEFINE x == [run[r] EXCEPT !.pc = "write"]
  <2>1. RunBecomes(r, x) /\ txns' = txns /\ lines' = lines
    BY <1>8 DEF QueueUnmapped
  <2>2. x.sale = run[r].sale
    BY <1>r DEF RunType
  <2> HIDE DEF x
  <2> QED BY <2>1, <2>2, <1>p, GoingOn
<1>9. ASSUME NEW r \in Runs, InsertLine(r) PROVE [Posting!Next]_(Posting!vars)
  BY <1>9, <1>p, PostsLine
<1>10. ASSUME NEW r \in Runs, InsertLineRejected(r) PROVE [Posting!Next]_(Posting!vars)
  BY <1>10, <1>i DEF InsertLineRejected, rows
<1>11. ASSUME NEW r \in Runs, ChargeLine(r) PROVE [Posting!Next]_(Posting!vars)
  <2> DEFINE x == LineDone(r, run[r].todo)
  <2>1. RunBecomes(r, x) /\ txns' = txns /\ lines' = lines
    BY <1>11 DEF ChargeLine
  <2>2. x.sale \in {None, run[r].sale}
    BY <1>r DEF LineDone, RunType
  <2> HIDE DEF x
  <2> QED BY <2>1, <2>2, <1>p, LettingGo, GoingOn
<1>12. ASSUME NEW r \in Runs, AdvanceWatermark(r) PROVE [Posting!Next]_(Posting!vars)
  <2> DEFINE x == IF Pulls THEN [IdleRun EXCEPT !.pc = "diff"] ELSE IdleRun
  <2>1. RunBecomes(r, x) /\ txns' = txns /\ lines' = lines
    BY <1>12 DEF AdvanceWatermark
  <2>2. x.sale = None
    BY DEF IdleRun
  <2> HIDE DEF x
  <2> QED BY <2>1, <2>2, <1>p, LettingGo
<1>13. ASSUME NEW r \in Runs, ReadMappings(r) PROVE [Posting!Next]_(Posting!vars)
  <2> DEFINE u(inventory) == {k \in inventory : mappings[k] = None}
  <2> DEFINE x(inventory) == [run[r] EXCEPT !.pc = "list", !.skus = u(inventory)]
  <2>1. PICK inventory \in SUBSET Skus :
           /\ RunBecomes(r, IF u(inventory) = {} THEN IdleRun ELSE x(inventory))
           /\ txns' = txns /\ lines' = lines
    BY <1>13 DEF ReadMappings, rows
  <2>2. x(inventory).sale = run[r].sale
    BY <1>r DEF RunType
  <2> HIDE DEF x
  <2>3. CASE u(inventory) = {}
    BY <2>1, <2>3, <1>i
  <2>4. CASE u(inventory) # {}
    BY <2>1, <2>2, <2>4, <1>p, GoingOn
  <2> QED BY <2>3, <2>4
<1>14. ASSUME NEW r \in Runs, QueueItem(r) PROVE [Posting!Next]_(Posting!vars)
  <2> DEFINE x(k) == [run[r] EXCEPT !.skus = @ \ {k}]
  <2>1. PICK k \in run[r].skus :
           /\ RunBecomes(r, IF run[r].skus = {k} THEN IdleRun ELSE x(k))
           /\ txns' = txns /\ lines' = lines
    BY <1>14 DEF QueueItem
  <2>2. x(k).sale = run[r].sale
    BY <1>r DEF RunType
  <2> HIDE DEF x
  <2>3. CASE run[r].skus = {k}
    BY <2>1, <2>3, <1>i
  <2>4. CASE run[r].skus # {k}
    BY <2>1, <2>2, <2>4, <1>p, GoingOn
  <2> QED BY <2>3, <2>4
<1>15. ASSUME NEW r \in Runs, StopRun(r) PROVE [Posting!Next]_(Posting!vars)
  BY <1>15, <1>i DEF StopRun, rows
<1>16. ASSUME NEW a \in Admins, Request(a) PROVE [Posting!Next]_(Posting!vars)
  BY <1>16, <1>v DEF Request, CreateMapping, ReadMapping, DeleteMapping, rows
<1>17. ASSUME NEW a \in Admins, FillLines(a) PROVE [Posting!Next]_(Posting!vars)
  BY <1>17, <1>u, FillKeepsPosted DEF FillLines
<1>18. ASSUME NEW a \in Admins, AdminStep(a), ~FillLines(a) PROVE [Posting!Next]_(Posting!vars)
  BY <1>18, <1>v DEF AdminStep, SumReversible, Reverse, Remap, SumLines, PostSum, Unqueue, rows
<1>19. ASSUME NEW a \in Admins, StopAdmin(a) PROVE [Posting!Next]_(Posting!vars)
  BY <1>19, <1>v DEF StopAdmin, rows
<1>20. CASE UNCHANGED vars
  BY <1>20, <1>v DEF vars
<1> QED BY <1>1, <1>2, <1>3, <1>4, <1>5, <1>6, <1>7, <1>8, <1>9, <1>10, <1>11, <1>12, <1>13,
           <1>14, <1>15, <1>16, <1>17, <1>18, <1>19, <1>20 DEF Next, RunStep

\* Ingestion implements SalePosting: whatever overlaps, fails and is retried, and
\* whatever the mapping requests do meanwhile, each sale is opened once and posted
\* by the one run that opened it, in one attempt.
THEOREM IngestionPosts == Spec => ImplementsSalePosting
<1>1. Init => TypeInv /\ PostingInv /\ InHandInv
  BY ConstantsAssumption
     DEF Init, TypeInv, TypeOK, InProgressTyped, RunType, AdminType, IdleRun, IdleAdmin,
         PostingInv, OneTxnPerSale, RunsOwnTheirSale, OwnsItsSale, InSale, LinesPostedOnce,
         Posted, RowKeys, InHandInv, InHand
<1>2. Init => Posting!Init
  <2> SUFFICES ASSUME Init PROVE Posting!Init
    OBVIOUS
  <2>1. Recorded = {} /\ PostedRows = {}
    BY DEF Init, Recorded, PostedRows, Posted
  <2>2. \A s \in Sales : PhaseOf(s) = "new"
    BY <2>1 DEF PhaseOf
  <2> QED BY <2>1, <2>2 DEF Posting!Init, Phases, ClerksOfSales
<1>3. TypeInv /\ PostingInv /\ InHandInv /\ [Next]_vars => (TypeInv /\ PostingInv /\ InHandInv)'
  BY TypeInvStep, PostingInvStep, InHandStep
<1> QED BY <1>1, <1>2, <1>3, PostingSimulation, PTL DEF Spec, ImplementsSalePosting, Posting!Spec
=============================================================================
