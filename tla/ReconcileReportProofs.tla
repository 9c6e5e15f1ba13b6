----------------------- MODULE ReconcileReportProofs -----------------------
(***************************************************************************)
(* Theorems about ReconcileReport, for any number of runs, requests, SKUs  *)
(* and printings, and every bound.                                         *)
(***************************************************************************)
EXTENDS ReconcileReport, FiniteSetTheorems, TLAPS

-----------------------------------------------------------------------------
(* The id of a new row exists: fewer ids are taken than are considered.    *)

LEMMA FreshIdExists ==
    ASSUME TypeOK
    PROVE  /\ FreshId \in Nat
           /\ \A d \in discs : d.id # FreshId
<1> DEFINE n == Cardinality(discs) + Cardinality(Users) + 1
           RowIds == {d.id : d \in discs}
           HeldIds == {user[u].disc.id : u \in Users}
           IsFresh(i) == /\ \A d \in discs : d.id # i
                         /\ \A u \in Users : user[u].pc # "idle" => user[u].disc.id # i
<1>1. /\ IsFiniteSet(discs) /\ Cardinality(discs) \in Nat
      /\ IsFiniteSet(Users) /\ Cardinality(Users) \in Nat
  BY ReportAssumption, FS_CardinalityType DEF ReportAssumption, TypeOK
<1>2. IsFiniteSet(RowIds) /\ Cardinality(RowIds) <= Cardinality(discs)
  <2>1. [d \in discs |-> d.id] \in Surjection(discs, RowIds)
    BY DEF Surjection
  <2> QED BY <2>1, <1>1, FS_Surjection
<1>3. IsFiniteSet(HeldIds) /\ Cardinality(HeldIds) <= Cardinality(Users)
  <2>1. [u \in Users |-> user[u].disc.id] \in Surjection(Users, HeldIds)
    BY DEF Surjection
  <2> QED BY <2>1, <1>1, FS_Surjection
<1>4. /\ IsFiniteSet(RowIds \cup HeldIds)
      /\ Cardinality(RowIds \cup HeldIds) < n
  <2>1. /\ Cardinality(RowIds) \in Nat /\ Cardinality(HeldIds) \in Nat
        /\ IsFiniteSet(RowIds \cap HeldIds)
    BY <1>2, <1>3, FS_CardinalityType, FS_Subset
  <2>2. Cardinality(RowIds \cap HeldIds) \in Nat
    BY <2>1, FS_CardinalityType
  <2>3. Cardinality(RowIds \cup HeldIds)
          = Cardinality(RowIds) + Cardinality(HeldIds) - Cardinality(RowIds \cap HeldIds)
    BY <1>2, <1>3, FS_Union
  <2>4. IsFiniteSet(RowIds \cup HeldIds)
    BY <1>2, <1>3, FS_Union
  <2> HIDE DEF RowIds, HeldIds
  <2> QED BY <1>1, <1>2, <1>3, <2>1, <2>2, <2>3, <2>4
<1>5. ~(1..n \subseteq RowIds \cup HeldIds)
  <2>0. n \in Nat /\ n >= 1
    BY <1>1
  <2>1. Cardinality(1..n) = n /\ IsFiniteSet(1..n)
    <3> HIDE DEF n
    <3>1. Cardinality(1..n) = IF 1 > n THEN 0 ELSE n - 1 + 1
      BY <2>0, FS_Interval
    <3> QED BY <2>0, <3>1, FS_Interval
  <2>2. ASSUME 1..n \subseteq RowIds \cup HeldIds PROVE Cardinality(1..n) <= Cardinality(RowIds \cup HeldIds)
    BY <1>4, <2>2, FS_Subset
  <2>3. Cardinality(RowIds \cup HeldIds) \in Nat
    BY <1>4, FS_CardinalityType
  <2> HIDE DEF RowIds, HeldIds, n
  <2> QED BY <1>4, <2>0, <2>1, <2>2, <2>3
<1>6. \E i \in 1..n : IsFresh(i)
  BY <1>5
<1>7. FreshId = CHOOSE i \in 1..n : IsFresh(i)
  BY DEF FreshId
<1>8. FreshId \in 1..n /\ IsFresh(FreshId)
  BY <1>6, <1>7
<1> QED BY <1>8

-----------------------------------------------------------------------------
(* Type correctness.                                                       *)

ReportTask == [sku : Skus, kind : Kinds, pos : Level]
SendTask == [sku : Skus, qty : Quantities]

TypedRun(x) ==
    /\ x \in RunType
    /\ x.pc = "compare" => x.snapshot \in [Skus -> Level]
    /\ x.pc = "insert" => x.todo \subseteq ReportTask
    /\ x.pc = "send" => x.todo \subseteq SendTask

TypedUser(x) ==
    /\ x \in UserType
    /\ x.pc # "idle" => x.disc \in Discrepancy
    /\ x.pc = "apply" => x.disc.pos # None

LEMMA StateTyped ==
    ASSUME TypeOK
    PROVE  /\ \A r \in Runs : TypedRun(run[r])
           /\ \A u \in Users : TypedUser(user[u])
  BY DEF TypeOK, TypedRun, TypedUser, ReportTask, SendTask

LEMMA IdleTyped == TypedRun(IdleRun) /\ TypedUser(IdleUser)
  BY DEF TypedRun, TypedUser, IdleRun, IdleUser, RunType, UserType, Labels

\* The parts of TypeOK that the steps change together.
RunsTyped ==
    /\ run \in [Runs -> RunType]
    /\ \A r \in Runs : TypedRun(run[r])

UsersTyped ==
    /\ user \in [Users -> UserType]
    /\ \A u \in Users : TypedUser(user[u])

RowsTyped ==
    /\ status \in {None, "pending", "syncing", "completed", "failed"}
    /\ count \in Nat /\ unresolved \in Nat
    /\ discs \subseteq Discrepancy /\ IsFiniteSet(discs)

StockTyped ==
    /\ quantity \in [Printings -> Quantities]
    /\ posQty \in [Skus -> Level]

BoundsTyped == {starts, failures, stops, changes, switches} \subseteq Nat

ToldTyped == standing \in Standings /\ cut \in BOOLEAN /\ late \in BOOLEAN /\ interrupted \in BOOLEAN

LEMMA PartsOfTypeOK ==
    TypeOK <=> /\ RunsTyped /\ UsersTyped /\ RowsTyped
               /\ StockTyped /\ BoundsTyped /\ ToldTyped
  BY DEF TypeOK, RunsTyped, UsersTyped, RowsTyped, StockTyped, BoundsTyped, ToldTyped,
         TypedRun, TypedUser, ReportTask, SendTask

LEMMA PartsOfTypeOKNext ==
    ASSUME RunsTyped', UsersTyped', RowsTyped', StockTyped', BoundsTyped', ToldTyped'
    PROVE  TypeOK'
  BY DEF TypeOK, RunsTyped, UsersTyped, RowsTyped, StockTyped, BoundsTyped, ToldTyped,
         TypedRun, TypedUser, ReportTask, SendTask

LEMMA RunBecomesTyped ==
    ASSUME RunsTyped, NEW r \in Runs, NEW x, TypedRun(x), RunBecomes(r, x)
    PROVE  RunsTyped'
<1>1. run' \in [Runs -> RunType]
  BY DEF RunsTyped, TypedRun, RunBecomes
<1>2. ASSUME NEW q \in Runs PROVE TypedRun(run'[q])
  <2>1. CASE q = r
    <3>1. run'[q] = x
      BY <2>1 DEF RunsTyped, RunBecomes
    <3> QED BY <3>1
  <2>2. CASE q # r
    <3>1. run'[q] = run[q]
      BY <2>2 DEF RunsTyped, RunBecomes
    <3> QED BY <3>1 DEF RunsTyped
  <2> QED BY <2>1, <2>2
<1>3. \A q \in Runs : TypedRun(run[q])'
  BY <1>2 DEF TypedRun
<1> QED BY <1>1, <1>3 DEF RunsTyped

LEMMA UserBecomesTyped ==
    ASSUME UsersTyped, NEW u \in Users, NEW x, TypedUser(x), UserBecomes(u, x)
    PROVE  UsersTyped'
<1>1. user' \in [Users -> UserType]
  BY DEF UsersTyped, TypedUser, UserBecomes
<1>2. ASSUME NEW q \in Users PROVE TypedUser(user'[q])
  <2>1. CASE q = u
    <3>1. user'[q] = x
      BY <2>1 DEF UsersTyped, UserBecomes
    <3> QED BY <3>1
  <2>2. CASE q # u
    <3>1. user'[q] = user[q]
      BY <2>2 DEF UsersTyped, UserBecomes
    <3> QED BY <3>1 DEF UsersTyped
  <2> QED BY <2>1, <2>2
<1>3. \A q \in Users : TypedUser(user[q])'
  BY <1>2 DEF TypedUser
<1> QED BY <1>1, <1>3 DEF UsersTyped

LEMMA UnchangedParts ==
    /\ RunsTyped /\ run' = run => RunsTyped'
    /\ UsersTyped /\ user' = user => UsersTyped'
    /\ RowsTyped /\ UNCHANGED table => RowsTyped'
    /\ StockTyped /\ UNCHANGED <<quantity, posQty>> => StockTyped'
    /\ BoundsTyped /\ UNCHANGED <<starts, failures, stops, changes, switches>> => BoundsTyped'
    /\ ToldTyped /\ UNCHANGED <<standing, told>> => ToldTyped'
  BY DEF RunsTyped, UsersTyped, RowsTyped, StockTyped, BoundsTyped, ToldTyped, table, told

LEMMA InitTyped == Init => TypeOK
<1> SUFFICES ASSUME Init PROVE TypeOK
  OBVIOUS
<1>1. RunsTyped
  BY IdleTyped DEF Init, RunsTyped, TypedRun
<1>2. UsersTyped
  BY IdleTyped DEF Init, UsersTyped, TypedUser
<1>3. RowsTyped
  BY FS_EmptySet DEF Init, RowsTyped
<1>4. StockTyped
  BY DEF Init, StockTyped, Level
<1>5. BoundsTyped
  BY DEF Init, BoundsTyped
<1>6. ToldTyped
  BY DEF Init, ToldTyped, Standings
<1> QED BY <1>1, <1>2, <1>3, <1>4, <1>5, <1>6, PartsOfTypeOK

LEMMA PendingCounted ==
    ASSUME RowsTyped
    PROVE  Cardinality(Pending(discs)) \in Nat
  BY FS_Subset, FS_CardinalityType DEF RowsTyped, Pending

\* A run that only moves on, to a place where nothing is asked of its data.
LEMMA GotoTyped ==
    ASSUME RunsTyped, NEW r \in Runs, NEW label \in Labels \ {"compare", "insert", "send"},
           Goto(r, label)
    PROVE  RunsTyped'
<1> DEFINE x == [run[r] EXCEPT !.pc = label]
<1>1. TypedRun(x)
  BY DEF RunsTyped, TypedRun, RunType
<1>2. RunBecomes(r, x)
  BY DEF Goto
<1> HIDE DEF x
<1> QED BY <1>1, <1>2, RunBecomesTyped

LEMMA RunStepTyped ==
    ASSUME TypeOK, NEW r \in Runs, RunStep(r)
    PROVE  TypeOK'
<1>0. RunsTyped /\ UsersTyped /\ RowsTyped /\ StockTyped /\ BoundsTyped /\ ToldTyped
  BY PartsOfTypeOK
<1>a. run[r] \in RunType /\ TypedRun(run[r])
  BY <1>0 DEF RunsTyped
<1> USE DEF stock, bounds, day
<1>1. CASE SetSyncing(r)
  <2>1. RunsTyped'
    BY <1>0, <1>1, GotoTyped DEF SetSyncing, Labels
  <2>2. RowsTyped'
    BY <1>0, <1>1 DEF SetSyncing, RowsTyped
  <2> QED BY <1>0, <1>1, <2>1, <2>2, UnchangedParts, PartsOfTypeOKNext DEF SetSyncing
<1>2. CASE IngestSales(r)
  <2>1. RunsTyped'
    BY <1>0, <1>2, GotoTyped DEF IngestSales, Labels
  <2> QED BY <1>0, <1>2, <2>1, UnchangedParts, PartsOfTypeOKNext DEF IngestSales
<1>3. CASE ClearDiscrepancies(r)
  <2>1. RunsTyped'
    BY <1>0, <1>3, GotoTyped DEF ClearDiscrepancies, Labels
  <2>2. RowsTyped'
    BY <1>0, <1>3, FS_EmptySet DEF ClearDiscrepancies, RowsTyped, Cleared
  <2> QED BY <1>0, <1>3, <2>1, <2>2, UnchangedParts, PartsOfTypeOKNext DEF ClearDiscrepancies
<1>4. CASE GetInventory(r)
  <2> DEFINE x == [run[r] EXCEPT !.pc = "compare", !.snapshot = posQty]
  <2>1. TypedRun(x)
    BY <1>0, <1>a DEF TypedRun, RunType, StockTyped, Labels
  <2>2. RunBecomes(r, x)
    BY <1>4 DEF GetInventory
  <2>3. RunsTyped'
    <3> HIDE DEF x
    <3> QED BY <1>0, <2>1, <2>2, RunBecomesTyped
  <2> QED BY <1>0, <1>4, <2>3, UnchangedParts, PartsOfTypeOKNext DEF GetInventory
<1>5. CASE Compare(r)
  <2> DEFINE finding(k) == Finding(quantity[PrintingOf[k]], run[r].snapshot[k])
             found == {k \in Skus : finding(k) # None}
             tasks == {[sku |-> k, kind |-> finding(k), pos |-> run[r].snapshot[k]] : k \in found}
             x == [run[r] EXCEPT !.todo = tasks, !.pc = IF found = {} THEN "push" ELSE "insert",
                                 !.found = 0, !.snapshot = None]
  <2>1. tasks \subseteq ReportTask
    <3>1. \A k \in found : finding(k) \in Kinds /\ run[r].snapshot[k] \in Level
      BY <1>5, <1>a DEF Compare, Finding, Kinds, TypedRun
    <3> QED BY <3>1 DEF ReportTask
  <2>2. TypedRun(x)
    <3> HIDE DEF tasks, found
    <3>1. tasks \subseteq Task
      BY <2>1 DEF ReportTask, Task
    <3> QED BY <1>a, <2>1, <3>1 DEF TypedRun, RunType, Labels
  <2>3. RunBecomes(r, x)
    BY <1>5 DEF Compare
  <2>4. RunsTyped'
    <3> HIDE DEF x
    <3> QED BY <1>0, <2>2, <2>3, RunBecomesTyped
  <2> QED BY <1>0, <1>5, <2>4, UnchangedParts, PartsOfTypeOKNext DEF Compare
<1>6. CASE InsertDiscrepancy(r)
  <2>1. PICK t \in run[r].todo :
          /\ discs' = discs \cup {[id |-> FreshId, sku |-> t.sku, kind |-> t.kind,
                                   pos |-> t.pos, res |-> "pending"]}
          /\ RunBecomes(r, [run[r] EXCEPT
                              !.todo = @ \ {t}, !.found = @ + 1,
                              !.pc = IF run[r].todo = {t} THEN "push" ELSE "insert"])
    BY <1>6 DEF InsertDiscrepancy
  <2>2. t \in ReportTask /\ run[r].todo \subseteq ReportTask
    BY <1>6, <1>a DEF InsertDiscrepancy, TypedRun
  <2> DEFINE x == [run[r] EXCEPT !.todo = @ \ {t}, !.found = @ + 1,
                              !.pc = IF run[r].todo = {t} THEN "push" ELSE "insert"]
  <2>3. TypedRun(x)
    <3>1. run[r].found \in Nat /\ run[r].todo \ {t} \subseteq ReportTask /\ ReportTask \subseteq Task
      BY <1>a, <2>2 DEF RunType, ReportTask, Task
    <3>2. run[r].found + 1 \in Nat
      BY <3>1
    <3>3. /\ x \in RunType
          /\ x.todo = run[r].todo \ {t}
          /\ x.pc \in {"push", "insert"}
      BY <1>a, <3>1, <3>2 DEF RunType, Labels
    <3> QED BY <3>1, <3>3 DEF TypedRun
  <2>4. RunsTyped'
    <3> HIDE DEF x
    <3> QED BY <1>0, <2>1, <2>3, RunBecomesTyped DEF x
  <2>5. RowsTyped'
    <3> DEFINE row == [id |-> FreshId, sku |-> t.sku, kind |-> t.kind,
                       pos |-> t.pos, res |-> "pending"]
    <3>1. row \in Discrepancy
      BY <2>2, FreshIdExists DEF ReportTask, Discrepancy
    <3>2. discs' = discs \cup {row}
      BY <2>1
    <3> HIDE DEF row
    <3>3. discs' \subseteq Discrepancy /\ IsFiniteSet(discs')
      BY <1>0, <3>1, <3>2, FS_AddElement DEF RowsTyped
    <3> QED BY <1>0, <1>6, <3>3 DEF InsertDiscrepancy, RowsTyped
  <2> QED BY <1>0, <1>6, <2>4, <2>5, UnchangedParts, PartsOfTypeOKNext DEF InsertDiscrepancy
<1>7. CASE ReadCatalogue(r)
  <2> DEFINE tasks == {[sku |-> k, qty |-> quantity[PrintingOf[k]]] : k \in Skus}
             x == IF Pushes THEN [run[r] EXCEPT !.pc = "send", !.todo = tasks]
                            ELSE [run[r] EXCEPT !.pc = "count"]
  <2>1. tasks \subseteq SendTask /\ tasks \subseteq Task
    BY <1>0, ReportAssumption DEF SendTask, Task, StockTyped, ReportAssumption
  <2>2. TypedRun(x)
    <3> HIDE DEF tasks
    <3> QED BY <1>a, <2>1 DEF TypedRun, RunType, Labels
  <2>3. RunBecomes(r, x)
    BY <1>7 DEF ReadCatalogue
  <2>4. RunsTyped'
    <3> HIDE DEF x
    <3> QED BY <1>0, <2>2, <2>3, RunBecomesTyped
  <2> QED BY <1>0, <1>7, <2>4, UnchangedParts, PartsOfTypeOKNext DEF ReadCatalogue
<1>8. CASE UpdateInventory(r)
  <2>1. PICK t \in run[r].todo :
          /\ posQty' = [posQty EXCEPT ![t.sku] = t.qty]
          /\ RunBecomes(r, [run[r] EXCEPT !.todo = @ \ {t},
                              !.pc = IF run[r].todo = {t} THEN "count" ELSE "send"])
    BY <1>8 DEF UpdateInventory
  <2>2. t \in SendTask /\ run[r].todo \subseteq SendTask
    BY <1>8, <1>a DEF UpdateInventory, TypedRun
  <2> DEFINE x == [run[r] EXCEPT !.todo = @ \ {t},
                              !.pc = IF run[r].todo = {t} THEN "count" ELSE "send"]
  <2>3. TypedRun(x)
    BY <1>a, <2>2 DEF TypedRun, RunType, Labels
  <2>4. RunsTyped'
    <3> HIDE DEF x
    <3> QED BY <1>0, <2>1, <2>3, RunBecomesTyped DEF x
  <2>5. StockTyped'
    BY <1>0, <1>8, <2>1, <2>2 DEF UpdateInventory, StockTyped, SendTask, Level
  <2> QED BY <1>0, <1>8, <2>4, <2>5, UnchangedParts, PartsOfTypeOKNext DEF UpdateInventory
<1>9. CASE CountUnresolved(r)
  <2> DEFINE x == [run[r] EXCEPT !.pc = "complete", !.pending = Cardinality(Pending(discs))]
  <2>1. TypedRun(x)
    BY <1>0, <1>a, PendingCounted DEF TypedRun, RunType, Labels
  <2>2. RunBecomes(r, x)
    BY <1>9 DEF CountUnresolved
  <2>3. RunsTyped'
    <3> HIDE DEF x
    <3> QED BY <1>0, <2>1, <2>2, RunBecomesTyped
  <2>4. ToldTyped'
    BY <1>0, <1>9 DEF CountUnresolved, ToldTyped
  <2> QED BY <1>0, <1>9, <2>3, <2>4, UnchangedParts, PartsOfTypeOKNext DEF CountUnresolved
<1>10. CASE Complete(r)
  <2>1. RunsTyped'
    BY <1>0, <1>10, IdleTyped, RunBecomesTyped DEF Complete
  <2>2. RowsTyped'
    BY <1>0, <1>a, <1>10 DEF Complete, RowsTyped, RunType, FinalCount, FinalStatus
  <2>3. ToldTyped'
    BY <1>0, <1>10 DEF Complete, ToldTyped
  <2> QED BY <1>0, <1>10, <2>1, <2>2, <2>3, UnchangedParts, PartsOfTypeOKNext DEF Complete
<1>11. CASE SetFailed(r)
  <2>1. RunsTyped'
    BY <1>0, <1>11, IdleTyped, RunBecomesTyped DEF SetFailed
  <2>2. RowsTyped'
    BY <1>0, <1>11 DEF SetFailed, RowsTyped, FailedStatus
  <2>3. ToldTyped'
    BY <1>0, <1>11 DEF SetFailed, ToldTyped
  <2> QED BY <1>0, <1>11, <2>1, <2>2, <2>3, UnchangedParts, PartsOfTypeOKNext DEF SetFailed
<1> QED
  BY <1>1, <1>2, <1>3, <1>4, <1>5, <1>6, <1>7, <1>8, <1>9, <1>10, <1>11 DEF RunStep

\* Runs begin, give up a push, are caught in an error, or end early.
LEMMA RunEdgeTyped ==
    ASSUME TypeOK, NEW r \in Runs, UpsertReport(r) \/ PushFails(r) \/ Fails(r) \/ RunEnds(r)
    PROVE  TypeOK'
<1>0. RunsTyped /\ UsersTyped /\ RowsTyped /\ StockTyped /\ BoundsTyped /\ ToldTyped
  BY PartsOfTypeOK
<1>a. run[r] \in RunType /\ TypedRun(run[r])
  BY <1>0 DEF RunsTyped
<1> USE DEF stock, day
<1>1. CASE UpsertReport(r)
  <2>1. RunsTyped'
    BY <1>0, <1>1, GotoTyped DEF UpsertReport, Labels
  <2>2. RowsTyped' /\ BoundsTyped'
    BY <1>0, <1>1 DEF UpsertReport, RowsTyped, BoundsTyped
  <2> QED BY <1>0, <1>1, <2>1, <2>2, UnchangedParts, PartsOfTypeOKNext DEF UpsertReport
<1>2. CASE PushFails(r)
  <2> DEFINE x == [run[r] EXCEPT !.pc = "count", !.todo = {}]
  <2>1. TypedRun(x)
    BY <1>a DEF TypedRun, RunType, Labels
  <2>2. RunBecomes(r, x)
    BY <1>2 DEF PushFails
  <2>3. RunsTyped'
    <3> HIDE DEF x
    <3> QED BY <1>0, <2>1, <2>2, RunBecomesTyped
  <2>4. BoundsTyped'
    BY <1>0, <1>2 DEF PushFails, BoundsTyped
  <2> QED BY <1>0, <1>2, <2>3, <2>4, UnchangedParts, PartsOfTypeOKNext DEF PushFails
<1>3. CASE Fails(r)
  <2> DEFINE x == [IdleRun EXCEPT !.pc = "fail"]
  <2>1. TypedRun(x)
    BY DEF TypedRun, RunType, Labels, IdleRun
  <2>2. RunBecomes(r, x)
    BY <1>3 DEF Fails
  <2>3. RunsTyped'
    <3> HIDE DEF x
    <3> QED BY <1>0, <2>1, <2>2, RunBecomesTyped
  <2>4. BoundsTyped'
    BY <1>0, <1>3 DEF Fails, BoundsTyped
  <2> QED BY <1>0, <1>3, <2>3, <2>4, UnchangedParts, PartsOfTypeOKNext DEF Fails
<1>4. CASE RunEnds(r)
  <2>1. RunsTyped'
    BY <1>0, <1>4, IdleTyped, RunBecomesTyped DEF RunEnds
  <2>2. BoundsTyped' /\ ToldTyped'
    BY <1>0, <1>4 DEF RunEnds, BoundsTyped, ToldTyped
  <2> QED BY <1>0, <1>4, <2>1, <2>2, UnchangedParts, PartsOfTypeOKNext DEF RunEnds
<1> QED BY <1>1, <1>2, <1>3, <1>4

LEMMA UserTyped ==
    ASSUME TypeOK, NEW u \in Users,
           \/ \E d \in discs, res \in Resolutions : Resolve(u, d, res)
           \/ UserStep(u) \/ StopUser(u)
    PROVE  TypeOK'
<1>0. RunsTyped /\ UsersTyped /\ RowsTyped /\ StockTyped /\ BoundsTyped /\ ToldTyped
  BY PartsOfTypeOK
<1>a. user[u] \in UserType /\ TypedUser(user[u])
  BY <1>0 DEF UsersTyped
<1> USE DEF stock, bounds, day
<1>1. ASSUME NEW d \in discs, NEW res \in Resolutions, Resolve(u, d, res)
      PROVE  TypeOK'
  <2> DEFINE row == [d EXCEPT !.res = res]
             x == [pc |-> IF res = "accept_pos" /\ d.pos # None THEN "apply" ELSE "refresh",
                   disc |-> d]
  <2>1. d \in Discrepancy /\ row \in Discrepancy
    BY <1>0 DEF RowsTyped, Discrepancy
  <2>2. TypedUser(x)
    BY <2>1 DEF TypedUser, UserType
  <2>3. UserBecomes(u, x) /\ discs' = (discs \ {d}) \cup {row}
    BY <1>1 DEF Resolve
  <2> HIDE DEF x, row
  <2>4. UsersTyped'
    BY <1>0, <2>2, <2>3, UserBecomesTyped
  <2>5. discs' \subseteq Discrepancy /\ IsFiniteSet(discs')
    BY <1>0, <2>1, <2>3, FS_RemoveElement, FS_AddElement DEF RowsTyped
  <2>6. RowsTyped'
    BY <1>0, <1>1, <2>5 DEF Resolve, RowsTyped
  <2>7. ToldTyped'
    BY <1>0, <1>1 DEF Resolve, ToldTyped
  <2> QED BY <1>0, <1>1, <2>4, <2>6, <2>7, UnchangedParts, PartsOfTypeOKNext DEF Resolve
<1>2. CASE ApplyPosQuantity(u)
  <2> DEFINE x == [user[u] EXCEPT !.pc = "refresh"]
  <2>1. TypedUser(x)
    BY <1>a, <1>2 DEF TypedUser, UserType, ApplyPosQuantity
  <2>2. UserBecomes(u, x)
    BY <1>2 DEF ApplyPosQuantity
  <2>3. UsersTyped'
    <3> HIDE DEF x
    <3> QED BY <1>0, <2>1, <2>2, UserBecomesTyped
  <2>4. user[u].disc.pos \in Quantities
    BY <1>a, <1>2 DEF TypedUser, Discrepancy, Level, ApplyPosQuantity
  <2>5. StockTyped'
    BY <1>0, <1>2, <2>4 DEF ApplyPosQuantity, StockTyped
  <2> QED BY <1>0, <1>2, <2>3, <2>5, UnchangedParts, PartsOfTypeOKNext DEF ApplyPosQuantity
<1>3. CASE RefreshCount(u)
  <2>1. UsersTyped'
    BY <1>0, <1>3, IdleTyped, UserBecomesTyped DEF RefreshCount
  <2>2. RowsTyped'
    BY <1>0, <1>3, PendingCounted DEF RefreshCount, RowsTyped, Recount
  <2>3. ToldTyped'
    BY <1>0, <1>3 DEF RefreshCount, ToldTyped
  <2> QED BY <1>0, <1>3, <2>1, <2>2, <2>3, UnchangedParts, PartsOfTypeOKNext DEF RefreshCount
<1>4. CASE StopUser(u)
  <2>1. UsersTyped'
    BY <1>0, <1>4, IdleTyped, UserBecomesTyped DEF StopUser
  <2>2. BoundsTyped' /\ ToldTyped'
    BY <1>0, <1>4 DEF StopUser, BoundsTyped, ToldTyped
  <2> QED BY <1>0, <1>4, <2>1, <2>2, UnchangedParts, PartsOfTypeOKNext DEF StopUser
<1> QED BY <1>1, <1>2, <1>3, <1>4 DEF UserStep

LEMMA ChangesTyped ==
    ASSUME TypeOK,
           \/ \E p \in Printings : CatalogueChanges(p)
           \/ \E k \in Skus : PosChanges(k)
           \/ DayEnds \/ SwitchConnection
    PROVE  TypeOK'
<1>0. RunsTyped /\ UsersTyped /\ RowsTyped /\ StockTyped /\ BoundsTyped /\ ToldTyped
  BY PartsOfTypeOK
<1> USE DEF stock, bounds, day
<1>1. ASSUME NEW p \in Printings, CatalogueChanges(p) PROVE TypeOK'
  <2>1. StockTyped' /\ BoundsTyped'
    BY <1>0, <1>1 DEF CatalogueChanges, StockTyped, BoundsTyped
  <2> QED BY <1>0, <1>1, <2>1, UnchangedParts, PartsOfTypeOKNext DEF CatalogueChanges
<1>2. ASSUME NEW k \in Skus, PosChanges(k) PROVE TypeOK'
  <2>1. StockTyped' /\ BoundsTyped'
    BY <1>0, <1>2 DEF PosChanges, StockTyped, BoundsTyped, Level
  <2> QED BY <1>0, <1>2, <2>1, UnchangedParts, PartsOfTypeOKNext DEF PosChanges
<1>3. CASE DayEnds \/ SwitchConnection
  <2>1. BoundsTyped' /\ ToldTyped'
    BY <1>0, <1>3 DEF DayEnds, SwitchConnection, BoundsTyped, ToldTyped, Standings, told
  <2> QED BY <1>0, <1>3, <2>1, UnchangedParts, PartsOfTypeOKNext DEF DayEnds, SwitchConnection
<1> QED BY <1>1, <1>2, <1>3

\* Rows, counts and the program states of runs and requests keep their types.
THEOREM TypeCorrect == Spec => []TypeOK
<1>1. Init => TypeOK
  BY InitTyped
<1>2. TypeOK /\ [Next]_vars => TypeOK'
  <2> SUFFICES ASSUME TypeOK, [Next]_vars PROVE TypeOK'
    OBVIOUS
  <2>1. CASE Next
    BY <2>1, RunStepTyped, RunEdgeTyped, UserTyped, ChangesTyped
       DEF Next, RunGoesOn, Killed, UncaughtError
  <2>2. CASE UNCHANGED vars
    BY <2>2, PartsOfTypeOK, PartsOfTypeOKNext, UnchangedParts DEF vars, stock, bounds, day
  <2> QED BY <2>1, <2>2
<1> QED BY <1>1, <1>2, PTL DEF Spec

-----------------------------------------------------------------------------
(* A report settles.  Every statement that takes a run back to "idle"      *)
(* writes a final status, or the run was interrupted; every statement that *)
(* makes the report pending or syncing leaves its run in progress.         *)

LEMMA RunBecomesOne ==
    ASSUME TypeOK, NEW r \in Runs, NEW x, RunBecomes(r, x)
    PROVE  run'[r] = x
  BY DEF TypeOK, RunBecomes

\* A step that leaves its run in progress, or the report with a final status.
LEMMA StepSettles ==
    ASSUME TypeOK, SettledInvariant, NEW r \in Runs, NEW x, RunBecomes(r, x),
           x.pc # "idle" \/ status' \in {"completed", "failed"} \/ interrupted'
    PROVE  SettledInvariant'
  BY RunBecomesOne DEF SettledInvariant, RunsIdle

\* A step of a request, or of the quantities, leaves runs and status alone.
LEMMA ElsewhereSettles ==
    ASSUME TypeOK, SettledInvariant, run' = run, status' = status, interrupted' = interrupted
    PROVE  SettledInvariant'
  BY DEF TypeOK, SettledInvariant, RunsIdle

LEMMA NextSettles ==
    ASSUME TypeOK, SettledInvariant, [Next]_vars
    PROVE  SettledInvariant'
<1> USE DEF table, stock, bounds, told
<1>1. ASSUME NEW r \in Runs, RunStep(r) \/ UpsertReport(r) \/ PushFails(r) \/ Fails(r)
      PROVE  SettledInvariant'
  <2>0. run[r] \in RunType
    BY DEF TypeOK
  <2>1. ASSUME NEW label \in Labels \ {"idle"}, Goto(r, label) PROVE SettledInvariant'
    <3>1. [run[r] EXCEPT !.pc = label].pc # "idle"
      BY <2>0 DEF RunType
    <3> QED BY <2>1, <3>1, StepSettles DEF Goto
  <2>2. CASE UpsertReport(r) \/ SetSyncing(r) \/ IngestSales(r) \/ ClearDiscrepancies(r)
    BY <2>1, <2>2 DEF UpsertReport, SetSyncing, IngestSales, ClearDiscrepancies, Labels
  <2>3. CASE GetInventory(r)
    <3> DEFINE x == [run[r] EXCEPT !.pc = "compare", !.snapshot = posQty]
    <3>1. x.pc # "idle" /\ RunBecomes(r, x)
      BY <2>0, <2>3 DEF GetInventory, RunType
    <3> QED BY <3>1, StepSettles
  <2>4. CASE Compare(r)
    <3>1. PICK t, f :
            RunBecomes(r, [run[r] EXCEPT !.todo = t, !.pc = IF f THEN "push" ELSE "insert",
                                         !.found = 0, !.snapshot = None])
      BY <2>4 DEF Compare
    <3> DEFINE x == [run[r] EXCEPT !.todo = t, !.pc = IF f THEN "push" ELSE "insert",
                                   !.found = 0, !.snapshot = None]
    <3>2. x.pc # "idle"
      BY <2>0 DEF RunType
    <3> QED BY <3>1, <3>2, StepSettles
  <2>5. CASE InsertDiscrepancy(r)
    <3>1. PICK t :
            RunBecomes(r, [run[r] EXCEPT !.todo = @ \ {t}, !.found = @ + 1,
                             !.pc = IF run[r].todo = {t} THEN "push" ELSE "insert"])
      BY <2>5 DEF InsertDiscrepancy
    <3> DEFINE x == [run[r] EXCEPT !.todo = @ \ {t}, !.found = @ + 1,
                             !.pc = IF run[r].todo = {t} THEN "push" ELSE "insert"]
    <3>2. x.pc # "idle"
      BY <2>0 DEF RunType
    <3> QED BY <3>1, <3>2, StepSettles
  <2>6. CASE ReadCatalogue(r)
    <3> DEFINE tasks == {[sku |-> k, qty |-> quantity[PrintingOf[k]]] : k \in Skus}
               x == IF Pushes THEN [run[r] EXCEPT !.pc = "send", !.todo = tasks]
                              ELSE [run[r] EXCEPT !.pc = "count"]
    <3>1. RunBecomes(r, x)
      BY <2>6 DEF ReadCatalogue
    <3>2. x.pc # "idle"
      <4> HIDE DEF tasks
      <4> QED BY <2>0 DEF RunType
    <3> QED BY <3>1, <3>2, StepSettles
  <2>7. CASE UpdateInventory(r)
    <3>1. PICK t :
            RunBecomes(r, [run[r] EXCEPT !.todo = @ \ {t},
                             !.pc = IF run[r].todo = {t} THEN "count" ELSE "send"])
      BY <2>7 DEF UpdateInventory
    <3> DEFINE x == [run[r] EXCEPT !.todo = @ \ {t},
                             !.pc = IF run[r].todo = {t} THEN "count" ELSE "send"]
    <3>2. x.pc # "idle"
      BY <2>0 DEF RunType
    <3> QED BY <3>1, <3>2, StepSettles
  <2>8. CASE CountUnresolved(r)
    <3> DEFINE x == [run[r] EXCEPT !.pc = "complete", !.pending = Cardinality(Pending(discs))]
    <3>1. x.pc # "idle" /\ RunBecomes(r, x)
      BY <2>0, <2>8 DEF CountUnresolved, RunType
    <3> QED BY <3>1, StepSettles
  <2>9. CASE Complete(r)
    BY <2>9, StepSettles DEF Complete, FinalStatus
  <2>10. CASE SetFailed(r)
    BY <2>10, StepSettles DEF SetFailed, FailedStatus
  <2>11. CASE PushFails(r)
    <3> DEFINE x == [run[r] EXCEPT !.pc = "count", !.todo = {}]
    <3>1. x.pc # "idle" /\ RunBecomes(r, x)
      BY <2>0, <2>11 DEF PushFails, RunType
    <3> QED BY <3>1, StepSettles
  <2>12. CASE Fails(r)
    BY <2>12, StepSettles DEF Fails, IdleRun
  <2> QED BY <1>1, <2>2, <2>3, <2>4, <2>5, <2>6, <2>7, <2>8, <2>9, <2>10, <2>11, <2>12 DEF RunStep
<1>2. ASSUME NEW r \in Runs, RunEnds(r) PROVE SettledInvariant'
  BY <1>2, StepSettles DEF RunEnds
<1>3. ASSUME NEW u \in Users,
             \/ \E d \in discs, res \in Resolutions : Resolve(u, d, res)
             \/ UserStep(u) \/ StopUser(u)
      PROVE  SettledInvariant'
  BY <1>3, ElsewhereSettles DEF Resolve, UserStep, ApplyPosQuantity, RefreshCount, StopUser
<1>4. ASSUME NEW p \in Printings, CatalogueChanges(p) PROVE SettledInvariant'
  BY <1>4, ElsewhereSettles DEF CatalogueChanges
<1>5. ASSUME NEW k \in Skus, PosChanges(k) PROVE SettledInvariant'
  BY <1>5, ElsewhereSettles DEF PosChanges
<1>6. CASE DayEnds \/ SwitchConnection
  BY <1>6, ElsewhereSettles DEF DayEnds, SwitchConnection
<1>7. CASE UNCHANGED vars
  BY <1>7, ElsewhereSettles DEF vars
<1> QED BY <1>1, <1>2, <1>3, <1>4, <1>5, <1>6, <1>7 DEF Next, RunGoesOn, Killed, UncaughtError

\* A report that no run works on is "pending" or "syncing" only if a run was
\* interrupted - killed, or ended on an error that run_reconciliation does not
\* catch - and no run has written a final status since; whatever else failed and
\* whichever runs overlapped.
THEOREM ReportSettled == Spec => []QuietReportSettled
<1>1. Init => SettledInvariant
  BY ReportAssumption DEF Init, SettledInvariant, ReportAssumption
<1>2. TypeOK /\ SettledInvariant /\ [Next]_vars => SettledInvariant'
  BY NextSettles
<1>3. TypeOK /\ SettledInvariant => QuietReportSettled
  BY DEF TypeOK, SettledInvariant, QuietReportSettled
<1> QED BY <1>1, <1>2, <1>3, TypeCorrect, PTL DEF Spec

-----------------------------------------------------------------------------
(* A report that only the hourly task writes.  Two runs at once delete and *)
(* insert each other's rows (run ReconcileReport_live has two of them), so *)
(* what follows about the rows is about a single run, its failures and its *)
(* crashes, and the resolve requests beside it.                            *)

SingleRun == Runs = {Scheduler}

at == run[Scheduler].pc
tasks == run[Scheduler].todo

\* The rows of the last run are gone when the next one compares; what it is still
\* to insert concerns SKUs that it has not inserted yet.
RowsInvariant ==
    /\ NoDoubleCount
    /\ at \in {"inventory", "compare"} => discs = {}
    /\ at = "insert" => /\ \A t, v \in tasks : t.sku = v.sku => t = v
                        /\ \A t \in tasks, d \in discs : d.sku # t.sku

\* The report is "syncing" while the run is past its first statement, and only a
\* connection that pulls has rows.
SyncInvariant ==
    /\ at \notin {"idle", "sync"} => status = "syncing"
    /\ at \in {"clear", "inventory", "compare", "insert"} \/ discs # {} => Pulls

\* The request is still to recount the report of its row.
Recounts(u) == user[u].pc # "idle" /\ \E d \in discs : d.id = user[u].disc.id

\* What the run counted so far, and what it wrote when it completed, is the number
\* of rows.  Its count of pending rows is theirs unless one is resolved in the window
\* before it is written; and whoever resolves one later recounts them.
CountInvariant ==
    /\ at \in {"idle", "sync", "ingest"} => run[Scheduler].found = 0
    /\ at \in {"insert", "push", "send", "count", "complete"} =>
          run[Scheduler].found = Cardinality(discs)
    /\ at = "complete" /\ ~late => run[Scheduler].pending = Cardinality(Pending(discs))
    /\ status = "completed" =>
          /\ count = Cardinality(discs)
          /\ ~cut /\ ~late /\ (\A u \in Users : ~Recounts(u)) =>
                unresolved = Cardinality(Pending(discs))

Reported(k) == \E d \in discs : d.sku = k
Covers == \A k \in Skus \ drifted : Reported(k) <=> Disagree(k)

\* The snapshot is the POS quantity of every SKU that has not changed since, and
\* each such SKU on which the two sides disagree is a row or a task of the run.
CoverInvariant ==
    /\ at = "compare" => \A k \in Skus \ drifted : run[Scheduler].snapshot[k] = posQty[k]
    /\ at = "insert" => \A k \in Skus \ drifted :
                           Reported(k) \/ (\E t \in tasks : t.sku = k) <=> Disagree(k)
    /\ at \in {"push", "send", "count", "complete"} \/ status = "completed" => Covers

\* The state of the run, and that a step of a single run replaces it.
LEMMA TheRun ==
    ASSUME TypeOK, SingleRun
    PROVE  /\ run[Scheduler] \in RunType
           /\ at = "insert" => tasks \subseteq ReportTask
           /\ at = "send" => tasks \subseteq SendTask
           /\ RunsIdle <=> at = "idle"
           /\ \A r \in Runs : r = Scheduler
           /\ \A x : RunBecomes(Scheduler, x) => run'[Scheduler] = x
  BY ReportAssumption DEF ReportAssumption, TypeOK, SingleRun, RunsIdle, RunBecomes, at, tasks,
                          ReportTask, SendTask

LEMMA RunGoes ==
    ASSUME TypeOK, SingleRun, NEW label, Goto(Scheduler, label)
    PROVE  /\ at' = label /\ tasks' = tasks
           /\ run'[Scheduler].found = run[Scheduler].found
  BY TheRun DEF Goto, RunType, at, tasks

LEMMA RunInserts ==
    ASSUME TypeOK, SingleRun, NEW todo, NEW found, NEW label,
           RunBecomes(Scheduler, [run[Scheduler] EXCEPT !.todo = todo, !.found = found, !.pc = label])
    PROVE  at' = label /\ tasks' = todo /\ run'[Scheduler].found = found
  BY TheRun DEF RunType, at, tasks

LEMMA RunSends ==
    ASSUME TypeOK, SingleRun, NEW todo, NEW label,
           RunBecomes(Scheduler, [run[Scheduler] EXCEPT !.todo = todo, !.pc = label])
    PROVE  /\ at' = label /\ tasks' = todo
           /\ run'[Scheduler].found = run[Scheduler].found
  BY TheRun DEF RunType, at, tasks

\* What resolve_discrepancy does to the rows: the SKU and the id of the row stay.
LEMMA RowReplaced ==
    ASSUME TypeOK, NEW u \in Users, NEW d \in discs, NEW res \in Resolutions, Resolve(u, d, res)
    PROVE  \E row \in Discrepancy :
             /\ discs' = (discs \ {d}) \cup {row}
             /\ row.sku = d.sku /\ row.id = d.id
<1> DEFINE row == [d EXCEPT !.res = res]
<1>1. d \in Discrepancy
  BY DEF TypeOK
<1>2. row \in Discrepancy /\ row.sku = d.sku /\ row.id = d.id
  BY <1>1 DEF Discrepancy
<1>3. discs' = (discs \ {d}) \cup {row}
  BY DEF Resolve
<1> QED BY <1>2, <1>3

LEMMA RowsKeepTheirSkus ==
    ASSUME TypeOK, NEW u \in Users, NEW d \in discs, NEW res \in Resolutions, Resolve(u, d, res)
    PROVE  /\ \A k : Reported(k)' <=> Reported(k)
           /\ NoDoubleCount => NoDoubleCount'
           /\ discs # {}
<1>1. PICK row \in Discrepancy : discs' = (discs \ {d}) \cup {row} /\ row.sku = d.sku /\ row.id = d.id
  BY RowReplaced
<1>2. \A k : Reported(k)' <=> Reported(k)
  BY <1>1 DEF Reported
<1>3. NoDoubleCount => NoDoubleCount'
  BY <1>1 DEF NoDoubleCount
<1> QED BY <1>2, <1>3

\* The steps of requests and of the quantities, and stuttering, leave the run alone.
Elsewhere ==
    \/ \E u \in Users : \/ \E d \in discs, res \in Resolutions : Resolve(u, d, res)
                        \/ UserStep(u) \/ StopUser(u)
    \/ \E p \in Printings : CatalogueChanges(p)
    \/ \E k \in Skus : PosChanges(k)
    \/ DayEnds \/ SwitchConnection
    \/ UNCHANGED vars

LEMMA ElsewhereLeavesRun ==
    ASSUME Elsewhere
    PROVE  run' = run /\ status' = status
  BY DEF Elsewhere, Resolve, UserStep, ApplyPosQuantity, RefreshCount, StopUser,
         CatalogueChanges, PosChanges, DayEnds, SwitchConnection, vars, table

\* Outside resolve requests that start, the rows stay.
LEMMA RowsStay ==
    ASSUME Elsewhere,
           ~ \E u \in Users, d \in discs, res \in Resolutions : Resolve(u, d, res)
    PROVE  discs' = discs
  BY DEF Elsewhere, UserStep, ApplyPosQuantity, RefreshCount, StopUser,
         CatalogueChanges, PosChanges, DayEnds, SwitchConnection, vars, table

\* The steps of the run.
LEMMA RowsAndSyncOfRun ==
    ASSUME TypeOK, SingleRun, SyncInvariant, RowsInvariant,
           \/ UpsertReport(Scheduler) \/ RunStep(Scheduler)
           \/ PushFails(Scheduler) \/ Fails(Scheduler) \/ RunEnds(Scheduler)
    PROVE  SyncInvariant' /\ RowsInvariant'
<1>s. /\ run[Scheduler] \in RunType
      /\ \A x : RunBecomes(Scheduler, x) => run'[Scheduler] = x
  BY TheRun
<1> USE DEF SyncInvariant, RowsInvariant
<1>1. CASE UpsertReport(Scheduler)
  BY <1>1, RunGoes DEF UpsertReport, NoDoubleCount
<1>2. CASE SetSyncing(Scheduler)
  BY <1>2, RunGoes DEF SetSyncing, NoDoubleCount, at
<1>3. CASE IngestSales(Scheduler)
  <2>1. at' = (IF Pulls THEN "clear" ELSE "push")
    BY <1>3, RunGoes DEF IngestSales
  <2> QED BY <1>3, <2>1, ReportAssumption DEF ReportAssumption, IngestSales, NoDoubleCount, at, table
<1>4. CASE ClearDiscrepancies(Scheduler)
  BY <1>4, RunGoes DEF ClearDiscrepancies, Cleared, NoDoubleCount, at
<1>5. CASE GetInventory(Scheduler)
  <2>1. at' = "compare"
    BY <1>s, <1>5 DEF GetInventory, RunType, at
  <2> QED BY <1>5, <2>1 DEF GetInventory, NoDoubleCount, at, table
<1>6. CASE Compare(Scheduler)
  <2> DEFINE finding(k) == Finding(quantity[PrintingOf[k]], run[Scheduler].snapshot[k])
             found == {k \in Skus : finding(k) # None}
             todo == {[sku |-> k, kind |-> finding(k), pos |-> run[Scheduler].snapshot[k]] : k \in found}
             x == [run[Scheduler] EXCEPT !.todo = todo,
                     !.pc = IF found = {} THEN "push" ELSE "insert", !.found = 0, !.snapshot = None]
  <2>1. run'[Scheduler] = x
    BY <1>s, <1>6 DEF Compare
  <2>2. \A t, v \in todo : t.sku = v.sku => t = v
    OBVIOUS
  <2> HIDE DEF todo, found
  <2>3. tasks' = todo /\ at' \in {"push", "insert"}
    BY <1>s, <2>1 DEF RunType, at, tasks
  <2> QED BY <1>6, <2>2, <2>3 DEF Compare, NoDoubleCount, at, table
<1>7. CASE InsertDiscrepancy(Scheduler)
  <2>1. PICK t \in tasks :
          /\ discs' = discs \cup {[id |-> FreshId, sku |-> t.sku, kind |-> t.kind,
                                   pos |-> t.pos, res |-> "pending"]}
          /\ RunBecomes(Scheduler, [run[Scheduler] EXCEPT
                              !.todo = @ \ {t}, !.found = @ + 1,
                              !.pc = IF tasks = {t} THEN "push" ELSE "insert"])
    BY <1>7 DEF InsertDiscrepancy, tasks
  <2> DEFINE row == [id |-> FreshId, sku |-> t.sku, kind |-> t.kind, pos |-> t.pos, res |-> "pending"]
  <2>2. tasks' = tasks \ {t} /\ at' \in {"push", "insert"}
    BY <2>1, RunInserts DEF tasks
  <2>3. row.sku = t.sku /\ discs' = discs \cup {row}
    BY <2>1
  <2> HIDE DEF row
  <2>4. NoDoubleCount'
    BY <1>7, <2>3 DEF InsertDiscrepancy, NoDoubleCount, at
  <2>5. at' = "insert" => \A v \in tasks', d \in discs' : d.sku # v.sku
    BY <1>7, <2>2, <2>3 DEF InsertDiscrepancy, at
  <2> QED BY <1>7, <2>2, <2>4, <2>5 DEF InsertDiscrepancy, at
<1>8. CASE ReadCatalogue(Scheduler)
  <2>1. at' \in {"send", "count"}
    BY <1>s, <1>8 DEF ReadCatalogue, RunType, at
  <2> QED BY <1>8, <2>1 DEF ReadCatalogue, NoDoubleCount, at, table
<1>9. CASE UpdateInventory(Scheduler)
  <2>1. at' \in {"send", "count"}
    BY <1>s, <1>9 DEF UpdateInventory, RunType, at
  <2> QED BY <1>9, <2>1 DEF UpdateInventory, NoDoubleCount, at, table
<1>10. CASE CountUnresolved(Scheduler)
  <2>1. at' = "complete"
    BY <1>s, <1>10 DEF CountUnresolved, RunType, at
  <2> QED BY <1>10, <2>1 DEF CountUnresolved, NoDoubleCount, at, table
<1>11. CASE Complete(Scheduler)
  BY <1>s, <1>11 DEF Complete, IdleRun, NoDoubleCount, at
<1>12. CASE SetFailed(Scheduler)
  BY <1>s, <1>12 DEF SetFailed, IdleRun, NoDoubleCount, at
<1>13. CASE PushFails(Scheduler)
  <2>1. at' = "count"
    BY <1>s, <1>13 DEF PushFails, RunType, at
  <2> QED BY <1>13, <2>1 DEF PushFails, NoDoubleCount, at, table
<1>14. CASE Fails(Scheduler)
  <2>1. at' = "fail"
    BY <1>s, <1>14 DEF Fails, IdleRun, at
  <2> QED BY <1>14, <2>1 DEF Fails, NoDoubleCount, at, table
<1>15. CASE RunEnds(Scheduler)
  BY <1>s, <1>15 DEF RunEnds, IdleRun, NoDoubleCount, at, table
<1> QED BY <1>1, <1>2, <1>3, <1>4, <1>5, <1>6, <1>7, <1>8, <1>9, <1>10, <1>11, <1>12, <1>13,
           <1>14, <1>15 DEF RunStep

LEMMA RowsAndSyncStep ==
    ASSUME TypeOK, SingleRun, SyncInvariant, RowsInvariant, [Next]_vars
    PROVE  SyncInvariant' /\ RowsInvariant'
<1>1. CASE Elsewhere
  <2>1. at' = at /\ tasks' = tasks /\ status' = status
    BY <1>1, ElsewhereLeavesRun DEF at, tasks
  <2>2. CASE discs' = discs
    BY <2>1, <2>2 DEF SyncInvariant, RowsInvariant, NoDoubleCount
  <2>3. ASSUME NEW u \in Users, NEW d \in discs, NEW res \in Resolutions, Resolve(u, d, res)
        PROVE  SyncInvariant' /\ RowsInvariant'
    <3>1. discs # {} /\ NoDoubleCount'
      BY <2>3, RowsKeepTheirSkus DEF RowsInvariant
    <3>2. \A k : Reported(k)' <=> Reported(k)
      BY <2>3, RowsKeepTheirSkus
    <3>3. at = "insert" => \A t \in tasks, e \in discs' : e.sku # t.sku
      BY <3>2 DEF RowsInvariant, Reported
    <3> QED BY <2>1, <3>1, <3>3 DEF SyncInvariant, RowsInvariant
  <2> QED BY <1>1, <2>2, <2>3, RowsStay
<1>2. CASE ~Elsewhere
  BY <1>2, RowsAndSyncOfRun, TheRun DEF Next, RunGoesOn, Killed, UncaughtError, Elsewhere
<1> QED BY <1>1, <1>2

LEMMA RowsAndSyncInit == Init => SyncInvariant /\ RowsInvariant
  BY ReportAssumption
     DEF Init, ReportAssumption, SyncInvariant, RowsInvariant, NoDoubleCount, IdleRun, at

\* "Clears existing discrepancies first so re-runs don't double-count": as long as
\* one run at a time works on the report, a SKU has at most one discrepancy,
\* whatever failed or was killed before and whatever users resolve meanwhile.
THEOREM RerunsDoNotDoubleCount == ASSUME SingleRun PROVE Spec => []NoDoubleCount
<1>1. Init => TypeOK /\ SyncInvariant /\ RowsInvariant
  BY InitTyped, RowsAndSyncInit
<1>2. TypeOK /\ SyncInvariant /\ RowsInvariant /\ [Next]_vars => (SyncInvariant /\ RowsInvariant)'
  BY RowsAndSyncStep
<1>3. RowsInvariant => NoDoubleCount
  BY DEF RowsInvariant
<1> QED BY <1>1, <1>2, <1>3, TypeCorrect, PTL DEF Spec

-----------------------------------------------------------------------------
(* The report is the truth about its snapshot.                             *)

\* A SKU outside drifted' has the quantities it had, as far as Disagree goes.
LEMMA UndriftedAgrees ==
    ASSUME NEW k \in Skus \ drifted', UNCHANGED <<quantity, posQty>>
    PROVE  Disagree(k)' <=> Disagree(k)
  BY DEF Disagree

LEMMA CoverOfRun ==
    ASSUME TypeOK, SingleRun, Pulls, SyncInvariant, RowsInvariant, CoverInvariant,
           \/ UpsertReport(Scheduler) \/ RunStep(Scheduler)
           \/ PushFails(Scheduler) \/ Fails(Scheduler) \/ RunEnds(Scheduler)
    PROVE  CoverInvariant'
<1>s. /\ run[Scheduler] \in RunType
      /\ \A x : RunBecomes(Scheduler, x) => run'[Scheduler] = x
  BY TheRun
<1>n. None \notin {"syncing", "pending", "completed", "failed"}
  BY ReportAssumption DEF ReportAssumption
<1> USE DEF CoverInvariant, Covers, Reported, Disagree
<1>1. CASE UpsertReport(Scheduler)
  BY <1>n, <1>1, RunGoes DEF UpsertReport, stock
<1>2. CASE SetSyncing(Scheduler)
  BY <1>2, RunGoes DEF SetSyncing
<1>3. CASE IngestSales(Scheduler)
  <2>1. at' = "clear" /\ at = "ingest"
    BY <1>3, RunGoes DEF IngestSales, at
  <2> QED BY <1>n, <1>3, <2>1 DEF IngestSales, table, SyncInvariant
<1>4. CASE ClearDiscrepancies(Scheduler)
  <2>1. at' = "inventory" /\ at = "clear"
    BY <1>4, RunGoes DEF ClearDiscrepancies, at
  <2> QED BY <1>n, <1>4, <2>1 DEF ClearDiscrepancies, SyncInvariant
<1>5. CASE GetInventory(Scheduler)
  <2>1. at' = "compare" /\ at = "inventory" /\ run'[Scheduler].snapshot = posQty
    BY <1>s, <1>5 DEF GetInventory, RunType, at
  <2> QED BY <1>n, <1>5, <2>1 DEF GetInventory, table, SyncInvariant
<1>6. CASE Compare(Scheduler)
  <2> DEFINE finding(k) == Finding(quantity[PrintingOf[k]], run[Scheduler].snapshot[k])
             found == {k \in Skus : finding(k) # None}
             todo == {[sku |-> k, kind |-> finding(k), pos |-> run[Scheduler].snapshot[k]] : k \in found}
             x == [run[Scheduler] EXCEPT !.todo = todo,
                     !.pc = IF found = {} THEN "push" ELSE "insert", !.found = 0, !.snapshot = None]
  <2>1. run'[Scheduler] = x
    BY <1>s, <1>6 DEF Compare
  <2>2. \A k \in Skus : (\E t \in todo : t.sku = k) <=> k \in found
    <3> HIDE DEF found
    <3>1. ASSUME NEW t \in todo PROVE t.sku \in found
      <4>1. PICK k \in found : t = [sku |-> k, kind |-> finding(k), pos |-> run[Scheduler].snapshot[k]]
        OBVIOUS
      <4> QED BY <4>1
    <3>2. ASSUME NEW k \in found PROVE \E t \in todo : t.sku = k
      <4> DEFINE t == [sku |-> k, kind |-> finding(k), pos |-> run[Scheduler].snapshot[k]]
      <4>1. t \in todo /\ t.sku = k
        OBVIOUS
      <4> QED BY <4>1
    <3> QED BY <3>1, <3>2
  <2>3. \A k \in Skus \ drifted : k \in found <=> Disagree(k)
    <3>1. at = "compare"
      BY <1>6 DEF Compare, at
    <3>2. None \notin {"negative_quantity", "quantity_mismatch", "missing"}
      BY ReportAssumption DEF ReportAssumption
    <3>3. \A k \in Skus \ drifted : run[Scheduler].snapshot[k] = posQty[k]
      BY <3>1
    <3>4. \A k \in Skus \ drifted : finding(k) # None <=> Disagree(k)
      BY <3>2, <3>3 DEF Finding
    <3> QED BY <3>4
  <2> HIDE DEF todo, found
  <2>4. tasks' = todo /\ at' = (IF found = {} THEN "push" ELSE "insert")
    BY <1>s, <2>1 DEF RunType, at, tasks
  <2>5. discs = {} /\ status = "syncing" /\ at = "compare"
    BY <1>6 DEF Compare, at, RowsInvariant, SyncInvariant
  <2> QED BY <1>n, <1>6, <2>2, <2>3, <2>4, <2>5 DEF Compare, table, stock
<1>7. CASE InsertDiscrepancy(Scheduler)
  <2>1. PICK t \in tasks :
          /\ discs' = discs \cup {[id |-> FreshId, sku |-> t.sku, kind |-> t.kind,
                                   pos |-> t.pos, res |-> "pending"]}
          /\ RunBecomes(Scheduler, [run[Scheduler] EXCEPT
                              !.todo = @ \ {t}, !.found = @ + 1,
                              !.pc = IF tasks = {t} THEN "push" ELSE "insert"])
    BY <1>7 DEF InsertDiscrepancy, tasks
  <2> DEFINE row == [id |-> FreshId, sku |-> t.sku, kind |-> t.kind, pos |-> t.pos, res |-> "pending"]
  <2>2. tasks' = tasks \ {t} /\ at' = (IF tasks = {t} THEN "push" ELSE "insert")
    <3> DEFINE todo == run[Scheduler].todo \ {t}
               found == run[Scheduler].found + 1
               label == IF tasks = {t} THEN "push" ELSE "insert"
    <3>1. RunBecomes(Scheduler, [run[Scheduler] EXCEPT !.todo = todo, !.found = found, !.pc = label])
      BY <2>1
    <3> HIDE DEF todo, found, label
    <3>2. at' = label /\ tasks' = todo
      BY <3>1, RunInserts
    <3> QED BY <3>2 DEF todo, label, tasks
  <2>3. row.sku = t.sku /\ discs' = discs \cup {row}
    BY <2>1
  <2>4. at = "insert" /\ status' = "syncing" /\ UNCHANGED stock
    BY <1>7 DEF InsertDiscrepancy, at, SyncInvariant
  <2> HIDE DEF row
  <2>5. \A k : Reported(k)' <=> Reported(k) \/ k = t.sku
    BY <2>3
  <2>6. \A k : (\E v \in tasks : v.sku = k) <=> (\E v \in tasks' : v.sku = k) \/ k = t.sku
    BY <2>2
  <2>7. \A k \in Skus \ drifted' : Reported(k)' \/ (\E v \in tasks' : v.sku = k) <=> Disagree(k)'
    BY <2>4, <2>5, <2>6 DEF stock
  <2>8. at' = "push" => tasks' = {}
    BY <2>2
  <2> QED BY <1>n, <2>2, <2>4, <2>7, <2>8
<1>8. CASE ReadCatalogue(Scheduler)
  <2>1. at' \in {"send", "count"} /\ at = "push"
    BY <1>s, <1>8 DEF ReadCatalogue, RunType, at
  <2> QED BY <1>8, <2>1 DEF ReadCatalogue, table, stock
<1>9. CASE UpdateInventory(Scheduler)
  <2>0. PICK t \in tasks :
          /\ posQty' = [posQty EXCEPT ![t.sku] = t.qty]
          /\ drifted' = drifted \cup {t.sku}
          /\ RunBecomes(Scheduler, [run[Scheduler] EXCEPT !.todo = @ \ {t},
                                      !.pc = IF run[Scheduler].todo = {t} THEN "count" ELSE "send"])
    BY <1>9 DEF UpdateInventory, tasks
  <2>1. at' \in {"send", "count"} /\ at = "send"
    BY <1>9, <2>0, RunSends DEF UpdateInventory, at
  <2>2. /\ posQty' = [posQty EXCEPT ![t.sku] = t.qty]
        /\ drifted' = drifted \cup {t.sku}
    BY <2>0
  <2>3. \A k \in Skus \ drifted' : k \in Skus \ drifted /\ (Disagree(k)' <=> Disagree(k))
    BY <1>9, <2>2 DEF UpdateInventory, TypeOK
  <2> QED BY <1>9, <2>1, <2>3 DEF UpdateInventory, table
<1>10. CASE CountUnresolved(Scheduler)
  <2>1. at' = "complete" /\ at = "count"
    BY <1>s, <1>10 DEF CountUnresolved, RunType, at
  <2> QED BY <1>10, <2>1 DEF CountUnresolved, table, stock
<1>11. CASE Complete(Scheduler)
  BY <1>s, <1>11 DEF Complete, IdleRun, stock, at
<1>12. CASE SetFailed(Scheduler)
  BY <1>s, <1>12 DEF SetFailed, FailedStatus, IdleRun, at
<1>13. CASE PushFails(Scheduler)
  <2>1. at' = "count" /\ at \in {"push", "send"}
    BY <1>s, <1>13 DEF PushFails, RunType, at
  <2> QED BY <1>13, <2>1 DEF PushFails, table, stock
<1>14. CASE Fails(Scheduler)
  <2>1. at' = "fail" /\ status' = status
    BY <1>s, <1>14 DEF Fails, IdleRun, at, table
  <2> QED BY <1>n, <1>14, <2>1 DEF Fails, table, stock
<1>15. CASE RunEnds(Scheduler)
  BY <1>s, <1>15 DEF RunEnds, IdleRun, table, stock, at
<1> QED BY <1>1, <1>2, <1>3, <1>4, <1>5, <1>6, <1>7, <1>8, <1>9, <1>10, <1>11, <1>12, <1>13,
           <1>14, <1>15 DEF RunStep

\* What goes on beside the run changes no row's SKU, and whatever it does to a
\* quantity makes the SKU one that has changed since the snapshot.
LEMMA ElsewhereDrifts ==
    ASSUME TypeOK, Elsewhere
    PROVE  /\ \A k : Reported(k)' <=> Reported(k)
           /\ \A k \in Skus \ drifted' : /\ k \in Skus \ drifted
                                         /\ Disagree(k)' <=> Disagree(k)
                                         /\ posQty'[k] = posQty[k]
<1>1. ASSUME NEW u \in Users, NEW d \in discs, NEW res \in Resolutions, Resolve(u, d, res)
      PROVE  /\ \A k : Reported(k)' <=> Reported(k)
             /\ UNCHANGED stock
  BY <1>1, RowsKeepTheirSkus DEF Resolve
<1>2. ASSUME discs' = discs PROVE \A k : Reported(k)' <=> Reported(k)
  BY <1>2 DEF Reported
<1>3. ASSUME NEW u \in Users, ApplyPosQuantity(u)
      PROVE  \A k \in Skus \ drifted' : /\ k \in Skus \ drifted
                                        /\ Disagree(k)' <=> Disagree(k)
                                        /\ posQty'[k] = posQty[k]
  BY <1>3 DEF ApplyPosQuantity, TypeOK, Disagree, SkusOf
<1>4. ASSUME NEW p \in Printings, CatalogueChanges(p)
      PROVE  \A k \in Skus \ drifted' : /\ k \in Skus \ drifted
                                        /\ Disagree(k)' <=> Disagree(k)
                                        /\ posQty'[k] = posQty[k]
  BY <1>4 DEF CatalogueChanges, TypeOK, Disagree, SkusOf
<1>5. ASSUME NEW q \in Skus, PosChanges(q)
      PROVE  \A k \in Skus \ drifted' : /\ k \in Skus \ drifted
                                        /\ Disagree(k)' <=> Disagree(k)
                                        /\ posQty'[k] = posQty[k]
  BY <1>5 DEF PosChanges, TypeOK, Disagree
<1>6. ASSUME UNCHANGED stock
      PROVE  \A k \in Skus \ drifted' : /\ k \in Skus \ drifted
                                        /\ Disagree(k)' <=> Disagree(k)
                                        /\ posQty'[k] = posQty[k]
  BY <1>6 DEF stock, Disagree
<1>7. \A u \in Users : RefreshCount(u) \/ StopUser(u) => UNCHANGED stock
  BY DEF RefreshCount, StopUser
<1>8. UNCHANGED vars => UNCHANGED stock
  BY DEF vars
<1>9. \A k : Reported(k)' <=> Reported(k)
  BY <1>1, <1>2, RowsStay
<1>10. DayEnds \/ SwitchConnection => UNCHANGED stock
  BY DEF DayEnds, SwitchConnection
<1> QED BY <1>1, <1>3, <1>4, <1>5, <1>6, <1>7, <1>8, <1>9, <1>10 DEF Elsewhere, UserStep

LEMMA CoverStep ==
    ASSUME TypeOK, SingleRun, Pulls, SyncInvariant, RowsInvariant, CoverInvariant, [Next]_vars
    PROVE  CoverInvariant'
<1>1. CASE Elsewhere
  <2>1. run' = run /\ status' = status
    BY <1>1, ElsewhereLeavesRun
  <2>2. at' = at /\ tasks' = tasks
    BY <2>1 DEF at, tasks
  <2> QED BY <1>1, <2>1, <2>2, ElsewhereDrifts DEF CoverInvariant, Covers
<1>2. CASE ~Elsewhere
  BY <1>2, CoverOfRun, TheRun DEF Next, RunGoesOn, Killed, UncaughtError, Elsewhere
<1> QED BY <1>1, <1>2

\* A completed report is the truth about its snapshot: for a connection that pulls,
\* and as long as one run at a time works on it, a mapped SKU whose quantities
\* have not changed since is reported if and only if the two sides disagree on it.
THEOREM ReportsCoverMismatches ==
    ASSUME SingleRun, Pulls
    PROVE  Spec => []ReportCoversMismatches
<1>1. Init => TypeOK /\ SyncInvariant /\ RowsInvariant
  BY InitTyped, RowsAndSyncInit
<1>2. Init => CoverInvariant
  BY ReportAssumption DEF Init, ReportAssumption, CoverInvariant, IdleRun, at
<1>3. TypeOK /\ SyncInvariant /\ RowsInvariant /\ [Next]_vars => (SyncInvariant /\ RowsInvariant)'
  BY RowsAndSyncStep
<1>4. TypeOK /\ SyncInvariant /\ RowsInvariant /\ CoverInvariant /\ [Next]_vars => CoverInvariant'
  BY CoverStep
<1>5. CoverInvariant => ReportCoversMismatches
  BY DEF CoverInvariant, ReportCoversMismatches, Covers, Reported
<1> QED BY <1>1, <1>2, <1>3, <1>4, <1>5, TypeCorrect, PTL DEF Spec

-----------------------------------------------------------------------------
(* The counts of a completed report.                                       *)

LEMMA RowsCounted ==
    ASSUME TypeOK
    PROVE  /\ IsFiniteSet(discs) /\ Cardinality(discs) \in Nat
           /\ discs = {} => Cardinality(discs) = 0
           /\ Cardinality(Pending(discs)) \in Nat
  BY FS_EmptySet, FS_CardinalityType, FS_Subset DEF TypeOK, Pending

LEMMA CountOfRun ==
    ASSUME TypeOK, SingleRun, SyncInvariant, RowsInvariant, CountInvariant,
           \/ UpsertReport(Scheduler) \/ RunStep(Scheduler)
           \/ PushFails(Scheduler) \/ Fails(Scheduler) \/ RunEnds(Scheduler)
    PROVE  CountInvariant'
<1>s. /\ run[Scheduler] \in RunType
      /\ \A x : RunBecomes(Scheduler, x) => run'[Scheduler] = x
  BY TheRun
<1>n. None \notin {"syncing", "pending", "completed", "failed"}
  BY ReportAssumption DEF ReportAssumption
<1>u. user' = user
  BY DEF UpsertReport, RunStep, SetSyncing, IngestSales,
       ClearDiscrepancies, GetInventory, Compare, InsertDiscrepancy, ReadCatalogue,
       UpdateInventory, CountUnresolved, Complete, SetFailed, PushFails, Fails, RunEnds
<1> DEFINE Owed == \E u \in Users : Recounts(u)
\* While the rows stay, so does who recounts them.
<1>o. discs' = discs => (Owed' <=> Owed)
  BY <1>u DEF Recounts
<1>c. /\ at \in {"idle", "sync", "ingest"} => run[Scheduler].found = 0
      /\ at \in {"insert", "push", "send", "count", "complete"} =>
            run[Scheduler].found = Cardinality(discs)
      /\ at = "complete" /\ ~late => run[Scheduler].pending = Cardinality(Pending(discs))
      /\ status = "completed" =>
            /\ count = Cardinality(discs)
            /\ ~cut /\ ~late /\ ~Owed => unresolved = Cardinality(Pending(discs))
  BY DEF CountInvariant
\* What is to show of each step.
<1> DEFINE Counted ==
             /\ at \in {"idle", "sync", "ingest"} => run[Scheduler].found = 0
             /\ at \in {"insert", "push", "send", "count", "complete"} =>
                   run[Scheduler].found = Cardinality(discs)
             /\ at = "complete" /\ ~late => run[Scheduler].pending = Cardinality(Pending(discs))
             /\ status = "completed" =>
                   /\ count = Cardinality(discs)
                   /\ ~cut /\ ~late /\ ~Owed => unresolved = Cardinality(Pending(discs))
<1>q. ASSUME Counted' PROVE CountInvariant'
  BY <1>q DEF CountInvariant
<1> HIDE DEF Owed
<1> USE DEF told
<1>1. CASE UpsertReport(Scheduler)
  <2>1. at' = "sync" /\ at = "idle" /\ run'[Scheduler].found = run[Scheduler].found
    BY <1>1, RunGoes DEF UpsertReport, at
  <2> QED BY <1>q, <1>c, <1>o, <1>n, <1>1, <2>1 DEF UpsertReport
<1>2. CASE SetSyncing(Scheduler)
  BY <1>q, <1>c, <1>o, <1>2, RunGoes DEF SetSyncing, at
<1>3. CASE IngestSales(Scheduler)
  <2>1. /\ at' = (IF Pulls THEN "clear" ELSE "push") /\ at = "ingest"
        /\ run'[Scheduler].found = run[Scheduler].found
    BY <1>3, RunGoes DEF IngestSales, at
  <2>2. ~Pulls => Cardinality(discs) = 0
    BY RowsCounted DEF SyncInvariant
  <2> QED BY <1>q, <1>c, <1>o, <1>3, <2>1, <2>2 DEF IngestSales, table
<1>4. CASE ClearDiscrepancies(Scheduler)
  <2>1. at' = "inventory" /\ status' = "syncing"
    BY <1>4, RunGoes DEF ClearDiscrepancies, SyncInvariant, at
  <2> QED BY <1>q, <2>1
<1>5. CASE GetInventory(Scheduler)
  <2>1. at' = "compare" /\ status' = "syncing"
    BY <1>s, <1>5 DEF GetInventory, RunType, at, SyncInvariant, table
  <2> QED BY <1>q, <2>1
<1>6. CASE Compare(Scheduler)
  <2>1. PICK t, f :
          RunBecomes(Scheduler, [run[Scheduler] EXCEPT !.todo = t, !.pc = IF f THEN "push" ELSE "insert",
                                   !.found = 0, !.snapshot = None])
    BY <1>6 DEF Compare
  <2>2. at' \in {"push", "insert"} /\ run'[Scheduler].found = 0
    BY <1>s, <2>1 DEF RunType, at
  <2>3. status' = "syncing" /\ Cardinality(discs') = 0
    BY <1>6, RowsCounted DEF Compare, at, SyncInvariant, RowsInvariant, table
  <2> QED BY <1>q, <2>2, <2>3
<1>7. CASE InsertDiscrepancy(Scheduler)
  <2>1. PICK t \in tasks :
          /\ discs' = discs \cup {[id |-> FreshId, sku |-> t.sku, kind |-> t.kind,
                                   pos |-> t.pos, res |-> "pending"]}
          /\ RunBecomes(Scheduler, [run[Scheduler] EXCEPT
                              !.todo = @ \ {t}, !.found = @ + 1,
                              !.pc = IF tasks = {t} THEN "push" ELSE "insert"])
    BY <1>7 DEF InsertDiscrepancy, tasks
  <2> DEFINE row == [id |-> FreshId, sku |-> t.sku, kind |-> t.kind, pos |-> t.pos, res |-> "pending"]
             todo == run[Scheduler].todo \ {t}
             found == run[Scheduler].found + 1
             label == IF tasks = {t} THEN "push" ELSE "insert"
  <2>2. at' \in {"push", "insert"} /\ run'[Scheduler].found = run[Scheduler].found + 1
    <3>1. RunBecomes(Scheduler, [run[Scheduler] EXCEPT !.todo = todo, !.found = found, !.pc = label])
      BY <2>1
    <3>2. label \in {"push", "insert"}
      OBVIOUS
    <3> HIDE DEF todo, found, label
    <3>3. at' = label /\ run'[Scheduler].found = found
      BY <3>1, RunInserts
    <3> QED BY <3>2, <3>3 DEF found
  <2>3. Cardinality(discs') = Cardinality(discs) + 1
    <3>1. row \notin discs
      BY FreshIdExists
    <3>2. discs' = discs \cup {row}
      BY <2>1
    <3> HIDE DEF row
    <3> QED BY <3>1, <3>2, RowsCounted, FS_AddElement
  <2>4. at = "insert" /\ status' = "syncing"
    BY <1>7 DEF InsertDiscrepancy, at, SyncInvariant
  <2> HIDE DEF row, todo, found, label
  <2> QED BY <1>q, <1>c, <1>o, <2>2, <2>3, <2>4
<1>8. CASE ReadCatalogue(Scheduler)
  <2>1. at' \in {"send", "count"} /\ at = "push" /\ run'[Scheduler].found = run[Scheduler].found
    BY <1>s, <1>8 DEF ReadCatalogue, RunType, at
  <2> QED BY <1>q, <1>c, <1>o, <1>8, <2>1 DEF ReadCatalogue, table
<1>9. CASE UpdateInventory(Scheduler)
  <2>1. PICK t \in tasks :
          RunBecomes(Scheduler, [run[Scheduler] EXCEPT !.todo = @ \ {t},
                                   !.pc = IF run[Scheduler].todo = {t} THEN "count" ELSE "send"])
    BY <1>9 DEF UpdateInventory, tasks
  <2>2. at' \in {"send", "count"} /\ at = "send" /\ run'[Scheduler].found = run[Scheduler].found
    BY <1>9, <2>1, RunSends DEF UpdateInventory, at
  <2> QED BY <1>q, <1>c, <1>o, <1>9, <2>2 DEF UpdateInventory, table
<1>10. CASE CountUnresolved(Scheduler)
  <2>1. /\ at' = "complete" /\ at = "count"
        /\ run'[Scheduler].found = run[Scheduler].found
        /\ run'[Scheduler].pending = Cardinality(Pending(discs))
    BY <1>s, <1>10 DEF CountUnresolved, RunType, at
  <2>2. status' = "syncing" /\ discs' = discs
    BY <1>10, <2>1 DEF CountUnresolved, table, SyncInvariant
  <2> QED BY <1>q, <1>c, <2>1, <2>2
<1>11. CASE Complete(Scheduler)
  <2>1. at' = "idle" /\ at = "complete" /\ run'[Scheduler].found = 0
    BY <1>s, <1>11 DEF Complete, IdleRun, at
  <2> QED BY <1>q, <1>c, <1>o, <1>11, <2>1 DEF Complete, FinalCount
<1>12. CASE SetFailed(Scheduler)
  BY <1>q, <1>s, <1>c, <1>o, <1>12 DEF SetFailed, FailedStatus, IdleRun, at
<1>13. CASE PushFails(Scheduler)
  <2>1. at' = "count" /\ at \in {"push", "send"} /\ run'[Scheduler].found = run[Scheduler].found
    BY <1>s, <1>13 DEF PushFails, RunType, at
  <2> QED BY <1>q, <1>c, <1>o, <1>13, <2>1 DEF PushFails, table
<1>14. CASE Fails(Scheduler)
  <2>1. at' = "fail"
    BY <1>s, <1>14 DEF Fails, IdleRun, at
  <2> QED BY <1>q, <1>c, <1>o, <1>14, <2>1 DEF Fails, table
<1>15. CASE RunEnds(Scheduler)
  <2>1. at' = "idle" /\ run'[Scheduler].found = 0
    BY <1>s, <1>15 DEF RunEnds, IdleRun, at
  <2> QED BY <1>q, <1>c, <1>o, <1>15, <2>1 DEF RunEnds, table
<1> QED BY <1>1, <1>2, <1>3, <1>4, <1>5, <1>6, <1>7, <1>8, <1>9, <1>10, <1>11, <1>12, <1>13,
           <1>14, <1>15 DEF RunStep

LEMMA CountStep ==
    ASSUME TypeOK, SingleRun, SyncInvariant, RowsInvariant, CountInvariant, [Next]_vars
    PROVE  CountInvariant'
<1>t. \A u \in Users : user[u] \in UserType
  BY DEF TypeOK
<1>s. status = "completed" => at # "complete"
  BY DEF SyncInvariant
<1>1. ASSUME NEW u \in Users, NEW d \in discs, NEW res \in Resolutions, Resolve(u, d, res)
      PROVE  CountInvariant'
  <2>1. /\ run' = run /\ at' = at /\ UNCHANGED <<status, count, unresolved>>
        /\ at = "complete" => late'
    BY <1>1, ReportAssumption DEF ReportAssumption, Resolve, at
  <2>2. PICK row \in Discrepancy : discs' = (discs \ {d}) \cup {row} /\ row.sku = d.sku /\ row.id = d.id
    BY <1>1, RowReplaced
  <2>3. Cardinality(discs') = Cardinality(discs)
    <3>1. row \notin discs \ {d}
      BY <2>2 DEF RowsInvariant, NoDoubleCount
    <3>2. /\ IsFiniteSet(discs \ {d})
          /\ Cardinality(discs \ {d}) = Cardinality(discs) - 1
      BY RowsCounted, FS_RemoveElement
    <3>3. Cardinality((discs \ {d}) \cup {row}) = Cardinality(discs \ {d}) + 1
      BY <3>1, <3>2, FS_AddElement
    <3> QED BY <2>2, <3>2, <3>3, RowsCounted
  <2>4. user'[u].pc \in {"apply", "refresh"} /\ user'[u].disc = d
    BY <1>1 DEF Resolve, UserBecomes, TypeOK
  <2>5. row \in discs' /\ row.id = user'[u].disc.id
    BY <2>2, <2>4
  <2>6. Recounts(u)'
    BY <2>4, <2>5 DEF Recounts
  <2> QED BY <2>1, <2>3, <2>6 DEF CountInvariant, at
<1>2. ASSUME NEW u \in Users, ApplyPosQuantity(u) PROVE CountInvariant'
  <2>1. run' = run /\ at' = at /\ UNCHANGED <<table, told>>
    BY <1>2 DEF ApplyPosQuantity, at
  <2>2. /\ user'[u].pc = "refresh" /\ user'[u].disc = user[u].disc /\ user[u].pc = "apply"
        /\ \A v \in Users \ {u} : user'[v] = user[v]
    BY <1>2, <1>t DEF ApplyPosQuantity, UserBecomes, TypeOK, UserType
  <2>3. \A v \in Users : user'[v].disc = user[v].disc /\ (user[v].pc # "idle" => user'[v].pc # "idle")
    BY <2>2
  <2>4. \A v \in Users : Recounts(v) => Recounts(v)'
    BY <2>1, <2>3 DEF Recounts, table
  <2> QED BY <2>1, <2>4 DEF CountInvariant, table, told, at
<1>3. ASSUME NEW u \in Users, RefreshCount(u) PROVE CountInvariant'
  <2>1. run' = run /\ at' = at /\ UNCHANGED <<status, count, discs>>
    BY <1>3 DEF RefreshCount, at
  <2>2. CASE Recounts(u)
    <3>1. /\ unresolved' = Cardinality(Pending(discs))
          /\ at = "complete" /\ late => late'
      BY <1>3, <2>2, ReportAssumption DEF ReportAssumption, RefreshCount, Recounts, Recount, at
    <3> QED BY <2>1, <3>1, <1>s DEF CountInvariant, at
  <2>3. CASE ~Recounts(u)
    <3>1. UNCHANGED <<unresolved, cut, late>>
      BY <1>3, <2>3 DEF RefreshCount, Recounts
    <3>2. \A v \in Users \ {u} : user'[v] = user[v]
      BY <1>3 DEF RefreshCount, UserBecomes, TypeOK
    <3>3. \A v \in Users : Recounts(v) => Recounts(v)'
      BY <2>1, <2>3, <3>2 DEF Recounts
    <3> QED BY <2>1, <3>1, <3>3 DEF CountInvariant, at
  <2> QED BY <2>2, <2>3
<1>4. ASSUME NEW u \in Users, StopUser(u) PROVE CountInvariant'
  <2>1. run' = run /\ at' = at /\ UNCHANGED <<table, late>> /\ cut'
    BY <1>4 DEF StopUser, at
  <2> QED BY <2>1 DEF CountInvariant, table, at
<1>5. ASSUME UNCHANGED <<table, run, user, told>> PROVE CountInvariant'
  BY <1>5 DEF CountInvariant, Recounts, table, told, at
<1>6. ASSUME NEW p \in Printings, CatalogueChanges(p) PROVE CountInvariant'
  BY <1>5, <1>6 DEF CatalogueChanges
<1>7. ASSUME NEW k \in Skus, PosChanges(k) PROVE CountInvariant'
  BY <1>5, <1>7 DEF PosChanges
<1>8. CASE DayEnds \/ SwitchConnection
  BY <1>5, <1>8 DEF DayEnds, SwitchConnection
<1>9. CASE UNCHANGED vars
  BY <1>5, <1>9 DEF vars
<1> QED BY <1>1, <1>2, <1>3, <1>4, <1>6, <1>7, <1>8, <1>9, CountOfRun, TheRun
        DEF Next, RunGoesOn, Killed, UncaughtError, UserStep

\* The two counts of a completed report are those of its rows once nothing is in
\* progress, whenever users resolve and whatever was interrupted, as long as one run
\* at a time works on the report.  The exceptions are those of the code: a row that
\* is resolved between the run's COUNT and its UPDATE, and a request that ends before
\* it recounts, each until the next recount.
THEOREM CountsAreExact ==
    ASSUME SingleRun
    PROVE  Spec => []CompletedCountsExact
<1>1. Init => TypeOK /\ SyncInvariant /\ RowsInvariant
  BY InitTyped, RowsAndSyncInit
<1>2. Init => CountInvariant
  BY ReportAssumption DEF Init, ReportAssumption, CountInvariant, IdleRun, at
<1>3. TypeOK /\ SyncInvariant /\ RowsInvariant /\ [Next]_vars => (SyncInvariant /\ RowsInvariant)'
  BY RowsAndSyncStep
<1>4. TypeOK /\ SyncInvariant /\ RowsInvariant /\ CountInvariant /\ [Next]_vars => CountInvariant'
  BY CountStep
<1>5. CountInvariant => CompletedCountsExact
  BY DEF CountInvariant, CompletedCountsExact, Quiet, UsersIdle, Recounts
<1> QED BY <1>1, <1>2, <1>3, <1>4, <1>5, TypeCorrect, PTL DEF Spec
=============================================================================
