-------------------------- MODULE InventoryProofs --------------------------
(***************************************************************************)
(* TLAPS proofs about Inventory, for every set of variants, checkouts and  *)
(* workers, every cart and every quantity.                                 *)
(***************************************************************************)
EXTENDS Inventory, SumLemmas

(* The five UPDATE statements keep a row well formed; a reservation does so *)
(* because of its WHERE clause.                                             *)
LEMMA RowsTyped ==
    ASSUME NEW row \in StockRows, NEW n \in Nat, NEW s \in InventoryStatus
    PROVE  /\ CanReserve(row, n) => ReserveRow(row, n) \in StockRows
           /\ ReleaseRow(row, n) \in StockRows
           /\ FulfilRow(row, n) \in StockRows
           /\ AdjustRow(row, n, s) \in StockRows
<1> USE DEF StockRows, InventoryStatus
<1>1. Monus(row.reserved, n) \in Nat
  BY DEF Monus
<1>2. CanReserve(row, n) => ReserveRow(row, n) \in StockRows
  BY DEF CanReserve, ReserveRow
<1>3. ReleaseRow(row, n) \in StockRows
  BY <1>1 DEF ReleaseRow
<1>4. FulfilRow(row, n) \in StockRows
  BY <1>1 DEF FulfilRow
<1>5. AdjustRow(row, n, s) \in StockRows
  BY DEF AdjustRow
<1>6. QED
  BY <1>2, <1>3, <1>4, <1>5

(* The `op` field tells what else a job remembers. *)
LEMMA JobsByOp ==
    ASSUME NEW j \in Jobs
    PROVE  /\ j.op \in {"release", "fulfil"} => j \in SettleJobs
           /\ j.op = "sale" => j \in SaleJobs
           /\ j.op = "adjust" => j \in AdjustJobs
  BY DEF Jobs, Idle, SettleJobs, SaleJobs, AdjustJobs

(* Every reachable state is well typed; in particular no counter of a row  *)
(* is ever negative, which the database does not enforce by itself.        *)
THEOREM TypeCorrect == Spec => []TypeOK
<1>1. Init => TypeOK
  <2> SUFFICES ASSUME Init PROVE TypeOK
    OBVIOUS
  <2>1. \A n \in InitialQty : NewRow(n) \in StockRows
    BY QtyType DEF NewRow, StockRows, InventoryStatus
  <2>2. inv \in [Variants -> StockRows]
    BY <2>1 DEF Init
  <2>3. \A v \in Variants : inv[v].available \in Int
    BY <2>2 DEF StockRows
  <2> QED
    BY <2>2, <2>3, QtyType DEF Init, TypeOK, ReservationStatus, Jobs, Idle
<1>2. TypeOK /\ [Next]_vars => TypeOK'
  <2> SUFFICES ASSUME TypeOK, [Next]_vars PROVE TypeOK'
    OBVIOUS
  <2> USE DemandType, QtyType DEF TypeOK
  <2>1. ASSUME NEW c \in Checkouts, ReserveForCheckout(c) PROVE TypeOK'
    <3>1. \A v \in Variants : Demand[c][v] \in Nat /\ inv[v] \in StockRows
      OBVIOUS
    <3>2. inv' \in [Variants -> StockRows]
      BY <2>1, <3>1, RowsTyped DEF ReserveForCheckout, OnCart, InventoryStatus
    <3>3. QED
      BY <2>1, <3>2 DEF ReserveForCheckout, ReservationStatus
  <2>2. ASSUME NEW c \in Checkouts, LinkReservationsToOrder(c) PROVE TypeOK'
    BY <2>2 DEF LinkReservationsToOrder
  <2>3. ASSUME NEW w \in Workers, NEW j \in SettleJobs, StartSettle(w, j)
        PROVE  TypeOK'
    BY <2>3 DEF StartSettle, Jobs
  <2>4. ASSUME NEW w \in Workers, NEW c \in Checkouts,
               ReleaseByCheckout(w, c) \/ ReleaseByOrder(w, c) \/ FulfillOnDelivery(w, c)
        PROVE  \E j \in SettleJobs : StartSettle(w, j)
    BY <2>4 DEF ReleaseByCheckout, ReleaseByOrder, FulfillOnDelivery, SettleJobs
  <2>5. ASSUME NEW w \in Workers, NEW v \in Variants, NEW n \in Counts,
               AdjustAvailableQty(w, v, n)
        PROVE  TypeOK'
    <3>1. n \in Nat /\ inv[v].available \in Nat /\ inv[v].status \in InventoryStatus
      BY DEF StockRows
    <3>2. [op |-> "adjust", v |-> v, new |-> n, base |-> inv[v].available,
           seen |-> inv[v].status] \in AdjustJobs
      BY <3>1 DEF AdjustJobs
    <3>3. QED
      BY <2>5, <3>2 DEF AdjustAvailableQty, ReadForAdjust, StockEntry, Jobs
  <2>6. ASSUME NEW w \in Workers, NEW v \in Variants, NEW n \in Sales,
               RecordOfflineSale(w, v, n)
        PROVE  TypeOK'
    <3>1. n \in Nat /\ inv[v].available \in Nat
      BY DEF StockRows
    <3>2. [op |-> "sale", v |-> v, new |-> Monus(inv[v].available, n),
           base |-> inv[v].available] \in SaleJobs
      BY <3>1 DEF SaleJobs, Monus
    <3>3. QED
      BY <2>6, <3>2 DEF RecordOfflineSale, StockEntry, Jobs
  <2>7. ASSUME NEW w \in Workers, CommitSettle(w) PROVE TypeOK'
    <3> DEFINE c == job[w].c
    <3>1. job[w] \in SettleJobs
      BY <2>7, JobsByOp DEF CommitSettle
    <3>2. c \in Checkouts /\ job[w].to \in ReservationStatus
      BY <3>1 DEF SettleJobs, ReservationStatus
    <3>3. \A v \in Variants : Demand[c][v] \in Nat /\ inv[v] \in StockRows
      BY <3>2
    <3>4. inv' \in [Variants -> StockRows]
      BY <2>7, <3>3, RowsTyped DEF CommitSettle, OnCart, InventoryStatus
    <3>5. hold' \in [Checkouts -> ReservationStatus]
      BY <2>7, <3>2 DEF CommitSettle, SettleReservations
    <3>6. again' \in [Variants -> Nat]
      BY <2>7, <3>3 DEF CommitSettle
    <3>7. QED
      BY <2>7, <3>2, <3>4, <3>5, <3>6 DEF CommitSettle, Jobs
  <2>8. ASSUME NEW w \in Workers, AdjustForSale(w) PROVE TypeOK'
    <3> DEFINE j == job[w]
    <3>1. j \in SaleJobs
      BY <2>8, JobsByOp DEF AdjustForSale
    <3>2. j.v \in Variants /\ j.new \in Nat /\ j.base \in Nat
          /\ inv[j.v].status \in InventoryStatus
      BY <3>1 DEF SaleJobs, StockRows
    <3>3. [op |-> "adjust", v |-> j.v, new |-> j.new, base |-> j.base,
           seen |-> inv[j.v].status] \in AdjustJobs
      BY <3>2 DEF AdjustJobs
    <3>4. QED
      BY <2>8, <3>3 DEF AdjustForSale, ReadForAdjust, Jobs
  <2>9. ASSUME NEW w \in Workers, CommitAdjust(w) PROVE TypeOK'
    <3> DEFINE j == job[w]
    <3>1. j \in AdjustJobs
      BY <2>9, JobsByOp DEF CommitAdjust
    <3>2. j.v \in Variants /\ j.new \in Nat /\ j.base \in Nat /\ j.seen \in InventoryStatus
      BY <3>1 DEF AdjustJobs
    <3>3. AdjustRow(inv[j.v], j.new, j.seen) \in StockRows
      BY <3>2, RowsTyped
    <3>4. inv[j.v].available \in Int
      BY <3>2 DEF StockRows
    <3>5. QED
      BY <2>9, <3>2, <3>3, <3>4 DEF CommitAdjust, Jobs
  <2>10. ASSUME NEW w \in Workers, Abort(w) PROVE TypeOK'
    BY <2>10 DEF Abort, Jobs
  <2>11. ASSUME NEW v \in Variants, SetStatusDisabled(v) PROVE TypeOK'
    BY <2>11 DEF SetStatusDisabled, StockRows, InventoryStatus
  <2>12. CASE UNCHANGED vars
    BY <2>12 DEF vars
  <2>13. QED
    BY <2>1, <2>2, <2>3, <2>4, <2>5, <2>6, <2>7, <2>8, <2>9, <2>10, <2>11, <2>12
       DEF Next
<1>3. QED
  BY <1>1, <1>2, PTL DEF Spec

-----------------------------------------------------------------------------
(* The listing status follows the stock.  The invariant is inductive once  *)
(* rows are typed: each of the four statements re-establishes it on the    *)
(* rows it writes, CommitAdjust from a status read earlier.  A row created *)
(* with quantity 0 is ACTIVE until the first statement that touches it.    *)

RowListed(row) ==
    /\ row.status = "OUT_OF_STOCK" => row.available = 0
    /\ row.status = "ACTIVE" => row.available > 0 \/ row = NewRow(0)

(* Reserving, releasing and fulfilling keep the listing status right. *)
LEMMA RowsListed ==
    ASSUME NEW row \in StockRows, RowListed(row), NEW n \in Nat, n > 0
    PROVE  /\ CanReserve(row, n) => RowListed(ReserveRow(row, n))
           /\ RowListed(ReleaseRow(row, n))
           /\ RowListed(FulfilRow(row, n))
<1> USE DEF StockRows, InventoryStatus, RowListed, NewRow
<1>1. CanReserve(row, n) => RowListed(ReserveRow(row, n))
  BY DEF CanReserve, ReserveRow
<1>2. RowListed(ReleaseRow(row, n))
  BY DEF ReleaseRow
<1>3. RowListed(FulfilRow(row, n))
  <2>1. CASE row = NewRow(0)
    BY <2>1 DEF FulfilRow, Monus
  <2>2. CASE row.status = "ACTIVE" /\ row.available > 0
    BY <2>2 DEF FulfilRow
  <2>3. CASE row.status # "ACTIVE"
    BY <2>3 DEF FulfilRow
  <2> QED  BY <2>1, <2>2, <2>3
<1> QED  BY <1>1, <1>2, <1>3

(* Buyers' listings filter on the status column: a variant is OUT_OF_STOCK *)
(* only when no unit of it can be sold, and ACTIVE without a unit to sell  *)
(* only in the row that product creation wrote.                            *)
THEOREM ListingCorrect == Spec => []ListingMatchesStock
<1> DEFINE Inv == \A v \in Variants : RowListed(inv[v])
<1>1. Init => Inv
  <2> SUFFICES ASSUME Init, NEW v \in Variants PROVE RowListed(inv[v])
    OBVIOUS
  <2>1. PICK n \in InitialQty : inv[v] = NewRow(n)
    BY DEF Init
  <2>2. n \in Nat /\ (n = 0 \/ n > 0)
    BY QtyType
  <2> QED  BY <2>1, <2>2 DEF RowListed, NewRow
<1>2. TypeOK /\ Inv /\ [Next]_vars => Inv'
  <2> SUFFICES ASSUME TypeOK, Inv, [Next]_vars, NEW v \in Variants
               PROVE  RowListed(inv'[v])
    OBVIOUS
  <2> USE DemandType
  <2>0. inv[v] \in StockRows /\ RowListed(inv[v])
    BY DEF TypeOK
  <2>1. ASSUME NEW c \in Checkouts, ReserveForCheckout(c) PROVE RowListed(inv'[v])
    <3>1. Demand[c][v] \in Nat
      OBVIOUS
    <3>2. CASE Demand[c][v] > 0
      <4>1. CanReserve(inv[v], Demand[c][v]) /\ inv'[v] = ReserveRow(inv[v], Demand[c][v])
        BY <2>1, <3>2 DEF ReserveForCheckout, OnCart
      <4>2. QED
        BY <2>0, <3>1, <3>2, <4>1, RowsListed
    <3>3. CASE ~(Demand[c][v] > 0)
      BY <2>0, <2>1, <3>3 DEF ReserveForCheckout, OnCart
    <3>4. QED
      BY <3>2, <3>3
  <2>2. ASSUME NEW w \in Workers, CommitSettle(w) PROVE RowListed(inv'[v])
    <3> DEFINE c == job[w].c
    <3>1. job[w] \in SettleJobs
      BY <2>2, JobsByOp DEF CommitSettle, TypeOK
    <3>2. Demand[c][v] \in Nat
      BY <3>1 DEF SettleJobs
    <3>3. CASE Demand[c][v] > 0
      <4>1. \/ inv'[v] = ReleaseRow(inv[v], Demand[c][v])
            \/ inv'[v] = FulfilRow(inv[v], Demand[c][v])
        BY <2>2, <3>3 DEF CommitSettle, OnCart
      <4>2. QED
        BY <2>0, <3>2, <3>3, <4>1, RowsListed
    <3>4. CASE ~(Demand[c][v] > 0)
      BY <2>0, <2>2, <3>4 DEF CommitSettle, OnCart
    <3>5. QED
      BY <3>3, <3>4
  <2>3. ASSUME NEW w \in Workers, CommitAdjust(w) PROVE RowListed(inv'[v])
    <3> DEFINE j == job[w]
    <3>1. j \in AdjustJobs
      BY <2>3, JobsByOp DEF CommitAdjust, TypeOK
    <3>2. j.new \in Nat
      BY <3>1 DEF AdjustJobs
    <3>3. RowListed(AdjustRow(inv[v], j.new, j.seen))
      BY <3>2 DEF RowListed, AdjustRow
    <3>4. inv'[v] = IF v = j.v THEN AdjustRow(inv[v], j.new, j.seen) ELSE inv[v]
      BY <2>3 DEF CommitAdjust, TypeOK
    <3>5. QED
      BY <2>0, <3>3, <3>4
  <2>4. ASSUME NEW u \in Variants, SetStatusDisabled(u) PROVE RowListed(inv'[v])
    <3>1. CASE u = v
      BY <2>0, <2>4, <3>1 DEF SetStatusDisabled, TypeOK, RowListed, StockRows
    <3>2. CASE u # v
      BY <2>0, <2>4, <3>2 DEF SetStatusDisabled, TypeOK
    <3> QED  BY <3>1, <3>2
  <2>5. CASE UNCHANGED inv
    BY <2>0, <2>5
  <2>6. QED
    BY <2>1, <2>2, <2>3, <2>4, <2>5
       DEF Next, vars, LinkReservationsToOrder, ReleaseByCheckout, ReleaseByOrder,
           FulfillOnDelivery, StartSettle, AdjustAvailableQty, RecordOfflineSale,
           AdjustForSale, Abort
<1>3. Inv => ListingMatchesStock
  BY DEF RowListed, ListingMatchesStock
<1>4. QED
  BY <1>1, <1>2, <1>3, TypeCorrect, PTL DEF Spec

-----------------------------------------------------------------------------
(* No entry that will write an enabled status was begun before v was       *)
(* disabled: the strengthening that DisabledStays needs.                   *)

NotRelisted(v) == inv[v].status = "DISABLED" /\ \A w \in Workers : ~Relisting(w, v)

(* What the merchant disables stays disabled through every settlement and  *)
(* every stock entry that was begun afterwards.                            *)
THEOREM DisabledAlwaysStays == Spec => []DisabledStays
<1> DEFINE Inv == \A v \in offList : NotRelisted(v)
<1>1. Init => Inv
  BY DEF Init
<1>2. TypeOK /\ Inv /\ [Next]_vars => Inv'
  <2> SUFFICES ASSUME TypeOK, Inv, [Next]_vars, NEW v \in offList'
               PROVE  NotRelisted(v)'
    OBVIOUS
  <2>1. ASSUME NEW u \in Variants, SetStatusDisabled(u) PROVE NotRelisted(v)'
    <3>1. /\ inv' = [inv EXCEPT ![u].status = "DISABLED"] /\ UNCHANGED job
          /\ inv \in [Variants -> StockRows]
      BY <2>1 DEF SetStatusDisabled, TypeOK
    <3>2. CASE v \in offList
      <4>1. v \in Variants /\ NotRelisted(v)
        BY <3>2 DEF TypeOK
      <4>2. inv'[v].status = "DISABLED"
        BY <3>1, <4>1 DEF NotRelisted, StockRows
      <4> QED  BY <3>1, <4>1, <4>2 DEF NotRelisted, Relisting
    <3>3. CASE v \notin offList
      <4>1. v = u /\ \A w \in Workers : ~Relisting(w, u)
        BY <2>1, <3>3 DEF SetStatusDisabled
      <4>2. inv'[v].status = "DISABLED"
        BY <3>1, <4>1 DEF StockRows
      <4> QED  BY <3>1, <4>1, <4>2 DEF NotRelisted, Relisting
    <3> QED  BY <3>2, <3>3
  <2>2. ASSUME UNCHANGED offList PROVE v \in Variants /\ NotRelisted(v)
    BY <2>2 DEF TypeOK
  <2>3. ASSUME NEW c \in Checkouts, ReserveForCheckout(c) PROVE NotRelisted(v)'
    <3>1. v \in Variants /\ inv[v].status = "DISABLED" /\ UNCHANGED job
      BY <2>2, <2>3 DEF ReserveForCheckout, NotRelisted
    <3>2. ~(Demand[c][v] > 0)
      BY <2>3, <3>1 DEF ReserveForCheckout, CanReserve
    <3>3. inv'[v] = inv[v]
      BY <2>3, <3>1, <3>2 DEF ReserveForCheckout, OnCart
    <3> QED  BY <2>2, <2>3, <3>1, <3>3 DEF ReserveForCheckout, NotRelisted, Relisting
  <2>4. ASSUME NEW w \in Workers, CommitSettle(w) PROVE NotRelisted(v)'
    <3>1. v \in Variants /\ NotRelisted(v) /\ job' = [job EXCEPT ![w] = Idle]
      BY <2>2, <2>4 DEF CommitSettle
    <3>2. inv'[v].status = "DISABLED"
      BY <2>4, <3>1 DEF CommitSettle, OnCart, ReleaseRow, FulfilRow, NotRelisted
    <3> QED  BY <3>1, <3>2 DEF NotRelisted, Relisting, Idle, TypeOK
  <2>5. ASSUME NEW w \in Workers, CommitAdjust(w) PROVE NotRelisted(v)'
    <3>1. /\ v \in Variants /\ NotRelisted(v) /\ job' = [job EXCEPT ![w] = Idle]
          /\ job[w].op = "adjust"
      BY <2>2, <2>5 DEF CommitAdjust
    <3>2. inv'[v].status = "DISABLED"
      <4>1. CASE v = job[w].v
        <5>1. job[w].seen = "DISABLED"
          BY <3>1, <4>1 DEF NotRelisted, Relisting
        <5>2. inv'[v] = AdjustRow(inv[v], job[w].new, job[w].seen)
          BY <2>5, <3>1, <4>1 DEF CommitAdjust, TypeOK
        <5> QED  BY <5>1, <5>2 DEF AdjustRow
      <4>2. CASE v # job[w].v
        BY <2>5, <3>1, <4>2 DEF CommitAdjust, TypeOK, NotRelisted
      <4> QED  BY <4>1, <4>2
    <3> QED  BY <3>1, <3>2 DEF NotRelisted, Relisting, Idle, TypeOK
  <2>6. ASSUME NEW w \in Workers, UNCHANGED <<inv, offList>>,
               NEW j, job' = [job EXCEPT ![w] = j],
               j.op = "adjust" /\ j.v = v => j.seen = inv[v].status
        PROVE  NotRelisted(v)'
    <3>1. v \in Variants /\ NotRelisted(v)
      BY <2>2, <2>6
    <3>2. \A u \in Workers : job'[u] = IF u = w THEN j ELSE job[u]
      BY <2>6 DEF TypeOK
    <3> QED  BY <2>6, <3>1, <3>2 DEF NotRelisted, Relisting
  <2>7. ASSUME NEW w \in Workers,
               \/ AdjustForSale(w) \/ Abort(w)
               \/ \E c \in Checkouts : ReleaseByCheckout(w, c) \/ ReleaseByOrder(w, c)
                                       \/ FulfillOnDelivery(w, c)
               \/ \E u \in Variants, n \in Counts : AdjustAvailableQty(w, u, n)
               \/ \E u \in Variants, n \in Sales : RecordOfflineSale(w, u, n)
        PROVE  NotRelisted(v)'
    <3>1. UNCHANGED <<inv, offList>>
      BY <2>7 DEF AdjustForSale, Abort, ReleaseByCheckout, ReleaseByOrder,
                  FulfillOnDelivery, StartSettle, AdjustAvailableQty, RecordOfflineSale
    <3>2. \E j : /\ job' = [job EXCEPT ![w] = j]
                 /\ j.op = "adjust" /\ j.v = v => j.seen = inv[v].status
      BY <2>7 DEF AdjustForSale, Abort, ReleaseByCheckout, ReleaseByOrder,
                  FulfillOnDelivery, StartSettle, AdjustAvailableQty,
                  RecordOfflineSale, ReadForAdjust, Idle
    <3> QED  BY <2>6, <3>1, <3>2
  <2>8. CASE UNCHANGED <<inv, job, offList>>
    <3>1. NotRelisted(v)
      BY <2>2, <2>8
    <3> QED  BY <2>8, <3>1 DEF NotRelisted, Relisting
  <2> QED
    BY <2>1, <2>3, <2>4, <2>5, <2>7, <2>8 DEF Next, vars, LinkReservationsToOrder
<1>3. Inv => DisabledStays
  BY DEF NotRelisted, DisabledStays
<1>4. QED
  BY <1>1, <1>2, <1>3, TypeCorrect, PTL DEF Spec

-----------------------------------------------------------------------------
(* The reservation statuses change only as the abstract lifecycle allows,  *)
(* although two jobs may settle from the same snapshot: the updateMany     *)
(* that ends the transaction filters on ACTIVE again.                      *)
THEOREM LifecycleImplemented == Spec => ImplementsLifecycle
<1>1. Init => Lifecycle!Init
  BY DEF Init, Lifecycle!Init
<1>2. TypeOK /\ [Next]_vars => [Lifecycle!Next]_hold
  <2> SUFFICES ASSUME TypeOK, [Next]_vars PROVE [Lifecycle!Next]_hold
    OBVIOUS
  <2>1. ASSUME NEW c \in Checkouts, ReserveForCheckout(c) PROVE Lifecycle!Next
    BY <2>1 DEF ReserveForCheckout, Lifecycle!Next, Lifecycle!Take
  <2>2. ASSUME NEW w \in Workers, CommitSettle(w) PROVE [Lifecycle!Next]_hold
    <3> DEFINE c == job[w].c
    <3>1. job[w] \in SettleJobs
      BY <2>2, JobsByOp DEF CommitSettle, TypeOK
    <3>2. c \in Checkouts /\ job[w].to \in Lifecycle!FinalStatus
      BY <3>1 DEF SettleJobs, Lifecycle!FinalStatus
    <3>3. CASE hold[c] = "ACTIVE"
      <4>1. hold' = [hold EXCEPT ![c] = job[w].to]
        BY <2>2, <3>2, <3>3 DEF CommitSettle, SettleReservations, TypeOK
      <4>2. QED
        BY <3>2, <3>3, <4>1 DEF Lifecycle!Next, Lifecycle!Settle
    <3>4. CASE hold[c] # "ACTIVE"
      BY <2>2, <3>2, <3>4 DEF CommitSettle, SettleReservations, TypeOK
    <3>5. QED
      BY <3>3, <3>4
  <2>3. CASE UNCHANGED hold
    BY <2>3
  <2>4. QED
    BY <2>1, <2>2, <2>3
       DEF Next, vars, LinkReservationsToOrder, ReleaseByCheckout, ReleaseByOrder,
           FulfillOnDelivery, StartSettle, AdjustAvailableQty, RecordOfflineSale,
           AdjustForSale, CommitAdjust, Abort, SetStatusDisabled
<1>3. QED
  BY <1>1, <1>2, TypeCorrect, PTL DEF Spec, ImplementsLifecycle, Lifecycle!Spec

-----------------------------------------------------------------------------
(* One settling job at a time (a single worker) never settles twice: the   *)
(* invariant adds to "no late settlement" that a snapshot held by a job is *)
(* still true, which only another job could change.                        *)
THEOREM SerialSettlement ==
    ASSUME \A w1, w2 \in Workers : w1 = w2
    PROVE  Spec => []SnapshotsFresh
<1>1. Init => SnapshotsFresh
  BY DEF Init, SnapshotsFresh, Idle
<1>2. TypeOK /\ SnapshotsFresh /\ [Next]_vars => SnapshotsFresh'
  <2> SUFFICES ASSUME TypeOK, SnapshotsFresh, [Next]_vars PROVE SnapshotsFresh'
    OBVIOUS
  <2>1. ASSUME NEW c \in Checkouts, ReserveForCheckout(c) PROVE SnapshotsFresh'
    <3>1. hold' = [hold EXCEPT ![c] = "ACTIVE"] /\ UNCHANGED <<job, lateSettled>>
      BY <2>1 DEF ReserveForCheckout
    <3>2. ASSUME NEW w \in Workers, job[w].op \in {"release", "fulfil"}
          PROVE  hold'[job[w].c] = "ACTIVE"
      <4>1. job[w].c \in Checkouts
        BY <3>2, JobsByOp DEF TypeOK, SettleJobs
      <4>2. QED
        BY <3>1, <3>2, <4>1 DEF SnapshotsFresh, TypeOK
    <3>3. QED
      BY <3>1, <3>2 DEF SnapshotsFresh
  <2>2. ASSUME NEW w \in Workers, NEW j \in SettleJobs, StartSettle(w, j)
        PROVE  SnapshotsFresh'
    BY <2>2 DEF StartSettle, SnapshotsFresh, TypeOK
  <2>3. ASSUME NEW w \in Workers, NEW c \in Checkouts,
               ReleaseByCheckout(w, c) \/ ReleaseByOrder(w, c) \/ FulfillOnDelivery(w, c)
        PROVE  \E j \in SettleJobs : StartSettle(w, j)
    BY <2>3 DEF ReleaseByCheckout, ReleaseByOrder, FulfillOnDelivery, SettleJobs
  <2>4. ASSUME NEW w \in Workers, CommitSettle(w) PROVE SnapshotsFresh'
    <3>1. hold[job[w].c] = "ACTIVE" /\ lateSettled = {}
      BY <2>4 DEF CommitSettle, SnapshotsFresh
    <3>2. \A u \in Workers : u = w /\ job'[u] = Idle
      BY <2>4 DEF CommitSettle, TypeOK
    <3>3. lateSettled' = {}
      BY <2>4, <3>1 DEF CommitSettle
    <3>4. QED
      BY <3>2, <3>3 DEF SnapshotsFresh, Idle
  <2>5. ASSUME NEW w \in Workers, NEW v \in Variants,
               \/ \E n \in Counts : AdjustAvailableQty(w, v, n)
               \/ \E n \in Sales : RecordOfflineSale(w, v, n)
        PROVE  SnapshotsFresh'
    BY <2>5
      DEF AdjustAvailableQty, RecordOfflineSale, ReadForAdjust, SnapshotsFresh, TypeOK
  <2>6. ASSUME NEW w \in Workers, AdjustForSale(w) \/ CommitAdjust(w) \/ Abort(w)
        PROVE  SnapshotsFresh'
    BY <2>6
      DEF AdjustForSale, ReadForAdjust, CommitAdjust, Abort, Idle, SnapshotsFresh,
          TypeOK
  <2>7. CASE UNCHANGED <<hold, job, lateSettled>>
    BY <2>7 DEF SnapshotsFresh
  <2>8. QED
    BY <2>1, <2>2, <2>3, <2>4, <2>5, <2>6, <2>7
       DEF Next, vars, LinkReservationsToOrder, SetStatusDisabled
<1>3. QED
  BY <1>1, <1>2, TypeCorrect, PTL DEF Spec

-----------------------------------------------------------------------------
(* The counters.  The units of all reservations in a status are a sum over *)
(* the checkouts; a status that changes moves one checkout's units.        *)

UnitsOf(v) == [c \in Checkouts |-> Demand[c][v]]
With(statuses) == {c \in Checkouts : hold[c] \in statuses}

LEMMA UnitsCountable ==
    ASSUME NEW v \in Variants, NEW statuses
    PROVE  /\ UnitsOf(v) \in [Checkouts -> Int]
           /\ \A c \in Checkouts : UnitsOf(v)[c] = Demand[c][v] /\ Demand[c][v] \in Nat
           /\ With(statuses) \in SUBSET Checkouts /\ IsFiniteSet(With(statuses))
           /\ UnitsIn(v, statuses) = SumFunctionOnSet(UnitsOf(v), With(statuses))
<1>1. \A c \in Checkouts : Demand[c][v] \in Nat
  BY DemandType
<1>2. With(statuses) \in SUBSET Checkouts /\ IsFiniteSet(With(statuses))
  BY CheckoutsFinite, FS_Subset DEF With
<1> QED  BY <1>1, <1>2 DEF UnitsOf, UnitsIn, With

LEMMA UnitsInNat ==
    ASSUME NEW v \in Variants, NEW statuses
    PROVE  /\ UnitsIn(v, statuses) \in Nat
           /\ \A c \in With(statuses) : Demand[c][v] <= UnitsIn(v, statuses)
<1> DEFINE f == UnitsOf(v)
           S == With(statuses)
<1>1. /\ f \in [Checkouts -> Int] /\ S \in SUBSET Checkouts /\ IsFiniteSet(S)
      /\ \A c \in Checkouts : f[c] = Demand[c][v] /\ Demand[c][v] \in Nat
      /\ UnitsIn(v, statuses) = SumFunctionOnSet(f, S)
  BY UnitsCountable
<1> HIDE DEF f, S
<1>2. \A c \in S : f[c] >= 0
  BY <1>1
<1>3. SumFunctionOnSet(f, S) \in Int /\ SumFunctionOnSet(f, S) >= 0
  BY <1>1, <1>2, SumIsInt, SumOverSubset
<1>4. ASSUME NEW c \in S PROVE f[c] <= SumFunctionOnSet(f, S)
  <2>1. /\ S \ {c} \in SUBSET Checkouts /\ IsFiniteSet(S \ {c})
        /\ \A d \in S \ {c} : f[d] >= 0
    BY <1>1, <1>2, FS_RemoveElement
  <2>2. SumFunctionOnSet(f, S \ {c}) >= 0
    BY <1>1, <2>1, SumOverSubset
  <2>3. /\ SumFunctionOnSet(f, S \ {c}) \in Int
        /\ SumFunctionOnSet(f, S) = f[c] + SumFunctionOnSet(f, S \ {c})
    BY <1>1, SumSplit
  <2>4. f[c] \in Int
    BY <1>1
  <2> QED  BY <2>2, <2>3, <2>4
<1> QED  BY <1>1, <1>3, <1>4 DEF S

(* Checkout c goes to status s. *)
LEMMA UnitsMove ==
    ASSUME TypeOK, NEW c \in Checkouts, NEW s, hold' = [hold EXCEPT ![c] = s],
           NEW v \in Variants, NEW statuses
    PROVE  UnitsIn(v, statuses)' = UnitsIn(v, statuses)
             - Part(hold[c], statuses, Demand[c][v]) + Part(s, statuses, Demand[c][v])
<1> DEFINE f == UnitsOf(v)
           S == With(statuses)
           T == With(statuses)'
           n == Demand[c][v]
<1>1. UnitsIn(v, statuses) = SumFunctionOnSet(f, S) /\ UnitsIn(v, statuses)' = SumFunctionOnSet(f, T)
  BY DEF UnitsIn, UnitsOf, With
<1>2. \A d \in Checkouts : hold'[d] = IF d = c THEN s ELSE hold[d]
  BY DEF TypeOK
<1>3. /\ S \in SUBSET Checkouts /\ T \in SUBSET Checkouts
      /\ \A d \in Checkouts : d # c => (d \in T <=> d \in S)
      /\ (c \in S <=> hold[c] \in statuses) /\ (c \in T <=> s \in statuses)
  BY <1>2 DEF With
<1>4. IsFiniteSet(S) /\ IsFiniteSet(T) /\ f \in [Checkouts -> Int] /\ f[c] = n
  BY <1>3, UnitsCountable, CheckoutsFinite, FS_Subset
<1>5. Part(c, S, n) = Part(hold[c], statuses, n) /\ Part(c, T, n) = Part(s, statuses, n)
  BY <1>3 DEF Part
<1> HIDE DEF f, S, T, n
<1>6. SumFunctionOnSet(f, T) = SumFunctionOnSet(f, S) - Part(c, S, f[c]) + Part(c, T, f[c])
  BY <1>3, <1>4, SumMoves
<1> QED  BY <1>1, <1>4, <1>5, <1>6 DEF n

LEMMA UnitsStay ==
    ASSUME UNCHANGED hold, NEW v \in Variants
    PROVE  UNCHANGED <<HeldUnits(v), SoldUnits(v)>>
BY DEF HeldUnits, SoldUnits, UnitsIn

(* What a job does to the units, and the status it writes, go together. *)
Goals == \A w \in Workers : /\ job[w].op = "release" => job[w].to # "CONSUMED"
                            /\ job[w].op = "fulfil" => job[w].to = "CONSUMED"

RowDrift(v) == inv[v].reserved <= HeldUnits(v) /\ inv[v].sold >= SoldUnits(v)
RowExact(v) == /\ inv[v].reserved = HeldUnits(v)
               /\ inv[v].sold = SoldUnits(v)
UnitsBalance(v) ==
    inv[v].available + HeldUnits(v) + SoldUnits(v) = total[v] + again[v] - undone[v]
OnlyOnce(v) == \A c \in lateSettled : ~InCart(c, v)

Counted(v) == RowDrift(v) /\ UnitsBalance(v) /\ (OnlyOnce(v) => RowExact(v))
CountInv == TypeOK /\ Goals /\ \A v \in Variants : Counted(v)

(* The row of v, in numbers. *)
LEMMA RowNumbers ==
    ASSUME TypeOK, NEW v \in Variants
    PROVE  /\ inv[v] \in StockRows
           /\ inv[v].available \in Nat /\ inv[v].reserved \in Nat /\ inv[v].sold \in Nat
           /\ total[v] \in Int /\ again[v] \in Nat /\ undone[v] \in Int
           /\ HeldUnits(v) \in Nat /\ SoldUnits(v) \in Nat
<1>1. HeldUnits(v) \in Nat /\ SoldUnits(v) \in Nat
  BY UnitsInNat DEF HeldUnits, SoldUnits
<1> QED  BY <1>1 DEF TypeOK, StockRows

LEMMA ReservationCounted ==
    ASSUME CountInv, NEW c \in Checkouts, ReserveForCheckout(c), NEW v \in Variants
    PROVE  Counted(v)'
<1> DEFINE n == Demand[c][v]
<1>1. /\ hold[c] = "NONE" /\ hold' = [hold EXCEPT ![c] = "ACTIVE"]
      /\ UNCHANGED <<total, lateSettled, again, undone>>
  BY DEF ReserveForCheckout
<1>2. HeldUnits(v)' = HeldUnits(v) + n /\ SoldUnits(v)' = SoldUnits(v)
  <2>1. n \in Nat
    BY DemandType
  <2>2. \A statuses : UnitsIn(v, statuses)' = UnitsIn(v, statuses)
           - Part(hold[c], statuses, n) + Part("ACTIVE", statuses, n)
    BY <1>1, UnitsMove DEF CountInv
  <2>3. HeldUnits(v)' = HeldUnits(v) - 0 + n
    BY <1>1, <2>2 DEF HeldUnits, Part
  <2>4. SoldUnits(v)' = SoldUnits(v) - 0 + 0
    BY <1>1, <2>2 DEF SoldUnits, Part
  <2> QED  BY <2>1, <2>3, <2>4, RowNumbers DEF CountInv
<1>3. /\ inv'[v].available = inv[v].available - n
      /\ inv'[v].reserved = inv[v].reserved + n
      /\ inv'[v].sold = inv[v].sold
  <2>1. n \in Nat
    BY DemandType
  <2>2. CASE n > 0
    <3>1. inv'[v] = ReserveRow(inv[v], n)
      BY <2>2 DEF ReserveForCheckout, OnCart
    <3> QED  BY <3>1 DEF ReserveRow
  <2>3. CASE ~(n > 0)
    <3>1. inv'[v] = inv[v] /\ n = 0
      BY <2>1, <2>3 DEF ReserveForCheckout, OnCart
    <3> QED  BY <3>1, RowNumbers DEF CountInv
  <2> QED  BY <2>2, <2>3
<1>4. n \in Nat
  BY DemandType
<1>5. Counted(v) /\ (OnlyOnce(v)' <=> OnlyOnce(v))
  BY <1>1 DEF CountInv, OnlyOnce
<1> HIDE DEF n
<1>6. RowDrift(v)'
  BY <1>2, <1>3, <1>4, <1>5, RowNumbers DEF CountInv, Counted, RowDrift
<1>7. ASSUME OnlyOnce(v) PROVE RowExact(v)'
  BY <1>1, <1>2, <1>3, <1>4, <1>5, <1>7, RowNumbers DEF CountInv, Counted, RowExact
<1>8. UnitsBalance(v)'
  BY <1>1, <1>2, <1>3, <1>4, <1>5, RowNumbers DEF CountInv, Counted, UnitsBalance
<1> QED  BY <1>5, <1>6, <1>7, <1>8 DEF Counted

(* A settlement that is not late moves exactly what was held; a late one   *)
(* errs in one direction.                                                  *)
LEMMA SettlementCounted ==
    ASSUME CountInv, NEW w \in Workers, CommitSettle(w), NEW v \in Variants
    PROVE  Counted(v)'
<1> DEFINE c == job[w].c
           n == Demand[c][v]
           back == job[w].op = "release"
           late == hold[c] # "ACTIVE"
<1>1. /\ c \in Checkouts /\ job[w].op \in {"release", "fulfil"}
      /\ back => job[w].to \in {"EXPIRED", "RELEASED"}
      /\ ~back => job[w].to = "CONSUMED"
  <2>1. job[w] \in SettleJobs
    BY JobsByOp DEF CommitSettle, CountInv, TypeOK
  <2> QED  BY <2>1 DEF CommitSettle, SettleJobs, CountInv, Goals
<1>2. n \in Nat /\ Counted(v)
  BY <1>1, DemandType DEF CountInv
<1>3. /\ inv'[v].available = IF back THEN inv[v].available + n ELSE inv[v].available
      /\ inv'[v].reserved = Monus(inv[v].reserved, n)
      /\ inv'[v].sold = IF back THEN inv[v].sold ELSE inv[v].sold + n
  <2>1. CASE n > 0
    <3>1. inv'[v] = IF back THEN ReleaseRow(inv[v], n) ELSE FulfilRow(inv[v], n)
      BY <2>1 DEF CommitSettle, OnCart
    <3> QED  BY <3>1 DEF ReleaseRow, FulfilRow
  <2>2. CASE ~(n > 0)
    <3>1. inv'[v] = inv[v] /\ n = 0
      BY <1>2, <2>2 DEF CommitSettle, OnCart
    <3>2. Monus(inv[v].reserved, 0) = inv[v].reserved
      BY RowNumbers DEF CountInv, Monus
    <3> QED  BY <3>1, <3>2, RowNumbers DEF CountInv
  <2> QED  BY <2>1, <2>2
<1>4. /\ UNCHANGED <<total, undone>>
      /\ again'[v] = IF late /\ back THEN again[v] + n ELSE again[v]
      /\ lateSettled' = IF late THEN lateSettled \cup {c} ELSE lateSettled
      /\ hold' = [hold EXCEPT ![c] = IF late THEN @ ELSE job[w].to]
  <2>1. /\ UNCHANGED <<total, undone>>
        /\ lateSettled' = IF late THEN lateSettled \cup {c} ELSE lateSettled
        /\ hold' = [hold EXCEPT ![c] = IF late THEN @ ELSE job[w].to]
    BY <1>1 DEF CommitSettle, SettleReservations, CountInv, TypeOK
  <2>2. IF late THEN again'[v] = again[v] + (IF back THEN n ELSE 0) ELSE again' = again
    BY DEF CommitSettle
  <2>3. again[v] \in Nat
    BY RowNumbers DEF CountInv
  <2> HIDE DEF late, back, n
  <2> QED  BY <2>1, <2>2, <2>3
<1>5. CASE late
  <2>1. hold' = hold
    BY <1>1, <1>4, <1>5 DEF CountInv, TypeOK
  <2>2. UNCHANGED <<HeldUnits(v), SoldUnits(v)>>
    BY <2>1, UnitsStay
  <2>3. RowDrift(v)'
    BY <1>2, <1>3, <2>2, RowNumbers DEF CountInv, Counted, RowDrift, Monus
  <2>4. ASSUME OnlyOnce(v)' PROVE RowExact(v)'
    <3>1. OnlyOnce(v) /\ n = 0
      BY <1>2, <1>4, <1>5, <2>4 DEF OnlyOnce, InCart
    <3>2. RowExact(v)
      BY <1>2, <3>1 DEF Counted
    <3> HIDE DEF n
    <3> QED  BY <1>3, <1>4, <2>2, <3>1, <3>2, RowNumbers DEF CountInv, RowExact, Monus
  <2> HIDE DEF n, back
  <2>5. UnitsBalance(v)'
    <3>1. /\ inv[v].available \in Nat /\ total[v] \in Int /\ again[v] \in Nat
          /\ undone[v] \in Int /\ HeldUnits(v) \in Nat /\ SoldUnits(v) \in Nat /\ n \in Nat
      BY <1>2, RowNumbers DEF CountInv
    <3>2. inv[v].available + HeldUnits(v) + SoldUnits(v) = total[v] + again[v] - undone[v]
      BY <1>2 DEF Counted, UnitsBalance
    <3>3. /\ inv'[v].available = inv[v].available + (IF back THEN n ELSE 0)
          /\ again'[v] = again[v] + (IF back THEN n ELSE 0)
          /\ UNCHANGED <<total, undone, HeldUnits(v), SoldUnits(v)>>
      BY <1>3, <1>4, <1>5, <2>2, <3>1
    <3>4. CASE back
      BY <3>1, <3>2, <3>3, <3>4 DEF UnitsBalance
    <3>5. CASE ~back
      BY <3>1, <3>2, <3>3, <3>5 DEF UnitsBalance
    <3> QED  BY <3>4, <3>5
  <2> QED  BY <2>3, <2>4, <2>5 DEF Counted
<1>6. CASE ~late
  <2>1. hold' = [hold EXCEPT ![c] = job[w].to] /\ hold[c] = "ACTIVE"
    BY <1>4, <1>6
  <2>2. /\ HeldUnits(v)' = HeldUnits(v) - n + 0
        /\ SoldUnits(v)' = SoldUnits(v) - 0 + (IF back THEN 0 ELSE n)
    <3>1. \A statuses : UnitsIn(v, statuses)' = UnitsIn(v, statuses)
             - Part(hold[c], statuses, n) + Part(job[w].to, statuses, n)
      BY <1>1, <2>1, UnitsMove DEF CountInv
    <3>2. HeldUnits(v)' = HeldUnits(v) - n + 0
      BY <1>1, <2>1, <3>1 DEF HeldUnits, Part
    <3>3. SoldUnits(v)' = SoldUnits(v) - 0 + (IF back THEN 0 ELSE n)
      BY <1>1, <2>1, <3>1 DEF SoldUnits, Part
    <3> QED  BY <3>2, <3>3
  <2>3. n <= HeldUnits(v)
    BY <1>1, <2>1, UnitsInNat DEF HeldUnits, With
  <2>4. OnlyOnce(v)' <=> OnlyOnce(v)
    BY <1>4, <1>6 DEF OnlyOnce
  <2> HIDE DEF n, back
  <2>5. RowDrift(v)'
    BY <1>2, <1>3, <2>2, <2>3, RowNumbers DEF CountInv, Counted, RowDrift, Monus
  <2>6. ASSUME OnlyOnce(v) PROVE RowExact(v)'
    BY <1>2, <1>3, <1>4, <2>2, <2>3, <2>6, RowNumbers DEF CountInv, Counted, RowExact, Monus
  <2>7. UnitsBalance(v)'
    BY <1>2, <1>3, <1>4, <1>6, <2>2, <2>3, RowNumbers DEF CountInv, Counted, UnitsBalance
  <2> QED  BY <2>4, <2>5, <2>6, <2>7 DEF Counted
<1> QED  BY <1>5, <1>6

LEMMA AdjustmentCounted ==
    ASSUME CountInv, NEW w \in Workers, CommitAdjust(w), NEW v \in Variants
    PROVE  Counted(v)'
<1> DEFINE j == job[w]
<1>1. j.v \in Variants /\ j.new \in Nat /\ j.base \in Nat
  <2>1. j \in AdjustJobs
    BY JobsByOp DEF CommitAdjust, CountInv, TypeOK
  <2> QED  BY <2>1 DEF AdjustJobs
<1>2. /\ inv'[v] = IF v = j.v THEN AdjustRow(inv[v], j.new, j.seen) ELSE inv[v]
      /\ total'[v] = IF v = j.v THEN total[v] + j.new - j.base ELSE total[v]
      /\ undone'[v] = IF v = j.v THEN undone[v] + inv[v].available - j.base ELSE undone[v]
      /\ UNCHANGED <<hold, lateSettled, again>>
  BY <1>1 DEF CommitAdjust, CountInv, TypeOK
<1>3. /\ inv'[v].reserved = inv[v].reserved /\ inv'[v].sold = inv[v].sold
      /\ inv'[v].available = IF v = j.v THEN j.new ELSE inv[v].available
  BY <1>2 DEF AdjustRow
<1>4. UNCHANGED <<HeldUnits(v), SoldUnits(v)>> /\ (OnlyOnce(v)' <=> OnlyOnce(v)) /\ Counted(v)
  BY <1>2, UnitsStay DEF OnlyOnce, CountInv
<1> HIDE DEF j
<1>6. RowDrift(v)'
  BY <1>3, <1>4 DEF Counted, RowDrift
<1>7. ASSUME OnlyOnce(v) PROVE RowExact(v)'
  BY <1>3, <1>4, <1>7 DEF Counted, RowExact
<1>8. UnitsBalance(v)'
  <2>1. /\ inv[v].available \in Nat /\ total[v] \in Int /\ again[v] \in Nat
        /\ undone[v] \in Int /\ HeldUnits(v) \in Nat /\ SoldUnits(v) \in Nat
    BY RowNumbers DEF CountInv
  <2>2. inv[v].available + HeldUnits(v) + SoldUnits(v) = total[v] + again[v] - undone[v]
    BY <1>4 DEF Counted, UnitsBalance
  <2>3. CASE v = j.v
    <3>1. /\ inv'[v].available = j.new /\ total'[v] = total[v] + j.new - j.base
          /\ undone'[v] = undone[v] + inv[v].available - j.base
          /\ UNCHANGED <<again, HeldUnits(v), SoldUnits(v)>>
      BY <1>2, <1>3, <1>4, <2>3
    <3> QED  BY <1>1, <2>1, <2>2, <3>1 DEF UnitsBalance
  <2>4. CASE v # j.v
    <3>1. UNCHANGED <<inv[v].available, total[v], undone[v], again, HeldUnits(v), SoldUnits(v)>>
      BY <1>2, <1>3, <1>4, <2>4
    <3> QED  BY <2>2, <3>1 DEF UnitsBalance
  <2> QED  BY <2>3, <2>4
<1> QED  BY <1>4, <1>6, <1>7, <1>8 DEF Counted

LEMMA GoalsKept == CountInv /\ [Next]_vars => Goals'
<1> SUFFICES ASSUME CountInv, [Next]_vars, NEW u \in Workers
             PROVE  /\ job'[u].op = "release" => job'[u].to # "CONSUMED"
                    /\ job'[u].op = "fulfil" => job'[u].to = "CONSUMED"
  BY DEF Goals
<1>1. /\ job \in [Workers -> Jobs]
      /\ job[u].op = "release" => job[u].to # "CONSUMED"
      /\ job[u].op = "fulfil" => job[u].to = "CONSUMED"
  BY DEF CountInv, Goals, TypeOK
<1>2. ASSUME NEW w \in Workers, NEW c \in Checkouts,
             ReleaseByCheckout(w, c) \/ ReleaseByOrder(w, c) \/ FulfillOnDelivery(w, c)
      PROVE  \/ job'[u] = job[u]
             \/ job'[u].op = "release" /\ job'[u].to \in {"EXPIRED", "RELEASED"}
             \/ job'[u].op = "fulfil" /\ job'[u].to = "CONSUMED"
  BY <1>1, <1>2 DEF ReleaseByCheckout, ReleaseByOrder, FulfillOnDelivery, StartSettle
<1>3. ASSUME NEW w \in Workers, NEW v \in Variants,
             \/ \E n \in Counts : AdjustAvailableQty(w, v, n)
             \/ \E n \in Sales : RecordOfflineSale(w, v, n)
      PROVE  job'[u] = job[u] \/ job'[u].op \in {"sale", "adjust"}
  BY <1>1, <1>3 DEF AdjustAvailableQty, RecordOfflineSale, ReadForAdjust
<1>4. ASSUME NEW w \in Workers,
             CommitSettle(w) \/ AdjustForSale(w) \/ CommitAdjust(w) \/ Abort(w)
      PROVE  job'[u] = job[u] \/ job'[u].op \in {"idle", "adjust"}
  BY <1>1, <1>4 DEF CommitSettle, AdjustForSale, ReadForAdjust, CommitAdjust, Abort, Idle
<1>5. CASE UNCHANGED job
  BY <1>1, <1>5
<1> QED  BY <1>1, <1>2, <1>3, <1>4, <1>5
            DEF Next, vars, ReserveForCheckout, LinkReservationsToOrder, SetStatusDisabled

LEMMA CountKept == CountInv /\ TypeOK' /\ [Next]_vars => CountInv'
<1> SUFFICES ASSUME CountInv, TypeOK', [Next]_vars, NEW v \in Variants PROVE Counted(v)'
  BY GoalsKept DEF CountInv
<1>1. CASE \E c \in Checkouts : ReserveForCheckout(c)
  BY <1>1, ReservationCounted
<1>2. CASE \E w \in Workers : CommitSettle(w)
  BY <1>2, SettlementCounted
<1>3. CASE \E w \in Workers : CommitAdjust(w)
  BY <1>3, AdjustmentCounted
<1>4. ASSUME UNCHANGED <<hold, total, lateSettled, again, undone>>,
             inv'[v].available = inv[v].available,
             inv'[v].reserved = inv[v].reserved, inv'[v].sold = inv[v].sold
      PROVE  Counted(v)'
  <2>1. UNCHANGED <<HeldUnits(v), SoldUnits(v)>> /\ Counted(v)
    BY <1>4, UnitsStay DEF CountInv
  <2> QED  BY <1>4, <2>1 DEF Counted, RowDrift, RowExact, UnitsBalance, OnlyOnce
<1>5. CASE \E u \in Variants : SetStatusDisabled(u)
  <2>1. /\ inv'[v].available = inv[v].available
        /\ inv'[v].reserved = inv[v].reserved /\ inv'[v].sold = inv[v].sold
    BY <1>5 DEF SetStatusDisabled, CountInv, TypeOK, StockRows
  <2> QED  BY <1>4, <1>5, <2>1 DEF SetStatusDisabled
<1>6. CASE UNCHANGED <<inv, hold, total, lateSettled, again, undone>>
  BY <1>4, <1>6
<1> QED  BY <1>1, <1>2, <1>3, <1>5, <1>6
            DEF Next, vars, LinkReservationsToOrder, ReleaseByCheckout, ReleaseByOrder,
                FulfillOnDelivery, StartSettle, AdjustAvailableQty, RecordOfflineSale,
                AdjustForSale, Abort

LEMMA CountInitially == Init /\ TypeOK => CountInv
<1> SUFFICES ASSUME Init, TypeOK PROVE CountInv
  OBVIOUS
<1>1. Goals
  BY DEF Init, Goals, Idle
<1>2. ASSUME NEW v \in Variants PROVE Counted(v)
  <2>1. With({"ACTIVE"}) = {} /\ With({"CONSUMED"}) = {}
    BY DEF Init, With
  <2>2. HeldUnits(v) = 0 /\ SoldUnits(v) = 0
    BY <2>1, UnitsCountable, SumEmpty DEF HeldUnits, SoldUnits
  <2>3. /\ inv[v].reserved = 0 /\ inv[v].sold = 0
        /\ total[v] = inv[v].available /\ again[v] = 0 /\ undone[v] = 0
    BY DEF Init, NewRow
  <2> QED  BY <2>2, <2>3, RowNumbers DEF Counted, RowDrift, RowExact, UnitsBalance
<1> QED  BY <1>1, <1>2 DEF CountInv

LEMMA CountAlways == Spec => []CountInv
BY CountInitially, CountKept, TypeCorrect, PTL DEF Spec

(* Every unit is accounted for, those that the two races make and lose     *)
(* included, and `reserved` and `sold_qty` agree with the reservation rows *)
(* on every variant that no late settlement has touched, for any number of *)
(* checkouts and jobs and whatever their order.                            *)
THEOREM CountersAlwaysExact == Spec => []CountersExact
<1>1. CountInv => CountersExact
  BY DEF CountInv, Counted, OnlyOnce, RowExact, UnitsBalance, CountersExact
<1> QED  BY <1>1, CountAlways, PTL

(* And under every race `reserved` errs downwards only, `sold` upwards.    *)
THEOREM DriftAlwaysOneSided == Spec => []DriftOneSided
<1>1. CountInv => DriftOneSided
  BY DEF CountInv, Counted, RowDrift, DriftOneSided
<1> QED  BY <1>1, CountAlways, PTL
=============================================================================
