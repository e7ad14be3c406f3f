----------------------------- MODULE Inventory -----------------------------
(***************************************************************************)
(* Stock and reservations: InventoryService of                             *)
(* apps/api/src/modules/inventory/inventory.service.ts.                    *)
(*                                                                         *)
(* A reservation transaction is one atomic action.  Releasing and          *)
(* fulfilling are two: the ACTIVE reservations are read OUTSIDE the        *)
(* transaction that gives the units back, so a job that holds a snapshot   *)
(* can settle a checkout that another job has settled meanwhile.  The      *)
(* absolute write of adjustAvailableQty has the same shape, and an offline *)
(* sale reads twice before it writes.  Jobs are HTTP requests and cron     *)
(* ticks, each run by one worker; a worker may die between two steps.      *)
(*                                                                         *)
(* All the reservations of a checkout are created together, linked         *)
(* together and settled together (updateMany by checkoutId or orderId), so *)
(* one status per checkout stands for its rows.  The order that belongs to *)
(* a checkout is identified with the checkout.  Transfers between stores   *)
(* (fulfillment-network/inventory-transfer.service.ts), which write the    *)
(* quantity past this service, are left out.                               *)
(***************************************************************************)
EXTENDS StockRow, FiniteSets, Functions

CONSTANTS Variants,      \* product variants, one inventory row each
          Checkouts,
          Workers,       \* concurrent requests and cron ticks
          Demand,        \* Demand[c][v]: units of v in the cart of c
          InitialQty,    \* quantities a product may be created with
          Counts,        \* quantities a merchant may enter as a recount
          Sales,         \* quantities a merchant may report as sold offline
          MaxEntries     \* bound: how many times merchants enter stock

ASSUME CheckoutsFinite == IsFiniteSet(Checkouts)
ASSUME DemandType == Demand \in [Checkouts -> [Variants -> Nat]]
ASSUME QtyType == /\ InitialQty \subseteq Nat
                  /\ MaxEntries \in Nat
                  /\ Counts \subseteq Nat
                  /\ Sales \subseteq Nat \ {0}

VARIABLES
    inv,         \* inv[v]: the inventory row of v
    hold,        \* hold[c]: status of the reservations of c ("NONE": no rows)
    linked,      \* linked[c]: inventory_reservations.order_id is set
    job,         \* job[w]: what the worker does and what it has read
    total,       \* history: units on sale, held or sold online, as moved by the
                 \* merchant's own entries (counts and counter sales)
    lateSettled, \* history: checkouts settled again after their settlement
    again,       \* history: again[v]: units that late releases put on sale a
                 \* second time
    undone,      \* history: undone[v]: what had been added to the quantity
                 \* between the read and the write of a stock entry, and the
                 \* write took away (negative: units it brought back)
    offList,     \* history: variants disabled while no stock entry was
                 \* between its read and its write
    entries      \* history: stock entries begun, bounded by MaxEntries

vars == <<inv, hold, linked, job, total, lateSettled, again, undone, offList, entries>>

ReservationStatus == {"NONE", "ACTIVE", "EXPIRED", "RELEASED", "CONSUMED"}

Idle == [op |-> "idle"]

(* What a job remembers of its reads. *)
SettleJobs == [op : {"release", "fulfil"}, c : Checkouts,
               to : {"EXPIRED", "RELEASED", "CONSUMED"}]
SaleJobs   == [op : {"sale"}, v : Variants, new : Nat, base : Nat]
AdjustJobs == [op : {"adjust"}, v : Variants, new : Nat, base : Nat,
               seen : InventoryStatus]
Jobs == {Idle} \cup SettleJobs \cup SaleJobs \cup AdjustJobs

TypeOK ==
    /\ inv \in [Variants -> StockRows]
    /\ hold \in [Checkouts -> ReservationStatus]
    /\ linked \in [Checkouts -> BOOLEAN]
    /\ job \in [Workers -> Jobs]
    /\ total \in [Variants -> Int]
    /\ lateSettled \subseteq Checkouts
    /\ again \in [Variants -> Nat]
    /\ undone \in [Variants -> Int]
    /\ offList \subseteq Variants
    /\ entries \in 0..MaxEntries

(* The row that product creation writes: ACTIVE by the schema's default,   *)
(* whatever the quantity.                                                  *)
NewRow(n) == [available |-> n, reserved |-> 0, sold |-> 0, status |-> "ACTIVE"]

Init ==
    /\ inv \in [Variants -> {NewRow(n) : n \in InitialQty}]
    /\ hold = [c \in Checkouts |-> "NONE"]
    /\ linked = [c \in Checkouts |-> FALSE]
    /\ job = [w \in Workers |-> Idle]
    /\ total = [v \in Variants |-> inv[v].available]
    /\ lateSettled = {}
    /\ again = [v \in Variants |-> 0]
    /\ undone = [v \in Variants |-> 0]
    /\ offList = {}
    /\ entries = 0

-----------------------------------------------------------------------------
(* Reserving *)

(* Apply f to the row of every variant in the cart of c. *)
OnCart(c, f(_, _)) ==
    [v \in Variants |-> IF Demand[c][v] > 0 THEN f(inv[v], Demand[c][v]) ELSE inv[v]]

(* One transaction over all the items: the first item that its conditional *)
(* UPDATE does not match throws and rolls the others back.                 *)
ReserveForCheckout(c) ==
    /\ hold[c] = "NONE"
    /\ \A v \in Variants : Demand[c][v] > 0 => CanReserve(inv[v], Demand[c][v])
    /\ inv' = OnCart(c, ReserveRow)
    /\ hold' = [hold EXCEPT ![c] = "ACTIVE"]
    /\ UNCHANGED <<linked, job, total, lateSettled, again, undone, offList, entries>>

LinkReservationsToOrder(c) ==
    /\ hold[c] = "ACTIVE"
    /\ linked' = [linked EXCEPT ![c] = TRUE]
    /\ UNCHANGED <<inv, hold, job, total, lateSettled, again, undone, offList, entries>>

-----------------------------------------------------------------------------
(* Settling: read the ACTIVE reservations, then give back or consume. *)

StartSettle(w, j) ==
    /\ job[w] = Idle
    /\ hold[j.c] = "ACTIVE"
    /\ job' = [job EXCEPT ![w] = j]
    /\ UNCHANGED <<inv, hold, linked, total, lateSettled, again, undone, offList, entries>>

ReleaseByCheckout(w, c) ==
    \E to \in {"EXPIRED", "RELEASED"} :
        StartSettle(w, [op |-> "release", c |-> c, to |-> to])

ReleaseByOrder(w, c) ==
    /\ linked[c]
    /\ StartSettle(w, [op |-> "release", c |-> c, to |-> "RELEASED"])

FulfillOnDelivery(w, c) ==
    /\ linked[c]
    /\ StartSettle(w, [op |-> "fulfil", c |-> c, to |-> "CONSUMED"])

(* Mutant: the update forgets `status: ACTIVE`. *)
SettleReservations_Unfiltered(c, to) == hold' = [hold EXCEPT ![c] = to]

(* updateMany ... where status = ACTIVE *)
SettleReservations(c, to) ==
    hold' = [hold EXCEPT ![c] = IF @ = "ACTIVE" THEN to ELSE @]

(* The transaction: every row of the snapshot is applied, whether or not   *)
(* the reservation is still ACTIVE.                                        *)
CommitSettle(w) ==
    /\ job[w].op \in {"release", "fulfil"}
    /\ LET c == job[w].c IN
         /\ inv' = IF job[w].op = "release" THEN OnCart(c, ReleaseRow)
                                            ELSE OnCart(c, FulfilRow)
         /\ SettleReservations(c, job[w].to)
         /\ IF hold[c] = "ACTIVE"
            THEN UNCHANGED <<lateSettled, again>>
            ELSE /\ lateSettled' = lateSettled \cup {c}
                 /\ again' = [v \in Variants |-> again[v] +
                                IF job[w].op = "release" THEN Demand[c][v] ELSE 0]
    /\ job' = [job EXCEPT ![w] = Idle]
    /\ UNCHANGED <<linked, total, undone, offList, entries>>

-----------------------------------------------------------------------------
(* Merchant stock entry *)

(* `base` is the quantity that the new one was worked out from.  The       *)
(* reading part of adjustAvailableQty decides the status it will write.    *)
ReadForAdjust(w, v, new, base) ==
    job' = [job EXCEPT ![w] = [op |-> "adjust", v |-> v, new |-> new,
                               base |-> base, seen |-> inv[v].status]]

StockEntry(w) ==
    /\ job[w] = Idle
    /\ entries < MaxEntries
    /\ entries' = entries + 1

AdjustAvailableQty(w, v, n) ==
    /\ StockEntry(w)
    /\ ReadForAdjust(w, v, n, inv[v].available)
    /\ UNCHANGED <<inv, hold, linked, total, lateSettled, again, undone, offList>>

(* recordOfflineSale reads the quantity, then calls adjustAvailableQty. *)
RecordOfflineSale(w, v, n) ==
    /\ StockEntry(w)
    /\ job' = [job EXCEPT ![w] =
                 [op |-> "sale", v |-> v, new |-> Monus(inv[v].available, n),
                  base |-> inv[v].available]]
    /\ UNCHANGED <<inv, hold, linked, total, lateSettled, again, undone, offList>>

AdjustForSale(w) ==
    /\ job[w].op = "sale"
    /\ ReadForAdjust(w, job[w].v, job[w].new, job[w].base)
    /\ UNCHANGED <<inv, hold, linked, total, lateSettled, again, undone, offList, entries>>

(* The absolute write.  It means "new - base units more than before". *)
CommitAdjust(w) ==
    /\ job[w].op = "adjust"
    /\ LET j == job[w] IN
         /\ inv' = [inv EXCEPT ![j.v] = AdjustRow(@, j.new, j.seen)]
         /\ total' = [total EXCEPT ![j.v] = @ + j.new - j.base]
         /\ undone' = [undone EXCEPT ![j.v] = @ + inv[j.v].available - j.base]
    /\ job' = [job EXCEPT ![w] = Idle]
    /\ UNCHANGED <<hold, linked, lateSettled, again, offList, entries>>

(* An entry that read the status of v as enabled, and will write it so. *)
Relisting(w, v) == job[w].op = "adjust" /\ job[w].v = v /\ job[w].seen # "DISABLED"

(* The merchant's "disable listing" endpoint, the only caller of setStatus. *)
SetStatusDisabled(v) ==
    /\ inv' = [inv EXCEPT ![v].status = "DISABLED"]
    /\ offList' = IF \E w \in Workers : Relisting(w, v) THEN offList ELSE offList \cup {v}
    /\ UNCHANGED <<hold, linked, job, total, lateSettled, again, undone, entries>>

-----------------------------------------------------------------------------
(* The process dies, or the transaction fails: what was read is lost. *)
Abort(w) ==
    /\ job[w] # Idle
    /\ job' = [job EXCEPT ![w] = Idle]
    /\ UNCHANGED <<inv, hold, linked, total, lateSettled, again, undone, offList, entries>>

Next ==
    \/ \E c \in Checkouts : ReserveForCheckout(c) \/ LinkReservationsToOrder(c)
    \/ \E w \in Workers, c \in Checkouts :
          \/ ReleaseByCheckout(w, c)
          \/ ReleaseByOrder(w, c)
          \/ FulfillOnDelivery(w, c)
    \/ \E w \in Workers, v \in Variants, n \in Counts : AdjustAvailableQty(w, v, n)
    \/ \E w \in Workers, v \in Variants, n \in Sales : RecordOfflineSale(w, v, n)
    \/ \E w \in Workers : CommitSettle(w) \/ AdjustForSale(w) \/ CommitAdjust(w) \/ Abort(w)
    \/ \E v \in Variants : SetStatusDisabled(v)

Spec == Init /\ [][Next]_vars

-----------------------------------------------------------------------------
(* Properties *)

UnitsIn(v, statuses) ==
    SumFunctionOnSet([c \in Checkouts |-> Demand[c][v]],
                     {c \in Checkouts : hold[c] \in statuses})

HeldUnits(v) == UnitsIn(v, {"ACTIVE"})
SoldUnits(v) == UnitsIn(v, {"CONSUMED"})

InCart(c, v) == Demand[c][v] > 0

(* Every unit is accounted for, whatever is reserved, linked, released,    *)
(* delivered, counted, aborted or settled late: what can be sold, is held  *)
(* and is sold is what the merchant entered, plus exactly the units that   *)
(* late releases gave back twice (stock that does not exist is on sale),   *)
(* minus exactly what stale entries overwrote.  There is no third way to   *)
(* gain or lose a unit.  The other two counters say what the reservation   *)
(* rows say unless a late settlement has touched the variant.              *)
CountersExact ==
    \A v \in Variants :
        /\ inv[v].available + HeldUnits(v) + SoldUnits(v) = total[v] + again[v] - undone[v]
        /\ (\A c \in lateSettled : ~InCart(c, v)) =>
              inv[v].reserved = HeldUnits(v) /\ inv[v].sold = SoldUnits(v)

(* Even under every race the error has one direction: `reserved` never     *)
(* exceeds the live reservations and `sold_qty` never falls short of the   *)
(* consumed ones, so stock cannot get stuck in `reserved` and a sale is    *)
(* never forgotten (GREATEST(0, ...) in the release UPDATE included).      *)
DriftOneSided ==
    \A v \in Variants :
        /\ inv[v].reserved <= HeldUnits(v)
        /\ inv[v].sold >= SoldUnits(v)

(* The status column that buyers' listings filter on: four statements      *)
(* maintain it, one of them from a status read earlier.  A row says        *)
(* OUT_OF_STOCK only when nothing can be sold, and ACTIVE with nothing to  *)
(* sell only as product creation wrote it, before any stock was entered.   *)
ListingMatchesStock ==
    \A v \in Variants :
        /\ inv[v].status = "OUT_OF_STOCK" => inv[v].available = 0
        /\ inv[v].status = "ACTIVE" => inv[v].available > 0 \/ inv[v] = NewRow(0)

(* A listing the merchant disabled stays off the shelf through releases,   *)
(* deliveries and later stock entries.  Only an entry that had read the    *)
(* status before the merchant disabled it, and wrote after, puts it back.  *)
DisabledStays == \A v \in offList : inv[v].status = "DISABLED"

(* docs/architecture/03-database-design.md:139 wants                       *)
(* CHECK inventory.reserved <= quantity.  A reservation moves its units    *)
(* from the quantity to `reserved`, so half the stock reserved breaks it.  *)
ReservedWithinQuantity == \A v \in Variants : inv[v].reserved <= inv[v].available

(* A settlement repeats one already made only if a second job was holding  *)
(* a snapshot of the same checkout: with one worker it never happens.      *)
SnapshotsFresh ==
    /\ lateSettled = {}
    /\ \A w \in Workers : job[w].op \in {"release", "fulfil"} => hold[job[w].c] = "ACTIVE"

(* Reservations are taken once and settled once (the abstract promise). *)
Lifecycle == INSTANCE ReservationLifecycle
ImplementsLifecycle == Lifecycle!Spec
=============================================================================
