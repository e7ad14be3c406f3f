-------------------------- MODULE OrderDelivered --------------------------
(***************************************************************************)
(* What happens once an order is delivered.                                *)
(* apps/api/src/modules/order/order-delivered-handler.service.ts, which    *)
(* runs under a DistributedLock, and its three callers: the status reports *)
(* of a logistics provider (logistics/delivery-orchestrator.service.ts,    *)
(* fed by webhooks and a poll), the rider (rider/delivery.service.ts) and  *)
(* a merchant who delivers himself (order/order.service.ts).               *)
(*                                                                         *)
(* Reports come in any order and more than once, and a cancellation may    *)
(* come between.  A call that finds the lock taken is skipped, and nothing *)
(* calls again after a crash.  The ledger entry, the reward and the        *)
(* invoice have unique keys; the row of cod_reconciliations and the stock  *)
(* are only looked up first.  The reservations of an order paid from the   *)
(* wallet may expire meanwhile (CheckoutPayment!StockHeldUntilDelivery).   *)
(***************************************************************************)
EXTENDS DistributedLock, FiniteSets

CONSTANTS Reported,    \* bound: the statuses that a provider reports
          MaxReports,  \* bound: calls of the three callers
          MaxFaults    \* bound: crashes, exceptions, leases outlived

(* PICKUP_STARTED is treated as ASSIGNED, NEARBY as IN_TRANSIT and PENDING *)
(* as RETURNED.                                                            *)
ReportStatus == {"ASSIGNED", "PICKED_UP", "IN_TRANSIT", "DELIVERED", "FAILED", "RETURNED",
                 "CANCELLED"}

ASSUME ReportedAssumption == Reported \subseteq ReportStatus
ASSUME BoundAssumption == MaxReports \in Nat /\ MaxFaults \in Nat

VARIABLES
    terms,     \* who delivers, and how the order is paid
    reached,   \* the statuses the shipment has had at the provider
    shipment,  \* normalizedStatus, or the status of the rider's delivery
    order,     \* status of the order
    made,      \* rows with a unique key that the handler has made
    cash,      \* rows of cod_reconciliations
    stock,     \* status of the order's reservations
    sold,      \* times the order's stock has been taken out of reserved
    job,       \* job[w]: the next step of worker w, and the status reported to it
    reports,   \* bounded by MaxReports
    faults     \* bounded by MaxFaults

facts == <<shipment, order, made, cash, stock, sold>>
bounds == <<reports, faults>>
vars == <<lockVars, terms, reached, facts, job, bounds>>

OrderStatus == {"RIDER_ASSIGNED", "PICKED_UP", "OUT_FOR_DELIVERY", "DELIVERED", "COMPLETED",
                "DELIVERY_FAILED", "CANCELLED_BY_MERCHANT"}
StockStatus == {"ACTIVE", "EXPIRED", "CONSUMED"}
Terms == [by : {"provider", "rider", "merchant"}, paid : {"cash", "online", "wallet"}]
Rows == {"ledger", "reward", "invoice"}
Reporting == {"apply", "sync", "lock"}
Critical == {"read", "deliver", "find ledger", "ledger", "find cash", "cash", "find stock",
             "stock", "rewards", "complete", "reward", "invoice", "release"}
Job == [at : {"idle"} \cup Reporting \cup Critical, status : ReportStatus]

TypeOK ==
    /\ LockTypeOK
    /\ terms \in Terms
    /\ reached \subseteq ReportStatus
    /\ shipment \in ReportStatus
    /\ order \in OrderStatus
    /\ made \subseteq Rows
    /\ cash \in Nat /\ sold \in Nat /\ stock \in StockStatus
    /\ job \in [Workers -> Job]
    /\ reports \in 0..MaxReports /\ faults \in 0..MaxFaults

NoJob == [at |-> "idle", status |-> "IN_TRANSIT"]

(* The order is on its way. *)
Init ==
    /\ LockInit
    /\ terms \in Terms
    /\ reached = Reported \cap {"ASSIGNED", "PICKED_UP", "IN_TRANSIT"}
    /\ shipment = "IN_TRANSIT"
    /\ order = "OUT_FOR_DELIVERY"
    /\ made = {}
    /\ cash = 0 /\ sold = 0 /\ stock = "ACTIVE"
    /\ job = [w \in Workers |-> NoJob]
    /\ reports = 0 /\ faults = 0

Go(w, step) == job' = [job EXCEPT ![w].at = step]

-----------------------------------------------------------------------------
(* Reports *)

(* A provider may try again after a failure, and deliver what was          *)
(* cancelled too late.                                                     *)
ShipmentMoves ==
    /\ terms.by = "provider" /\ "DELIVERED" \notin reached
    /\ \E s \in Reported \ reached : reached' = reached \cup {s}
    /\ UNCHANGED <<lockVars, terms, facts, job, bounds>>

Starts(w, s, step) ==
    /\ job[w] = NoJob
    /\ reports < MaxReports /\ reports' = reports + 1
    /\ job' = [job EXCEPT ![w] = [at |-> step, status |-> s]]
    /\ UNCHANGED <<lockVars, terms, reached, facts, faults>>

(* applyStatusUpdate: a status that is known already is ignored, unless    *)
(* the report names the driver.                                            *)
ReceiveReport(w) ==
    /\ terms.by = "provider"
    /\ \E s \in reached, named \in BOOLEAN :
          /\ shipment # s \/ named
          /\ Starts(w, s, "apply")

(* verifyDelivery, after its checks. *)
RiderDelivers(w) ==
    /\ terms.by = "rider" /\ shipment # "DELIVERED"
    /\ Starts(w, "DELIVERED", "apply")

(* advanceMerchantOrder, after its checks. *)
MerchantDelivers(w) ==
    /\ terms.by = "merchant" /\ order = "OUT_FOR_DELIVERY"
    /\ Starts(w, "DELIVERED", "sync")

ApplyReport(w) ==
    /\ job[w].at = "apply"
    /\ shipment' = job[w].status
    /\ Go(w, "sync")
    /\ UNCHANGED <<lockVars, terms, reached, order, made, cash, stock, sold, bounds>>

(* orderStatusForShipment; where it is null the order stays as it is.      *)
OrderStatusFor(s) ==
    CASE s = "ASSIGNED" -> "RIDER_ASSIGNED"
      [] s = "PICKED_UP" -> "PICKED_UP"
      [] s = "IN_TRANSIT" -> "OUT_FOR_DELIVERY"
      [] s = "DELIVERED" -> "DELIVERED"
      [] s = "FAILED" -> "DELIVERY_FAILED"
      [] s = "CANCELLED" -> "CANCELLED_BY_MERCHANT"
      [] OTHER -> order

(* Mutant: the provider's status is written as it comes. *)
SyncOrder_Unmapped(w) ==
    /\ job[w].at = "sync"
    /\ order' = job[w].status
    /\ IF job[w].status = "DELIVERED" THEN Go(w, "lock")
                                      ELSE job' = [job EXCEPT ![w] = NoJob]
    /\ UNCHANGED <<lockVars, terms, reached, shipment, made, cash, stock, sold, bounds>>

(* The order takes the reported status whatever it has become; only        *)
(* DELIVERED calls the handler.                                            *)
SyncOrder(w) ==
    /\ job[w].at = "sync"
    /\ order' = OrderStatusFor(job[w].status)
    /\ IF job[w].status = "DELIVERED" THEN Go(w, "lock")
                                      ELSE job' = [job EXCEPT ![w] = NoJob]
    /\ UNCHANGED <<lockVars, terms, reached, shipment, made, cash, stock, sold, bounds>>

-----------------------------------------------------------------------------
(* handleDelivered *)

Acquire(w) ==
    /\ job[w].at = "lock"
    /\ TryAcquire(w)
    /\ Go(w, "read")
    /\ UNCHANGED <<terms, reached, facts, bounds>>

SkipBusy(w) ==
    /\ job[w].at = "lock" /\ key # None
    /\ job' = [job EXCEPT ![w] = NoJob]
    /\ UNCHANGED <<lockVars, terms, reached, facts, bounds>>

(* Mutant: an order that is DELIVERED already is left alone. *)
ReadOrder_DoneIfDelivered(w) ==
    /\ job[w].at = "read"
    /\ Go(w, IF order \in {"DELIVERED", "COMPLETED"} THEN "release" ELSE "deliver")
    /\ UNCHANGED <<lockVars, terms, reached, facts, bounds>>

ReadOrder(w) ==
    /\ job[w].at = "read"
    /\ Go(w, IF order \in {"DELIVERED", "COMPLETED"} THEN "find ledger" ELSE "deliver")
    /\ UNCHANGED <<lockVars, terms, reached, facts, bounds>>

MarkDelivered(w) ==
    /\ job[w].at = "deliver"
    /\ order' = "DELIVERED"
    /\ Go(w, "find ledger")
    /\ UNCHANGED <<lockVars, terms, reached, shipment, made, cash, stock, sold, bounds>>

AfterLedger == IF terms.paid = "cash" THEN "find cash" ELSE "find stock"

FindLedger(w) ==
    /\ job[w].at = "find ledger"
    /\ Go(w, IF "ledger" \in made THEN AfterLedger ELSE "ledger")
    /\ UNCHANGED <<lockVars, terms, reached, facts, bounds>>

(* orderId is unique: a second create throws. *)
CreateLedger(w) ==
    /\ job[w].at = "ledger"
    /\ IF "ledger" \in made THEN Go(w, "release") ELSE Go(w, AfterLedger)
    /\ made' = made \cup {"ledger"}
    /\ UNCHANGED <<lockVars, terms, reached, shipment, order, cash, stock, sold, bounds>>

(* Mutant: the row is not looked up. *)
FindCash_NotLookedUp(w) ==
    /\ job[w].at = "find cash"
    /\ Go(w, IF terms.by = "merchant" THEN "find stock" ELSE "cash")
    /\ UNCHANGED <<lockVars, terms, reached, facts, bounds>>

(* Without a rider or a provider no cash is awaited. *)
FindCash(w) ==
    /\ job[w].at = "find cash"
    /\ Go(w, IF cash > 0 \/ terms.by = "merchant" THEN "find stock" ELSE "cash")
    /\ UNCHANGED <<lockVars, terms, reached, facts, bounds>>

CreateCash(w) ==
    /\ job[w].at = "cash"
    /\ cash' = cash + 1
    /\ Go(w, "find stock")
    /\ UNCHANGED <<lockVars, terms, reached, shipment, order, made, stock, sold, bounds>>

(* Reservations that are no longer ACTIVE are not sold. *)
FindReservations(w) ==
    /\ job[w].at = "find stock"
    /\ Go(w, IF stock = "ACTIVE" THEN "stock" ELSE "rewards")
    /\ UNCHANGED <<lockVars, terms, reached, facts, bounds>>

FulfillOnDelivery(w) ==
    /\ job[w].at = "stock"
    /\ sold' = sold + 1
    /\ stock' = IF stock = "ACTIVE" THEN "CONSUMED" ELSE stock
    /\ Go(w, "rewards")
    /\ UNCHANGED <<lockVars, terms, reached, shipment, order, made, cash, bounds>>

FinalizeOrderRewards(w) ==
    /\ job[w].at = "rewards"
    /\ Go(w, IF order = "COMPLETED" THEN "invoice" ELSE "complete")
    /\ UNCHANGED <<lockVars, terms, reached, facts, bounds>>

CompleteOrder(w) ==
    /\ job[w].at = "complete"
    /\ order' = "COMPLETED"
    /\ Go(w, "reward")
    /\ UNCHANGED <<lockVars, terms, reached, shipment, made, cash, stock, sold, bounds>>

(* A reward or an invoice that exists already is left as it is, and a      *)
(* cancelled order is not rewarded.                                        *)
CreditPoints(w) ==
    /\ job[w].at = "reward"
    /\ made' = IF order = "CANCELLED_BY_MERCHANT" THEN made ELSE made \cup {"reward"}
    /\ Go(w, "invoice")
    /\ UNCHANGED <<lockVars, terms, reached, shipment, order, cash, stock, sold, bounds>>

GenerateInvoice(w) ==
    /\ job[w].at = "invoice"
    /\ made' = made \cup {"invoice"}
    /\ Go(w, "release")
    /\ UNCHANGED <<lockVars, terms, reached, shipment, order, cash, stock, sold, bounds>>

Finish(w) ==
    /\ job[w].at = "release"
    /\ Release(w)
    /\ job' = [job EXCEPT ![w] = NoJob]
    /\ UNCHANGED <<terms, reached, facts, bounds>>

(* releaseExpiredReservations: a checkout paid from the wallet alone is    *)
(* never COMPLETED, so its stock is given back.                            *)
ExpireReservations ==
    /\ terms.paid = "wallet" /\ stock = "ACTIVE"
    /\ stock' = "EXPIRED"
    /\ UNCHANGED <<lockVars, terms, reached, shipment, order, made, cash, sold, job, bounds>>

-----------------------------------------------------------------------------
(* Faults *)

Fault == faults < MaxFaults /\ faults' = faults + 1

(* Mutant: every step's exception is caught. *)
Fail_AllCaught(w) ==
    /\ job[w].at \in Critical \ {"release"}
    /\ Fault
    /\ Go(w, CASE job[w].at \in {"read", "deliver"} -> "find ledger"
               [] job[w].at \in {"find ledger", "ledger"} -> AfterLedger
               [] job[w].at \in {"find cash", "cash"} -> "find stock"
               [] job[w].at \in {"find stock", "stock"} -> "rewards"
               [] job[w].at \in {"rewards", "complete", "reward"} -> "invoice"
               [] job[w].at = "invoice" -> "release")
    /\ UNCHANGED <<lockVars, terms, reached, facts, reports>>

(* A statement throws: the errors of the last three parts are caught, any  *)
(* other ends the handler, which gives the lock back.                      *)
Fail(w) ==
    /\ job[w].at \in Critical \ {"release"}
    /\ Fault
    /\ Go(w, CASE job[w].at \in {"find stock", "stock"} -> "rewards"
               [] job[w].at \in {"rewards", "complete", "reward"} -> "invoice"
               [] OTHER -> "release")
    /\ UNCHANGED <<lockVars, terms, reached, facts, reports>>

(* The process dies, or a statement outside the lock throws. *)
Crash(w) ==
    /\ job[w] # NoJob
    /\ Fault
    /\ Abandon(w)
    /\ job' = [job EXCEPT ![w] = NoJob]
    /\ UNCHANGED <<terms, reached, facts, reports>>

(* A handler takes longer than the 120 seconds of its key. *)
Outlive ==
    /\ Owned /\ Lapse
    /\ Fault
    /\ UNCHANGED <<terms, reached, facts, job, reports>>

KeyOfTheDeadLapses ==
    /\ ~Owned /\ Lapse
    /\ UNCHANGED <<terms, reached, facts, job, bounds>>

-----------------------------------------------------------------------------
Step(w) ==
    \/ ApplyReport(w) \/ SyncOrder(w) \/ Acquire(w) \/ SkipBusy(w)
    \/ ReadOrder(w) \/ MarkDelivered(w) \/ FindLedger(w) \/ CreateLedger(w)
    \/ FindCash(w) \/ CreateCash(w) \/ FindReservations(w) \/ FulfillOnDelivery(w)
    \/ FinalizeOrderRewards(w) \/ CompleteOrder(w) \/ CreditPoints(w)
    \/ GenerateInvoice(w) \/ Finish(w)

Call(w) == ReceiveReport(w) \/ RiderDelivers(w) \/ MerchantDelivers(w)

Next ==
    \/ \E w \in Workers : Step(w) \/ Call(w) \/ Fail(w) \/ Crash(w)
    \/ ShipmentMoves \/ ExpireReservations
    \/ Outlive
    \/ KeyOfTheDeadLapses

(* A handler that is not dead goes on, and Redis lets keys lapse. *)
Fairness == (\A w \in Workers : WF_vars(Step(w))) /\ WF_vars(KeyOfTheDeadLapses)

Spec == Init /\ [][Next]_vars /\ Fairness

-----------------------------------------------------------------------------
(* Properties *)

(* However often and in whatever order deliveries are reported, and        *)
(* although handlers fail and die, the cash is awaited once and the stock  *)
(* sold once, as long as no handler has outlived its lease.                *)
OncePerOrder == lapsed = {} => cash <= 1 /\ sold <= 1

CashDue == terms.paid = "cash" /\ terms.by # "merchant"

(* An order is not completed, rewarded or invoiced before its merchant is  *)
(* owed and its cash is awaited, even if leases are outlived.              *)
MoneyFirst ==
    order = "COMPLETED" \/ "reward" \in made \/ "invoice" \in made =>
        "ledger" \in made /\ (CashDue => cash > 0)

(* Once a delivery is reported and nothing fails, the merchant is owed,    *)
(* the cash awaited and the invoice made, and, unless its reservations had *)
(* expired, the stock sold and, unless the provider has reported a         *)
(* cancellation, the buyer rewarded; though further reports move the order *)
(* back and are themselves skipped.                                        *)
Settled ==
    /\ {"ledger", "invoice"} \subseteq made /\ (CashDue => cash > 0)
    /\ sold > 0 \/ stock = "EXPIRED"
    /\ "reward" \in made \/ "CANCELLED" \in reached
DeliveriesAreSettled == (\E w \in Workers : job[w].at = "lock") ~> (Settled \/ faults > 0)

(* The lock of an order is free again and again, although its owner dies.  *)
LockIsFreed == []<>(key = None)
=============================================================================
