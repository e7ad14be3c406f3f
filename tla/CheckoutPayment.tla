-------------------------- MODULE CheckoutPayment --------------------------
(***************************************************************************)
(* The life of one checkout: reservation, order, online payment, expiry,   *)
(* cancellation, refund and delivery.  Five services write the rows of the *)
(* checkout, its order and its payment, without a lock or a version check: *)
(*   checkout/checkout.service.ts      (initiateCheckout)                  *)
(*   checkout/reservation.service.ts   (expiry cron)                       *)
(*   checkout/order-expiry.service.ts  (three-hour cron)                   *)
(*   payment/payment.service.ts        (verify, sync, Razorpay webhooks)   *)
(*   order/order.service.ts            (merchant progress, cancellation),  *)
(* with order-refund.service.ts and order-delivered-handler.service.ts.    *)
(*                                                                         *)
(* Every row is found by the id of its checkout or order, so checkouts     *)
(* meet only in the stock counters, which module Inventory models; one     *)
(* checkout is enough here.  A handler is a sequence of steps, one per     *)
(* database statement or transaction that another handler could come       *)
(* between; `job` holds its place and what it has read.                    *)
(*                                                                         *)
(* `transition` (order-status-history.service.ts) reads the status and     *)
(* then writes unconditionally.  It is one step: the read only skips a     *)
(* write of what is there already.  The release of a reservation is one    *)
(* step too, which is what module ReservationLifecycle promises of it.     *)
(***************************************************************************)
EXTENDS Naturals, FiniteSets

CONSTANTS Workers,     \* HTTP requests and webhook deliveries being handled
          RzpOrders,   \* ids of the orders that Razorpay may create
          NoRzp,       \* payments.razorpay_order_id IS NULL
          Methods,     \* payment methods that buyers choose from
          Requests,    \* the handlers that are called in this instance
          MaxJobs,     \* bound: handlers running at once
          MaxCrashes   \* bound: handlers that die half-way

Crons == {"reservation-cron", "order-expiry", "refund-retry"}
Cancellers == {"buyer", "merchant", "admin"}
AllRequests == {"initiate", "pay", "verify", "sync", "captured", "failed",
                "advance"} \cup Crons \cup Cancellers
PaymentMethod == {"RAZORPAY", "WALLET_RAZORPAY", "WALLET"}

ASSUME NoRzpAssumption == NoRzp \notin RzpOrders
ASSUME MethodsAssumption == Methods \subseteq PaymentMethod
ASSUME RequestsAssumption == Requests \subseteq AllRequests
ASSUME BoundsAssumption == MaxJobs \in Nat /\ MaxCrashes \in Nat

VARIABLES
    age,        \* time since the checkout: 0, 1 (15 minutes), 2 (3 hours)
    chk,        \* checkouts.status
    chkOrder,   \* checkouts.order_id is set
    hold,       \* status of the inventory reservations
    linked,     \* inventory_reservations.order_id is set
    order,      \* orders: status, paid (payment_status), method
    pay,        \* payments: status, rzp (razorpay_order_id)
    wallet,     \* the wallet's part of the price: "untouched", "debited", "refunded"
    refund,     \* order_refunds.status
    offered,    \* Razorpay orders that a buyer has been given
    declined,   \* those with a failed payment attempt
    captured,   \* those that were paid
    event,      \* event[e]: webhook_events.status of the webhook e
    job,        \* job[a]: the handler that a runs
    crashes     \* bounded by MaxCrashes

money == <<offered, declined, captured, event>>
vars == <<age, chk, chkOrder, hold, linked, order, pay, wallet, refund,
          offered, declined, captured, event, job, crashes>>

Events == {"captured", "failed"} \X RzpOrders
Actors == Workers \cup Crons

CheckoutStatus == {"NONE", "INITIATED", "RESERVED", "EXPIRED", "COMPLETED"}
HoldStatus == {"NONE", "ACTIVE", "EXPIRED", "RELEASED", "CONSUMED"}
PaymentStatus == {"NONE", "PENDING", "PAID", "FAILED", "REFUNDED"}
RefundStatus == {"NONE", "PROCESSING", "FAILED", "REFUNDED"}

(* Statuses of an order that the shop works on, or has worked on. *)
Served == {"MERCHANT_ACCEPTED", "PREPARING", "PACKING", "READY_FOR_PICKUP",
           "OUT_FOR_DELIVERY", "DELIVERED", "COMPLETED"}
Cancelled == {"CANCELLED_BY_BUYER", "CANCELLED_BY_MERCHANT", "CANCELLED_BY_ADMIN"}
Dead == Cancelled \cup {"PAYMENT_FAILED", "EXPIRED", "REFUNDED"}
OrderStatus == {"NONE", "PAYMENT_PENDING", "PAID"} \cup Served \cup Dead

(* GROCERY_MERCHANT_FORWARD, then SELF_DELIVERY_MERCHANT_FORWARD *)
Forward == [PAID |-> "MERCHANT_ACCEPTED", MERCHANT_ACCEPTED |-> "PREPARING",
            PREPARING |-> "PACKING", PACKING |-> "READY_FOR_PICKUP",
            READY_FOR_PICKUP |-> "OUT_FOR_DELIVERY",
            OUT_FOR_DELIVERY |-> "DELIVERED"]

Cancellable(who) ==
    CASE who = "buyer" -> {"PAYMENT_PENDING", "PAID"}
      [] who = "merchant" -> {"PAYMENT_PENDING", "PAID", "MERCHANT_ACCEPTED",
                              "PREPARING", "PACKING"}
      [] OTHER -> {"PAYMENT_PENDING", "PAID", "MERCHANT_ACCEPTED", "PREPARING",
                   "PACKING", "READY_FOR_PICKUP"}

CancelledBy(who) ==
    CASE who = "buyer" -> "CANCELLED_BY_BUYER"
      [] who = "merchant" -> "CANCELLED_BY_MERCHANT"
      [] OTHER -> "CANCELLED_BY_ADMIN"

Steps == {"idle", "reserve", "order", "link", "reserved", "upsert", "payment",
          "replay", "fetch", "finalize", "paid", "capture", "complete",
          "processed", "failPayment", "failOrder", "release", "expire",
          "pending", "failPending", "releaseOrder", "expireOrder", "cancel",
          "refund", "money", "payRefunded", "advance", "delivered", "fulfil",
          "completeOrder"}

(* `seen` is what a handler remembers of the rows it has read: the payment *)
(* status for a cancellation, the next status for the merchant's progress, *)
(* and for the reservation cron whether the checkout had an order.         *)
Jobs == [req : AllRequests \cup {"none"}, at : Steps, id : RzpOrders \cup {NoRzp},
         seen : OrderStatus \cup PaymentStatus]
Job(req, at, id, seen) == [req |-> req, at |-> at, id |-> id, seen |-> seen]
Idle == Job("none", "idle", NoRzp, "NONE")

OrderRow(status, paid, method) == [status |-> status, paid |-> paid, method |-> method]
PayRow(status, rzp) == [status |-> status, rzp |-> rzp]

TypeOK ==
    /\ age \in 0..2
    /\ chk \in CheckoutStatus
    /\ chkOrder \in BOOLEAN
    /\ hold \in HoldStatus
    /\ linked \in BOOLEAN
    /\ order \in [status : OrderStatus, paid : PaymentStatus,
                  method : PaymentMethod \cup {"NONE"}]
    /\ pay \in [status : PaymentStatus, rzp : RzpOrders \cup {NoRzp}]
    /\ wallet \in {"untouched", "debited", "refunded"}
    /\ refund \in RefundStatus
    /\ offered \subseteq RzpOrders
    /\ declined \subseteq RzpOrders
    /\ captured \subseteq RzpOrders
    /\ event \in [Events -> {"NONE", "RECEIVED", "PROCESSED"}]
    /\ job \in [Actors -> Jobs]
    /\ crashes \in 0..MaxCrashes

Init ==
    /\ age = 0
    /\ chk = "NONE" /\ chkOrder = FALSE
    /\ hold = "NONE" /\ linked = FALSE
    /\ order = OrderRow("NONE", "NONE", "NONE")
    /\ pay = PayRow("NONE", NoRzp)
    /\ wallet = "untouched"
    /\ refund = "NONE"
    /\ offered = {} /\ declined = {} /\ captured = {}
    /\ event = [e \in Events |-> "NONE"]
    /\ job = [a \in Actors |-> Idle]
    /\ crashes = 0

-----------------------------------------------------------------------------
(* Handlers *)

Busy == {a \in Actors : job[a] # Idle}

Begin(a, req, at, id, seen) ==
    /\ req \in Requests
    /\ job[a] = Idle
    /\ Cardinality(Busy) < MaxJobs
    /\ job' = [job EXCEPT ![a] = Job(req, at, id, seen)]

At(a, at) == job[a].at = at
Goto(a, at) == job' = [job EXCEPT ![a] = Job(job[a].req, at, job[a].id, job[a].seen)]
Done(a) == job' = [job EXCEPT ![a] = Idle]

(* Mutant: two columns mixed up. *)
Transition_MixedUp(to, paid) == order' = OrderRow(paid, paid, order.method)

(* statusHistory.transition, with `paid` as its extraOrderData *)
Transition(to, paid) ==
    order' = IF order.status = to THEN order
             ELSE OrderRow(to, paid, order.method)

(* The settling update of the inventory service: only ACTIVE rows. *)
Settle(to) == hold' = IF hold = "ACTIVE" THEN to ELSE hold

-----------------------------------------------------------------------------
(* checkout.service.ts: initiateCheckout *)

CreateCheckout(w) ==
    /\ chk = "NONE"
    /\ Begin(w, "initiate", "reserve", NoRzp, "NONE")
    /\ chk' = "INITIATED"
    /\ UNCHANGED <<age, chkOrder, hold, linked, order, pay, wallet, refund, money, crashes>>

(* The stock may be gone: then the checkout is expired and the request fails. *)
ReserveInventory(w) ==
    /\ At(w, "reserve")
    /\ \/ /\ hold' = "ACTIVE"
          /\ Goto(w, "order")
          /\ UNCHANGED chk
       \/ /\ chk' = "EXPIRED"
          /\ Done(w)
          /\ UNCHANGED hold
    /\ UNCHANGED <<age, chkOrder, linked, order, pay, wallet, refund, money, crashes>>

(* One transaction creates the order as computeCheckoutPayment plans it and *)
(* debits the wallet; the unique idempotency key admits one order.          *)
CreateOrderFromCheckout(w) ==
    /\ At(w, "order")
    /\ order.method = "NONE"
    /\ \E m \in Methods :
          /\ order' = IF m = "WALLET" THEN OrderRow("MERCHANT_ACCEPTED", "PAID", m)
                      ELSE OrderRow("PAYMENT_PENDING", "PENDING", m)
          /\ wallet' = IF m = "RAZORPAY" THEN wallet ELSE "debited"
    /\ Goto(w, "link")
    /\ UNCHANGED <<age, chk, chkOrder, hold, linked, pay, refund, money, crashes>>

LinkReservations(w) ==
    /\ At(w, "link")
    /\ linked' = (linked \/ hold = "ACTIVE")
    /\ Goto(w, "reserved")
    /\ UNCHANGED <<age, chk, chkOrder, hold, order, pay, wallet, refund, money, crashes>>

MarkReserved(w) ==
    /\ At(w, "reserved")
    /\ chk' = "RESERVED"
    /\ chkOrder' = TRUE
    /\ Done(w)
    /\ UNCHANGED <<age, hold, linked, order, pay, wallet, refund, money, crashes>>

-----------------------------------------------------------------------------
(* payment.service.ts: createRazorpayOrder *)

(* A payment that already has a gateway order is returned as it is.  The   *)
(* last conjunct keeps the ids within RzpOrders.                           *)
StartPayment(w) ==
    /\ chk = "RESERVED"
    /\ age = 0
    /\ pay.rzp = NoRzp
    /\ Begin(w, "pay", "upsert", NoRzp, "NONE")
    /\ Cardinality(offered) + Cardinality({a \in Actors : At(a, "upsert")})
           < Cardinality(RzpOrders)
    /\ UNCHANGED <<age, chk, chkOrder, hold, linked, order, pay, wallet, refund, money, crashes>>

(* Razorpay creates the order; its id is stored and given to the buyer. *)
UpsertPayment(w) ==
    /\ At(w, "upsert")
    /\ \E id \in RzpOrders \ offered :
          /\ pay' = PayRow(IF pay.status = "NONE" THEN "PENDING" ELSE pay.status, id)
          /\ offered' = offered \cup {id}
    /\ Done(w)
    /\ UNCHANGED <<age, chk, chkOrder, hold, linked, order, wallet, refund,
                   declined, captured, event, crashes>>

(* Razorpay: attempts on an order may fail until one is captured; nothing  *)
(* on our side closes it, so the buyer may pay at any time.                *)
DeclineAttempt(id) ==
    /\ id \in offered \ captured
    /\ declined' = declined \cup {id}
    /\ UNCHANGED <<age, chk, chkOrder, hold, linked, order, pay, wallet, refund,
                   offered, captured, event, job, crashes>>

CaptureAttempt(id) ==
    /\ id \in offered \ captured
    /\ captured' = captured \cup {id}
    /\ UNCHANGED <<age, chk, chkOrder, hold, linked, order, pay, wallet, refund,
                   offered, declined, event, job, crashes>>

-----------------------------------------------------------------------------
(* payment.service.ts: verifyPayment and syncCheckoutPayment *)

(* The signature proves that `id` was paid.  A checkout that is COMPLETED  *)
(* is reported as verified, one in another status is refused.              *)
VerifyPayment(w, id) ==
    /\ id \in captured
    /\ chk = "RESERVED"
    /\ Begin(w, "verify", "payment", id, "NONE")
    /\ UNCHANGED <<age, chk, chkOrder, hold, linked, order, pay, wallet, refund, money, crashes>>

SyncCheckoutPayment(w) ==
    /\ chk = "RESERVED"
    /\ Begin(w, "sync", "payment", NoRzp, "NONE")
    /\ UNCHANGED <<age, chk, chkOrder, hold, linked, order, pay, wallet, refund, money, crashes>>

ReadPayment(w) ==
    /\ At(w, "payment")
    /\ LET refused == IF job[w].req = "verify" THEN pay.rzp # job[w].id
                                               ELSE pay.rzp = NoRzp
       IN \/ refused /\ Done(w)
          \/ ~refused /\ pay.status = "PAID" /\ Goto(w, "replay")
          \/ /\ ~refused /\ pay.status # "PAID"
             /\ job' = [job EXCEPT ![w] = Job(job[w].req,
                             IF job[w].req = "verify" THEN "finalize" ELSE "fetch",
                             pay.rzp, job[w].seen)]
    /\ UNCHANGED <<age, chk, chkOrder, hold, linked, order, pay, wallet, refund, money, crashes>>

ReplayCompleted(w) ==
    /\ At(w, "replay")
    /\ chk' = "COMPLETED"
    /\ Done(w)
    /\ UNCHANGED <<age, chkOrder, hold, linked, order, pay, wallet, refund, money, crashes>>

(* Mutant: Razorpay's answer is not looked at. *)
FetchOrderPayments_Unchecked(w) ==
    /\ At(w, "fetch")
    /\ Goto(w, "finalize")
    /\ UNCHANGED <<age, chk, chkOrder, hold, linked, order, pay, wallet, refund, money, crashes>>

FetchOrderPayments(w) ==
    /\ At(w, "fetch")
    /\ IF job[w].id \in captured THEN Goto(w, "finalize") ELSE Done(w)
    /\ UNCHANGED <<age, chk, chkOrder, hold, linked, order, pay, wallet, refund, money, crashes>>

(* The transaction of finalizeOnlinePayment.  It does not look again. *)
FinalizeOnlinePayment(w) ==
    /\ At(w, "finalize")
    /\ pay' = PayRow("PAID", pay.rzp)
    /\ chk' = "COMPLETED"
    /\ Goto(w, "paid")
    /\ UNCHANGED <<age, chkOrder, hold, linked, order, wallet, refund, money, crashes>>

(* The end of finalizeOnlinePayment and of handlePaymentCaptured. *)
OrderPaid(w) ==
    /\ At(w, "paid")
    /\ Transition("PAID", "PAID")
    /\ linked' = (linked \/ (chkOrder /\ hold = "ACTIVE"))
    /\ IF job[w].req = "captured" THEN Goto(w, "processed") ELSE Done(w)
    /\ UNCHANGED <<age, chk, chkOrder, hold, pay, wallet, refund, money, crashes>>

-----------------------------------------------------------------------------
(* payment.service.ts: handleWebhook *)

(* Mutants: acknowledged on arrival; a half-done delivery is a duplicate. *)
ClaimEvent_AckFirst(w, kind, id, next) ==
    /\ event[<<kind, id>>] # "PROCESSED"
    /\ event' = [event EXCEPT ![<<kind, id>>] = "PROCESSED"]
    /\ Begin(w, kind, next, id, "NONE")
    /\ UNCHANGED <<age, chk, chkOrder, hold, linked, order, pay, wallet, refund,
                   offered, declined, captured, crashes>>
ClaimEvent_NoRetry(w, kind, id, next) ==
    /\ event[<<kind, id>>] = "NONE"
    /\ event' = [event EXCEPT ![<<kind, id>>] = "RECEIVED"]
    /\ Begin(w, kind, next, id, "NONE")
    /\ UNCHANGED <<age, chk, chkOrder, hold, linked, order, pay, wallet, refund,
                   offered, declined, captured, crashes>>

(* claimEvent lets an event through unless it is PROCESSED: a delivery may *)
(* overlap with one that is still RECEIVED, or repeat one that died.       *)
ClaimEvent(w, kind, id, next) ==
    /\ event[<<kind, id>>] # "PROCESSED"
    /\ event' = [event EXCEPT ![<<kind, id>>] = "RECEIVED"]
    /\ Begin(w, kind, next, id, "NONE")
    /\ UNCHANGED <<age, chk, chkOrder, hold, linked, order, pay, wallet, refund,
                   offered, declined, captured, crashes>>

HandlePaymentCaptured(w, id) ==
    /\ id \in captured
    /\ ClaimEvent(w, "captured", id,
                  IF pay.rzp = id /\ pay.status # "PAID" THEN "capture" ELSE "processed")

(* updateMany ... where status is not PAID *)
CapturePayment(w) ==
    /\ At(w, "capture")
    /\ pay' = PayRow("PAID", pay.rzp)
    /\ Goto(w, IF pay.status = "PAID" THEN "processed" ELSE "complete")
    /\ UNCHANGED <<age, chk, chkOrder, hold, linked, order, wallet, refund, money, crashes>>

CompleteCheckout(w) ==
    /\ At(w, "complete")
    /\ chk' = IF chkOrder THEN "COMPLETED" ELSE chk
    /\ Goto(w, "paid")
    /\ UNCHANGED <<age, chkOrder, hold, linked, order, pay, wallet, refund, money, crashes>>

MarkProcessed(w) ==
    /\ At(w, "processed")
    /\ event' = [event EXCEPT ![<<job[w].req, job[w].id>>] = "PROCESSED"]
    /\ Done(w)
    /\ UNCHANGED <<age, chk, chkOrder, hold, linked, order, pay, wallet, refund,
                   offered, declined, captured, crashes>>

HandlePaymentFailed(w, id) ==
    /\ id \in declined
    /\ ClaimEvent(w, "failed", id,
                  IF pay.rzp = id /\ pay.status = "PENDING" THEN "failPayment" ELSE "processed")

FailPayment(w) ==
    /\ At(w, "failPayment")
    /\ pay' = PayRow("FAILED", pay.rzp)
    /\ Goto(w, "failOrder")
    /\ UNCHANGED <<age, chk, chkOrder, hold, linked, order, wallet, refund, money, crashes>>

(* Shared with the reservation cron. *)
FailOrder(w) ==
    /\ At(w, "failOrder")
    /\ Transition("PAYMENT_FAILED", "FAILED")
    /\ Goto(w, IF job[w].req = "reservation-cron" THEN "failPending"
               ELSE IF chkOrder THEN "release" ELSE "processed")
    /\ UNCHANGED <<age, chk, chkOrder, hold, linked, pay, wallet, refund, money, crashes>>

ReleaseReservations(w) ==
    /\ At(w, "release")
    /\ Settle(IF job[w].req = "failed" THEN "RELEASED" ELSE "EXPIRED")
    /\ Goto(w, "expire")
    /\ UNCHANGED <<age, chk, chkOrder, linked, order, pay, wallet, refund, money, crashes>>

ExpireCheckout(w) ==
    /\ At(w, "expire")
    /\ chk' = "EXPIRED"
    /\ IF job[w].req = "failed" THEN Goto(w, "processed")
       ELSE IF job[w].seen = "NONE" THEN Done(w) ELSE Goto(w, "pending")
    /\ UNCHANGED <<age, chkOrder, hold, linked, order, pay, wallet, refund, money, crashes>>

-----------------------------------------------------------------------------
(* reservation.service.ts: the minute cron, one instance at a time *)

(* Mutant: only checkouts that got as far as RESERVED. *)
ReleaseExpiredReservations_ReservedOnly ==
    /\ chk = "RESERVED"
    /\ hold = "ACTIVE"
    /\ age >= 1
    /\ Begin("reservation-cron", "reservation-cron", "release", NoRzp,
             IF chkOrder THEN order.status ELSE "NONE")
    /\ UNCHANGED <<age, chk, chkOrder, hold, linked, order, pay, wallet, refund, money, crashes>>

ReleaseExpiredReservations ==
    /\ chk \in {"INITIATED", "RESERVED"}
    /\ hold = "ACTIVE"
    /\ age >= 1
    /\ Begin("reservation-cron", "reservation-cron", "release", NoRzp,
             IF chkOrder THEN order.status ELSE "NONE")
    /\ UNCHANGED <<age, chk, chkOrder, hold, linked, order, pay, wallet, refund, money, crashes>>

CancelStalePaymentPendingOrders ==
    /\ order.status = "PAYMENT_PENDING"
    /\ chkOrder /\ chk = "EXPIRED"
    /\ Begin("reservation-cron", "reservation-cron", "pending", NoRzp, "NONE")
    /\ UNCHANGED <<age, chk, chkOrder, hold, linked, order, pay, wallet, refund, money, crashes>>

(* cancelExpiredPendingOrder reads the status again, ... *)
ReadPendingOrder(w) ==
    /\ At(w, "pending")
    /\ IF order.status = "PAYMENT_PENDING" THEN Goto(w, "failOrder") ELSE Done(w)
    /\ UNCHANGED <<age, chk, chkOrder, hold, linked, order, pay, wallet, refund, money, crashes>>

(* Mutant: the payment intent is forgotten. *)
FailPendingPayment_Forgotten(w) ==
    /\ At(w, "failPending")
    /\ Done(w)
    /\ UNCHANGED <<age, chk, chkOrder, hold, linked, order, pay, wallet, refund, money, crashes>>

(* ... fails the order and last the payment, if it is still PENDING. *)
FailPendingPayment(w) ==
    /\ At(w, "failPending")
    /\ pay' = IF pay.status = "PENDING" THEN PayRow("FAILED", pay.rzp) ELSE pay
    /\ Done(w)
    /\ UNCHANGED <<age, chk, chkOrder, hold, linked, order, wallet, refund, money, crashes>>

-----------------------------------------------------------------------------
(* order-expiry.service.ts *)

ExpireOne ==
    /\ order.status = "PAYMENT_PENDING"
    /\ age = 2
    /\ order.paid # "PAID" /\ pay.status # "PAID"
    /\ Begin("order-expiry", "order-expiry", "releaseOrder", NoRzp, "NONE")
    /\ UNCHANGED <<age, chk, chkOrder, hold, linked, order, pay, wallet, refund, money, crashes>>

(* Shared with the cancellations. *)
ReleaseOrderReservations(w) ==
    /\ At(w, "releaseOrder")
    /\ IF linked THEN Settle("RELEASED") ELSE UNCHANGED hold
    /\ IF job[w].req = "order-expiry" THEN Goto(w, "expireOrder")
       ELSE IF job[w].seen = "PAID" THEN Goto(w, "refund") ELSE Done(w)
    /\ UNCHANGED <<age, chk, chkOrder, linked, order, pay, wallet, refund, money, crashes>>

ExpireOrder(w) ==
    /\ At(w, "expireOrder")
    /\ Transition("EXPIRED", "FAILED")
    /\ Goto(w, "failPending")
    /\ UNCHANGED <<age, chk, chkOrder, hold, linked, pay, wallet, refund, money, crashes>>

-----------------------------------------------------------------------------
(* order.service.ts: cancellation; order-refund.service.ts in outline *)

StartCancel(w, who) ==
    /\ order.status \in Cancellable(who)
    /\ Begin(w, who, "cancel", NoRzp, order.paid)
    /\ UNCHANGED <<age, chk, chkOrder, hold, linked, order, pay, wallet, refund, money, crashes>>

CancelOrder(w) ==
    /\ At(w, "cancel")
    /\ Transition(CancelledBy(job[w].req), order.paid)
    /\ Goto(w, "releaseOrder")
    /\ UNCHANGED <<age, chk, chkOrder, hold, linked, pay, wallet, refund, money, crashes>>

(* initiateRefund: one refund record per order, taken up again if it failed. *)
InitiateRefund(w) ==
    /\ At(w, "refund")
    /\ IF order.paid = "PAID" /\ refund \in {"NONE", "FAILED"}
       THEN refund' = "PROCESSING" /\ Goto(w, "money")
       ELSE UNCHANGED refund /\ Done(w)
    /\ UNCHANGED <<age, chk, chkOrder, hold, linked, order, pay, wallet, money, crashes>>

(* Razorpay refuses, or the money goes back and the order says so. *)
RefundMoney(w) ==
    /\ At(w, "money")
    /\ \/ /\ refund' = "FAILED"
          /\ Done(w)
          /\ UNCHANGED <<order, wallet>>
       \/ /\ refund' = "REFUNDED"
          /\ order' = OrderRow("REFUNDED", "REFUNDED", order.method)
          /\ wallet' = IF wallet = "debited" THEN "refunded" ELSE wallet
          /\ Goto(w, "payRefunded")
    /\ UNCHANGED <<age, chk, chkOrder, hold, linked, pay, money, crashes>>

MarkPaymentRefunded(w) ==
    /\ At(w, "payRefunded")
    /\ pay' = IF pay.status = "NONE" THEN pay ELSE PayRow("REFUNDED", pay.rzp)
    /\ Done(w)
    /\ UNCHANGED <<age, chk, chkOrder, hold, linked, order, wallet, refund, money, crashes>>

RetryFailedRefunds ==
    /\ refund = "FAILED"
    /\ Begin("refund-retry", "refund-retry", "money", NoRzp, "NONE")
    /\ refund' = "PROCESSING"
    /\ UNCHANGED <<age, chk, chkOrder, hold, linked, order, pay, wallet, money, crashes>>

-----------------------------------------------------------------------------
(* order.service.ts: advanceMerchantOrder of a self-delivering store, and  *)
(* order-delivered-handler.service.ts at its end                           *)

AdvanceMerchantOrder(w) ==
    /\ order.status \in DOMAIN Forward
    /\ Begin(w, "advance", "advance", NoRzp, Forward[order.status])
    /\ UNCHANGED <<age, chk, chkOrder, hold, linked, order, pay, wallet, refund, money, crashes>>

WriteAdvance(w) ==
    /\ At(w, "advance")
    /\ Transition(job[w].seen, order.paid)
    /\ IF job[w].seen = "DELIVERED" THEN Goto(w, "delivered") ELSE Done(w)
    /\ UNCHANGED <<age, chk, chkOrder, hold, linked, pay, wallet, refund, money, crashes>>

(* handleDelivered makes sure of the status; its lock admits one per order. *)
HandleDelivered(w) ==
    /\ At(w, "delivered")
    /\ IF \E a \in Actors : job[a].at \in {"fulfil", "completeOrder"}
       THEN UNCHANGED order /\ Done(w)
       ELSE /\ IF order.status = "COMPLETED" THEN UNCHANGED order
                                             ELSE Transition("DELIVERED", order.paid)
            /\ Goto(w, "fulfil")
    /\ UNCHANGED <<age, chk, chkOrder, hold, linked, pay, wallet, refund, money, crashes>>

FulfillOnDelivery(w) ==
    /\ At(w, "fulfil")
    /\ IF linked THEN Settle("CONSUMED") ELSE UNCHANGED hold
    /\ Goto(w, "completeOrder")
    /\ UNCHANGED <<age, chk, chkOrder, linked, order, pay, wallet, refund, money, crashes>>

FinalizeOrderRewards(w) ==
    /\ At(w, "completeOrder")
    /\ Transition("COMPLETED", order.paid)
    /\ Done(w)
    /\ UNCHANGED <<age, chk, chkOrder, hold, linked, pay, wallet, refund, money, crashes>>

-----------------------------------------------------------------------------
(* Time passes; a request that creates a checkout lives seconds, not 15    *)
(* minutes.                                                                *)
Tick ==
    /\ age < 2
    /\ chk # "NONE"
    /\ \A a \in Actors : job[a].req # "initiate"
    /\ age' = age + 1
    /\ UNCHANGED <<chk, chkOrder, hold, linked, order, pay, wallet, refund, money, job, crashes>>

(* The process dies, or a statement throws: the handler goes no further,   *)
(* except that handleDelivered catches a failure of the fulfilment.        *)
Crash(a) ==
    /\ job[a] # Idle
    /\ crashes < MaxCrashes
    /\ crashes' = crashes + 1
    /\ Done(a) \/ (At(a, "fulfil") /\ Goto(a, "completeOrder"))
    /\ UNCHANGED <<age, chk, chkOrder, hold, linked, order, pay, wallet, refund, money>>

(* The next statement of the handler that a runs. *)
Continue(a) ==
    \/ ReserveInventory(a) \/ CreateOrderFromCheckout(a) \/ LinkReservations(a)
    \/ MarkReserved(a) \/ UpsertPayment(a)
    \/ ReadPayment(a) \/ ReplayCompleted(a) \/ FetchOrderPayments(a)
    \/ FinalizeOnlinePayment(a) \/ OrderPaid(a)
    \/ CapturePayment(a) \/ CompleteCheckout(a) \/ MarkProcessed(a)
    \/ FailPayment(a) \/ FailOrder(a) \/ ReleaseReservations(a) \/ ExpireCheckout(a)
    \/ ReadPendingOrder(a) \/ FailPendingPayment(a)
    \/ ReleaseOrderReservations(a) \/ ExpireOrder(a)
    \/ CancelOrder(a) \/ InitiateRefund(a) \/ RefundMoney(a) \/ MarkPaymentRefunded(a)
    \/ WriteAdvance(a) \/ HandleDelivered(a) \/ FulfillOnDelivery(a)
    \/ FinalizeOrderRewards(a)

Arrive(w) ==
    \/ CreateCheckout(w) \/ StartPayment(w) \/ SyncCheckoutPayment(w)
    \/ AdvanceMerchantOrder(w)
    \/ \E id \in RzpOrders : VerifyPayment(w, id) \/ HandlePaymentCaptured(w, id)
                                \/ HandlePaymentFailed(w, id)
    \/ \E who \in Cancellers : StartCancel(w, who)

CronTick == ReleaseExpiredReservations \/ CancelStalePaymentPendingOrders
               \/ ExpireOne \/ RetryFailedRefunds

Next ==
    \/ \E w \in Workers : Arrive(w)
    \/ \E a \in Actors : Continue(a) \/ Crash(a)
    \/ \E id \in RzpOrders : DeclineAttempt(id) \/ CaptureAttempt(id)
    \/ CronTick
    \/ Tick

Spec == Init /\ [][Next]_vars

(* What the system does not stop doing: a handler that runs goes on unless *)
(* it dies, crons tick, time passes, and Razorpay delivers a webhook again *)
(* until it is acknowledged (the server always gets round to one of the    *)
(* deliveries: strong fairness).                                           *)
Fairness ==
    /\ \A a \in Actors : WF_vars(Continue(a))
    /\ WF_vars(ReleaseExpiredReservations)
    /\ WF_vars(CancelStalePaymentPendingOrders)
    /\ WF_vars(ExpireOne)
    /\ WF_vars(Tick)
    /\ \A id \in RzpOrders :
          /\ SF_vars(\E w \in Workers : HandlePaymentCaptured(w, id))
          /\ SF_vars(\E w \in Workers : HandlePaymentFailed(w, id))

FairSpec == Spec /\ Fairness

-----------------------------------------------------------------------------
(* Properties *)

(* Somebody has paid, or agreed to pay from the wallet. *)
Funded == captured # {} \/ order.method = "WALLET"

(* Nothing is given for nothing: without a captured payment or a wallet    *)
(* order, no row says PAID or REFUNDED, no checkout is COMPLETED, no shop  *)
(* works on the order, no refund exists and no stock is consumed -- under  *)
(* every overlap and crash of the handlers, all of which write from stale  *)
(* reads.                                                                  *)
NothingForNothing ==
    ~Funded => /\ order.paid \notin {"PAID", "REFUNDED"}
               /\ pay.status \notin {"PAID", "REFUNDED"}
               /\ order.status \notin Served \cup {"PAID", "REFUNDED"}
               /\ chk # "COMPLETED"
               /\ refund = "NONE"
               /\ hold # "CONSUMED"

(* Once a captured webhook is acknowledged, Razorpay never sends it again, *)
(* so its payment must be on record.  The only thing that may undo it is a *)
(* failed-payment webhook, of this or of a replaced gateway order, that    *)
(* was in flight.                                                          *)
AckedCaptureRecorded ==
    \A id \in RzpOrders :
        event[<<"captured", id>>] = "PROCESSED" /\ pay.rzp = id =>
            \/ pay.status \in {"PAID", "REFUNDED"}
            \/ pay.status = "FAILED" /\ \E d \in RzpOrders : event[<<"failed", d>>] # "NONE"

(* Between handlers that neither overlap nor crash, the rows of an online  *)
(* order tell one story: order and payment agree, the checkout is          *)
(* COMPLETED exactly for money received, an order that has ended holds no  *)
(* stock, and a cancelled order that was paid has had its refund tried.    *)
TablesAgree ==
    Busy = {} /\ crashes = 0 =>
        /\ pay.status # "NONE" => order.paid = pay.status
        /\ chk = "COMPLETED" <=> order.paid \in {"PAID", "REFUNDED"}
        /\ order.status \in Dead \cup {"DELIVERED", "COMPLETED"} => hold # "ACTIVE"
        /\ order.status \in Cancelled /\ order.paid = "PAID" => refund # "NONE"

(* Stock that nobody pays for comes back, whatever crashes. *)
UnpaidStockComesBack == hold = "ACTIVE" ~> (hold # "ACTIVE" \/ Funded)

(* A failed-payment webhook that had read PENDING (payment.service.ts:473) *)
(* has written FAILED (:477) over the payment of a capture that Razorpay   *)
(* takes for delivered: nobody will look again.                            *)
Overwritten(id) ==
    /\ pay.status = "FAILED"
    /\ event[<<"captured", id>>] = "PROCESSED"
    /\ \E d \in RzpOrders : event[<<"failed", d>>] # "NONE"

(* Whatever crashes and overlaps, a captured payment is on record in the   *)
(* end, unless its gateway order was replaced or the payment was           *)
(* overwritten by a failed-payment webhook.                                *)
CaptureIsNoticed ==
    \A id \in RzpOrders :
        id \in captured ~> \/ pay.status \in {"PAID", "REFUNDED"}
                           \/ pay.rzp # id
                           \/ Overwritten(id)

(* checkout.service.ts:215 ("stock held until delivery"). *)
StockHeldUntilDelivery ==
    order.paid = "PAID" /\ order.status \in {"PAID"} \cup Served =>
        hold \in {"ACTIVE", "CONSUMED"}
=============================================================================
