---------------------------- MODULE OrderRefund ----------------------------
(***************************************************************************)
(* Giving the money of one cancelled order back:                           *)
(* apps/api/src/modules/payment/order-refund.service.ts and its retry cron *)
(* (refund-retry.scheduler.ts), with the wallet transaction of             *)
(* wallet-loyalty/reward.service.ts.                                       *)
(*                                                                         *)
(* An order has one refund record (unique idempotency key).  Cancelling    *)
(* requests, the cron and Razorpay's refund webhooks work on it without a  *)
(* lock: each reads the record once and then writes its status whatever it *)
(* has become.  A handler is a sequence of steps; `job` holds its place.   *)
(* Beside them a late confirmation of the same payment may still be under  *)
(* way (payment.service.ts): it puts the payment and the order back to     *)
(* PAID, whatever the refund has made of them.                             *)
(* Amounts are what matters of them: which parts the price was paid in.    *)
(* CheckoutPayment has this component in outline (InitiateRefund ...).     *)
(***************************************************************************)
EXTENDS Naturals

CONSTANTS Callers,     \* cancellations that found the order PAID
          Crons,       \* retry crons (two only if the lock's 240 s run out)
          Hooks,       \* Razorpay's events about the refund, by event id
          Captures,    \* late confirmations: captured webhook, verify, sync
          Splits,      \* the ways in which the order may have been paid
          MaxRetries,  \* OrderRefundService.maxRetries
          MaxFaults    \* bound: crashes, exceptions and lost answers

Split == [rzp : BOOLEAN, wallet : BOOLEAN, points : BOOLEAN]

ASSUME SplitsAssumption == Splits \subseteq Split
ASSUME BoundsAssumption == MaxRetries \in Nat /\ MaxFaults \in Nat

VARIABLES
    paidBy,    \* razorpayAmount > 0, walletAmount > 0, rewardPointsUsed > 0
    order,     \* orders.payment_status (orders.status is REFUNDED with it)
    pay,       \* payments.status
    settled,   \* history: the order has been marked REFUNDED
    row,       \* the refund record: status, rid (razorpay_refund_id), retries
    refunded,  \* Razorpay: the payment has been refunded in full
    credits,   \* refund transactions on the wallet
    restored,  \* transactions that restore reward points
    acked,     \* webhook events that are PROCESSED
    job,       \* job[a]: where handler a is, and the rid it has read
    faults     \* bounded by MaxFaults

vars == <<paidBy, order, pay, settled, row, refunded, credits, restored, acked, job, faults>>

Actors == Callers \cup Crons \cup Hooks \cup Captures

RowStatus == {"NONE", "PENDING", "PROCESSING", "REFUNDED", "FAILED"}

Steps == {"idle", "start", "create", "process", "mark", "gateway", "store",
          "finalize", "credit", "settle", "payment", "report", "failed",
          "requeue", "attach", "capture", "confirm", "end"}
(* Inside the try block of processRefundRecord. *)
Guarded == {"gateway", "store", "finalize", "credit", "settle", "payment", "report"}

Row(status, rid, retries) == [status |-> status, rid |-> rid, retries |-> retries]
Job(at, rid) == [at |-> at, rid |-> rid]

TypeOK ==
    /\ paidBy \in Split
    /\ order \in {"PAID", "REFUNDED"}
    /\ pay \in {"PAID", "REFUNDED"}
    /\ settled \in BOOLEAN
    /\ row \in [status : RowStatus, rid : BOOLEAN, retries : Nat]
    /\ refunded \in BOOLEAN
    /\ credits \in Nat
    /\ restored \in Nat
    /\ acked \subseteq Hooks
    /\ job \in [Actors -> [at : Steps, rid : BOOLEAN]]
    /\ faults \in 0..MaxFaults

Init ==
    /\ paidBy \in Splits
    /\ order = "PAID" /\ pay = "PAID" /\ settled = FALSE
    /\ row = Row("NONE", FALSE, 0)
    /\ refunded = FALSE
    /\ credits = 0 /\ restored = 0
    /\ acked = {}
    /\ job = [a \in Actors |-> Job(CASE a \in Callers -> "start"
                                     [] a \in Captures -> IF paidBy.rzp THEN "capture" ELSE "end"
                                     [] OTHER -> "idle", FALSE)]
    /\ faults = 0

At(a, at) == job[a].at = at
Goto(a, at) == job' = [job EXCEPT ![a] = Job(at, job[a].rid)]

(* Mutant: whoever comes to an end is put down as a handled event. *)
Done_AllAcked(a) ==
    /\ Goto(a, IF a \in Callers THEN "end" ELSE "idle")
    /\ acked' = acked \cup {a}

(* A caller calls once; the cron ticks again; an event that was handled is *)
(* acknowledged and not sent again.                                        *)
Done(a) ==
    /\ Goto(a, IF a \in Callers THEN "end" ELSE "idle")
    /\ acked' = IF a \in Hooks THEN acked \cup {a} ELSE acked

-----------------------------------------------------------------------------
(* initiateRefund *)

InitiateRefund(a) ==
    /\ At(a, "start")
    /\ \/ /\ order = "PAID" /\ row.status = "NONE"
          /\ Goto(a, "create") /\ UNCHANGED acked
       \/ /\ order = "PAID" /\ row.status \in {"PENDING", "FAILED"}
          /\ Goto(a, "process") /\ UNCHANGED acked
       \/ /\ order # "PAID" \/ row.status \in {"PROCESSING", "REFUNDED"}
          /\ Done(a)
    /\ UNCHANGED <<paidBy, order, pay, settled, row, refunded, credits, restored, faults>>

(* The idempotency key is unique: a second record is refused. *)
CreateRecord(a) ==
    /\ At(a, "create")
    /\ IF row.status = "NONE"
       THEN row' = Row("PENDING", FALSE, 0) /\ Goto(a, "process") /\ UNCHANGED acked
       ELSE UNCHANGED row /\ Done(a)
    /\ UNCHANGED <<paidBy, order, pay, settled, refunded, credits, restored, faults>>

-----------------------------------------------------------------------------
(* processRefundRecord *)

ReadRecord(a) ==
    /\ At(a, "process")
    /\ IF row.status = "REFUNDED" THEN Done(a)
       ELSE /\ job' = [job EXCEPT ![a] = Job("mark", row.rid)]
            /\ UNCHANGED acked
    /\ UNCHANGED <<paidBy, order, pay, settled, row, refunded, credits, restored, faults>>

(* Mutant: a refund at Razorpay although nothing was paid there. *)
MarkProcessing_AlwaysGateway(a) ==
    /\ At(a, "mark")
    /\ row' = Row("PROCESSING", row.rid, row.retries)
    /\ Goto(a, IF ~job[a].rid THEN "gateway" ELSE "finalize")
    /\ UNCHANGED <<paidBy, order, pay, settled, refunded, credits, restored, acked, faults>>

MarkProcessing(a) ==
    /\ At(a, "mark")
    /\ row' = Row("PROCESSING", row.rid, row.retries)
    /\ Goto(a, IF paidBy.rzp /\ ~job[a].rid THEN "gateway" ELSE "finalize")
    /\ UNCHANGED <<paidBy, order, pay, settled, refunded, credits, restored, acked, faults>>

(* Mutant: an error of the gateway is not noticed. *)
CreateRefund_ErrorIgnored(a) ==
    /\ At(a, "gateway")
    /\ \/ ~refunded /\ refunded' = TRUE
       \/ UNCHANGED refunded
    /\ Goto(a, "store")
    /\ UNCHANGED <<paidBy, order, pay, settled, row, credits, restored, acked, faults>>

(* Razorpay refunds a payment in full once; it may also refuse. *)
CreateRefund(a) ==
    /\ At(a, "gateway")
    /\ \/ ~refunded /\ refunded' = TRUE /\ Goto(a, "store")
       \/ UNCHANGED refunded /\ Goto(a, "failed")
    /\ UNCHANGED <<paidBy, order, pay, settled, row, credits, restored, acked, faults>>

(* The refund is made but the answer does not arrive. *)
LoseAnswer(a) ==
    /\ At(a, "gateway")
    /\ ~refunded /\ refunded' = TRUE
    /\ faults < MaxFaults /\ faults' = faults + 1
    /\ Goto(a, "failed")
    /\ UNCHANGED <<paidBy, order, pay, settled, row, credits, restored, acked>>

StoreRefundId(a) ==
    /\ At(a, "store")
    /\ row' = Row(row.status, TRUE, row.retries)
    /\ Goto(a, "finalize")
    /\ UNCHANGED <<paidBy, order, pay, settled, refunded, credits, restored, acked, faults>>

(* The catch block.  A webhook's exception leaves its event unacknowledged. *)
MarkFailed(a) ==
    /\ At(a, "failed")
    /\ IF a \in Hooks
       THEN UNCHANGED row /\ Goto(a, "idle") /\ UNCHANGED acked
       ELSE row' = Row("FAILED", row.rid, row.retries) /\ Done(a)
    /\ UNCHANGED <<paidBy, order, pay, settled, refunded, credits, restored, faults>>

-----------------------------------------------------------------------------
(* finalizeRefund *)

FinalizeRefund(a) ==
    /\ At(a, "finalize")
    /\ IF row.status = "REFUNDED" THEN Done(a)
       ELSE Goto(a, IF paidBy.wallet THEN "credit" ELSE "settle") /\ UNCHANGED acked
    /\ UNCHANGED <<paidBy, order, pay, settled, row, refunded, credits, restored, faults>>

(* Mutant: the wallet transaction has no idempotency key. *)
RefundWalletForOrder_NoKey(a) ==
    /\ At(a, "credit")
    /\ credits' = credits + 1
    /\ Goto(a, "settle")
    /\ UNCHANGED <<paidBy, order, pay, settled, row, refunded, restored, acked, faults>>

(* One transaction.  A wallet credit that is there already is skipped; the *)
(* points are inserted without a look, so that a second time the unique    *)
(* key makes the transaction fail.                                         *)
RefundWalletForOrder(a) ==
    /\ At(a, "credit")
    /\ IF paidBy.points /\ restored > 0
       THEN Goto(a, "failed") /\ UNCHANGED <<credits, restored>>
       ELSE /\ credits' = IF credits = 0 THEN 1 ELSE credits
            /\ restored' = IF paidBy.points THEN restored + 1 ELSE restored
            /\ Goto(a, "settle")
    /\ UNCHANGED <<paidBy, order, pay, settled, row, refunded, acked, faults>>

Settle(a) ==
    /\ At(a, "settle")
    /\ order' = "REFUNDED" /\ settled' = TRUE
    /\ row' = Row("REFUNDED", row.rid, row.retries)
    /\ Goto(a, "payment")
    /\ UNCHANGED <<paidBy, pay, refunded, credits, restored, acked, faults>>

MarkPaymentRefunded(a) ==
    /\ At(a, "payment")
    /\ pay' = "REFUNDED"
    /\ Goto(a, "report")
    /\ UNCHANGED <<paidBy, order, settled, row, refunded, credits, restored, acked, faults>>

(* Audit log and domain event: no state of ours, but they may throw. *)
Report(a) ==
    /\ At(a, "report")
    /\ Done(a)
    /\ UNCHANGED <<paidBy, order, pay, settled, row, refunded, credits, restored, faults>>

-----------------------------------------------------------------------------
(* retryFailedRefunds *)

ListFailed(a) ==
    /\ At(a, "idle")
    /\ row.status = "FAILED" /\ row.retries < MaxRetries
    /\ Goto(a, "requeue")
    /\ UNCHANGED <<paidBy, order, pay, settled, row, refunded, credits, restored, acked, faults>>

(* The update does not look at the status again. *)
Requeue(a) ==
    /\ At(a, "requeue")
    /\ row' = Row("PENDING", row.rid, row.retries + 1)
    /\ Goto(a, "process")
    /\ UNCHANGED <<paidBy, order, pay, settled, refunded, credits, restored, acked, faults>>

-----------------------------------------------------------------------------
(* reconcileRazorpayRefund *)

(* Mutant: only a record without the refund's id is looked for. *)
ReconcileRazorpayRefund_IdIgnored(h) ==
    /\ At(h, "idle") /\ refunded /\ h \notin acked
    /\ IF ~row.rid /\ row.status \in {"PENDING", "PROCESSING"}
       THEN Goto(h, "attach") /\ UNCHANGED acked ELSE Done(h)
    /\ UNCHANGED <<paidBy, order, pay, settled, row, refunded, credits, restored, faults>>

(* The record is found by its refund id, else by its order and status. *)
ReconcileRazorpayRefund(h) ==
    /\ At(h, "idle") /\ refunded /\ h \notin acked
    /\ \/ /\ row.rid /\ row.status # "REFUNDED"
          /\ Goto(h, "finalize") /\ UNCHANGED acked
       \/ /\ ~row.rid /\ row.status \in {"PENDING", "PROCESSING"}
          /\ Goto(h, "attach") /\ UNCHANGED acked
       \/ /\ IF row.rid THEN row.status = "REFUNDED"
                        ELSE row.status \notin {"PENDING", "PROCESSING"}
          /\ Done(h)
    /\ UNCHANGED <<paidBy, order, pay, settled, row, refunded, credits, restored, faults>>

AttachRefundId(h) ==
    /\ At(h, "attach")
    /\ row' = Row(row.status, TRUE, row.retries)
    /\ Goto(h, "finalize")
    /\ UNCHANGED <<paidBy, order, pay, settled, refunded, credits, restored, acked, faults>>

-----------------------------------------------------------------------------
(* handlePaymentCaptured, and finalizeOnlinePayment for verify and sync.   *)
(* They have read the payment when it was not PAID: before its first       *)
(* confirmation won or, a webhook sent again, after the refund.            *)

(* The webhook's updateMany skips a payment that is PAID; finalize writes. *)
ConfirmPayment(c) ==
    /\ At(c, "capture")
    /\ pay' = "PAID"
    /\ \/ Goto(c, "confirm")
       \/ pay = "PAID" /\ Goto(c, "end")
    /\ UNCHANGED <<paidBy, order, settled, row, refunded, credits, restored, acked, faults>>

(* transition: the order's status is skipped only if it is PAID already.   *)
ConfirmOrder(c) ==
    /\ At(c, "confirm")
    /\ order' = "PAID"
    /\ Goto(c, "end")
    /\ UNCHANGED <<paidBy, pay, settled, row, refunded, credits, restored, acked, faults>>

-----------------------------------------------------------------------------
(* A statement throws inside the try block, or inside a webhook. *)
Throw(a) ==
    /\ job[a].at \in Guarded \cup {"attach"}
    /\ faults < MaxFaults /\ faults' = faults + 1
    /\ Goto(a, "failed")
    /\ UNCHANGED <<paidBy, order, pay, settled, row, refunded, credits, restored, acked>>

(* The process dies; a caller is not repeated, for the order is cancelled, *)
(* nor a confirmation (sent again, it is another member of Captures).      *)
Crash(a) ==
    /\ job[a].at \notin {"idle", "end"}
    /\ faults < MaxFaults /\ faults' = faults + 1
    /\ Goto(a, IF a \in Callers \cup Captures THEN "end" ELSE "idle")
    /\ UNCHANGED <<paidBy, order, pay, settled, row, refunded, credits, restored, acked>>

Continue(a) ==
    \/ InitiateRefund(a) \/ CreateRecord(a)
    \/ ReadRecord(a) \/ MarkProcessing(a) \/ CreateRefund(a) \/ StoreRefundId(a)
    \/ MarkFailed(a)
    \/ FinalizeRefund(a) \/ RefundWalletForOrder(a) \/ Settle(a)
    \/ MarkPaymentRefunded(a) \/ Report(a)
    \/ Requeue(a) \/ AttachRefundId(a)
    \/ ConfirmPayment(a) \/ ConfirmOrder(a)

Next ==
    \/ \E a \in Actors : Continue(a) \/ LoseAnswer(a) \/ Throw(a) \/ Crash(a)
    \/ \E a \in Crons : ListFailed(a)
    \/ \E h \in Hooks : ReconcileRazorpayRefund(h)

Spec == Init /\ [][Next]_vars

(* Running handlers go on, the cron ticks, Razorpay repeats its events     *)
(* until they are acknowledged.                                            *)
Fairness ==
    /\ \A a \in Actors : WF_vars(Continue(a))
    /\ \A a \in Crons : WF_vars(ListFailed(a))
    /\ \A h \in Hooks : WF_vars(ReconcileRazorpayRefund(h))

FairSpec == Spec /\ Fairness

-----------------------------------------------------------------------------
(* Properties *)

(* All that the order owes has been returned. *)
AllBack ==
    /\ paidBy.rzp => refunded
    /\ paidBy.wallet => credits = 1
    /\ paidBy.wallet /\ paidBy.points => restored = 1

(* order-refund.service.ts:56: an order is never marked REFUNDED before    *)
(* the money is on its way; and whatever is repeated, raced or cut short,  *)
(* each part of the price goes back at most once.                          *)
ReturnedExactlyOnce ==
    /\ credits <= 1 /\ restored <= 1
    /\ order = "REFUNDED" => AllBack

(* A refund whose gateway id we know comes to mark its order REFUNDED, by  *)
(* the request, the cron or a webhook, wherever it was cut short (a late   *)
(* confirmation may then put the order back to PAID).  It needs a single   *)
(* cancellation: when two overlap, the second may use up the retries while *)
(* the first still waits for Razorpay.  And the points row has a unique    *)
(* key that is not looked up: once it is there, a refund that was cut      *)
(* short fails on every repetition (reward.service.ts:267).                *)
KnownRefundIsRecorded == row.rid ~> settled \/ restored > 0

(* What the code owes and has done; points come back only beside a wallet  *)
(* part, for the wallet transaction restores them.                         *)
Due == {p \in {"razorpay", "wallet", "points"} :
           CASE p = "razorpay" -> paidBy.rzp
             [] p = "wallet"   -> paidBy.wallet
             [] p = "points"   -> paidBy.wallet /\ paidBy.points}
Returned == [p \in {"razorpay", "wallet", "points"} |->
                CASE p = "razorpay" -> IF refunded THEN 1 ELSE 0
                  [] p = "wallet"   -> credits
                  [] p = "points"   -> restored]
Marks == {m \in {"order", "payment"} :
             IF m = "order" THEN order = "REFUNDED" ELSE pay = "REFUNDED"}

(* The refund as its buyer sees it: no part that was not paid is given     *)
(* back, none twice, and neither the order nor the payment says REFUNDED   *)
(* before everything is back.  That they go on saying so is promised only  *)
(* where nothing was paid at Razorpay.                                     *)
Promise == INSTANCE RefundPromise
           WITH Parts <- {"razorpay", "wallet", "points"},
                Confirmed <- {"razorpay"},
                due <- Due, returned <- Returned, marks <- Marks
ImplementsPromise == Promise!Spec
=============================================================================
