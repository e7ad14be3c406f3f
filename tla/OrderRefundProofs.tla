------------------------- MODULE OrderRefundProofs -------------------------
(***************************************************************************)
(* TLAPS proofs about OrderRefund, for any number of cancellations, crons, *)
(* webhook events, retries and faults.                                     *)
(***************************************************************************)
EXTENDS OrderRefund, TLAPS

LEMMA TypeInit == Init => TypeOK
<1> SUFFICES ASSUME Init PROVE TypeOK
  OBVIOUS
<1>1. job \in [Actors -> [at : Steps, rid : BOOLEAN]]
  BY DEF Init, Job, Steps
<1>2. row \in [status : RowStatus, rid : BOOLEAN, retries : Nat]
  BY DEF Init, Row, RowStatus
<1>3. paidBy \in Split
  BY SplitsAssumption DEF Init
<1>4. faults \in 0..MaxFaults /\ credits \in Nat /\ restored \in Nat
  BY BoundsAssumption DEF Init
<1>5. QED
  BY <1>1, <1>2, <1>3, <1>4, Zenon DEF Init, TypeOK

(* Every step keeps the types; one step of the proof per action. *)
LEMMA TypeStep == TypeOK /\ [Next]_vars => TypeOK'
<1> SUFFICES ASSUME TypeOK, [Next]_vars PROVE TypeOK'
  OBVIOUS
<1> USE BoundsAssumption DEF TypeOK, Steps, RowStatus, Row, Job, At, Goto, Done
<1>1. ASSUME NEW a \in Actors, InitiateRefund(a) PROVE TypeOK'
  BY <1>1 DEF InitiateRefund
<1>2. ASSUME NEW a \in Actors, CreateRecord(a) PROVE TypeOK'
  <2>1. CASE row.status = "NONE"
    <3> DEFINE new == [status |-> "PENDING", rid |-> FALSE, retries |-> 0]
    <3>a. row' = new
      BY <1>2, <2>1 DEF CreateRecord
    <3>b. new \in [status : RowStatus, rid : BOOLEAN, retries : Nat]
      OBVIOUS
    <3>1. row' \in [status : RowStatus, rid : BOOLEAN, retries : Nat]
      BY <3>a, <3>b
    <3>2. job' \in [Actors -> [at : Steps, rid : BOOLEAN]]
      BY <1>2, <2>1 DEF CreateRecord
    <3>3. QED
      BY <1>2, <2>1, <3>1, <3>2 DEF CreateRecord
  <2>2. CASE row.status # "NONE"
    BY <1>2, <2>2 DEF CreateRecord
  <2>3. QED
    BY <2>1, <2>2
<1>3. ASSUME NEW a \in Actors, ReadRecord(a) PROVE TypeOK'
  BY <1>3 DEF ReadRecord
<1>4. ASSUME NEW a \in Actors, MarkProcessing(a) PROVE TypeOK'
  BY <1>4 DEF MarkProcessing
<1>5. ASSUME NEW a \in Actors, CreateRefund(a) PROVE TypeOK'
  <2>1. refunded' \in BOOLEAN
    BY <1>5 DEF CreateRefund
  <2>2. job' \in [Actors -> [at : Steps, rid : BOOLEAN]]
    BY <1>5 DEF CreateRefund
  <2>3. QED
    BY <1>5, <2>1, <2>2 DEF CreateRefund
<1>6. ASSUME NEW a \in Actors, LoseAnswer(a) PROVE TypeOK'
  BY <1>6 DEF LoseAnswer
<1>7. ASSUME NEW a \in Actors, StoreRefundId(a) PROVE TypeOK'
  BY <1>7 DEF StoreRefundId
<1>8. ASSUME NEW a \in Actors, MarkFailed(a) PROVE TypeOK'
  BY <1>8 DEF MarkFailed
<1>9. ASSUME NEW a \in Actors, FinalizeRefund(a) PROVE TypeOK'
  BY <1>9 DEF FinalizeRefund
<1>10. ASSUME NEW a \in Actors, RefundWalletForOrder(a) PROVE TypeOK'
  BY <1>10 DEF RefundWalletForOrder
<1>11. ASSUME NEW a \in Actors, Settle(a) PROVE TypeOK'
  BY <1>11 DEF Settle
<1>12. ASSUME NEW a \in Actors, MarkPaymentRefunded(a) PROVE TypeOK'
  BY <1>12 DEF MarkPaymentRefunded
<1>13. ASSUME NEW a \in Actors, Report(a) PROVE TypeOK'
  BY <1>13 DEF Report
<1>14. ASSUME NEW a \in Crons, ListFailed(a) PROVE TypeOK'
  BY <1>14 DEF ListFailed, Actors
<1>15. ASSUME NEW a \in Actors, Requeue(a) PROVE TypeOK'
  BY <1>15 DEF Requeue
<1>16. ASSUME NEW a \in Hooks, ReconcileRazorpayRefund(a) PROVE TypeOK'
  BY <1>16 DEF ReconcileRazorpayRefund, Actors
<1>17. ASSUME NEW a \in Actors, AttachRefundId(a) PROVE TypeOK'
  BY <1>17 DEF AttachRefundId
<1>18. ASSUME NEW a \in Actors, Throw(a) PROVE TypeOK'
  BY <1>18 DEF Throw, Guarded
<1>19. ASSUME NEW a \in Actors, Crash(a) PROVE TypeOK'
  BY <1>19 DEF Crash
<1>20. ASSUME NEW a \in Actors, ConfirmPayment(a) PROVE TypeOK'
  BY <1>20 DEF ConfirmPayment
<1>21. ASSUME NEW a \in Actors, ConfirmOrder(a) PROVE TypeOK'
  BY <1>21 DEF ConfirmOrder
<1>22. CASE UNCHANGED vars
  BY <1>22 DEF vars
<1> QED
  BY <1>1, <1>2, <1>3, <1>4, <1>5, <1>6, <1>7, <1>8, <1>9, <1>10, <1>11, <1>12, <1>13,
     <1>14, <1>15, <1>16, <1>17, <1>18, <1>19, <1>20, <1>21, <1>22 DEF Next, Continue

(* Every reachable state is well typed. *)
THEOREM TypeCorrect == Spec => []TypeOK
<1>1. QED
  BY TypeInit, TypeStep, PTL DEF Spec

-----------------------------------------------------------------------------
(* ReturnedExactlyOnce is not inductive: a handler marks the order         *)
(* REFUNDED for what it did some steps before.  FollowsMoney says what     *)
(* the place of a handler proves about the money: who holds a refund id,   *)
(* or is about to store one, comes after Razorpay's refund; so does        *)
(* whoever credits the wallet or settles; and who settles comes after the  *)
(* wallet transaction.  Nothing here needs a lock or a fresh read.         *)

FollowsMoney ==
    /\ row.rid => refunded
    /\ \A a \in Actors :
          /\ job[a].rid => refunded
          /\ job[a].at \in {"store", "attach"} => refunded
          /\ job[a].at \in {"finalize", "credit", "settle"} /\ paidBy.rzp => refunded
          /\ job[a].at = "settle" /\ paidBy.wallet =>
                credits = 1 /\ (paidBy.points => restored = 1)

RefundInv == TypeOK /\ ReturnedExactlyOnce /\ FollowsMoney

LEMMA RefundInit == Init => RefundInv
<1> SUFFICES ASSUME Init PROVE RefundInv
  OBVIOUS
<1>1. TypeOK
  BY TypeInit
<1>2. ReturnedExactlyOnce
  BY DEF Init, ReturnedExactlyOnce
<1>3. FollowsMoney
  BY DEF Init, FollowsMoney, Row, Job
<1>4. QED
  BY <1>1, <1>2, <1>3 DEF RefundInv

(* One step of the proof per action.  Those that matter: CreateRefund and   *)
(* LoseAnswer move the money, StoreRefundId and AttachRefundId write down   *)
(* that it moved, RefundWalletForOrder credits and Settle concludes.        *)
LEMMA RefundStep == RefundInv /\ [Next]_vars => RefundInv'
<1> SUFFICES ASSUME RefundInv, [Next]_vars PROVE RefundInv'
  OBVIOUS
<1>t. TypeOK'
  BY TypeStep DEF RefundInv
<1> SUFFICES ReturnedExactlyOnce' /\ FollowsMoney'
  BY <1>t DEF RefundInv
<1> USE DEF RefundInv, TypeOK, Split, ReturnedExactlyOnce, AllBack, FollowsMoney, Row, Job,
            At, Goto, Done
<1>1. ASSUME NEW a \in Actors, InitiateRefund(a)
      PROVE ReturnedExactlyOnce' /\ FollowsMoney'
  BY <1>1 DEF InitiateRefund
<1>2. ASSUME NEW a \in Actors, CreateRecord(a) PROVE ReturnedExactlyOnce' /\ FollowsMoney'
  BY <1>2 DEF CreateRecord
<1>3. ASSUME NEW a \in Actors, ReadRecord(a) PROVE ReturnedExactlyOnce' /\ FollowsMoney'
  BY <1>3 DEF ReadRecord
<1>4. ASSUME NEW a \in Actors, MarkProcessing(a)
      PROVE ReturnedExactlyOnce' /\ FollowsMoney'
  BY <1>4 DEF MarkProcessing
<1>5. ASSUME NEW a \in Actors, CreateRefund(a) PROVE ReturnedExactlyOnce' /\ FollowsMoney'
  BY <1>5 DEF CreateRefund
<1>6. ASSUME NEW a \in Actors, LoseAnswer(a) PROVE ReturnedExactlyOnce' /\ FollowsMoney'
  BY <1>6 DEF LoseAnswer
<1>7. ASSUME NEW a \in Actors, StoreRefundId(a)
      PROVE ReturnedExactlyOnce' /\ FollowsMoney'
  BY <1>7 DEF StoreRefundId
<1>8. ASSUME NEW a \in Actors, MarkFailed(a) PROVE ReturnedExactlyOnce' /\ FollowsMoney'
  BY <1>8 DEF MarkFailed
<1>9. ASSUME NEW a \in Actors, FinalizeRefund(a)
      PROVE ReturnedExactlyOnce' /\ FollowsMoney'
  BY <1>9 DEF FinalizeRefund
<1>10. ASSUME NEW a \in Actors, RefundWalletForOrder(a)
       PROVE ReturnedExactlyOnce' /\ FollowsMoney'
  BY <1>10 DEF RefundWalletForOrder
<1>11. ASSUME NEW a \in Actors, Settle(a) PROVE ReturnedExactlyOnce' /\ FollowsMoney'
  BY <1>11 DEF Settle
<1>12. ASSUME NEW a \in Actors, MarkPaymentRefunded(a)
       PROVE ReturnedExactlyOnce' /\ FollowsMoney'
  BY <1>12 DEF MarkPaymentRefunded
<1>13. ASSUME NEW a \in Actors, Report(a) PROVE ReturnedExactlyOnce' /\ FollowsMoney'
  BY <1>13 DEF Report
<1>14. ASSUME NEW a \in Crons, ListFailed(a) PROVE ReturnedExactlyOnce' /\ FollowsMoney'
  BY <1>14 DEF ListFailed, Actors
<1>15. ASSUME NEW a \in Actors, Requeue(a) PROVE ReturnedExactlyOnce' /\ FollowsMoney'
  BY <1>15 DEF Requeue
<1>16. ASSUME NEW a \in Hooks, ReconcileRazorpayRefund(a)
       PROVE ReturnedExactlyOnce' /\ FollowsMoney'
  BY <1>16 DEF ReconcileRazorpayRefund, Actors
<1>17. ASSUME NEW a \in Actors, AttachRefundId(a)
       PROVE ReturnedExactlyOnce' /\ FollowsMoney'
  BY <1>17 DEF AttachRefundId
<1>18. ASSUME NEW a \in Actors, Throw(a) PROVE ReturnedExactlyOnce' /\ FollowsMoney'
  BY <1>18 DEF Throw, Guarded
<1>19. ASSUME NEW a \in Actors, Crash(a) PROVE ReturnedExactlyOnce' /\ FollowsMoney'
  BY <1>19 DEF Crash
<1>20. ASSUME NEW a \in Actors, ConfirmPayment(a)
       PROVE ReturnedExactlyOnce' /\ FollowsMoney'
  BY <1>20 DEF ConfirmPayment
<1>21. ASSUME NEW a \in Actors, ConfirmOrder(a)
       PROVE ReturnedExactlyOnce' /\ FollowsMoney'
  BY <1>21 DEF ConfirmOrder
<1>22. CASE UNCHANGED vars
  BY <1>22 DEF vars
<1> QED
  BY <1>1, <1>2, <1>3, <1>4, <1>5, <1>6, <1>7, <1>8, <1>9, <1>10, <1>11, <1>12, <1>13,
     <1>14, <1>15, <1>16, <1>17, <1>18, <1>19, <1>20, <1>21, <1>22 DEF Next, Continue

(* However requests, crons, webhooks, crashes and lost answers interleave,  *)
(* each part of the price is returned at most once, and an order that is    *)
(* REFUNDED has had all of them returned.                                   *)
THEOREM MoneyReturnedOnce == Spec => []ReturnedExactlyOnce
<1>1. RefundInv => ReturnedExactlyOnce
  BY DEF RefundInv
<1>2. QED
  BY <1>1, RefundInit, RefundStep, PTL DEF Spec

-----------------------------------------------------------------------------
(* OrderRefund implements RefundPromise.  A step of the promise is taken   *)
(* where money moves or a record is marked or put back; InTurn says that a *)
(* handler only gets there for a part that was paid, to the payment only   *)
(* after all has been returned, and that only an online payment is         *)
(* confirmed.                                                              *)

InTurn ==
    /\ pay = "REFUNDED" => AllBack
    /\ \A a \in Actors :
          /\ job[a].at \in {"gateway", "capture", "confirm"} => paidBy.rzp
          /\ job[a].at = "credit" => paidBy.wallet
          /\ job[a].at = "payment" => AllBack

LEMMA InTurnInit == Init => InTurn
<1> SUFFICES ASSUME Init PROVE InTurn
  OBVIOUS
<1>1. \A a \in Actors : /\ job[a].at \in {"start", "idle", "capture", "end"}
                        /\ job[a].at = "capture" => paidBy.rzp
  BY DEF Init, Job
<1>2. pay = "PAID"
  BY DEF Init
<1> QED  BY <1>1, <1>2 DEF InTurn

LEMMA InTurnStep == RefundInv /\ InTurn /\ [Next]_vars => InTurn'
<1> SUFFICES ASSUME RefundInv, InTurn, [Next]_vars PROVE InTurn'
  OBVIOUS
<1> USE DEF RefundInv, TypeOK, Split, ReturnedExactlyOnce, FollowsMoney, AllBack, InTurn,
            Row, Job, At, Goto, Done
<1>1. ASSUME NEW a \in Actors, InitiateRefund(a) PROVE InTurn'
  BY <1>1 DEF InitiateRefund
<1>2. ASSUME NEW a \in Actors, CreateRecord(a) PROVE InTurn'
  BY <1>2 DEF CreateRecord
<1>3. ASSUME NEW a \in Actors, ReadRecord(a) PROVE InTurn'
  BY <1>3 DEF ReadRecord
<1>4. ASSUME NEW a \in Actors, MarkProcessing(a) PROVE InTurn'
  BY <1>4 DEF MarkProcessing
<1>5. ASSUME NEW a \in Actors, CreateRefund(a) PROVE InTurn'
  BY <1>5 DEF CreateRefund
<1>6. ASSUME NEW a \in Actors, LoseAnswer(a) PROVE InTurn'
  BY <1>6 DEF LoseAnswer
<1>7. ASSUME NEW a \in Actors, StoreRefundId(a) PROVE InTurn'
  BY <1>7 DEF StoreRefundId
<1>8. ASSUME NEW a \in Actors, MarkFailed(a) PROVE InTurn'
  BY <1>8 DEF MarkFailed
<1>9. ASSUME NEW a \in Actors, FinalizeRefund(a) PROVE InTurn'
  BY <1>9 DEF FinalizeRefund
<1>10. ASSUME NEW a \in Actors, RefundWalletForOrder(a) PROVE InTurn'
  BY <1>10 DEF RefundWalletForOrder
<1>11. ASSUME NEW a \in Actors, Settle(a) PROVE InTurn'
  BY <1>11 DEF Settle
<1>12. ASSUME NEW a \in Actors, MarkPaymentRefunded(a) PROVE InTurn'
  BY <1>12 DEF MarkPaymentRefunded
<1>13. ASSUME NEW a \in Actors, Report(a) PROVE InTurn'
  BY <1>13 DEF Report
<1>14. ASSUME NEW a \in Actors, Requeue(a) PROVE InTurn'
  BY <1>14 DEF Requeue
<1>15. ASSUME NEW a \in Actors, AttachRefundId(a) PROVE InTurn'
  BY <1>15 DEF AttachRefundId
<1>16. ASSUME NEW a \in Actors, Throw(a) PROVE InTurn'
  BY <1>16 DEF Throw, Guarded
<1>17. ASSUME NEW a \in Actors, Crash(a) PROVE InTurn'
  BY <1>17 DEF Crash
<1>18. ASSUME NEW a \in Actors, ConfirmPayment(a) PROVE InTurn'
  BY <1>18 DEF ConfirmPayment
<1>19. ASSUME NEW a \in Actors, ConfirmOrder(a) PROVE InTurn'
  BY <1>19 DEF ConfirmOrder
<1>20. ASSUME NEW a \in Crons, ListFailed(a) PROVE InTurn'
  BY <1>20 DEF ListFailed, Actors
<1>21. ASSUME NEW a \in Hooks, ReconcileRazorpayRefund(a) PROVE InTurn'
  BY <1>21 DEF ReconcileRazorpayRefund, Actors
<1>22. CASE UNCHANGED vars
  BY <1>22 DEF vars
<1> QED
  BY <1>1, <1>2, <1>3, <1>4, <1>5, <1>6, <1>7, <1>8, <1>9, <1>10, <1>11, <1>12, <1>13,
     <1>14, <1>15, <1>16, <1>17, <1>18, <1>19, <1>20, <1>21, <1>22 DEF Next, Continue

(* What the handlers do to a record, to the webhook log and to themselves  *)
(* is no step of the promise.                                              *)
LEMMA OutOfSight ==
    ASSUME UNCHANGED <<paidBy, order, pay, refunded, credits, restored>>
    PROVE  UNCHANGED Promise!vars
  BY DEF Promise!vars, Due, Returned, Marks

(* Razorpay's refund, with or without its answer. *)
LEMMA GatewayReturns ==
    ASSUME paidBy.rzp, ~refunded, refunded', UNCHANGED <<paidBy, order, pay, credits, restored>>
    PROVE  Promise!Next
<1>1. "razorpay" \in Due /\ Returned["razorpay"] = 0
  BY DEF Due, Returned
<1>2. UNCHANGED <<Due, Marks>>
  BY DEF Due, Marks
<1>3. Returned' = [p \in {"razorpay", "wallet", "points"} |->
                     IF p \in {"razorpay"} THEN 1 ELSE Returned[p]]
  BY DEF Returned
<1>4. Promise!Return({"razorpay"})
  BY <1>1, <1>2, <1>3 DEF Promise!Return
<1> QED  BY <1>1, <1>4 DEF Promise!Next

(* The wallet's transaction, for the money, the points or both. *)
LEMMA WalletReturns ==
    ASSUME paidBy.wallet, credits \in {0, 1}, restored \in {0, 1}, credits' = 1,
           restored' = (IF paidBy.points THEN 1 ELSE restored),
           paidBy.points => restored = 0,
           UNCHANGED <<paidBy, order, pay, refunded>>
    PROVE  [Promise!Next]_Promise!vars
<1> DEFINE ps == {p \in {"wallet", "points"} :
                    IF p = "wallet" THEN credits = 0 ELSE paidBy.points}
<1>1. UNCHANGED <<Due, Marks>>
  BY DEF Due, Marks
<1>2. ps \subseteq Due /\ \A p \in ps : Returned[p] = 0
  BY DEF Due, Returned
<1>3. Returned' = [p \in {"razorpay", "wallet", "points"} |->
                     IF p \in ps THEN 1 ELSE Returned[p]]
  BY DEF Returned
<1>4. CASE ps # {}
  <2> HIDE DEF ps
  <2>1. Promise!Return(ps)
    BY <1>1, <1>2, <1>3, <1>4 DEF Promise!Return
  <2> QED  BY <1>2, <2>1 DEF Promise!Next
<1>5. CASE ps = {}
  <2>1. Returned' = Returned
    BY <1>3, <1>5 DEF Returned
  <2> QED  BY <1>1, <2>1 DEF Promise!vars
<1> QED  BY <1>4, <1>5

(* A record is marked when all is back. *)
LEMMA MarkSteps ==
    ASSUME NEW m \in {"order", "payment"}, AllBack, Marks' = Marks \cup {m},
           UNCHANGED <<Due, Returned>>
    PROVE  Promise!Next
<1>1. \A p \in Due : Returned[p] = 1
  BY DEF AllBack, Due, Returned
<1>2. Promise!Mark(m)
  BY <1>1 DEF Promise!Mark
<1> QED  BY <1>2 DEF Promise!Next

(* A late confirmation of an online payment takes a mark away. *)
LEMMA UnmarkSteps ==
    ASSUME NEW m \in {"order", "payment"}, paidBy.rzp, Marks' = Marks \ {m},
           UNCHANGED <<Due, Returned>>
    PROVE  Promise!Next
<1>1. Due \cap {"razorpay"} # {}
  BY DEF Due
<1>2. Promise!Unmark(m)
  BY <1>1 DEF Promise!Unmark
<1> QED  BY <1>2 DEF Promise!Next

(* Each step of the code is one of the promise's or none. *)
LEMMA PromiseStep ==
    ASSUME RefundInv, InTurn, [Next]_vars
    PROVE  [Promise!Next]_Promise!vars
<1> USE DEF RefundInv, At
<1>1. ASSUME NEW a \in Actors, InitiateRefund(a) PROVE [Promise!Next]_Promise!vars
  BY <1>1, OutOfSight DEF InitiateRefund
<1>2. ASSUME NEW a \in Actors, CreateRecord(a) PROVE [Promise!Next]_Promise!vars
  BY <1>2, OutOfSight DEF CreateRecord
<1>3. ASSUME NEW a \in Actors, ReadRecord(a) PROVE [Promise!Next]_Promise!vars
  BY <1>3, OutOfSight DEF ReadRecord
<1>4. ASSUME NEW a \in Actors, MarkProcessing(a) PROVE [Promise!Next]_Promise!vars
  BY <1>4, OutOfSight DEF MarkProcessing
<1>5. ASSUME NEW a \in Actors, StoreRefundId(a) PROVE [Promise!Next]_Promise!vars
  BY <1>5, OutOfSight DEF StoreRefundId
<1>6. ASSUME NEW a \in Actors, MarkFailed(a) PROVE [Promise!Next]_Promise!vars
  BY <1>6, OutOfSight DEF MarkFailed
<1>7. ASSUME NEW a \in Actors, FinalizeRefund(a) PROVE [Promise!Next]_Promise!vars
  BY <1>7, OutOfSight DEF FinalizeRefund
<1>8. ASSUME NEW a \in Actors, Report(a) PROVE [Promise!Next]_Promise!vars
  BY <1>8, OutOfSight DEF Report
<1>9. ASSUME NEW a \in Actors, Requeue(a) PROVE [Promise!Next]_Promise!vars
  BY <1>9, OutOfSight DEF Requeue
<1>10. ASSUME NEW a \in Actors, AttachRefundId(a) PROVE [Promise!Next]_Promise!vars
  BY <1>10, OutOfSight DEF AttachRefundId
<1>11. ASSUME NEW a \in Actors, Throw(a) PROVE [Promise!Next]_Promise!vars
  BY <1>11, OutOfSight DEF Throw
<1>12. ASSUME NEW a \in Actors, Crash(a) PROVE [Promise!Next]_Promise!vars
  BY <1>12, OutOfSight DEF Crash
<1>13. ASSUME NEW a \in Crons, ListFailed(a) PROVE [Promise!Next]_Promise!vars
  BY <1>13, OutOfSight DEF ListFailed
<1>14. ASSUME NEW a \in Hooks, ReconcileRazorpayRefund(a) PROVE [Promise!Next]_Promise!vars
  BY <1>14, OutOfSight DEF ReconcileRazorpayRefund
<1>15. ASSUME NEW a \in Actors, CreateRefund(a) PROVE [Promise!Next]_Promise!vars
  <2>1. CASE UNCHANGED refunded
    BY <1>15, <2>1, OutOfSight DEF CreateRefund
  <2>2. CASE ~refunded /\ refunded'
    BY <1>15, <2>2, GatewayReturns DEF CreateRefund, InTurn
  <2> QED  BY <1>15, <2>1, <2>2 DEF CreateRefund
<1>16. ASSUME NEW a \in Actors, LoseAnswer(a) PROVE [Promise!Next]_Promise!vars
  BY <1>16, GatewayReturns DEF LoseAnswer, InTurn
<1>17. ASSUME NEW a \in Actors, RefundWalletForOrder(a) PROVE [Promise!Next]_Promise!vars
  <2>1. /\ credits \in {0, 1} /\ restored \in {0, 1} /\ paidBy.wallet
        /\ paidBy.points \in BOOLEAN
    BY <1>17 DEF RefundWalletForOrder, InTurn, TypeOK, Split, ReturnedExactlyOnce
  <2>2. CASE paidBy.points /\ restored > 0
    BY <1>17, <2>2, OutOfSight DEF RefundWalletForOrder
  <2>3. CASE ~(paidBy.points /\ restored > 0)
    <3>1. /\ credits' = 1 /\ restored' = (IF paidBy.points THEN 1 ELSE restored)
          /\ paidBy.points => restored = 0
          /\ UNCHANGED <<paidBy, order, pay, refunded>>
      BY <1>17, <2>1, <2>3 DEF RefundWalletForOrder
    <3> QED  BY <2>1, <3>1, WalletReturns
  <2> QED  BY <2>2, <2>3
<1>18. ASSUME NEW a \in Actors, Settle(a) PROVE [Promise!Next]_Promise!vars
  <2>1. AllBack
    BY <1>18 DEF Settle, FollowsMoney, AllBack
  <2>2. Marks' = Marks \cup {"order"}
    BY <1>18 DEF Settle, Marks
  <2>3. UNCHANGED <<Due, Returned>>
    BY <1>18 DEF Settle, Due, Returned
  <2> QED  BY <2>1, <2>2, <2>3, MarkSteps
<1>19. ASSUME NEW a \in Actors, MarkPaymentRefunded(a) PROVE [Promise!Next]_Promise!vars
  <2>1. AllBack
    BY <1>19 DEF MarkPaymentRefunded, InTurn
  <2>2. Marks' = Marks \cup {"payment"}
    BY <1>19 DEF MarkPaymentRefunded, Marks
  <2>3. UNCHANGED <<Due, Returned>>
    BY <1>19 DEF MarkPaymentRefunded, Due, Returned
  <2> QED  BY <2>1, <2>2, <2>3, MarkSteps
<1>20. ASSUME NEW a \in Actors, ConfirmPayment(a) PROVE [Promise!Next]_Promise!vars
  <2>1. paidBy.rzp
    BY <1>20 DEF ConfirmPayment, InTurn
  <2>2. Marks' = Marks \ {"payment"}
    BY <1>20 DEF ConfirmPayment, Marks
  <2>3. UNCHANGED <<Due, Returned>>
    BY <1>20 DEF ConfirmPayment, Due, Returned
  <2> QED  BY <2>1, <2>2, <2>3, UnmarkSteps
<1>21. ASSUME NEW a \in Actors, ConfirmOrder(a) PROVE [Promise!Next]_Promise!vars
  <2>1. paidBy.rzp
    BY <1>21 DEF ConfirmOrder, InTurn
  <2>2. Marks' = Marks \ {"order"}
    BY <1>21 DEF ConfirmOrder, Marks
  <2>3. UNCHANGED <<Due, Returned>>
    BY <1>21 DEF ConfirmOrder, Due, Returned
  <2> QED  BY <2>1, <2>2, <2>3, UnmarkSteps
<1>22. CASE UNCHANGED vars
  BY <1>22, OutOfSight DEF vars
<1> QED
  BY <1>1, <1>2, <1>3, <1>4, <1>5, <1>6, <1>7, <1>8, <1>9, <1>10, <1>11, <1>12, <1>13,
     <1>14, <1>15, <1>16, <1>17, <1>18, <1>19, <1>20, <1>21, <1>22 DEF Next, Continue

(* For any number of cancellations, crons, webhooks, late confirmations,   *)
(* retries and faults, the refund of an order gives back what is due and   *)
(* nothing else, each part once, marks no record before all of it is back, *)
(* and takes a mark away only from an order paid at Razorpay.              *)
THEOREM PromiseImplemented == Spec => ImplementsPromise
<1>1. Init => Promise!Init
  BY DEF Init, Promise!Init, Due, Returned, Marks
<1>2. RefundInv /\ InTurn /\ [Next]_vars => RefundInv' /\ InTurn'
  BY RefundStep, InTurnStep
<1>3. RefundInv /\ InTurn /\ [Next]_vars => [Promise!Next]_Promise!vars
  BY PromiseStep
<1> QED  BY <1>1, <1>2, <1>3, RefundInit, InTurnInit, PTL
         DEF Spec, ImplementsPromise, Promise!Spec
=============================================================================
